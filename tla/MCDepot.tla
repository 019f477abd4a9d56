------------------------------- MODULE MCDepot -------------------------------
(* A small instance of Depot: two lines of upstream that part after their  *)
(* first commit, the second commit of one of which tracks the ignored file; *)
(* a snapshot of the first commit, and one of that second.                 *)
EXTENDS Depot, TLC

CONSTANTS u1, u2, v2, m, l1, b1, b2, e1

MCPublies == {u1, u2, v2}
MCLignes == {{<<u1, 0>>}, {<<u1, 0>>, <<u2, 0>>}, {<<u1, 0>>, <<v2, 0>>}}
MCInstantanes == {{<<u1, 0>>}, {<<u1, 0>>, <<u2, 0>>}}
MCSuiveurs == {u2}

\* A return to the snapshot that tracks the ignored file, from the first commit: at
\* work, killed or recorded.
DuSuivi ==
    \/ \E s \in sauvegardes : s.nom.sorte = "retour" /\ s.h = {<<u1, 0>>}
    \/ \E k \in Passe : /\ traces[k] # Aucun /\ traces[k].sauvegarde.sorte = "retour"
                        /\ Suit(traces[k].arrivee)
VersLeSuivi ==
    \/ DuSuivi
    \/ montre # Aucun /\ montre.mode = "instantane" /\ Suit(montre.cible)

\* The second branch, a stash of the user's and his ignored file are explored one at a
\* time; the return that overwrites this file, from a clone that has it, with one branch,
\* on a clean tree; the second pass, from its dry run, by rebase, on a clean tree, with
\* one branch, without the ignored file, on a clone that no such return has moved.
Perimetre ==
    /\ branches[b2] # {} => \A i \in DOMAIN piles : piles[i].passe # 0
    /\ fichier = "sien" => branches[b2] = {} /\ \A i \in DOMAIN piles : piles[i].passe # 0
    /\ VersLeSuivi =>
        /\ sales = {} /\ piles = <<>> /\ branches[b2] = {}
        /\ montre # Aucun => montre.brCible # b2
        /\ p.pc = "repos" /\ montre # Aucun =>
              compteur = 0 /\ fichier = "sien" /\ HEAD = {<<u1, 0>>}
    /\ (compteur = MaxPasse \/ (compteur = MaxPasse - 1 /\ p.pc = "repos" /\ montre # Aucun)) =>
        /\ sales = {} /\ ~moitie /\ piles = <<>> /\ fichier # "sien" /\ copies = {}
        /\ branches[b2] = {}
        /\ ~DuSuivi
        /\ montre # Aucun => montre.strategie # "merge"
===============================================================================
