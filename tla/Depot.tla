-------------------------------- MODULE Depot --------------------------------
(***************************************************************************)
(* One clone of the checkout under script/git/repo_pull.py: the dry run    *)
(* that shows it, the pull that integrates its target, the return to a     *)
(* snapshot, the restoring and the deletion of a backup, the stash put     *)
(* back, and the user who works in the clone in the meantime.              *)
(*                                                                         *)
(* A commit is <<content, pass>>: pass 0 made it, or the pass that         *)
(* replayed or merged it.  A reference is the set of the commits it        *)
(* reaches, so that \subseteq is "is an ancestor of".  What git does when  *)
(* a command fails (a conflict, a checkout stopped half-way) is a choice.  *)
(*                                                                         *)
(* Abstracted: the network (a fetch succeeds; the clones it fails for are  *)
(* skipped, see Sauter), shallow histories (deepened or skipped), the      *)
(* contents of files: one ignored file, or link, stands for those a target *)
(* begins to track.  The queries that guard the user's files (git status,  *)
(* git diff, check-ignore, ls-files) may fail, and the pass goes on.  The  *)
(* user works before and after a pass and while it handles other clones,   *)
(* never in the seconds it handles this one.                               *)
(***************************************************************************)
EXTENDS Naturals, Sequences, FiniteSets

CONSTANTS
    Branche,       \* the local branches, backups apart
    BrancheDuManifeste, \* the one the manifest gives the project
    Publies,       \* the contents of upstream's commits
    Fusion,        \* the content of a merge commit
    Locaux,        \* the contents the user may commit
    Lignes,        \* the histories upstream, or the manifest's entry, may have
    Instantanes,   \* the histories a snapshot may name
    Suiveurs,      \* the upstream contents that track the ignored file
    Retouches,     \* the modifications the user may make to tracked files
    Strategie,     \* among "ff", "rebase", "merge"
    MaxPasse,      \* bound: passes that reach the clone
    MaxPile,       \* bound: entries beyond which the user stashes no more
    Aucun          \* no branch: a detached HEAD; no record; no operation

ASSUME Bornes == MaxPasse \in Nat /\ MaxPile \in Nat
ASSUME Noms ==
    /\ Aucun \notin Branche /\ BrancheDuManifeste \in Branche
    /\ Suiveurs \subseteq Publies
    /\ Publies \cap Locaux = {} /\ Fusion \notin Publies \cup Locaux
ASSUME Strategies == Strategie \subseteq {"ff", "rebase", "merge"}

Passe == 1 .. MaxPasse
Commit == (Publies \cup Locaux \cup {Fusion}) \X (0 .. MaxPasse)
Histoire == SUBSET Commit

ASSUME Histoires ==
    /\ Lignes \subseteq SUBSET (Publies \X {0})
    /\ Instantanes \subseteq SUBSET (Publies \X {0})

VARIABLES
    branches,  \* [Branche -> Histoire], {} when absent
    tete,      \* [branche, detachee]: what HEAD designates
    remotes,   \* the commits the tracking references reach
    ligne,     \* the history of the target on its remote
    sauvegardes, \* the backup branches
    operation, \* the interrupted git operation, or Aucun
    sales,     \* the user's modifications in the work tree
    moitie,    \* some tracked files were half-written by a checkout
    piles,     \* the stash, oldest first
    fichier,   \* the ignored file: "sien" the user's, "suivi", "absent"
    copies,    \* the passes whose folder holds the user's ignored file
    traces,    \* the record of the clone in each pass's passe.json
    compteur,  \* the passes started: a stamp each
    montre,    \* what the dry run showed of the clone, or Aucun
    p,         \* the pass at work, which holds the lock
    repere     \* history: where the last pass found the clone, until something
               \* other than that pass moves it

depot == <<branches, tete, operation>>
arbre == <<sales, moitie, piles>>
disque == <<fichier, copies>>
amont == <<remotes, ligne>>
registre == <<traces, compteur, montre, repere>>
vars == <<branches, tete, remotes, ligne, sauvegardes, operation, sales,
          moitie, piles, fichier, copies, traces, compteur, montre, p, repere>>

-----------------------------------------------------------------------------
\* Histories.

Contenus(h) == {c[1] : c \in h}
HEAD == IF tete.branche = Aucun THEN tete.detachee ELSE branches[tete.branche]

\* « rev-list head ^cible --not --remotes »: the work only this clone has.
CommitsLocaux(head, cible) == head \ (cible \cup remotes)

\* What `git rebase [--onto] cible` makes of head: the commits of neither the
\* target nor the old line, replayed by pass s, those the target already
\* has by content left out, merges flattened.
Rejoue(head, cible, socle, s) ==
    cible \cup {<<c[1], s>> : c \in {d \in head \ (cible \cup socle) :
                        d[1] \notin Contenus(cible) \cup {Fusion}}}

\* « amont_de_depart »: the base of HEAD and of its former target, when the
\* new target lacks it.
AmontDeDepart(head, ancienne, cible) ==
    IF head \cap ancienne \subseteq cible THEN {} ELSE head \cap ancienne

Suit(h) == Contenus(h) \cap Suiveurs # {}

\* The ignored file when git moves the tree from h1 to h2.
FichierVers(h1, h2) == CASE Suit(h2) -> "suivi"
                         [] Suit(h1) /\ ~Suit(h2) -> "absent"
                         [] OTHER -> fichier

\* `etat_arbre`: modified tracked files, the conflicts of an operation included.
Sale == sales # {} \/ moitie \/ operation # Aucun

-----------------------------------------------------------------------------
\* Backups and records.

Nom == [sorte : {"pull", "retour"}, branche : Branche \cup {Aucun}, passe : Passe]
Sauvegarde == [nom : Nom, h : Histoire]
ASSUME Marque == Aucun \notin Nom
NomDe(s, b, k) == [sorte |-> s, branche |-> b, passe |-> k]
Existe(nom) == \E s \in sauvegardes : s.nom = nom
PointeDe(nom) == (CHOOSE s \in sauvegardes : s.nom = nom).h
SansNoms(noms) == {s \in sauvegardes : s.nom \notin noms}

Trace == [branche : Branche \cup {Aucun}, arrivee : Histoire,
          brArrivee : Branche \cup {Aucun}, brCible : Branche \cup {Aucun},
          sauvegarde : Nom \cup {Aucun}, sauvegardeCible : Nom \cup {Aucun}]

\* `branche_de_sauvegarde`: the branch checked out, else the manifest's.
NomTirage(b, k) == NomDe("pull", IF b = Aucun THEN BrancheDuManifeste ELSE b, k)

\* What a dry run shows of the clone: the pins the pass will be given.
Montre == [mode : {"branche", "manifeste", "instantane"},
           strategie : Strategie \cup {"aucune"}, head : Histoire, cible : Histoire,
           ancienne : Histoire, brCible : Branche \cup {Aucun}]

Verdict == {"aucun", "avance_rapide", "bascule", "diverge", "retour"}
Etat == {"aucun", "avance", "tire", "recule", "stash_garde", "conflit_annule",
         "erreur", "interne", "saute", "restauration_echouee"}
Etape == {"repos", "constate", "sauve", "remise", "copie", "extrait", "rate",
          "abandonne", "remis", "pop", "fin"}

Repos == [pc |-> "repos", verdict |-> "aucun", depart |-> {},
          branche |-> Aucun, mise |-> FALSE, omis |-> FALSE, etat |-> "aucun"]

\* A rebase or a merge stopped on a conflict, and what finishing it would give.
Operation == [genre : {"rebase", "merge"}, branche : Branche \cup {Aucun},
              h : Histoire, fini : Histoire]

Remise == [retouches : SUBSET Retouches, moitie : BOOLEAN, passe : 0 .. MaxPasse]

TypeOK ==
    /\ branches \in [Branche -> Histoire]
    /\ tete \in [branche : Branche \cup {Aucun}, detachee : Histoire]
    /\ remotes \in Histoire /\ ligne \in Histoire
    /\ sauvegardes \subseteq Sauvegarde
    /\ operation \in Operation \cup {Aucun}
    /\ sales \subseteq Retouches /\ moitie \in BOOLEAN
    /\ piles \in Seq(Remise)
    /\ fichier \in {"sien", "suivi", "absent"} /\ copies \subseteq Passe
    /\ traces \in [Passe -> Trace \cup {Aucun}]
    /\ compteur \in 0 .. MaxPasse
    /\ montre \in Montre \cup {Aucun}
    /\ p \in [pc : Etape, verdict : Verdict, depart : Histoire,
              branche : Branche \cup {Aucun}, mise : BOOLEAN, omis : BOOLEAN, etat : Etat]
    /\ repere \in [passe : Passe, branches : [Branche -> Histoire],
                   tete : [branche : Branche \cup {Aucun}, detachee : Histoire]]
                 \cup {Aucun}
    /\ p.pc # "repos" => montre \in Montre /\ compteur \in Passe

\* A clone of the first line, on the manifest's branch or detached, clean.
Init ==
    \E h \in Lignes, b \in {BrancheDuManifeste, Aucun}, f \in {"sien", "absent"} :
        /\ \A l \in Lignes : h \subseteq l
        /\ branches = [x \in Branche |-> IF x = BrancheDuManifeste THEN h ELSE {}]
        /\ tete = [branche |-> b, detachee |-> IF b = Aucun THEN h ELSE {}]
        /\ remotes = h /\ ligne = h
        /\ sauvegardes = {} /\ operation = Aucun
        /\ sales = {} /\ moitie = FALSE /\ piles = <<>>
        /\ fichier = (IF Suit(h) THEN "suivi" ELSE f) /\ copies = {}
        /\ traces = [k \in Passe |-> Aucun]
        /\ compteur = 0 /\ montre = Aucun /\ p = Repos /\ repere = Aucun

-----------------------------------------------------------------------------
\* The dry run and the consent.

\* The verdict of `classer`; "a_jour", "en_avance" and a divergence that a
\* fast-forward cannot follow keep the clone out of the plan: "aucun".
Classer(mode, st, cible, suivis) ==
    CASE cible \subseteq HEAD -> "aucun"
      [] HEAD \subseteq cible /\ HEAD # cible -> "avance_rapide"
      [] OTHER -> IF /\ mode = "manifeste" /\ tete.branche = Aucun
                     /\ HEAD \subseteq cible \cup suivis
                  THEN "bascule"
                  ELSE IF st = "ff" THEN "aucun" ELSE "diverge"

\* What the dry run of a pull retains: a clone on a branch, or any clone when
\* the manifest gives the target, with a target to integrate.
Retenu(mode, st, cible, suivis) ==
    /\ operation = Aucun
    /\ mode = "branche" => tete.branche # Aucun
    /\ Classer(mode, st, cible, suivis) # "aucun"

\* The dry run fetches, and shows the target and HEAD of a clone it retains.
\* `ancienne` is the target the manifest gave until now.
EssaiASec(mode, st, ancienne) ==
    /\ p.pc = "repos" /\ montre = Aucun /\ compteur < MaxPasse
    /\ mode = "branche" => ancienne = {}
    /\ Retenu(mode, st, ligne, remotes \cup ligne)
    /\ remotes' = remotes \cup ligne
    /\ montre' = [mode |-> mode, strategie |-> st, head |-> HEAD, cible |-> ligne,
                  ancienne |-> ancienne, brCible |-> Aucun]
    /\ UNCHANGED <<depot, arbre, disque, ligne, sauvegardes, traces, compteur, p, repere>>

\* The dry run of a return to a snapshot; it fetches the commit it lacks.
EssaiRetour(cible, brCible) ==
    /\ p.pc = "repos" /\ montre = Aucun /\ compteur < MaxPasse
    /\ operation = Aucun /\ HEAD # cible
    /\ montre' = [mode |-> "instantane", strategie |-> "aucune", head |-> HEAD,
                  cible |-> cible, ancienne |-> {}, brCible |-> brCible]
    /\ UNCHANGED <<depot, arbre, disque, amont, sauvegardes, traces, compteur, p, repere>>

Retour == montre.mode = "instantane"

\* The pins: HEAD and the target are those shown, and still retained.
Conforme ==
    /\ HEAD = montre.head
    /\ IF Retour THEN operation = Aucun
       ELSE /\ ligne = montre.cible
            /\ Retenu(montre.mode, montre.strategie, ligne, remotes \cup ligne)

\* A slip: the pass takes no stamp of its own.
LancerSansHorodatage ==
    /\ p.pc = "repos" /\ montre # Aucun /\ Conforme
    /\ p' = [p EXCEPT !.pc = "constate", !.verdict = "retour"]
    /\ UNCHANGED <<depot, arbre, disque, amont, sauvegardes, registre>>

\* The pass takes the lock, does the dry run again and starts if it conforms.
Lancer ==
    /\ p.pc = "repos" /\ montre # Aucun /\ Conforme
    /\ remotes' = IF Retour THEN remotes ELSE remotes \cup ligne
    /\ compteur' = compteur + 1
    /\ p' = [p EXCEPT !.pc = "constate", !.verdict = IF Retour THEN "retour" ELSE
                Classer(montre.mode, montre.strategie, ligne, remotes \cup ligne)]
    /\ UNCHANGED <<depot, arbre, disque, ligne, sauvegardes, traces, montre, repere>>

\* "plan_changed": nothing is written.
Refuser ==
    /\ p.pc = "repos" /\ montre # Aucun /\ ~Conforme
    /\ montre' = Aucun
    /\ UNCHANGED <<depot, arbre, disque, amont, sauvegardes, traces, compteur, p, repere>>

-----------------------------------------------------------------------------
\* `_integrer` and `_retourner`, up to the gesture.

\* The backups of the pass at work: HEAD's, and in a return that of the target
\* branch when it is another, at another commit.
NomHead == IF Retour THEN NomDe("retour", tete.branche, compteur)
                     ELSE NomTirage(tete.branche, compteur)
Autre(b) == IF Retour /\ montre.brCible # b THEN montre.brCible ELSE Aucun
\* A slip: the branch of the target is moved without a backup.
NomCibleJamais == Aucun

NomCible ==
    LET a == Autre(tete.branche)
    IN  IF a # Aucun /\ branches[a] \notin {{}, montre.cible}
        THEN NomDe("retour", a, compteur) ELSE Aucun

\* The backups the pass at work has made.
DeLaPasse == {s \in sauvegardes : s.nom.passe = compteur}

\* The clone is left as it is: an operation is in progress, a backup has the
\* name, a return finds HEAD on the commit; or the deadline has passed, the
\* shallow history gave no base, git refused the branch.
Sauter ==
    /\ p.pc = "constate"
    /\ p' = [p EXCEPT !.pc = "fin", !.etat = "saute"]
    /\ UNCHANGED <<depot, arbre, disque, amont, sauvegardes, registre>>

\* A branch on HEAD before any move: a reference only.
Sauvegarder ==
    /\ p.pc = "constate" /\ operation = Aucun
    /\ Retour => HEAD # montre.cible
    /\ ~Existe(NomHead) /\ ~Existe(NomCible)
    /\ sauvegardes' = sauvegardes \cup {[nom |-> NomHead, h |-> HEAD]} \cup
            (IF NomCible = Aucun THEN {}
             ELSE {[nom |-> NomCible, h |-> branches[Autre(tete.branche)]]})
    /\ p' = [p EXCEPT !.pc = "sauve", !.depart = HEAD, !.branche = tete.branche]
    /\ repere' = [passe |-> compteur, branches |-> branches, tete |-> tete]
    /\ UNCHANGED <<depot, arbre, disque, amont, traces, compteur, montre>>

\* The modified tracked files go to the stash.  A `git status` that fails passes
\* for a clean tree: nothing goes, and the pass goes on.
Remiser ==
    /\ p.pc = "sauve"
    /\ \/ /\ Sale
          /\ piles' = Append(piles, [retouches |-> sales, moitie |-> moitie,
                                     passe |-> compteur])
          /\ sales' = {} /\ moitie' = FALSE
          /\ p' = [p EXCEPT !.pc = "remise", !.mise = TRUE]
       \/ UNCHANGED arbre /\ p' = [p EXCEPT !.pc = "remise", !.mise = FALSE]
    /\ UNCHANGED <<depot, disque, amont, sauvegardes, registre>>

\* A slip: the entry on top of the stash is taken for the one just pushed.
RemiseRefuseePrise ==
    /\ p.pc = "sauve" /\ Sale /\ piles # <<>>
    /\ p' = [p EXCEPT !.pc = "remise", !.mise = TRUE]
    /\ UNCHANGED <<depot, arbre, disque, amont, sauvegardes, registre>>

\* git refuses, or keeps nothing and the tree stays modified: refs/stash still
\* names an entry of someone else.  The backups go, the clone is left.
RemiseRefusee ==
    /\ p.pc = "sauve" /\ Sale
    /\ sauvegardes' = sauvegardes \ DeLaPasse
    /\ p' = [p EXCEPT !.pc = "fin", !.etat = "erreur"]
    /\ UNCHANGED <<depot, arbre, disque, amont, registre>>

\* A slip: the copy is left for the failure to make.
CopierPlusTard ==
    /\ p.pc = "remise" /\ p' = [p EXCEPT !.pc = "copie"]
    /\ UNCHANGED <<depot, arbre, disque, amont, sauvegardes, registre>>

\* The user's ignored file lies where the target has one of its own.
Menace == fichier = "sien" /\ Suit(montre.cible \ p.depart)

\* The ignored files the target would overwrite are copied to the pass's folder.
Copier ==
    /\ p.pc = "remise"
    /\ copies' = IF Menace THEN copies \cup {compteur} ELSE copies
    /\ p' = [p EXCEPT !.pc = "copie"]
    /\ UNCHANGED <<depot, arbre, fichier, amont, sauvegardes, registre>>

\* git diff or check-ignore fails, so that no file is listed, or the file is a link,
\* which is not copied; the pass goes on.
Omettre ==
    /\ p.pc = "remise" /\ Menace
    /\ p' = [p EXCEPT !.pc = "copie", !.omis = TRUE]
    /\ UNCHANGED <<depot, arbre, disque, amont, sauvegardes, registre>>

\* The disk is full: `integrer` catches the exception, and the clone is left as it
\* stands, with its backups and its modifications in the stash.
CopierRate ==
    /\ p.pc = "remise" /\ Menace
    /\ p' = [p EXCEPT !.pc = "fin", !.etat = "interne"]
    /\ UNCHANGED <<depot, arbre, disque, amont, sauvegardes, registre>>

\* The same when the copy is put back: the file it goes over may be cut short.
RendreRate ==
    /\ p.pc = "remis" /\ compteur \in copies
    /\ fichier' \in {fichier, "absent"}
    /\ p' = [p EXCEPT !.pc = "fin", !.etat = "interne"]
    /\ UNCHANGED <<depot, arbre, copies, amont, sauvegardes, registre>>

-----------------------------------------------------------------------------
\* The gesture, and what undoes it.

\* HEAD goes to branch b (or detached) at history h; the tree follows.
Deplacer(b, h) ==
    /\ tete' = [branche |-> b, detachee |-> IF b = Aucun THEN h ELSE {}]
    /\ branches' = [x \in Branche |-> IF x = b THEN h ELSE branches[x]]
Porter(b, h) == Deplacer(b, h) /\ fichier' = FichierVers(HEAD, h)

Comparable(g, h) == g \subseteq h \/ h \subseteq g

\* What a rebase or a merge makes of HEAD; a comparable target only advances.
Integree ==
    CASE Comparable(HEAD, montre.cible) -> HEAD \cup montre.cible
      [] montre.strategie = "rebase" ->
            Rejoue(HEAD, montre.cible,
                   AmontDeDepart(HEAD, montre.ancienne, montre.cible), compteur)
      [] OTHER -> HEAD \cup montre.cible \cup {<<Fusion, compteur>>}

\* git rebase refuses a tree with modifications; the other gestures take along
\* those they do not touch.
Permise == p.verdict = "diverge" /\ montre.strategie = "rebase" => sales = {} /\ ~moitie

\* merge --ff-only, checkout --detach, rebase or merge, without a conflict.
Integrer ==
    /\ p.pc = "copie" /\ ~Retour /\ Permise
    /\ p.verdict = "avance_rapide" => Comparable(HEAD, montre.cible)
    /\ IF p.verdict = "bascule" THEN Porter(Aucun, montre.cible)
                                ELSE Porter(tete.branche, Integree)
    /\ p' = [p EXCEPT !.pc = "pop",
                !.etat = IF p.verdict = "avance_rapide" THEN "avance" ELSE "tire"]
    /\ UNCHANGED <<operation, arbre, copies, amont, sauvegardes, registre>>

\* A conflict: the rebase stops on the target with HEAD detached, the merge
\* where it was.
Buter ==
    /\ p.pc = "copie" /\ p.verdict = "diverge"
    /\ ~Comparable(HEAD, montre.cible) /\ Permise
    /\ operation' = [genre |-> IF montre.strategie = "rebase" THEN "rebase" ELSE "merge",
                     branche |-> p.branche, h |-> p.depart, fini |-> Integree]
    /\ IF montre.strategie = "rebase" THEN Porter(Aucun, montre.cible)
       ELSE /\ fichier' = FichierVers(HEAD, HEAD \cup montre.cible)
            /\ UNCHANGED <<branches, tete>>
    /\ p' = [p EXCEPT !.pc = "rate", !.etat = "conflit_annule"]
    /\ UNCHANGED <<arbre, copies, amont, sauvegardes, registre>>

\* checkout of the target's branch, the first of the two gestures of a return.
Extraire ==
    LET a == Autre(p.branche)
    IN  /\ p.pc = "copie" /\ Retour /\ a # Aucun
        /\ branches[a] # {}
        /\ Porter(a, branches[a])
        /\ p' = [p EXCEPT !.pc = "extrait"]
        /\ UNCHANGED <<operation, arbre, copies, amont, sauvegardes, registre>>

\* reset --keep, checkout -b or checkout --detach: the return is done, its
\* stash is kept.
Ramener ==
    LET a == Autre(p.branche)
    IN  /\ p.pc \in {"copie", "extrait"} /\ Retour
        /\ p.pc = "copie" /\ a # Aucun => branches[a] = {}
        /\ Porter(montre.brCible, montre.cible)
        /\ p' = [p EXCEPT !.pc = "fin", !.etat = "recule"]
        /\ UNCHANGED <<operation, arbre, copies, amont, sauvegardes, registre>>

\* The gesture fails without an operation in progress: refused, or stopped
\* half-way with target files written and HEAD where it was.
Echouer ==
    /\ p.pc \in {"copie", "extrait"}
    /\ \/ UNCHANGED <<moitie, fichier>>
       \/ /\ ~(montre.cible \subseteq HEAD)
          /\ moitie' = TRUE
          /\ fichier' \in {fichier, FichierVers(HEAD, montre.cible)}
    /\ p' = [p EXCEPT !.pc = "abandonne", !.etat = "erreur"]
    /\ UNCHANGED <<depot, sales, piles, copies, amont, sauvegardes, registre>>

\* git rebase --abort or git merge --abort puts HEAD back; if it fails the
\* clone is left in its operation.
Abandonner ==
    /\ p.pc = "rate"
    /\ \/ /\ operation' = Aucun
          /\ Porter(operation.branche, operation.h)
          /\ p' = [p EXCEPT !.pc = "abandonne"]
       \/ /\ p' = [p EXCEPT !.pc = "fin", !.etat = "restauration_echouee"]
          /\ UNCHANGED <<depot, fichier>>
    /\ UNCHANGED <<arbre, copies, amont, sauvegardes, registre>>

\* What the undoing may leave of the file f: it removes what the target tracks and the
\* survey made before the gesture lacks; this survey, or the second, may fail.
Restes(f) == IF Suit(montre.cible) /\ ~Suit(p.depart) THEN {f, "absent"} ELSE {f}

\* A slip: the commit is compared and not the branch.
RemettreSansBranche ==
    /\ p.pc = "abandonne"
    /\ IF HEAD = p.depart THEN UNCHANGED <<branches, tete, sales, moitie>>
       ELSE Deplacer(p.branche, p.depart) /\ sales' = {} /\ moitie' = FALSE
    /\ fichier' \in Restes(FichierVers(HEAD, p.depart))
    /\ p' = [p EXCEPT !.pc = "remis"]
    /\ UNCHANGED <<operation, piles, copies, amont, sauvegardes, registre>>

\* `remettre_au_depart`: checkout -f and reset --hard, when HEAD has moved; the second
\* may fail after the first, or both.
RemettreAuDepart ==
    /\ p.pc = "abandonne"
    /\ IF HEAD = p.depart /\ tete.branche = p.branche
       THEN /\ p' = [p EXCEPT !.pc = "remis"]
            /\ fichier' \in Restes(fichier)
            /\ UNCHANGED <<branches, tete, sales, moitie>>
       ELSE \/ /\ Deplacer(p.branche, p.depart)
               /\ fichier' \in Restes(FichierVers(HEAD, p.depart))
               /\ sales' = {} /\ moitie' = FALSE
               /\ p' = [p EXCEPT !.pc = "remis"]
            \/ /\ Deplacer(p.branche, p.depart) /\ p.branche # Aucun
               /\ fichier' = FichierVers(HEAD, p.depart)
               /\ sales' = {} /\ moitie' = FALSE
               /\ p' = [p EXCEPT !.pc = "fin", !.etat = "restauration_echouee"]
            \/ /\ p' = [p EXCEPT !.pc = "fin", !.etat = "restauration_echouee"]
               /\ UNCHANGED <<branches, tete, fichier, sales, moitie>>
    /\ UNCHANGED <<operation, piles, copies, amont, sauvegardes, registre>>

\* The copies of the overwritten files come back, the backups go.
RendreEtRetirer ==
    /\ p.pc = "remis"
    /\ fichier' = IF compteur \in copies THEN "sien" ELSE fichier
    /\ sauvegardes' = sauvegardes \ DeLaPasse
    /\ p' = [p EXCEPT !.pc = "pop"]
    /\ UNCHANGED <<depot, arbre, copies, amont, registre>>

\* A slip: the entry that could not be put back is dropped.
ReappliquerJette ==
    /\ p.pc = "pop" /\ p' = [p EXCEPT !.pc = "fin"]
    /\ IF p.mise THEN /\ piles' = SubSeq(piles, 1, Len(piles) - 1)
                      /\ sales' = {} /\ moitie' = FALSE
                 ELSE UNCHANGED arbre
    /\ UNCHANGED <<depot, disque, amont, sauvegardes, registre>>

\* git stash pop, the top of the pile; when it fails, reset --hard HEAD and the
\* entry is kept.
Reappliquer ==
    /\ p.pc = "pop"
    /\ \/ ~p.mise /\ UNCHANGED arbre /\ p' = [p EXCEPT !.pc = "fin"]
       \/ /\ p.mise
          /\ sales' = sales \cup piles[Len(piles)].retouches
          /\ moitie' = (moitie \/ piles[Len(piles)].moitie)
          /\ piles' = SubSeq(piles, 1, Len(piles) - 1)
          /\ p' = [p EXCEPT !.pc = "fin"]
       \/ /\ p.mise
          /\ sales' = {} /\ moitie' = FALSE /\ UNCHANGED piles
          /\ p' = [p EXCEPT !.pc = "fin", !.etat =
                      IF @ \in {"avance", "tire"} THEN "stash_garde" ELSE @]
    /\ UNCHANGED <<depot, disque, amont, sauvegardes, registre>>

\* The record of the clone reaches passe.json; the pass goes on and ends.
Inscrire ==
    LET principale == NomDe(IF Retour THEN "retour" ELSE "pull",
                            IF Retour \/ p.branche # Aucun THEN p.branche
                            ELSE BrancheDuManifeste, compteur)
        autre == Autre(p.branche)
        cible == NomDe("retour", autre, compteur)
    IN  /\ p.pc = "fin"
        /\ traces' = IF ~Existe(principale) THEN traces ELSE
              [traces EXCEPT ![compteur] =
                [branche |-> p.branche, sauvegarde |-> principale,
                 arrivee |-> IF \/ p.etat = "interne"
                                \/ ~Retour /\ p.etat = "restauration_echouee"
                             THEN {} ELSE HEAD,
                 brArrivee |-> IF ~Retour THEN p.branche
                               ELSE IF p.etat = "recule" THEN tete.branche ELSE Aucun,
                 brCible |-> montre.brCible,
                 sauvegardeCible |-> IF autre # Aucun /\ Existe(cible) THEN cible ELSE Aucun]]
        /\ p' = Repos /\ montre' = Aucun
        /\ UNCHANGED <<depot, arbre, disque, amont, sauvegardes, compteur, repere>>

\* SIGKILL between two commands: the kernel gives the lock back, nothing else.
Tuer ==
    /\ p.pc # "repos"
    /\ p' = Repos /\ montre' = Aucun
    /\ UNCHANGED <<depot, arbre, disque, amont, sauvegardes, traces, compteur, repere>>

-----------------------------------------------------------------------------
\* The backups and the stash, under the same lock.

\* A slip: HEAD is not compared with where the pass left it.
HeadInchangeeToujours(h, tr) == TRUE

\* `head_inchangee`: HEAD is where the pass left it, or everything it has
\* beyond the backup is on a tracking reference.
HeadInchangee(h, tr) ==
    \/ tr # Aucun /\ HEAD = tr.arrivee
    \/ h \subseteq HEAD /\ HEAD \ h \subseteq remotes

\* The record that names the backup, if its pass lived to write it.
TraceDe(nom) == LET tr == traces[nom.passe]
                IN  IF tr # Aucun /\ tr.sauvegarde = nom THEN tr ELSE Aucun

Destination(tr) == IF tr = Aucun THEN tete.branche ELSE tr.branche

\* The branch the clone must be on: where the pass left it.
Attendue(nom, tr) ==
    CASE tr = Aucun -> IF tete.branche = nom.branche THEN tete.branche ELSE Aucun
      [] tr # Aucun /\ nom.sorte = "retour" -> tr.brArrivee
      [] OTHER -> tr.branche

Restaurable(s, tr) ==
    /\ p.pc = "repos" /\ s \in sauvegardes
    /\ ~Sale
    /\ tete.branche = Attendue(s.nom, tr)
    /\ HeadInchangee(s.h, tr)
    /\ Destination(tr) # Aucun => branches[Destination(tr)] # {}

\* « branch -f » puts the branch of the target back on its own backup.
BrancheCible(tr) ==
    IF tr # Aucun /\ tr.sauvegardeCible # Aucun /\ tr.brCible # Aucun
       /\ Existe(tr.sauvegardeCible)
    THEN [x \in {tr.brCible} |-> PointeDe(tr.sauvegardeCible)]
    ELSE [x \in {} |-> {}]

\* checkout of the start branch, reset --keep on the backup, branch -f.
Restaurer(s) ==
    LET tr == TraceDe(s.nom)
        d == Destination(tr)
        bc == BrancheCible(tr)
    IN  /\ Restaurable(s, tr)
        /\ tete' = [branche |-> d, detachee |-> IF d = Aucun THEN s.h ELSE {}]
        /\ branches' = [x \in Branche |-> IF x \in DOMAIN bc THEN bc[x]
                                          ELSE IF x = d THEN s.h ELSE branches[x]]
        /\ fichier' = FichierVers(HEAD, s.h)
        /\ repere' = Aucun
        /\ UNCHANGED <<operation, arbre, copies, amont, sauvegardes, traces, compteur, montre, p>>

\* A gesture after the first fails: the clone stays on the start branch as it is, or on
\* its backup without the branch of the target.
RestaurerAMoitie(s) ==
    LET tr == TraceDe(s.nom)
        d == Destination(tr)
    IN  /\ Restaurable(s, tr)
        /\ \/ d \notin {Aucun, tete.branche} /\ Porter(d, branches[d])
           \/ DOMAIN BrancheCible(tr) # {} /\ Porter(d, s.h)
        /\ repere' = Aucun
        /\ UNCHANGED <<operation, arbre, copies, amont, sauvegardes, traces, compteur, montre, p>>

Supprimer(s) ==
    /\ p.pc = "repos" /\ s \in sauvegardes
    /\ sauvegardes' = sauvegardes \ {s}
    /\ UNCHANGED <<depot, arbre, disque, amont, registre, p>>

\* git stash apply of any entry on a clean tree; the pile keeps it.  On a
\* conflict reset --hard HEAD leaves the tree as it was.
AppliquerRemise(i) ==
    /\ p.pc = "repos" /\ ~Sale
    /\ sales' = piles[i].retouches /\ moitie' = piles[i].moitie
    /\ UNCHANGED <<depot, piles, disque, amont, sauvegardes, registre, p>>

-----------------------------------------------------------------------------
\* The user, while no pass handles this clone, and upstream.

Libre == p.pc \in {"repos", "constate"}

\* All that some reference reaches.
References == tete.detachee \cup (UNION {branches[b] : b \in Branche})
              \cup (UNION {s.h : s \in sauvegardes}) \cup remotes

Valider(c) ==
    LET h == HEAD \cup {<<c, 0>>}
    IN  /\ Libre /\ operation = Aucun
        /\ c \notin Contenus(References)
        /\ Deplacer(tete.branche, h)
        /\ repere' = Aucun
        /\ UNCHANGED <<operation, arbre, disque, amont, sauvegardes, traces, compteur, montre, p>>

Retoucher(e) ==
    /\ Libre /\ e \notin sales
    /\ \A i \in DOMAIN piles : e \notin piles[i].retouches
    /\ sales' = sales \cup {e}
    /\ UNCHANGED <<depot, moitie, piles, disque, amont, sauvegardes, registre, p>>

\* git checkout of another branch, or of a new one; the user leaves no commit
\* behind that no reference has.
Changer(b) ==
    LET h == IF branches[b] = {} THEN HEAD ELSE branches[b]
    IN  /\ Libre /\ ~Sale /\ b # tete.branche
        /\ tete.branche = Aucun => tete.detachee \subseteq h \cup remotes
        /\ Porter(b, h)
        /\ repere' = Aucun
        /\ UNCHANGED <<operation, arbre, copies, amont, sauvegardes, traces, compteur, montre, p>>

Pousser ==
    /\ Libre /\ ligne \subseteq HEAD /\ HEAD # ligne
    /\ ligne' = HEAD /\ remotes' = remotes \cup HEAD
    /\ repere' = Aucun
    /\ UNCHANGED <<depot, arbre, disque, sauvegardes, traces, compteur, montre, p>>

\* The user's own stash.
MettreDeCote ==
    /\ Libre /\ operation = Aucun /\ sales # {} /\ Len(piles) < MaxPile
    /\ piles' = Append(piles, [retouches |-> sales, moitie |-> moitie, passe |-> 0])
    /\ sales' = {} /\ moitie' = FALSE
    /\ UNCHANGED <<depot, disque, amont, sauvegardes, registre, p>>

\* The user writes an ignored file where no commit tracks one.
Deposer ==
    /\ Libre /\ operation = Aucun /\ fichier = "absent" /\ ~Suit(HEAD)
    /\ fichier' = "sien"
    /\ UNCHANGED <<depot, arbre, copies, amont, sauvegardes, registre, p>>

\* The user aborts, or finishes, the operation a pass left behind.
Denouer(h) ==
    /\ Libre /\ operation # Aucun
    /\ operation' = Aucun
    /\ Porter(operation.branche, h)
    /\ repere' = Aucun
    /\ UNCHANGED <<arbre, copies, amont, sauvegardes, traces, compteur, montre, p>>

\* Upstream publishes, or the manifest's entry moves to another line.
Publier(l) ==
    /\ p.pc = "repos"
    /\ ligne' = (IF ligne \cap (Publies \X {0}) \subseteq l THEN ligne \cup l ELSE l)
    /\ ligne' # ligne
    /\ UNCHANGED <<depot, arbre, disque, remotes, sauvegardes, registre, p>>

-----------------------------------------------------------------------------
Demander ==
    \/ \E mode \in {"branche", "manifeste"}, st \in Strategie,
          a \in {{}} \cup {l \in Lignes : l \subseteq remotes} : EssaiASec(mode, st, a)
    \/ \E h \in Instantanes, b \in Branche \cup {Aucun} : EssaiRetour(h, b)
    \/ Lancer \/ Refuser

Traiter ==
    \/ Sauter \/ Sauvegarder \/ Remiser \/ RemiseRefusee \/ Copier \/ Omettre \/ CopierRate
    \/ Integrer \/ Buter \/ Extraire \/ Ramener \/ Echouer
    \/ Abandonner \/ RemettreAuDepart \/ RendreEtRetirer \/ RendreRate \/ Reappliquer
    \/ Inscrire \/ Tuer

Gerer ==
    \/ \E s \in sauvegardes : Restaurer(s) \/ RestaurerAMoitie(s) \/ Supprimer(s)
    \/ \E i \in DOMAIN piles : AppliquerRemise(i)

Travailler ==
    \/ \E c \in Locaux : Valider(c)
    \/ \E e \in Retouches : Retoucher(e)
    \/ \E b \in Branche : Changer(b)
    \/ Pousser \/ MettreDeCote \/ Deposer
    \/ Denouer(operation.h) \/ Denouer(operation.fini)
    \/ \E l \in Lignes : Publier(l)

Next == Demander \/ Traiter \/ Gerer \/ Travailler
Spec == Init /\ [][Next]_vars
-----------------------------------------------------------------------------
\* When a pass is done with the clone, the clone is at its target with a backup
\* of every branch it moved, or where it was with no backup left and its ignored file
\* in place, whatever failed on the way; "restauration_echouee" is neither, and a
\* copy that the disk refused leaves the clone where it was with its backup.
Arrivee ==
    /\ montre.cible \subseteq HEAD
    /\ Retour => HEAD = montre.cible /\ tete.branche = montre.brCible
    /\ \E s \in DeLaPasse : s.h = p.depart
    /\ \A x \in Branche : repere.branches[x] \in {{}, branches[x]} \cup
                                                 {s.h : s \in DeLaPasse}
Depart ==
    /\ HEAD = p.depart /\ tete.branche = p.branche /\ operation = Aucun
    /\ DeLaPasse = {}
    /\ compteur \in copies => fichier = "sien"
RevenuOuArrive ==
    p.pc = "fin" =>
        CASE p.etat \in {"recule", "avance", "tire", "stash_garde"} -> Arrivee
          [] p.etat \in {"erreur", "conflit_annule"} -> Depart
          [] p.etat = "interne" -> /\ HEAD = p.depart /\ tete.branche = p.branche
                                   /\ \E s \in DeLaPasse : s.h = p.depart
          [] p.etat = "restauration_echouee" -> \E s \in DeLaPasse : s.h = p.depart
          [] OTHER -> DeLaPasse = {}

\* No step, not a failure nor a kill at any point, takes a modification of the
\* user's away: it is in the work tree or in an entry of the stash.  One step may: when
\* git status failed, so that nothing went to the stash, and a return that had left
\* its start branch failed too, « checkout -f » erases what the tree carried.
Tenues == sales \cup UNION {piles[i].retouches : i \in DOMAIN piles}
RetouchesGardees ==
    [][\/ Tenues \subseteq Tenues'
       \/ RemettreAuDepart /\ Retour /\ ~p.mise /\ tete.branche # p.branche]_vars

\* A pass never takes from the stash an entry that it did not push: `stash
\* pop` takes the top, whatever it is.
RemisesIntactes ==
    [][\A i \in DOMAIN piles : piles[i].passe # compteur =>
            i \in DOMAIN piles' /\ piles'[i] = piles[i]]_vars

\* The record of a return that could not put the clone back on its start.
Inaboutie(nom) ==
    nom.sorte = "retour" /\ TraceDe(nom) # Aucun /\ TraceDe(nom).brArrivee # TraceDe(nom).brCible

\* No commit of the user's leaves every reference, but by the deletion of a
\* backup, by a restoring that moves another branch than the one checked out, or
\* by that of a return that could not put the clone back.
Retient == Locaux \cap Contenus(References \cup
              (IF operation = Aucun THEN {} ELSE operation.h))
CommitsGardes ==
    [][\/ Retient \subseteq Retient'
       \/ \E s \in sauvegardes :
             \/ Supprimer(s)
             \/ /\ Restaurer(s) \/ RestaurerAMoitie(s)
                /\ \/ \E b \in Branche \ {tete.branche} : branches'[b] # branches[b]
                   \/ Inaboutie(s.nom)]_vars

\* A pass that writes over the user's ignored file, or removes it, has it in its
\* folder, but when git could not list it or it is a link, or for the branch that a
\* return checks out on its way: only what the target tracks is compared with the start.
EcraseCopie ==
    [][(/\ fichier = "sien" /\ fichier' # "sien"
        /\ p.pc # "repos" /\ p'.pc \notin {"constate", "extrait"} /\ ~p.omis)
            => compteur \in copies]_vars

\* A pass then the restoring of its backup is a round trip: HEAD and every
\* branch the pass found are as it found them, if none of its backups was deleted.
AllerRetour ==
    [][\A s \in sauvegardes :
          LET tr == TraceDe(s.nom) IN
          (/\ repere # Aucun /\ repere' = Aucun /\ repere.passe = s.nom.passe
           /\ tr # Aucun /\ Restaurer(s)
           /\ tr.sauvegardeCible # Aucun => Existe(tr.sauvegardeCible))
            => /\ tete' = repere.tete
               /\ \A x \in Branche : repere.branches[x] # {} =>
                     branches'[x] = repere.branches[x]]_vars
=============================================================================
