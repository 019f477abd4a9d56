------------------------------ MODULE DepotProofs ------------------------------
(***************************************************************************)
(* Theorems of the module Depot, for any branches, histories, target       *)
(* lines, snapshots, modifications and number of passes.  In order:        *)
(*                                                                         *)
(*  - Inv: the types, and that the user's modifications, his entries of    *)
(*    the stash and his ignored file survive every pass, failure and kill, *)
(*    but by the steps the properties name.  A pass that pushed the        *)
(*    modifications works on a tree without them and has its own entry on  *)
(*    top (Remisees); it has copied the ignored file if its target tracks  *)
(*    it, its start does not, and git could list it (Ecrases).             *)
(*  - DInv: arrived with its backups, or back without.  Until its gesture  *)
(*    is done a pass has moved no branch, and holds its start and the      *)
(*    branch of its target under backups (Gages, Etapes).                  *)
(*  - AInv: a pass and the restoring of its backup are a round trip.  What *)
(*    a pass holds under the names of its record (Cours) is what the       *)
(*    record points at until something else moves the clone (Point).       *)
(*  - CInv: no commit of the user's is lost.  What git makes of a history  *)
(*    keeps the contents of the user's commits (GardeIntegree), a backup   *)
(*    goes only when a branch or HEAD holds what it holds (Surveille), and *)
(*    what a record calls its arrival has nothing that its backup and the  *)
(*    tracking references lack (Bilan, Arrivees).                          *)
(***************************************************************************)
EXTENDS Depot, SequenceTheorems, TLAPS

\* The passes that reach the clone are counted, and one that shows can start.
Comptees ==
    /\ (p.pc = "repos" /\ montre # Aucun) => montre \in Montre /\ compteur < MaxPasse
    /\ p.pc = "rate" => operation \in Operation

Rangee == {"remise", "copie", "extrait", "rate", "abandonne", "remis", "pop"}

\* Past its stash, a pass that pushed the user's modifications works on a tree without
\* them, and its entry is on top of the pile.
Remisees ==
    (p.pc \in Rangee /\ p.mise) =>
        sales = {} /\ piles # <<>> /\ piles[Len(piles)].passe = compteur

\* A backup of the target's branch is that of another branch than the start.
Autres == \A k \in Passe : traces[k] # Aucun =>
              (traces[k].sauvegardeCible # Aucun => traces[k].brCible # traces[k].branche)

\* The user's file lies where HEAD has none; the pass looks at HEAD's start and copies
\* first, if git lists the file.
Ecrases ==
    /\ fichier = "sien" => ~Suit(HEAD)
    /\ \A k \in copies : k <= compteur
    /\ p.pc \in {"constate", "sauve", "remise"} => compteur \notin copies
    /\ p.pc \in {"sauve", "remise", "copie", "remis"} => HEAD = p.depart
    /\ p.pc = "rate" => operation.h = p.depart
    /\ p.pc \in Rangee => (compteur \in copies => ~Suit(p.depart))
    /\ (p.pc \in {"copie", "extrait", "rate", "abandonne"} /\ fichier = "sien") =>
          /\ ~Suit(p.depart)
          /\ Suit(montre.cible \ p.depart) => compteur \in copies \/ p.omis

Inv == TypeOK /\ Comptees /\ Remisees /\ Autres /\ Ecrases

-------------------------------------------------------------------------------
\* Histories.

LEMMA SuitUnion == \A g, h : Suit(g \cup h) <=> Suit(g) \/ Suit(h)
BY DEF Suit, Contenus

LEMMA SuitReste == \A g, h : Suit(g) => Suit(h) \/ Suit(g \ h)
BY DEF Suit, Contenus

\* A replay follows the ignored file if what it is made of does.
LEMMA SuitRejoue ==
    ASSUME NEW head \in Histoire, NEW cible \in Histoire, NEW socle, NEW k,
           Suit(Rejoue(head, cible, socle, k))
    PROVE  Suit(head) \/ Suit(cible)
<1>1. PICK c \in Rejoue(head, cible, socle, k) : c[1] \in Suiveurs
  BY DEF Suit, Contenus
<1>2. CASE c \in cible
  BY <1>1, <1>2 DEF Suit, Contenus
<1>3. CASE c \notin cible
  <2>1. PICK d \in head : c = <<d[1], k>>
    BY <1>1, <1>3 DEF Rejoue
  <2> QED
    BY <1>1, <2>1 DEF Suit, Contenus
<1> QED
  BY <1>2, <1>3

LEMMA RejoueType ==
    ASSUME NEW head \in Histoire, NEW cible \in Histoire, NEW socle, NEW k \in 0 .. MaxPasse
    PROVE  Rejoue(head, cible, socle, k) \in Histoire
BY DEF Rejoue, Histoire, Commit

LEMMA TeteType == TypeOK => HEAD \in Histoire
BY DEF TypeOK, HEAD

LEMMA IntegreeType ==
    ASSUME TypeOK, p.pc # "repos"
    PROVE  /\ Integree \in Histoire
           /\ Suit(Integree) => Suit(HEAD) \/ Suit(montre.cible)
<1>1. HEAD \in Histoire /\ montre.cible \in Histoire /\ compteur \in 0 .. MaxPasse
  BY TeteType DEF TypeOK, Montre
<1>2. CASE Integree = HEAD \cup montre.cible
  BY <1>1, <1>2, SuitUnion DEF Histoire
<1>3. CASE Integree = Rejoue(HEAD, montre.cible,
                        AmontDeDepart(HEAD, montre.ancienne, montre.cible), compteur)
  BY <1>1, <1>3, RejoueType, SuitRejoue
<1>4. CASE Integree = HEAD \cup montre.cible \cup {<<Fusion, compteur>>}
  <2>1. <<Fusion, compteur>> \in Commit
    BY <1>1 DEF Commit
  <2>2. ~Suit({<<Fusion, compteur>>})
    BY Noms DEF Suit, Contenus
  <2> QED
    BY <1>1, <1>4, <2>1, <2>2, SuitUnion DEF Histoire
<1> QED
  BY <1>2, <1>3, <1>4 DEF Integree

-------------------------------------------------------------------------------
\* Moving HEAD.

LEMMA Deplace ==
    ASSUME TypeOK, NEW b \in Branche \cup {Aucun}, NEW h \in Histoire, Deplacer(b, h)
    PROVE  /\ branches' \in [Branche -> Histoire]
           /\ tete' \in [branche : Branche \cup {Aucun}, detachee : Histoire]
           /\ HEAD' = h
BY Noms DEF TypeOK, Deplacer, HEAD, Histoire

LEMMA FichierType ==
    ASSUME TypeOK, NEW h1, NEW h2
    PROVE  /\ FichierVers(h1, h2) \in {"sien", "suivi", "absent"}
           /\ FichierVers(h1, h2) = "sien" => fichier = "sien" /\ ~Suit(h2)
           /\ (fichier = "sien" /\ ~Suit(h1)) =>
                  (FichierVers(h1, h2) = IF Suit(h2) THEN "suivi" ELSE "sien")
BY DEF FichierVers, TypeOK

\* The top of the pile, taken off.
LEMMA Depile ==
    ASSUME NEW S, NEW q \in Seq(S), q # <<>>
    PROVE  /\ Len(q) \in Nat \ {0} /\ q[Len(q)] \in S
           /\ SubSeq(q, 1, Len(q) - 1) \in Seq(S)
           /\ Len(SubSeq(q, 1, Len(q) - 1)) = Len(q) - 1
           /\ \A i \in 1 .. Len(q) - 1 : SubSeq(q, 1, Len(q) - 1)[i] = q[i]
<1>1. Len(q) \in Nat \ {0}
  BY EmptySeq
<1>2. q[Len(q)] \in S
  BY <1>1, ElementOfSeq
<1> DEFINE n == Len(q) - 1
<1>3. n \in Nat /\ \A i \in 1 .. n : q[i] \in S
  BY <1>1, ElementOfSeq
<1> HIDE DEF n
<1>4. /\ SubSeq(q, 1, n) \in Seq(S)
      /\ Len(SubSeq(q, 1, n)) = IF 1 <= n THEN n - 1 + 1 ELSE 0
      /\ \A i \in 1 .. n - 1 + 1 : SubSeq(q, 1, n)[i] = q[1 + i - 1]
  BY <1>3, SubSeqProperties
<1>5. /\ SubSeq(q, 1, n) \in Seq(S) /\ Len(SubSeq(q, 1, n)) = n
      /\ \A i \in 1 .. n : SubSeq(q, 1, n)[i] = q[i]
  BY <1>3, <1>4
<1> QED
  BY <1>1, <1>2, <1>5 DEF n

-------------------------------------------------------------------------------
\* The user, the backups and the stash, while no pass handles the clone.

LEMMA LibreInv ==
    ASSUME Inv, TypeOK', p.pc \in {"repos", "constate"},
           UNCHANGED <<p, montre, compteur, traces, copies>>,
           fichier' = "sien" => ~Suit(HEAD')
    PROVE  Inv'
<1>1. Comptees' /\ Remisees' /\ Autres'
  BY DEF Inv, Comptees, Remisees, Rangee, Autres
<1>2. Ecrases'
  BY DEF Inv, Ecrases, Rangee
<1> QED
  BY <1>1, <1>2 DEF Inv

LEMMA ContenuType ==
    ASSUME TypeOK, NEW c \in Locaux, NEW h \in Histoire
    PROVE  /\ h \cup {<<c, 0>>} \in Histoire
           /\ Suit(h \cup {<<c, 0>>}) => Suit(h)
<1>1. <<c, 0>> \in Commit
  BY Bornes DEF Commit
<1>2. ~Suit({<<c, 0>>})
  BY Noms DEF Suit, Contenus
<1> QED
  BY <1>1, <1>2, SuitUnion DEF Histoire

LEMMA ValiderInv ==
    ASSUME Inv, NEW c \in Locaux, Valider(c)
    PROVE  Inv'
<1>1. /\ p.pc \in {"repos", "constate"}
      /\ Deplacer(tete.branche, HEAD \cup {<<c, 0>>})
      /\ repere' = Aucun
      /\ UNCHANGED <<operation, sales, moitie, piles, fichier, copies, remotes, ligne,
                     sauvegardes, traces, compteur, montre, p>>
  BY DEF Valider, Libre, arbre, disque, amont
<1>2. /\ HEAD \in Histoire /\ HEAD \cup {<<c, 0>>} \in Histoire
      /\ Suit(HEAD \cup {<<c, 0>>}) => Suit(HEAD)
  BY TeteType, ContenuType DEF Inv
<1>3. /\ branches' \in [Branche -> Histoire]
      /\ tete' \in [branche : Branche \cup {Aucun}, detachee : Histoire]
      /\ HEAD' = HEAD \cup {<<c, 0>>}
  BY <1>1, <1>2, Deplace DEF Inv, TypeOK
<1>4. TypeOK'
  BY <1>1, <1>3 DEF Inv, TypeOK
<1>5. fichier' = "sien" => ~Suit(HEAD')
  BY <1>1, <1>2, <1>3 DEF Inv, Ecrases
<1> QED
  BY <1>1, <1>4, <1>5, LibreInv

\* The tree and the stash alone.
LEMMA ArbreInv ==
    ASSUME Inv, p.pc \in {"repos", "constate"},
           sales' \subseteq Retouches, moitie' \in BOOLEAN, piles' \in Seq(Remise),
           UNCHANGED <<branches, tete, operation, fichier, copies, remotes, ligne,
                       sauvegardes, traces, compteur, montre, repere, p>>
    PROVE  Inv'
<1>1. TypeOK'
  BY DEF Inv, TypeOK
<1>2. fichier' = "sien" => ~Suit(HEAD')
  BY DEF Inv, Ecrases, HEAD
<1> QED
  BY <1>1, <1>2, LibreInv

LEMMA RemiseType ==
    ASSUME Inv, NEW k \in 0 .. MaxPasse
    PROVE  [retouches |-> sales, moitie |-> moitie, passe |-> k] \in Remise
BY DEF Inv, TypeOK, Remise

LEMMA TravailInv ==
    ASSUME Inv,
           \/ \E e \in Retouches : Retoucher(e)
           \/ MettreDeCote
           \/ \E i \in DOMAIN piles : AppliquerRemise(i)
    PROVE  Inv'
<1>1. ASSUME NEW e \in Retouches, Retoucher(e) PROVE Inv'
  <2>1. p.pc \in {"repos", "constate"} /\ sales' = sales \cup {e}
    BY <1>1 DEF Retoucher, Libre
  <2> QED
    BY <1>1, <2>1, ArbreInv DEF Retoucher, depot, disque, amont, registre, Inv, TypeOK
<1>2. CASE MettreDeCote
  <2>1. /\ p.pc \in {"repos", "constate"} /\ sales' = {} /\ moitie' = FALSE
        /\ piles' = Append(piles, [retouches |-> sales, moitie |-> moitie, passe |-> 0])
    BY <1>2 DEF MettreDeCote, Libre
  <2>2. [retouches |-> sales, moitie |-> moitie, passe |-> 0] \in Remise
    BY RemiseType, Bornes
  <2>3. piles' \in Seq(Remise)
    BY <2>1, <2>2 DEF Inv, TypeOK
  <2> QED
    BY <1>2, <2>1, <2>3, ArbreInv DEF MettreDeCote, depot, disque, amont, registre
<1>3. ASSUME NEW i \in DOMAIN piles, AppliquerRemise(i) PROVE Inv'
  <2>1. piles[i] \in Remise
    BY DEF Inv, TypeOK
  <2>2. /\ p.pc \in {"repos", "constate"}
        /\ sales' = piles[i].retouches /\ moitie' = piles[i].moitie /\ piles' = piles
    BY <1>3 DEF AppliquerRemise
  <2>3. /\ sales' \subseteq Retouches /\ moitie' \in BOOLEAN /\ piles' \in Seq(Remise)
    BY <2>1, <2>2 DEF Remise, Inv, TypeOK
  <2> QED
    BY <1>3, <2>2, <2>3, ArbreInv DEF AppliquerRemise, depot, disque, amont, registre
<1> QED
  BY <1>1, <1>2, <1>3

\* HEAD is taken elsewhere, and the tree with it.
LEMMA PorterInv ==
    ASSUME Inv, p.pc \in {"repos", "constate"},
           NEW b \in Branche \cup {Aucun}, NEW h \in Histoire, Porter(b, h),
           operation' \in {operation, Aucun}, repere' = Aucun,
           UNCHANGED <<sales, moitie, piles, copies, remotes, ligne,
                       sauvegardes, traces, compteur, montre, p>>
    PROVE  Inv'
<1>1. /\ branches' \in [Branche -> Histoire]
      /\ tete' \in [branche : Branche \cup {Aucun}, detachee : Histoire]
      /\ HEAD' = h
  BY Deplace DEF Inv, Porter
<1>2. /\ fichier' \in {"sien", "suivi", "absent"}
      /\ fichier' = "sien" => ~Suit(h)
  BY FichierType DEF Inv, Porter
<1>3. TypeOK'
  BY <1>1, <1>2 DEF Inv, TypeOK
<1> QED
  BY <1>1, <1>2, <1>3, LibreInv

LEMMA DeplacementInv ==
    ASSUME Inv,
           \/ \E b \in Branche : Changer(b)
           \/ Denouer(operation.h) \/ Denouer(operation.fini)
           \/ \E s \in sauvegardes : RestaurerAMoitie(s)
    PROVE  Inv'
<1>1. ASSUME NEW b \in Branche, Changer(b) PROVE Inv'
  <2> DEFINE h == IF branches[b] = {} THEN HEAD ELSE branches[b]
  <2>1. h \in Histoire
    BY TeteType DEF Inv, TypeOK
  <2>2. /\ p.pc \in {"repos", "constate"} /\ Porter(b, h) /\ repere' = Aucun
        /\ UNCHANGED <<operation, sales, moitie, piles, copies, remotes, ligne,
                       sauvegardes, traces, compteur, montre, p>>
    BY <1>1 DEF Changer, Libre, arbre, amont
  <2> HIDE DEF h
  <2> QED
    BY <2>1, <2>2, PorterInv
<1>2. ASSUME NEW h, h = operation.h \/ h = operation.fini, Denouer(h) PROVE Inv'
  <2>1. operation \in Operation
    BY <1>2 DEF Denouer, Inv, TypeOK
  <2>2. h \in Histoire /\ operation.branche \in Branche \cup {Aucun}
    BY <1>2, <2>1 DEF Operation
  <2> QED
    BY <1>2, <2>2, PorterInv DEF Denouer, Libre, arbre, amont
<1>3. ASSUME NEW s \in sauvegardes, RestaurerAMoitie(s) PROVE Inv'
  <2> DEFINE d == Destination(TraceDe(s.nom))
  <2>1. /\ p.pc = "repos" /\ repere' = Aucun
        /\ (d # Aucun /\ Porter(d, branches[d])) \/ Porter(d, s.h)
        /\ UNCHANGED <<operation, sales, moitie, piles, copies, remotes, ligne,
                       sauvegardes, traces, compteur, montre, p>>
    BY <1>3 DEF RestaurerAMoitie, Restaurable, arbre, amont
  <2>2. d \in Branche \cup {Aucun}
    <3>1. s.nom.passe \in Passe
      BY DEF Inv, TypeOK, Sauvegarde, Nom
    <3> QED
      BY <3>1 DEF Destination, TraceDe, Inv, TypeOK, Trace
  <2>3. s.h \in Histoire /\ (d # Aucun => branches[d] \in Histoire)
    BY <2>2 DEF Inv, TypeOK, Sauvegarde
  <2> HIDE DEF d
  <2> QED
    BY <2>1, <2>2, <2>3, PorterInv
<1> QED
  BY <1>1, <1>2, <1>3

LEMMA RestaurerInv ==
    ASSUME Inv, NEW s \in sauvegardes, Restaurer(s)
    PROVE  Inv'
<1> DEFINE tr == TraceDe(s.nom)
           d == Destination(tr)
           bc == BrancheCible(tr)
<1>1. /\ p.pc = "repos"
      /\ tete' = [branche |-> d, detachee |-> IF d = Aucun THEN s.h ELSE {}]
      /\ branches' = [x \in Branche |-> IF x \in DOMAIN bc THEN bc[x]
                                        ELSE IF x = d THEN s.h ELSE branches[x]]
      /\ fichier' = FichierVers(HEAD, s.h) /\ repere' = Aucun
      /\ UNCHANGED <<operation, sales, moitie, piles, copies, remotes, ligne,
                     sauvegardes, traces, compteur, montre, p>>
  BY DEF Restaurer, Restaurable, arbre, amont
<1>2. s \in Sauvegarde /\ s.h \in Histoire /\ s.nom.passe \in Passe
  BY DEF Inv, TypeOK, Sauvegarde, Nom
<1>3. tr # Aucun => tr = traces[s.nom.passe] /\ tr \in Trace
  BY <1>2 DEF TraceDe, Inv, TypeOK
<1>4. d \in Branche \cup {Aucun}
  BY <1>3 DEF Destination, Trace, Inv, TypeOK
<1>5. \A x \in DOMAIN bc : x # d /\ bc[x] \in Histoire
  <2> SUFFICES ASSUME NEW x \in DOMAIN bc PROVE x # d /\ bc[x] \in Histoire
    OBVIOUS
  <2>1. /\ tr # Aucun /\ tr.sauvegardeCible # Aucun /\ Existe(tr.sauvegardeCible)
        /\ x = tr.brCible /\ bc[x] = PointeDe(tr.sauvegardeCible)
    BY DEF BrancheCible
  <2>2. tr.brCible # tr.branche
    BY <1>2, <1>3, <2>1 DEF Inv, Autres
  <2>3. PointeDe(tr.sauvegardeCible) \in Histoire
    BY <2>1 DEF PointeDe, Existe, Inv, TypeOK, Sauvegarde
  <2> QED
    BY <2>1, <2>2, <2>3 DEF Destination
<1> HIDE DEF tr, d, bc
<1>6. /\ branches' \in [Branche -> Histoire]
      /\ tete' \in [branche : Branche \cup {Aucun}, detachee : Histoire]
      /\ HEAD' = s.h
  <2>1. {} \in Histoire
    BY DEF Histoire
  <2>2. tete' \in [branche : Branche \cup {Aucun}, detachee : Histoire]
    BY <1>1, <1>2, <1>4, <2>1
  <2>3. branches' \in [Branche -> Histoire]
    BY <1>1, <1>2, <1>5 DEF Inv, TypeOK
  <2>4. d \in Branche => branches'[d] = s.h
    BY <1>1, <1>5
  <2> QED
    BY <1>1, <1>4, <2>2, <2>3, <2>4 DEF HEAD
<1>7. fichier' \in {"sien", "suivi", "absent"} /\ (fichier' = "sien" => ~Suit(s.h))
  BY <1>1, FichierType DEF Inv
<1>8. TypeOK'
  BY <1>1, <1>6, <1>7 DEF Inv, TypeOK
<1> QED
  BY <1>1, <1>6, <1>7, <1>8, LibreInv

\* Upstream, the remotes, the ignored file, the backups.
LEMMA DehorsInv ==
    ASSUME Inv, Pousser \/ Deposer \/ (\E l \in Lignes : Publier(l))
                \/ (\E s \in sauvegardes : Supprimer(s))
    PROVE  Inv'
<1>1. /\ p.pc \in {"repos", "constate"} /\ repere' \in {repere, Aucun}
      /\ UNCHANGED <<branches, tete, operation, sales, moitie, piles, copies,
                     traces, compteur, montre, p>>
  BY DEF Pousser, Deposer, Publier, Supprimer, Libre, depot, arbre, disque, registre
<1>2. /\ remotes' \in Histoire /\ ligne' \in Histoire /\ sauvegardes' \subseteq Sauvegarde
      /\ fichier' = fichier \/ (fichier' = "sien" /\ ~Suit(HEAD))
  <2>1. CASE Pousser
    BY <2>1, TeteType DEF Pousser, Inv, TypeOK, Histoire, disque
  <2>2. CASE Deposer
    BY <2>2 DEF Deposer, Inv, TypeOK, amont
  <2>3. ASSUME NEW l \in Lignes, Publier(l)
        PROVE  ligne' \in Histoire /\ remotes' = remotes /\ sauvegardes' = sauvegardes
               /\ fichier' = fichier
    <3>1. l \in Histoire
      BY Histoires, Bornes DEF Histoire, Commit
    <3> QED
      BY <2>3, <3>1 DEF Publier, Inv, TypeOK, Histoire, disque
  <2>4. ASSUME NEW s \in sauvegardes, Supprimer(s)
        PROVE  /\ sauvegardes' \subseteq Sauvegarde
               /\ ligne' = ligne /\ remotes' = remotes /\ fichier' = fichier
    BY <2>4 DEF Supprimer, Inv, TypeOK, disque, amont
  <2> QED
    BY <2>1, <2>2, <2>3, <2>4 DEF Inv, TypeOK
<1>3. TypeOK'
  BY <1>1, <1>2 DEF Inv, TypeOK
<1>4. fichier' = "sien" => ~Suit(HEAD')
  BY <1>1, <1>2 DEF Inv, Ecrases, HEAD
<1> QED
  BY <1>1, <1>3, <1>4, LibreInv

-------------------------------------------------------------------------------
\* The dry run, the consent, the start.

LEMMA EssaiInv ==
    ASSUME Inv,
           \/ \E mode \in {"branche", "manifeste"}, st \in Strategie,
                 a \in {{}} \cup {l \in Lignes : l \subseteq remotes} : EssaiASec(mode, st, a)
           \/ \E h \in Instantanes, b \in Branche \cup {Aucun} : EssaiRetour(h, b)
    PROVE  Inv'
<1> USE DEF depot, arbre, disque, amont
<1>1. /\ p.pc = "repos" /\ compteur < MaxPasse
      /\ UNCHANGED <<branches, tete, operation, sales, moitie, piles, fichier, copies, ligne,
                     sauvegardes, traces, compteur, p, repere>>
  BY DEF EssaiASec, EssaiRetour
<1>2. montre' \in Montre /\ remotes' \in Histoire
  <2>1. ASSUME NEW mode \in {"branche", "manifeste"}, NEW st \in Strategie,
               NEW a \in {{}} \cup {l \in Lignes : l \subseteq remotes}, EssaiASec(mode, st, a)
        PROVE  montre' \in Montre /\ remotes' \in Histoire
    <3>1. a \in Histoire
      BY Histoires, Bornes DEF Histoire, Commit
    <3>2. HEAD \in Histoire
      BY TeteType DEF Inv
    <3> QED
      BY <2>1, <3>1, <3>2 DEF EssaiASec, Montre, Inv, TypeOK, Histoire
  <2>2. ASSUME NEW h \in Instantanes, NEW b \in Branche \cup {Aucun}, EssaiRetour(h, b)
        PROVE  montre' \in Montre /\ remotes' \in Histoire
    <3>1. h \in Histoire /\ {} \in Histoire
      BY Histoires, Bornes DEF Histoire, Commit
    <3>2. HEAD \in Histoire
      BY TeteType DEF Inv
    <3> QED
      BY <2>2, <3>1, <3>2 DEF EssaiRetour, Montre, Inv, TypeOK
  <2> QED
    BY <2>1, <2>2
<1>3. TypeOK'
  BY <1>1, <1>2 DEF Inv, TypeOK
<1>4. Comptees' /\ Remisees' /\ Autres'
  BY <1>1, <1>2 DEF Inv, Comptees, Remisees, Rangee, Autres
<1>5. Ecrases'
  BY <1>1 DEF Inv, Ecrases, Rangee, HEAD
<1> QED
  BY <1>3, <1>4, <1>5 DEF Inv

LEMMA LancerInv ==
    ASSUME Inv, Lancer
    PROVE  Inv'
<1>1. /\ p.pc = "repos" /\ compteur' = compteur + 1
      /\ remotes' \in {remotes, remotes \cup ligne}
      /\ UNCHANGED <<branches, tete, operation, sales, moitie, piles, fichier, copies, ligne,
                     sauvegardes, traces, montre, repere>>
      /\ montre \in Montre /\ compteur < MaxPasse
  BY DEF Lancer, depot, arbre, disque, Inv, Comptees
<1>2. \E v \in Verdict : p' = [p EXCEPT !.pc = "constate", !.verdict = v]
  BY DEF Lancer, Classer, Verdict
<1>3. /\ p' \in [pc : Etape, verdict : Verdict, depart : Histoire,
                  branche : Branche \cup {Aucun}, mise : BOOLEAN, omis : BOOLEAN, etat : Etat]
      /\ p'.pc = "constate"
  BY <1>2 DEF Inv, TypeOK, Etape
<1>4. compteur' \in Passe /\ compteur' \in 0 .. MaxPasse /\ compteur \in Nat
  BY <1>1, Bornes DEF Inv, TypeOK, Passe
<1>5. TypeOK'
  BY <1>1, <1>3, <1>4 DEF Inv, TypeOK, Histoire
<1>6. Comptees' /\ Remisees' /\ Autres'
  BY <1>1, <1>3 DEF Inv, Comptees, Remisees, Rangee, Autres
<1>7. Ecrases'
  <2>1. \A k \in copies : k \in Nat /\ k <= compteur
    BY DEF Inv, Ecrases, TypeOK, Passe
  <2> QED
    BY <1>1, <1>3, <1>4, <2>1 DEF Inv, Ecrases, Rangee, HEAD
<1> QED
  BY <1>5, <1>6, <1>7 DEF Inv

\* A pass that leaves the clone: refused, killed, or written down.
LEMMA ReposInv ==
    ASSUME Inv, p'.pc = "repos", montre' = Aucun,
           p' \in [pc : Etape, verdict : Verdict, depart : Histoire,
                   branche : Branche \cup {Aucun}, mise : BOOLEAN, omis : BOOLEAN, etat : Etat],
           traces' \in [Passe -> Trace \cup {Aucun}], Autres',
           UNCHANGED <<branches, tete, operation, sales, moitie, piles, fichier, copies,
                       remotes, ligne, sauvegardes, compteur, repere>>
    PROVE  Inv'
<1>1. TypeOK'
  BY DEF Inv, TypeOK
<1>2. Comptees' /\ Remisees'
  BY DEF Comptees, Remisees, Rangee
<1>3. Ecrases'
  BY DEF Inv, Ecrases, Rangee, HEAD
<1> QED
  BY <1>1, <1>2, <1>3 DEF Inv

LEMMA ReposType ==
    Repos \in [pc : Etape, verdict : Verdict, depart : Histoire,
               branche : Branche \cup {Aucun}, mise : BOOLEAN, omis : BOOLEAN, etat : Etat]
BY DEF Repos, Etape, Verdict, Etat, Histoire

LEMMA RefuserTuerInv ==
    ASSUME Inv, Refuser \/ Tuer
    PROVE  Inv'
<1>1. /\ montre' = Aucun /\ p' \in {p, Repos} /\ p'.pc = "repos"
      /\ UNCHANGED <<branches, tete, operation, sales, moitie, piles, fichier, copies,
                     remotes, ligne, sauvegardes, traces, compteur, repere>>
  BY DEF Refuser, Tuer, Repos, depot, arbre, disque, amont
<1>2. Autres' /\ traces' \in [Passe -> Trace \cup {Aucun}]
  BY <1>1 DEF Inv, Autres, TypeOK
<1> QED
  BY <1>1, <1>2, ReposType, ReposInv DEF Inv, TypeOK

-------------------------------------------------------------------------------
\* The pass at work.

LEMMA InitInv == Init => Inv
<1> SUFFICES ASSUME Init PROVE Inv
  OBVIOUS
<1>1. PICK h \in Lignes, b \in {BrancheDuManifeste, Aucun}, f \in {"sien", "absent"} :
        /\ branches = [x \in Branche |-> IF x = BrancheDuManifeste THEN h ELSE {}]
        /\ tete = [branche |-> b, detachee |-> IF b = Aucun THEN h ELSE {}]
        /\ remotes = h /\ ligne = h
        /\ fichier = (IF Suit(h) THEN "suivi" ELSE f)
  BY DEF Init
<1>2. /\ sauvegardes = {} /\ operation = Aucun /\ sales = {} /\ moitie = FALSE
      /\ piles = <<>> /\ copies = {} /\ traces = [k \in Passe |-> Aucun]
      /\ compteur = 0 /\ montre = Aucun /\ p = Repos /\ repere = Aucun /\ p.pc = "repos"
  BY DEF Init, Repos
<1>3. h \in Histoire /\ {} \in Histoire
  BY Histoires, Bornes DEF Histoire, Commit
<1>4. HEAD = h
  BY <1>1, Noms DEF HEAD
<1>5. TypeOK
  <2>1. /\ branches \in [Branche -> Histoire]
        /\ tete \in [branche : Branche \cup {Aucun}, detachee : Histoire]
    BY <1>1, <1>3, Noms
  <2>2. piles \in Seq(Remise) /\ traces \in [Passe -> Trace \cup {Aucun}]
        /\ compteur \in 0 .. MaxPasse
    BY <1>2, Bornes
  <2> QED
    BY <1>1, <1>2, <1>3, <2>1, <2>2, ReposType DEF TypeOK
<1>6. Comptees /\ Remisees /\ Autres
  BY <1>2 DEF Comptees, Remisees, Rangee, Autres
<1>7. Ecrases
  BY <1>1, <1>2, <1>4 DEF Ecrases, Rangee
<1> QED
  BY <1>5, <1>6, <1>7 DEF Inv

\* A pass that is done with the clone, or leaves it as it stands.
LEMMA FinInv ==
    ASSUME Inv, TypeOK', p'.pc = "fin", UNCHANGED <<traces, compteur, copies>>,
           fichier' = "sien" => ~Suit(HEAD')
    PROVE  Inv'
<1>1. Comptees' /\ Remisees' /\ Autres'
  BY DEF Inv, Comptees, Remisees, Rangee, Autres
<1>2. Ecrases'
  BY DEF Inv, Ecrases, Rangee
<1> QED
  BY <1>1, <1>2 DEF Inv

LEMMA SansGesteInv ==
    ASSUME Inv, Sauter \/ CopierRate \/ RemiseRefusee
    PROVE  Inv'
<1> USE DEF depot, arbre, disque, amont, registre
<1>1. /\ p.pc # "repos" /\ p'.pc = "fin" /\ sauvegardes' \subseteq sauvegardes
      /\ \E e \in Etat : p' = [p EXCEPT !.pc = "fin", !.etat = e]
      /\ UNCHANGED <<branches, tete, operation, sales, moitie, piles, fichier, copies,
                     remotes, ligne, traces, compteur, montre, repere>>
  BY DEF Sauter, CopierRate, RemiseRefusee, Etat, Inv, TypeOK
<1>2. TypeOK'
  BY <1>1, ZenonT(60) DEF Inv, TypeOK, Etape
<1>3. fichier' = "sien" => ~Suit(HEAD')
  BY <1>1 DEF Inv, Ecrases, HEAD
<1> QED
  BY <1>1, <1>2, <1>3, FinInv

LEMMA SauvegarderInv ==
    ASSUME Inv, Sauvegarder
    PROVE  Inv'
<1>1. /\ p.pc = "constate"
      /\ p' = [p EXCEPT !.pc = "sauve", !.depart = HEAD, !.branche = tete.branche]
      /\ repere' = [passe |-> compteur, branches |-> branches, tete |-> tete]
      /\ UNCHANGED <<branches, tete, operation, sales, moitie, piles, fichier, copies,
                     remotes, ligne, traces, compteur, montre>>
  BY DEF Sauvegarder, depot, arbre, disque, amont
<1>2. HEAD \in Histoire /\ tete.branche \in Branche \cup {Aucun} /\ compteur \in Passe
      /\ montre \in Montre
  BY <1>1, TeteType DEF Inv, TypeOK
<1>3. NomHead \in Nom
  BY <1>2, Noms DEF NomHead, NomTirage, NomDe, Nom
<1>4. NomCible # Aucun =>
        /\ Autre(tete.branche) \in Branche
        /\ NomCible = NomDe("retour", Autre(tete.branche), compteur)
  <2>1. Autre(tete.branche) \in Branche \cup {Aucun}
    BY <1>2 DEF Autre, Montre
  <2> QED
    BY <2>1 DEF NomCible
<1>5. sauvegardes' \subseteq Sauvegarde
  <2>1. [nom |-> NomHead, h |-> HEAD] \in Sauvegarde
    BY <1>2, <1>3 DEF Sauvegarde
  <2>2. NomCible # Aucun =>
          [nom |-> NomCible, h |-> branches[Autre(tete.branche)]] \in Sauvegarde
    BY <1>2, <1>4 DEF NomDe, Nom, Sauvegarde, Inv, TypeOK
  <2> QED
    BY <2>1, <2>2 DEF Sauvegarder, Inv, TypeOK
<1>6. p' \in [pc : Etape, verdict : Verdict, depart : Histoire,
              branche : Branche \cup {Aucun}, mise : BOOLEAN, omis : BOOLEAN, etat : Etat]
      /\ p'.pc = "sauve" /\ p'.depart = HEAD
  BY <1>1, <1>2 DEF Inv, TypeOK, Etape
<1>7. repere' \in [passe : Passe, branches : [Branche -> Histoire],
                   tete : [branche : Branche \cup {Aucun}, detachee : Histoire]]
  BY <1>1, <1>2 DEF Inv, TypeOK
<1>8. TypeOK'
  BY <1>1, <1>2, <1>5, <1>6, <1>7 DEF Inv, TypeOK
<1>9. Comptees' /\ Remisees' /\ Autres'
  BY <1>1, <1>6 DEF Inv, Comptees, Remisees, Rangee, Autres
<1>10. Ecrases'
  BY <1>1, <1>6 DEF Inv, Ecrases, Rangee, HEAD
<1> QED
  BY <1>8, <1>9, <1>10 DEF Inv

LEMMA RemiserInv ==
    ASSUME Inv, Remiser
    PROVE  Inv'
<1>1. /\ p.pc = "sauve"
      /\ UNCHANGED <<branches, tete, operation, fichier, copies, remotes, ligne,
                     sauvegardes, traces, compteur, montre, repere>>
  BY DEF Remiser, depot, disque, amont, registre
<1> DEFINE r == [retouches |-> sales, moitie |-> moitie, passe |-> compteur]
<1>2. r \in Remise
  BY RemiseType DEF Inv, TypeOK
<1>3. /\ r.passe = compteur
      /\ \/ /\ piles' = Append(piles, r) /\ sales' = {} /\ moitie' = FALSE
            /\ p' = [p EXCEPT !.pc = "remise", !.mise = TRUE]
         \/ /\ UNCHANGED <<sales, moitie, piles>>
            /\ p' = [p EXCEPT !.pc = "remise", !.mise = FALSE]
  BY DEF Remiser, arbre
<1> HIDE DEF r
<1>4. /\ Append(piles, r) \in Seq(Remise) /\ Append(piles, r) # <<>>
      /\ Append(piles, r)[Len(Append(piles, r))] = r
  <2>1. piles \in Seq(Remise)
    BY DEF Inv, TypeOK
  <2>2. /\ Append(piles, r) \in Seq(Remise)
        /\ Len(Append(piles, r)) = Len(piles) + 1
        /\ Append(piles, r)[Len(piles) + 1] = r
    BY <1>2, <2>1, AppendProperties
  <2>3. Append(piles, r) # <<>>
    BY <1>2, <2>1, AppendProperties
  <2> QED
    BY <2>2, <2>3
<1>5. /\ sales' \subseteq Retouches /\ moitie' \in BOOLEAN /\ piles' \in Seq(Remise)
  BY <1>3, <1>4 DEF Inv, TypeOK
<1>6. p' \in [pc : Etape, verdict : Verdict, depart : Histoire,
              branche : Branche \cup {Aucun}, mise : BOOLEAN, omis : BOOLEAN, etat : Etat]
      /\ p'.pc = "remise" /\ p'.depart = p.depart
  BY <1>3 DEF Inv, TypeOK, Etape
<1>7. TypeOK'
  BY <1>1, <1>5, <1>6 DEF Inv, TypeOK
<1>8. Remisees'
  <2>1. CASE /\ piles' = Append(piles, r) /\ sales' = {}
             /\ p' = [p EXCEPT !.pc = "remise", !.mise = TRUE]
    BY <1>1, <1>3, <1>4, <2>1 DEF Remisees
  <2>2. CASE p' = [p EXCEPT !.pc = "remise", !.mise = FALSE]
    <3>1. p'.mise = FALSE
      BY <2>2 DEF Inv, TypeOK
    <3> QED
      BY <3>1 DEF Remisees
  <2> QED
    BY <1>3, <2>1, <2>2
<1>9. Comptees' /\ Autres'
  BY <1>1, <1>6 DEF Inv, Comptees, Autres
<1>10. Ecrases'
  BY <1>1, <1>6 DEF Inv, Ecrases, Rangee, HEAD
<1> QED
  BY <1>7, <1>8, <1>9, <1>10 DEF Inv

LEMMA CopierInv ==
    ASSUME Inv, Copier
    PROVE  Inv'
<1>1. /\ p.pc = "remise" /\ p' = [p EXCEPT !.pc = "copie"]
      /\ copies' = IF fichier = "sien" /\ Suit(montre.cible \ p.depart)
                   THEN copies \cup {compteur} ELSE copies
      /\ UNCHANGED <<branches, tete, operation, sales, moitie, piles, fichier,
                     remotes, ligne, sauvegardes, traces, compteur, montre, repere>>
  BY DEF Copier, Menace, depot, arbre, amont, registre
<1>2. compteur \in Passe
  BY <1>1 DEF Inv, TypeOK
<1>3. p' \in [pc : Etape, verdict : Verdict, depart : Histoire,
              branche : Branche \cup {Aucun}, mise : BOOLEAN, omis : BOOLEAN, etat : Etat]
      /\ p'.pc = "copie" /\ p'.depart = p.depart /\ p'.mise = p.mise
  BY <1>1 DEF Inv, TypeOK, Etape
<1>4. TypeOK'
  BY <1>1, <1>2, <1>3 DEF Inv, TypeOK
<1>5. Comptees' /\ Remisees' /\ Autres'
  BY <1>1, <1>3 DEF Inv, Comptees, Remisees, Rangee, Autres
<1>6. Ecrases'
  <2>1. HEAD' = HEAD /\ HEAD = p.depart /\ compteur \notin copies
        /\ (fichier = "sien" => ~Suit(p.depart))
    BY <1>1 DEF Inv, Ecrases, HEAD
  <2>2. \A k \in copies' : k <= compteur
    <3>1. compteur <= compteur
      BY <1>2, Bornes DEF Passe
    <3> QED
      BY <1>1, <3>1 DEF Inv, Ecrases
  <2> QED
    BY <1>1, <1>3, <2>1, <2>2 DEF Ecrases, Rangee
<1> QED
  BY <1>4, <1>5, <1>6 DEF Inv

LEMMA OmettreInv ==
    ASSUME Inv, Omettre
    PROVE  Inv'
<1>1. /\ p.pc = "remise" /\ fichier = "sien"
      /\ p' = [p EXCEPT !.pc = "copie", !.omis = TRUE]
      /\ UNCHANGED <<branches, tete, operation, sales, moitie, piles, fichier, copies,
                     remotes, ligne, sauvegardes, traces, compteur, montre, repere>>
  BY DEF Omettre, Menace, depot, arbre, disque, amont, registre
<1>2. p' \in [pc : Etape, verdict : Verdict, depart : Histoire,
              branche : Branche \cup {Aucun}, mise : BOOLEAN, omis : BOOLEAN, etat : Etat]
      /\ p'.pc = "copie" /\ p'.depart = p.depart /\ p'.mise = p.mise /\ p'.omis = TRUE
  BY <1>1 DEF Inv, TypeOK, Etape
<1>3. TypeOK'
  BY <1>1, <1>2 DEF Inv, TypeOK
<1>4. Comptees' /\ Remisees' /\ Autres'
  BY <1>1, <1>2 DEF Inv, Comptees, Remisees, Rangee, Autres
<1>5. Ecrases'
  BY <1>1, <1>2 DEF Inv, Ecrases, Rangee, HEAD
<1> QED
  BY <1>3, <1>4, <1>5 DEF Inv

-------------------------------------------------------------------------------
\* The gesture, and what undoes it.

\* The pass at work keeps its start, its entry of the stash and its copies.
LEMMA GesteInv ==
    ASSUME Inv, TypeOK', p.pc \in Rangee,
           p'.pc \in {"extrait", "rate", "abandonne", "remis", "pop"},
           p'.depart = p.depart, p'.mise = p.mise, p'.omis = p.omis,
           p.mise => sales' = {},
           UNCHANGED <<piles, copies, traces, compteur, montre>>,
           fichier' = "sien" => ~Suit(HEAD'),
           p'.pc = "remis" => HEAD' = p.depart,
           p'.pc = "rate" => operation' \in Operation /\ operation'.h = p.depart,
           p'.pc \in {"extrait", "rate", "abandonne"} =>
              /\ p.pc \in {"copie", "extrait", "rate", "abandonne"}
              /\ fichier' = "sien" => fichier = "sien"
    PROVE  Inv'
<1>1. Comptees' /\ Remisees' /\ Autres'
  BY DEF Inv, Comptees, Remisees, Rangee, Autres
<1>2. Ecrases'
  BY DEF Inv, Ecrases, Rangee
<1> QED
  BY <1>1, <1>2 DEF Inv

LEMMA PasseType ==
    ASSUME Inv, NEW e \in Etape, NEW t \in Etat, p' = [p EXCEPT !.pc = e, !.etat = t]
    PROVE  /\ p' \in [pc : Etape, verdict : Verdict, depart : Histoire,
                      branche : Branche \cup {Aucun}, mise : BOOLEAN, omis : BOOLEAN, etat : Etat]
           /\ p'.pc = e /\ p'.depart = p.depart /\ p'.mise = p.mise /\ p'.omis = p.omis
BY DEF Inv, TypeOK

\* HEAD goes to b, at h, and the tree with it.
LEMMA PorteInv ==
    ASSUME Inv, NEW b \in Branche \cup {Aucun}, NEW h \in Histoire, Porter(b, h),
           NEW e \in {"extrait", "rate", "abandonne", "pop", "fin"}, NEW t \in Etat,
           p.pc \in {"copie", "extrait", "rate"}, p' = [p EXCEPT !.pc = e, !.etat = t],
           operation' \in Operation \cup {Aucun},
           e = "rate" => operation' \in Operation /\ operation'.h = p.depart,
           UNCHANGED <<sales, moitie, piles, copies, remotes, ligne, sauvegardes,
                       traces, compteur, montre, repere>>
    PROVE  Inv'
<1>1. /\ branches' \in [Branche -> Histoire]
      /\ tete' \in [branche : Branche \cup {Aucun}, detachee : Histoire]
      /\ HEAD' = h
  BY Deplace DEF Inv, Porter
<1>2. /\ fichier' \in {"sien", "suivi", "absent"}
      /\ fichier' = "sien" => fichier = "sien" /\ ~Suit(h)
  BY FichierType DEF Inv, Porter
<1>3. /\ p' \in [pc : Etape, verdict : Verdict, depart : Histoire,
                 branche : Branche \cup {Aucun}, mise : BOOLEAN, omis : BOOLEAN, etat : Etat]
      /\ p'.pc = e /\ p'.depart = p.depart /\ p'.mise = p.mise /\ p'.omis = p.omis
  BY PasseType DEF Etape
<1>4. TypeOK'
  BY <1>1, <1>2, <1>3 DEF Inv, TypeOK
<1>5. p.mise => sales = {}
  BY DEF Inv, Remisees, Rangee
<1>6. CASE e = "fin"
  BY <1>1, <1>2, <1>3, <1>4, <1>6, FinInv
<1>7. CASE e # "fin"
  BY <1>1, <1>2, <1>3, <1>4, <1>5, <1>7, GesteInv DEF Rangee
<1> QED
  BY <1>6, <1>7

LEMMA CibleType ==
    ASSUME Inv, p.pc # "repos"
    PROVE  /\ HEAD \in Histoire /\ montre.cible \in Histoire /\ p.depart \in Histoire
           /\ montre.brCible \in Branche \cup {Aucun}
           /\ p.branche \in Branche \cup {Aucun} /\ p.etat \in Etat
           /\ tete.branche \in Branche \cup {Aucun}
BY TeteType DEF Inv, TypeOK, Montre

LEMMA IntegrerInv ==
    ASSUME Inv, Integrer
    PROVE  Inv'
<1>1. /\ p.pc = "copie"
      /\ UNCHANGED <<operation, sales, moitie, piles, copies, remotes, ligne,
                     sauvegardes, traces, compteur, montre, repere>>
      /\ \E t \in Etat : p' = [p EXCEPT !.pc = "pop", !.etat = t]
  BY DEF Integrer, arbre, amont, registre, Etat
<1>2. \E b \in Branche \cup {Aucun}, h \in Histoire : Porter(b, h)
  BY <1>1, CibleType, IntegreeType DEF Integrer, Inv
<1> QED
  BY <1>1, <1>2, PorteInv DEF Inv, TypeOK

LEMMA ButerInv ==
    ASSUME Inv, Buter
    PROVE  Inv'
<1>1. /\ p.pc = "copie"
      /\ UNCHANGED <<sales, moitie, piles, copies, remotes, ligne,
                     sauvegardes, traces, compteur, montre, repere>>
      /\ p' = [p EXCEPT !.pc = "rate", !.etat = "conflit_annule"]
  BY DEF Buter, arbre, amont, registre
<1>2. /\ operation' = [genre |-> IF montre.strategie = "rebase" THEN "rebase" ELSE "merge",
                       branche |-> p.branche, h |-> p.depart, fini |-> Integree]
  BY DEF Buter
<1>3. operation' \in Operation /\ operation'.h = p.depart
  BY <1>1, <1>2, CibleType, IntegreeType DEF Operation, Inv
<1>4. CASE montre.strategie = "rebase"
  <2>1. Porter(Aucun, montre.cible)
    BY <1>4 DEF Buter
  <2>2. "conflit_annule" \in Etat
    BY DEF Etat
  <2> QED
    BY <1>1, <1>3, <2>1, <2>2, CibleType, PorteInv
<1>5. CASE montre.strategie # "rebase"
  <2>1. fichier' = FichierVers(HEAD, HEAD \cup montre.cible) /\ UNCHANGED <<branches, tete>>
    BY <1>5 DEF Buter
  <2>2. /\ fichier' \in {"sien", "suivi", "absent"}
        /\ fichier' = "sien" => fichier = "sien" /\ ~Suit(HEAD \cup montre.cible)
    BY <2>1, FichierType DEF Inv
  <2>3. fichier' = "sien" => fichier = "sien" /\ ~Suit(HEAD')
    BY <2>1, <2>2, SuitUnion DEF HEAD
  <2>4. /\ p' \in [pc : Etape, verdict : Verdict, depart : Histoire,
                   branche : Branche \cup {Aucun}, mise : BOOLEAN, omis : BOOLEAN, etat : Etat]
        /\ p'.pc = "rate" /\ p'.depart = p.depart /\ p'.mise = p.mise /\ p'.omis = p.omis
    BY <1>1, PasseType DEF Etape, Etat
  <2>5. TypeOK'
    BY <1>1, <1>3, <2>1, <2>2, <2>4 DEF Inv, TypeOK
  <2>6. p.mise => sales' = {}
    BY <1>1 DEF Inv, Remisees, Rangee
  <2> QED
    BY <1>1, <1>3, <2>3, <2>4, <2>5, <2>6, GesteInv DEF Rangee
<1> QED
  BY <1>4, <1>5

LEMMA RetourInv ==
    ASSUME Inv, Extraire \/ Ramener
    PROVE  Inv'
<1>1. /\ p.pc \in {"copie", "extrait"}
      /\ UNCHANGED <<operation, sales, moitie, piles, copies, remotes, ligne,
                     sauvegardes, traces, compteur, montre, repere>>
  BY DEF Extraire, Ramener, arbre, amont, registre
<1>2. CASE Extraire
  <2>1. Autre(p.branche) \in Branche
    BY <1>1, <1>2, CibleType DEF Extraire, Autre
  <2>2. /\ branches[Autre(p.branche)] \in Histoire
        /\ Porter(Autre(p.branche), branches[Autre(p.branche)])
    BY <1>2, <2>1 DEF Extraire, Inv, TypeOK
  <2>3. p' = [p EXCEPT !.pc = "extrait", !.etat = p.etat] /\ p.etat \in Etat
    BY <1>1, <1>2, CibleType DEF Extraire, Inv, TypeOK
  <2> QED
    BY <1>1, <2>1, <2>2, <2>3, PorteInv DEF Inv, TypeOK
<1>3. CASE Ramener
  <2>1. /\ Porter(montre.brCible, montre.cible)
        /\ p' = [p EXCEPT !.pc = "fin", !.etat = "recule"] /\ "recule" \in Etat
    BY <1>3 DEF Ramener, Etat
  <2> QED
    BY <1>1, <2>1, CibleType, PorteInv DEF Inv, TypeOK
<1> QED
  BY <1>2, <1>3

LEMMA EchouerInv ==
    ASSUME Inv, Echouer
    PROVE  Inv'
<1>1. /\ p.pc \in {"copie", "extrait"}
      /\ p' = [p EXCEPT !.pc = "abandonne", !.etat = "erreur"]
      /\ UNCHANGED <<branches, tete, operation, sales, piles, copies, remotes, ligne,
                     sauvegardes, traces, compteur, montre, repere>>
      /\ moitie' \in BOOLEAN
      /\ fichier' \in {fichier, FichierVers(HEAD, montre.cible)}
  BY DEF Echouer, depot, amont, registre, Inv, TypeOK
<1>2. /\ fichier' \in {"sien", "suivi", "absent"}
      /\ fichier' = "sien" => fichier = "sien"
  BY <1>1, FichierType DEF Inv, TypeOK
<1>3. fichier' = "sien" => ~Suit(HEAD')
  BY <1>1, <1>2 DEF Inv, Ecrases, HEAD
<1>4. /\ p' \in [pc : Etape, verdict : Verdict, depart : Histoire,
                 branche : Branche \cup {Aucun}, mise : BOOLEAN, omis : BOOLEAN, etat : Etat]
      /\ p'.pc = "abandonne" /\ p'.depart = p.depart /\ p'.mise = p.mise /\ p'.omis = p.omis
  BY <1>1, PasseType DEF Etape, Etat
<1>5. TypeOK'
  BY <1>1, <1>2, <1>4 DEF Inv, TypeOK
<1>6. p.mise => sales' = {}
  BY <1>1 DEF Inv, Remisees, Rangee
<1> QED
  BY <1>1, <1>2, <1>3, <1>4, <1>5, <1>6, GesteInv DEF Rangee

LEMMA AbandonnerInv ==
    ASSUME Inv, Abandonner
    PROVE  Inv'
<1>1. /\ p.pc = "rate" /\ operation \in Operation /\ operation.h = p.depart
      /\ UNCHANGED <<sales, moitie, piles, copies, remotes, ligne, sauvegardes,
                     traces, compteur, montre, repere>>
  BY DEF Abandonner, arbre, amont, registre, Inv, Comptees, Ecrases
<1>2. CASE operation' = Aucun /\ Porter(operation.branche, operation.h)
           /\ p' = [p EXCEPT !.pc = "abandonne"]
  <2>1. p' = [p EXCEPT !.pc = "abandonne", !.etat = p.etat] /\ p.etat \in Etat
    BY <1>2 DEF Inv, TypeOK
  <2>2. operation.branche \in Branche \cup {Aucun} /\ operation.h \in Histoire
    BY <1>1 DEF Operation
  <2> QED
    BY <1>1, <1>2, <2>1, <2>2, PorteInv
<1>3. CASE p' = [p EXCEPT !.pc = "fin", !.etat = "restauration_echouee"]
           /\ UNCHANGED <<branches, tete, operation, fichier>>
  <2>1. /\ p' \in [pc : Etape, verdict : Verdict, depart : Histoire,
                   branche : Branche \cup {Aucun}, mise : BOOLEAN, omis : BOOLEAN, etat : Etat]
        /\ p'.pc = "fin"
    BY <1>3, PasseType DEF Etape, Etat
  <2>2. TypeOK'
    BY <1>1, <1>3, <2>1 DEF Inv, TypeOK
  <2>3. fichier' = "sien" => ~Suit(HEAD')
    BY <1>3 DEF Inv, Ecrases, HEAD
  <2> QED
    BY <1>1, <2>1, <2>2, <2>3, FinInv
<1> QED
  BY <1>2, <1>3 DEF Abandonner, depot

LEMMA RemettreInv ==
    ASSUME Inv, RemettreAuDepart
    PROVE  Inv'
<1>1. /\ p.pc = "abandonne"
      /\ UNCHANGED <<operation, piles, copies, remotes, ligne, sauvegardes,
                     traces, compteur, montre, repere>>
  BY DEF RemettreAuDepart, amont, registre
<1>2. (p.mise => sales = {}) /\ p.depart \in Histoire /\ p.branche \in Branche \cup {Aucun}
  BY <1>1, CibleType DEF Inv, Remisees, Rangee
<1>3. \A f : Restes(f) \subseteq {f, "absent"}
  BY DEF Restes
<1>4. CASE /\ HEAD = p.depart /\ p' = [p EXCEPT !.pc = "remis"]
           /\ fichier' \in Restes(fichier) /\ UNCHANGED <<branches, tete, sales, moitie>>
  <2>1. /\ p' \in [pc : Etape, verdict : Verdict, depart : Histoire,
                   branche : Branche \cup {Aucun}, mise : BOOLEAN, omis : BOOLEAN, etat : Etat]
        /\ p'.pc = "remis" /\ p'.depart = p.depart /\ p'.mise = p.mise /\ p'.omis = p.omis
    BY <1>4 DEF Inv, TypeOK, Etape
  <2>2. fichier' \in {"sien", "suivi", "absent"} /\ (fichier' = "sien" => fichier = "sien")
    BY <1>3, <1>4 DEF Inv, TypeOK
  <2>3. TypeOK'
    BY <1>1, <1>4, <2>1, <2>2 DEF Inv, TypeOK
  <2>4. HEAD' = p.depart /\ (fichier' = "sien" => ~Suit(HEAD'))
    BY <1>4, <2>2 DEF Inv, Ecrases, HEAD
  <2> QED
    BY <1>1, <1>2, <1>4, <2>1, <2>3, <2>4, GesteInv DEF Rangee
<1>5. CASE /\ Deplacer(p.branche, p.depart) /\ p' = [p EXCEPT !.pc = "remis"]
           /\ fichier' \in Restes(FichierVers(HEAD, p.depart))
           /\ sales' = {} /\ moitie' = FALSE
  <2>1. /\ p' \in [pc : Etape, verdict : Verdict, depart : Histoire,
                   branche : Branche \cup {Aucun}, mise : BOOLEAN, omis : BOOLEAN, etat : Etat]
        /\ p'.pc = "remis" /\ p'.depart = p.depart /\ p'.mise = p.mise /\ p'.omis = p.omis
    BY <1>5 DEF Inv, TypeOK, Etape
  <2>2. /\ branches' \in [Branche -> Histoire]
        /\ tete' \in [branche : Branche \cup {Aucun}, detachee : Histoire]
        /\ HEAD' = p.depart
    BY <1>2, <1>5, Deplace DEF Inv
  <2>3. /\ fichier' \in {"sien", "suivi", "absent"}
        /\ fichier' = "sien" => fichier = "sien" /\ ~Suit(p.depart)
    BY <1>3, <1>5, FichierType DEF Inv
  <2>4. TypeOK'
    BY <1>1, <1>5, <2>1, <2>2, <2>3 DEF Inv, TypeOK
  <2> QED
    BY <1>1, <1>5, <2>1, <2>2, <2>3, <2>4, GesteInv DEF Rangee
<1>6. CASE /\ p' = [p EXCEPT !.pc = "fin", !.etat = "restauration_echouee"]
           /\ UNCHANGED <<branches, tete, fichier, sales, moitie>>
  <2>1. /\ p' \in [pc : Etape, verdict : Verdict, depart : Histoire,
                   branche : Branche \cup {Aucun}, mise : BOOLEAN, omis : BOOLEAN, etat : Etat]
        /\ p'.pc = "fin"
    BY <1>6, PasseType DEF Etape, Etat
  <2>2. TypeOK'
    BY <1>1, <1>6, <2>1 DEF Inv, TypeOK
  <2>3. fichier' = "sien" => ~Suit(HEAD')
    BY <1>6 DEF Inv, Ecrases, HEAD
  <2> QED
    BY <1>1, <2>1, <2>2, <2>3, FinInv
<1>7. CASE /\ Deplacer(p.branche, p.depart)
           /\ p' = [p EXCEPT !.pc = "fin", !.etat = "restauration_echouee"]
           /\ fichier' = FichierVers(HEAD, p.depart) /\ sales' = {} /\ moitie' = FALSE
  <2>1. /\ p' \in [pc : Etape, verdict : Verdict, depart : Histoire,
                   branche : Branche \cup {Aucun}, mise : BOOLEAN, omis : BOOLEAN, etat : Etat]
        /\ p'.pc = "fin"
    BY <1>7, PasseType DEF Etape, Etat
  <2>2. /\ branches' \in [Branche -> Histoire]
        /\ tete' \in [branche : Branche \cup {Aucun}, detachee : Histoire]
        /\ HEAD' = p.depart
    BY <1>2, <1>7, Deplace DEF Inv
  <2>3. /\ fichier' \in {"sien", "suivi", "absent"}
        /\ fichier' = "sien" => ~Suit(p.depart)
    BY <1>7, FichierType DEF Inv
  <2>4. TypeOK'
    BY <1>1, <1>7, <2>1, <2>2, <2>3 DEF Inv, TypeOK
  <2> QED
    BY <1>1, <2>1, <2>2, <2>3, <2>4, FinInv
<1> QED
  BY <1>4, <1>5, <1>6, <1>7 DEF RemettreAuDepart

LEMMA RendreInv ==
    ASSUME Inv, RendreEtRetirer
    PROVE  Inv'
<1>1. /\ p.pc = "remis" /\ p' = [p EXCEPT !.pc = "pop"]
      /\ fichier' = IF compteur \in copies THEN "sien" ELSE fichier
      /\ sauvegardes' \subseteq sauvegardes
      /\ UNCHANGED <<branches, tete, operation, sales, moitie, piles, copies, remotes,
                     ligne, traces, compteur, montre, repere>>
  BY DEF RendreEtRetirer, depot, arbre, amont, registre
<1>2. /\ p' \in [pc : Etape, verdict : Verdict, depart : Histoire,
                 branche : Branche \cup {Aucun}, mise : BOOLEAN, omis : BOOLEAN, etat : Etat]
      /\ p'.pc = "pop" /\ p'.depart = p.depart /\ p'.mise = p.mise /\ p'.omis = p.omis
  BY <1>1 DEF Inv, TypeOK, Etape
<1>3. TypeOK'
  BY <1>1, <1>2 DEF Inv, TypeOK
<1>4. fichier' = "sien" => ~Suit(HEAD')
  BY <1>1 DEF Inv, Ecrases, HEAD, Rangee
<1>5. p.mise => sales' = {}
  BY <1>1 DEF Inv, Remisees, Rangee
<1> QED
  BY <1>1, <1>2, <1>3, <1>4, <1>5, GesteInv DEF Rangee

LEMMA RendreRateInv ==
    ASSUME Inv, RendreRate
    PROVE  Inv'
<1>1. /\ p.pc = "remis" /\ fichier' \in {fichier, "absent"}
      /\ p' = [p EXCEPT !.pc = "fin", !.etat = "interne"]
      /\ UNCHANGED <<branches, tete, operation, sales, moitie, piles, copies, remotes,
                     ligne, sauvegardes, traces, compteur, montre, repere>>
  BY DEF RendreRate, depot, arbre, amont, registre
<1>2. /\ p' \in [pc : Etape, verdict : Verdict, depart : Histoire,
                 branche : Branche \cup {Aucun}, mise : BOOLEAN, omis : BOOLEAN, etat : Etat]
      /\ p'.pc = "fin"
  BY <1>1, PasseType DEF Etape, Etat
<1>3. TypeOK'
  BY <1>1, <1>2 DEF Inv, TypeOK
<1>4. fichier' = "sien" => ~Suit(HEAD')
  BY <1>1 DEF Inv, Ecrases, HEAD
<1> QED
  BY <1>1, <1>2, <1>3, <1>4, FinInv

\* What the last step of a pass may make of the tree and the stash.
LEMMA ReappliquerEffet ==
    ASSUME Inv, Reappliquer
    PROVE  \/ UNCHANGED <<sales, moitie, piles>>
           \/ /\ p.mise /\ piles # <<>> /\ piles[Len(piles)].passe = compteur
              /\ sales' = sales \cup piles[Len(piles)].retouches
              /\ moitie' = (moitie \/ piles[Len(piles)].moitie)
              /\ piles' = SubSeq(piles, 1, Len(piles) - 1)
           \/ sales = {} /\ sales' = {} /\ moitie' = FALSE /\ piles' = piles
BY DEF Reappliquer, arbre, Inv, Remisees, Rangee

LEMMA ReappliquerInv ==
    ASSUME Inv, Reappliquer
    PROVE  Inv'
<1>1. /\ p.pc = "pop"
      /\ UNCHANGED <<branches, tete, operation, fichier, copies, remotes,
                     ligne, sauvegardes, traces, compteur, montre, repere>>
  BY DEF Reappliquer, depot, disque, amont, registre
<1>2. \E t \in Etat : p' = [p EXCEPT !.pc = "fin", !.etat = t]
  <2>1. p.etat \in Etat /\ "stash_garde" \in Etat
    BY <1>1, CibleType DEF Etat
  <2>2. [p EXCEPT !.pc = "fin"] = [p EXCEPT !.pc = "fin", !.etat = p.etat]
    BY DEF Inv, TypeOK
  <2>3. CASE p' = [p EXCEPT !.pc = "fin"]
    BY <2>1, <2>2, <2>3
  <2>4. CASE p' = [p EXCEPT !.pc = "fin", !.etat =
                      IF @ \in {"avance", "tire"} THEN "stash_garde" ELSE @]
    BY <2>1, <2>4
  <2> QED
    BY <2>3, <2>4 DEF Reappliquer
<1>3. /\ p' \in [pc : Etape, verdict : Verdict, depart : Histoire,
                 branche : Branche \cup {Aucun}, mise : BOOLEAN, omis : BOOLEAN, etat : Etat]
      /\ p'.pc = "fin"
  BY <1>2, PasseType DEF Etape
<1>4. sales' \subseteq Retouches /\ moitie' \in BOOLEAN /\ piles' \in Seq(Remise)
  <2>1. piles # <<>> => /\ piles[Len(piles)] \in Remise
                        /\ SubSeq(piles, 1, Len(piles) - 1) \in Seq(Remise)
    BY Depile DEF Inv, TypeOK
  <2> QED
    BY <2>1, ReappliquerEffet DEF Inv, TypeOK, Remise
<1>5. TypeOK'
  BY <1>1, <1>3, <1>4 DEF Inv, TypeOK
<1>6. fichier' = "sien" => ~Suit(HEAD')
  BY <1>1 DEF Inv, Ecrases, HEAD
<1> QED
  BY <1>1, <1>3, <1>5, <1>6, FinInv

LEMMA InscrireInv ==
    ASSUME Inv, Inscrire
    PROVE  Inv'
<1> DEFINE n == NomDe(IF Retour THEN "retour" ELSE "pull",
                      IF Retour \/ p.branche # Aucun THEN p.branche
                      ELSE BrancheDuManifeste, compteur)
           a == Autre(p.branche)
           c == NomDe("retour", a, compteur)
           t == [branche |-> p.branche, sauvegarde |-> n,
                 arrivee |-> IF \/ p.etat = "interne"
                                \/ ~Retour /\ p.etat = "restauration_echouee"
                             THEN {} ELSE HEAD,
                 brArrivee |-> IF ~Retour THEN p.branche
                               ELSE IF p.etat = "recule" THEN tete.branche ELSE Aucun,
                 brCible |-> montre.brCible,
                 sauvegardeCible |-> IF a # Aucun /\ Existe(c) THEN c ELSE Aucun]
<1>1. /\ p.pc = "fin" /\ p' = Repos /\ p'.pc = "repos" /\ montre' = Aucun
      /\ UNCHANGED <<branches, tete, operation, sales, moitie, piles, fichier, copies,
                     remotes, ligne, sauvegardes, compteur, repere>>
  BY DEF Inscrire, Repos, depot, arbre, disque, amont
<1>2. traces' = traces \/ traces' = [traces EXCEPT ![compteur] = t]
  BY DEF Inscrire
<1>3. compteur \in Passe /\ HEAD \in Histoire /\ {} \in Histoire
      /\ p.branche \in Branche \cup {Aucun} /\ tete.branche \in Branche \cup {Aucun}
      /\ montre.brCible \in Branche \cup {Aucun}
  BY <1>1, CibleType DEF Inv, TypeOK, Histoire
<1>4. n \in Nom
  BY <1>3, Noms DEF NomDe, Nom
<1>5. a # Aucun => c \in Nom /\ montre.brCible # p.branche
  BY <1>3 DEF Autre, NomDe, Nom
<1>6. t \in Trace
  BY <1>3, <1>4, <1>5 DEF Trace
<1>7. t.sauvegardeCible # Aucun => t.brCible # t.branche
  BY <1>5
<1> HIDE DEF t
<1>8. traces' \in [Passe -> Trace \cup {Aucun}]
  BY <1>2, <1>6 DEF Inv, TypeOK
<1>9. Autres'
  BY <1>2, <1>3, <1>7 DEF Inv, TypeOK, Autres
<1> QED
  BY <1>1, <1>8, <1>9, ReposType, ReposInv

-------------------------------------------------------------------------------
\* The invariant, and the types.

LEMMA InvSuite == Inv /\ [Next]_vars => Inv'
<1> SUFFICES ASSUME Inv, [Next]_vars PROVE Inv'
  OBVIOUS
<1>1. CASE Demander
  BY <1>1, EssaiInv, LancerInv, RefuserTuerInv DEF Demander
<1>2. CASE Traiter
  BY <1>2, SansGesteInv, SauvegarderInv, RemiserInv, CopierInv, OmettreInv, IntegrerInv,
     ButerInv, RetourInv, EchouerInv, AbandonnerInv, RemettreInv, RendreInv, RendreRateInv,
     ReappliquerInv, InscrireInv, RefuserTuerInv DEF Traiter
<1>3. CASE Gerer
  BY <1>3, RestaurerInv, DeplacementInv, DehorsInv, TravailInv DEF Gerer
<1>4. CASE Travailler
  BY <1>4, ValiderInv, TravailInv, DeplacementInv, DehorsInv DEF Travailler
<1>5. CASE UNCHANGED vars
  BY <1>5 DEF vars, Inv, TypeOK, Comptees, Remisees, Rangee, Autres, Ecrases, HEAD
<1> QED
  BY <1>1, <1>2, <1>3, <1>4, <1>5 DEF Next

\* Every reachable state of the clone satisfies the invariant.
THEOREM Tient == Spec => []Inv
BY InitInv, InvSuite, PTL DEF Spec

\* The references, the stash, the records and the pass at work stay what the code takes
\* them for, whatever fails.
THEOREM TypesDuDepot == Spec => []TypeOK
<1>1. Inv => TypeOK
  BY DEF Inv
<1> QED
  BY <1>1, Tient, PTL

-------------------------------------------------------------------------------
\* The user's modifications and his entries of the stash.

\* A clone put back on its start by a pass that pushed nothing.
Effacee == RemettreAuDepart /\ ~p.mise /\ (HEAD # p.depart \/ tete.branche # p.branche)

\* All that a step may make of the work tree and the stash: nothing, modifications added,
\* an entry pushed that holds them, the pass's own entry put back, or the clone put back
\* on its start.
ArbreSuit ==
    \/ Effacee /\ piles' = piles
    \/ sales \subseteq sales' /\ piles' = piles
    \/ \E r \in Remise : r.retouches = sales /\ piles' = Append(piles, r)
    \/ /\ piles # <<>> /\ piles[Len(piles)].passe = compteur
       /\ sales' = sales \cup piles[Len(piles)].retouches
       /\ piles' = SubSeq(piles, 1, Len(piles) - 1)

LEMMA ArbreChange == ASSUME Inv, [Next]_vars PROVE ArbreSuit
<1> USE DEF depot, arbre, disque, amont, registre
<1>1. CASE UNCHANGED <<sales, piles>>
  BY <1>1 DEF ArbreSuit
<1>2. CASE Demander
  <2>1. UNCHANGED <<sales, piles>>
    BY <1>2 DEF Demander, EssaiASec, EssaiRetour, Lancer, Refuser
  <2> QED
    BY <1>1, <2>1
<1>3. CASE Traiter
  <2>1. CASE Remiser
    <3>1. [retouches |-> sales, moitie |-> moitie, passe |-> compteur] \in Remise
      BY RemiseType DEF Inv, TypeOK
    <3>2. \/ piles' = Append(piles, [retouches |-> sales, moitie |-> moitie,
                                      passe |-> compteur])
          \/ UNCHANGED <<sales, piles>>
      BY <2>1 DEF Remiser
    <3> QED
      BY <1>1, <3>1, <3>2 DEF ArbreSuit
  <2>2. CASE RemettreAuDepart
    <3>1. piles' = piles /\ (p.mise => sales = {})
      BY <2>2 DEF RemettreAuDepart, Inv, Remisees, Rangee
    <3>2. ~Effacee /\ ~p.mise => UNCHANGED sales
      BY <2>2 DEF RemettreAuDepart, Effacee
    <3> QED
      BY <3>1, <3>2 DEF ArbreSuit
  <2>3. CASE Reappliquer
    BY <2>3, ReappliquerEffet DEF ArbreSuit
  <2>4. CASE Sauter \/ Sauvegarder \/ RemiseRefusee \/ Copier \/ Omettre \/ CopierRate
             \/ Integrer \/ Buter \/ Extraire \/ Ramener \/ Echouer
    <3>1. UNCHANGED <<sales, piles>>
      BY <2>4 DEF Sauter, Sauvegarder, RemiseRefusee, Copier, Omettre, CopierRate, Integrer,
                  Buter, Extraire, Ramener, Echouer
    <3> QED
      BY <1>1, <3>1
  <2>5. CASE Abandonner \/ RendreEtRetirer \/ RendreRate \/ Inscrire \/ Tuer
    <3>1. UNCHANGED <<sales, piles>>
      BY <2>5 DEF Abandonner, RendreEtRetirer, RendreRate, Inscrire, Tuer
    <3> QED
      BY <1>1, <3>1
  <2> QED
    BY <1>3, <2>1, <2>2, <2>3, <2>4, <2>5 DEF Traiter
<1>4. CASE Gerer
  <2>1. ASSUME NEW s \in sauvegardes, Restaurer(s) \/ RestaurerAMoitie(s) \/ Supprimer(s)
        PROVE  UNCHANGED <<sales, piles>>
    BY <2>1 DEF Restaurer, RestaurerAMoitie, Supprimer
  <2>2. ASSUME NEW i \in DOMAIN piles, AppliquerRemise(i)
        PROVE  sales = {} /\ piles' = piles
    BY <2>2 DEF AppliquerRemise, Sale
  <2> QED
    BY <1>1, <1>4, <2>1, <2>2 DEF Gerer, ArbreSuit
<1>5. CASE Travailler
  <2>1. ASSUME NEW e \in Retouches, Retoucher(e)
        PROVE  sales \subseteq sales' /\ piles' = piles
    BY <2>1 DEF Retoucher
  <2>2. CASE MettreDeCote
    <3>1. [retouches |-> sales, moitie |-> moitie, passe |-> 0] \in Remise
      BY RemiseType, Bornes
    <3> QED
      BY <2>2, <3>1 DEF MettreDeCote, ArbreSuit
  <2>3. ASSUME \/ \E c \in Locaux : Valider(c)
               \/ \E x \in Branche : Changer(x)
               \/ Pousser \/ Deposer
               \/ Denouer(operation.h) \/ Denouer(operation.fini)
               \/ \E l \in Lignes : Publier(l)
        PROVE  UNCHANGED <<sales, piles>>
    BY <2>3 DEF Valider, Changer, Pousser, Deposer, Denouer, Publier
  <2> QED
    BY <1>1, <1>5, <2>1, <2>2, <2>3 DEF Travailler, ArbreSuit
<1>6. CASE UNCHANGED vars
  BY <1>1, <1>6 DEF vars
<1> QED
  BY <1>2, <1>3, <1>4, <1>5, <1>6 DEF Next

\* An entry pushed on the stash.
LEMMA Empile ==
    ASSUME NEW S, NEW q \in Seq(S), NEW r \in S
    PROVE  /\ DOMAIN q \subseteq DOMAIN Append(q, r)
           /\ \A i \in DOMAIN q : Append(q, r)[i] = q[i]
           /\ Len(q) + 1 \in DOMAIN Append(q, r) /\ Append(q, r)[Len(q) + 1] = r
<1>1. /\ Append(q, r) \in Seq(S) /\ Len(Append(q, r)) = Len(q) + 1
      /\ \A i \in 1 .. Len(q) : Append(q, r)[i] = q[i]
      /\ Append(q, r)[Len(q) + 1] = r
  BY AppendProperties
<1>2. Len(q) \in Nat /\ DOMAIN q = 1 .. Len(q) /\ DOMAIN Append(q, r) = 1 .. Len(q) + 1
  BY <1>1, LenProperties
<1> QED
  BY <1>1, <1>2

LEMMA PasRetouches == Inv /\ [Next]_vars => Tenues \subseteq Tenues' \/ Effacee
<1> SUFFICES ASSUME Inv, [Next]_vars, ~Effacee PROVE Tenues \subseteq Tenues'
  OBVIOUS
<1>1. piles \in Seq(Remise)
  BY DEF Inv, TypeOK
<1>2. CASE sales \subseteq sales' /\ piles' = piles
  BY <1>2 DEF Tenues
<1>3. ASSUME NEW r \in Remise, r.retouches = sales, piles' = Append(piles, r)
      PROVE  Tenues \subseteq Tenues'
  <2>1. /\ \A i \in DOMAIN piles : i \in DOMAIN piles' /\ piles'[i] = piles[i]
        /\ Len(piles) + 1 \in DOMAIN piles' /\ piles'[Len(piles) + 1].retouches = sales
    BY <1>1, <1>3, Empile
  <2> QED
    BY <2>1 DEF Tenues
<1>4. CASE /\ piles # <<>>
           /\ sales' = sales \cup piles[Len(piles)].retouches
           /\ piles' = SubSeq(piles, 1, Len(piles) - 1)
  <2>1. /\ Len(piles) \in Nat \ {0} /\ DOMAIN piles = 1 .. Len(piles)
        /\ piles' \in Seq(Remise) /\ Len(piles') = Len(piles) - 1
        /\ \A i \in 1 .. Len(piles) - 1 : piles'[i] = piles[i]
    BY <1>1, <1>4, Depile, LenProperties
  <2>2. DOMAIN piles' = 1 .. Len(piles) - 1
    BY <2>1, LenProperties
  <2>3. \A i \in DOMAIN piles : i = Len(piles) \/ (i \in DOMAIN piles' /\ piles'[i] = piles[i])
    BY <2>1, <2>2
  <2> QED
    BY <1>4, <2>3 DEF Tenues
<1> QED
  BY <1>2, <1>3, <1>4, ArbreChange DEF ArbreSuit

\* Entries that the pass at work did not push.
PasRemises ==
    \A i \in DOMAIN piles : piles[i].passe # compteur =>
            i \in DOMAIN piles' /\ piles'[i] = piles[i]

LEMMA PasRemisesTenu == Inv /\ [Next]_vars => PasRemises
<1> SUFFICES ASSUME Inv, [Next]_vars PROVE PasRemises
  OBVIOUS
<1>1. piles \in Seq(Remise)
  BY DEF Inv, TypeOK
<1>2. CASE piles' = piles
  BY <1>2 DEF PasRemises
<1>3. ASSUME NEW r \in Remise, piles' = Append(piles, r)
      PROVE  PasRemises
  BY <1>1, <1>3, Empile DEF PasRemises
<1>4. CASE /\ piles # <<>> /\ piles[Len(piles)].passe = compteur
           /\ piles' = SubSeq(piles, 1, Len(piles) - 1)
  <2>1. /\ Len(piles) \in Nat \ {0} /\ DOMAIN piles = 1 .. Len(piles)
        /\ piles' \in Seq(Remise) /\ Len(piles') = Len(piles) - 1
        /\ \A i \in 1 .. Len(piles) - 1 : piles'[i] = piles[i]
    BY <1>1, <1>4, Depile, LenProperties
  <2>2. DOMAIN piles' = 1 .. Len(piles) - 1
    BY <2>1, LenProperties
  <2> QED
    BY <1>4, <2>1, <2>2 DEF PasRemises
<1> QED
  BY <1>2, <1>3, <1>4, ArbreChange DEF ArbreSuit

\* A pass takes back from the stash the entry it pushed and no other, though `stash pop`
\* takes whatever is on top.
THEOREM RemisesTenues == Spec => RemisesIntactes
<1>1. Inv /\ [Next]_vars => [PasRemises]_vars
  BY PasRemisesTenu
<1> QED
  BY <1>1, Tient, PTL DEF Spec, RemisesIntactes, PasRemises

-------------------------------------------------------------------------------
\* The ignored file.

\* A pass whose target tracks the user's file has it in its folder, if git listed it.
LEMMA CibleCopiee ==
    ASSUME Inv, p.pc \in {"copie", "extrait", "rate", "abandonne"}, fichier = "sien"
    PROVE  /\ ~Suit(p.depart) /\ ~Suit(HEAD)
           /\ Suit(montre.cible) => compteur \in copies \/ p.omis
<1>1. /\ ~Suit(p.depart) /\ ~Suit(HEAD)
      /\ Suit(montre.cible \ p.depart) => compteur \in copies \/ p.omis
  BY DEF Inv, Ecrases
<1> QED
  BY <1>1, SuitReste

PasEcrase ==
    (/\ fichier = "sien" /\ fichier' # "sien"
     /\ p.pc # "repos" /\ p'.pc \notin {"constate", "extrait"} /\ ~p.omis)
        => compteur \in copies

LEMMA PasEcraseTenu == Inv /\ [Next]_vars => PasEcrase
<1> USE DEF depot, arbre, disque, amont, registre
<1> SUFFICES ASSUME Inv, [Next]_vars,
                    fichier = "sien", fichier' # "sien",
                    p.pc # "repos", p'.pc \notin {"constate", "extrait"}, ~p.omis
             PROVE  compteur \in copies
  BY DEF PasEcrase
<1>1. CASE Demander
  BY <1>1 DEF Demander, EssaiASec, EssaiRetour, Lancer, Refuser
<1>2. CASE Gerer
  BY <1>2 DEF Gerer, Restaurer, RestaurerAMoitie, Restaurable, Supprimer, AppliquerRemise
<1>3. CASE Travailler
  <2>1. p.pc = "constate" => p'.pc # p.pc
    OBVIOUS
  <2> QED
    BY <1>3, <2>1 DEF Travailler, Libre, Valider, Retoucher, Changer, Pousser, MettreDeCote,
                      Deposer, Denouer, Publier
<1>4. CASE Integrer
  <2>1. p.pc = "copie" /\ (Porter(Aucun, montre.cible) \/ Porter(tete.branche, Integree))
    BY <1>4 DEF Integrer
  <2>2. PICK h : /\ fichier' = FichierVers(HEAD, h)
                 /\ Suit(h) => Suit(HEAD) \/ Suit(montre.cible)
    BY <2>1, IntegreeType DEF Porter, Inv
  <2>3. Suit(h)
    BY <2>1, <2>2, CibleCopiee, FichierType DEF Inv
  <2> QED
    BY <2>1, <2>2, <2>3, CibleCopiee
<1>5. CASE Buter
  <2>1. /\ p.pc = "copie"
        /\ fichier' \in {FichierVers(HEAD, montre.cible), FichierVers(HEAD, HEAD \cup montre.cible)}
    BY <1>5 DEF Buter, Porter
  <2>2. Suit(montre.cible) \/ Suit(HEAD \cup montre.cible)
    BY <2>1, CibleCopiee, FichierType DEF Inv
  <2> QED
    BY <2>1, <2>2, SuitUnion, CibleCopiee
<1>6. CASE Ramener \/ Echouer
  <2>1. /\ p.pc \in {"copie", "extrait"} /\ fichier' \in {fichier, FichierVers(HEAD, montre.cible)}
    BY <1>6 DEF Ramener, Echouer, Porter
  <2>2. Suit(montre.cible)
    BY <2>1, CibleCopiee, FichierType DEF Inv
  <2> QED
    BY <2>1, <2>2, CibleCopiee
<1>7. CASE Abandonner
  <2>1. p.pc = "rate" /\ operation.h = p.depart
        /\ fichier' \in {fichier, FichierVers(HEAD, p.depart)}
    BY <1>7 DEF Abandonner, Porter, Inv, Ecrases
  <2> QED
    BY <2>1, CibleCopiee, FichierType DEF Inv
<1>8. CASE RemettreAuDepart
  <2>1. /\ p.pc = "abandonne"
        /\ \/ fichier' \in {fichier, FichierVers(HEAD, p.depart)}
           \/ \E f \in {fichier, FichierVers(HEAD, p.depart)} : fichier' \in Restes(f)
    BY <1>8 DEF RemettreAuDepart
  <2>2. ~Suit(p.depart) /\ FichierVers(HEAD, p.depart) = fichier
    BY <2>1, CibleCopiee, FichierType DEF Inv
  <2>3. Suit(montre.cible)
    BY <2>1, <2>2 DEF Restes
  <2> QED
    BY <2>1, <2>3, CibleCopiee
<1>9. CASE Sauter \/ Sauvegarder \/ Remiser \/ RemiseRefusee \/ Copier \/ Omettre
           \/ CopierRate \/ RendreEtRetirer \/ RendreRate \/ Reappliquer \/ Inscrire \/ Tuer
  BY <1>9 DEF Sauter, Sauvegarder, Remiser, RemiseRefusee, Copier, Omettre, CopierRate,
              RendreEtRetirer, RendreRate, Reappliquer, Inscrire, Tuer
<1>10. CASE Extraire
  BY <1>10 DEF Extraire, Inv, TypeOK
<1> QED
  BY <1>1, <1>2, <1>3, <1>4, <1>5, <1>6, <1>7, <1>8, <1>9, <1>10 DEF Next, Traiter, vars

\* A pass that writes over the user's ignored file, or removes it, has copied it first, but
\* when git could not list it and for the branch that a return checks out on its way.
THEOREM EcrasementsCopies == Spec => EcraseCopie
<1>1. Inv /\ [Next]_vars => [PasEcrase]_vars
  BY PasEcraseTenu
<1> QED
  BY <1>1, Tient, PTL DEF Spec, EcraseCopie, PasEcrase
-------------------------------------------------------------------------------
\* Arrived, or back.

\* No backup is dated after the pass at work, so that a pass that starts has none.
Datees == \A s \in sauvegardes : s.nom.passe <= compteur

EnMain == {"sauve", "remise", "copie", "extrait", "rate", "abandonne", "remis"}

\* What a pass holds on to until it has arrived or come back: no branch has moved, its start
\* is under a backup, and so is the branch of the target if it is another and differs.
Gages ==
    /\ branches = repere.branches
    /\ p.branche # Aucun => branches[p.branche] = p.depart
    /\ \E s \in DeLaPasse : s.h = p.depart
    /\ (Retour /\ montre.brCible \notin {p.branche, Aucun}) =>
          branches[montre.brCible] \in {{}, montre.cible} \cup {s.h : s \in DeLaPasse}

\* Where the pass is with HEAD and with git's operation at each stage.
Etapes ==
    /\ p.pc \in EnMain \ {"rate"} => operation = Aucun
    /\ p.pc \in {"sauve", "remise", "copie", "remis"} => tete.branche = p.branche
    /\ p.pc = "rate" => operation.branche = p.branche /\ p.etat = "conflit_annule"
    /\ p.pc = "extrait" => Retour /\ tete.branche # p.branche
    /\ p.pc = "abandonne" => \/ HEAD = p.depart /\ tete.branche = p.branche
                             \/ Retour /\ tete.branche # p.branche
    /\ p.pc \in {"abandonne", "remis"} => p.etat \in {"erreur", "conflit_annule"}
    /\ p.pc = "pop" => \/ p.etat \in {"avance", "tire"} /\ Arrivee
                       \/ p.etat \in {"erreur", "conflit_annule"} /\ Depart

DInv ==
    /\ Inv /\ Datees
    /\ p.pc = "constate" => DeLaPasse = {}
    /\ p.pc \in EnMain => Gages
    /\ Etapes
    /\ RevenuOuArrive


LEMMA Champs ==
    ASSUME Inv, NEW e, p' = [p EXCEPT !.pc = e]
    PROVE  /\ p'.pc = e /\ p'.branche = p.branche /\ p'.depart = p.depart
           /\ p'.etat = p.etat
BY DEF Inv, TypeOK

LEMMA ChampsEtat ==
    ASSUME Inv, NEW e, NEW t, p' = [p EXCEPT !.pc = e, !.etat = t]
    PROVE  /\ p'.pc = e /\ p'.branche = p.branche /\ p'.depart = p.depart
           /\ p'.etat = t
BY DEF Inv, TypeOK

\* Before it saves, and once it is over, a pass holds nothing.
LEMMA DehorsSuite ==
    ASSUME DInv, Inv', p.pc \in {"repos", "constate"}, p'.pc \in {"repos", p.pc},
           compteur' = compteur, sauvegardes' \subseteq sauvegardes
    PROVE  DInv'
<1>1. Datees' /\ DeLaPasse' \subseteq DeLaPasse
  BY DEF DInv, Datees, DeLaPasse
<1>2. p'.pc = "constate" => DeLaPasse' = {}
  BY <1>1 DEF DInv
<1>3. p'.pc \notin EnMain /\ p'.pc \notin {"rate", "pop", "fin"}
  BY DEF EnMain
<1>4. Etapes' /\ RevenuOuArrive'
  BY <1>3 DEF Etapes, RevenuOuArrive, EnMain
<1> QED
  BY <1>1, <1>2, <1>3, <1>4 DEF DInv

LEMMA FermeSuite ==
    ASSUME DInv, Inv', p'.pc = "repos", UNCHANGED <<compteur, sauvegardes>>
    PROVE  DInv'
<1>1. Datees'
  BY DEF DInv, Datees
<1>2. Etapes' /\ RevenuOuArrive' /\ p'.pc \notin EnMain
  BY DEF Etapes, RevenuOuArrive, EnMain
<1> QED
  BY <1>1, <1>2 DEF DInv

\* The pass goes on: it holds what it held.
LEMMA GagesSuite ==
    ASSUME DInv, p.pc \in EnMain, p'.branche = p.branche, p'.depart = p.depart,
           UNCHANGED <<branches, repere, sauvegardes, montre, compteur>>
    PROVE  Datees' /\ Gages' /\ DeLaPasse' = DeLaPasse
<1>1. DeLaPasse' = DeLaPasse /\ (Retour' <=> Retour)
  BY DEF DeLaPasse, Retour
<1>2. Datees' /\ Gages
  BY DEF DInv, Datees
<1> QED
  BY <1>1, <1>2 DEF Gages

LEMMA EnMainSuite ==
    ASSUME DInv, Inv', p.pc \in EnMain, p'.pc \in EnMain,
           p'.branche = p.branche, p'.depart = p.depart,
           UNCHANGED <<branches, repere, sauvegardes, montre, compteur>>,
           Etapes'
    PROVE  DInv'
<1>1. Datees' /\ Gages'
  BY GagesSuite
<1>2. p'.pc \notin {"constate", "fin"}
  BY DEF EnMain
<1> QED
  BY <1>1, <1>2 DEF DInv, RevenuOuArrive

\* The pass is done with the clone.
LEMMA FinSuite ==
    ASSUME Inv', Datees', p'.pc = "fin", RevenuOuArrive'
    PROVE  DInv'
BY DEF DInv, Etapes, EnMain

\* HEAD goes where no branch moves.
LEMMA SurPlace ==
    ASSUME TypeOK, NEW b, NEW h, b \in Branche => branches[b] = h, Deplacer(b, h)
    PROVE  branches' = branches
BY DEF TypeOK, Deplacer

-------------------------------------------------------------------------------
\* What each step of a pass makes of what it holds.

LEMMA LancerSuite ==
    ASSUME DInv, Lancer
    PROVE  DInv'
<1>1. Inv /\ Inv' /\ Datees
  BY LancerInv DEF DInv
<1>2. /\ p' = [p EXCEPT !.pc = "constate", !.verdict = p'.verdict]
      /\ compteur' = compteur + 1 /\ sauvegardes' = sauvegardes
  BY <1>1 DEF Lancer, Inv, TypeOK
<1>3. p'.pc = "constate"
  BY <1>1, <1>2 DEF Inv, TypeOK
<1>4. \A s \in sauvegardes : s.nom.passe \in Nat /\ s.nom.passe <= compteur
  BY <1>1 DEF Inv, TypeOK, Sauvegarde, Nom, Passe, Datees
<1>5. compteur \in Nat
  BY <1>1 DEF Inv, TypeOK
<1>6. Datees' /\ DeLaPasse' = {}
  BY <1>2, <1>4, <1>5 DEF Datees, DeLaPasse
<1> QED
  BY <1>1, <1>3, <1>6 DEF DInv, Etapes, EnMain, RevenuOuArrive

LEMMA SauvegarderSuite ==
    ASSUME DInv, Sauvegarder
    PROVE  DInv'
<1>1. Inv /\ Inv' /\ Datees /\ DeLaPasse = {}
  BY SauvegarderInv DEF DInv, Sauvegarder
<1>2. /\ p.pc = "constate" /\ operation = Aucun
      /\ p' = [p EXCEPT !.pc = "sauve", !.depart = HEAD, !.branche = tete.branche]
      /\ repere' = [passe |-> compteur, branches |-> branches, tete |-> tete]
      /\ UNCHANGED <<branches, tete, operation, compteur, montre>>
  BY DEF Sauvegarder, depot
<1>3. p'.pc = "sauve" /\ p'.depart = HEAD /\ p'.branche = tete.branche
  BY <1>1, <1>2 DEF Inv, TypeOK
<1>4. NomHead.passe = compteur
  BY DEF NomHead, NomTirage, NomDe
<1>5. [nom |-> NomHead, h |-> HEAD] \in sauvegardes'
  BY DEF Sauvegarder
<1>6. /\ compteur \in Passe /\ compteur \in Nat /\ montre \in Montre
      /\ tete.branche \in Branche \cup {Aucun} /\ montre.brCible \in Branche \cup {Aucun}
  BY <1>1, <1>2, CibleType DEF Inv, TypeOK, Passe
<1> DEFINE a == Autre(tete.branche)
           n == NomDe("retour", a, compteur)
<1>7. a \in Branche \cup {Aucun}
  BY <1>6 DEF Autre
<1>8. a # Aucun /\ branches[a] \notin {{}, montre.cible} =>
        NomCible = n /\ NomCible # Aucun /\ NomCible.passe = compteur
  <2> SUFFICES ASSUME a # Aucun, branches[a] \notin {{}, montre.cible}
               PROVE  NomCible = n /\ NomCible # Aucun /\ NomCible.passe = compteur
    OBVIOUS
  <2>1. NomCible = n
    BY DEF NomCible
  <2>2. n \in Nom /\ n.passe = compteur
    BY <1>6, <1>7 DEF NomDe, Nom
  <2> QED
    BY <2>1, <2>2, Marque
<1>9. NomCible = Aucun \/ NomCible.passe = compteur
  BY <1>8 DEF NomCible
<1>10. Datees'
  <2>1. \A s \in sauvegardes' : s \in sauvegardes \/ s.nom.passe = compteur
    BY <1>4, <1>9 DEF Sauvegarder
  <2> QED
    BY <1>1, <1>2, <1>6, <2>1 DEF Datees
<1>11. \E s \in DeLaPasse' : s.h = p'.depart
  BY <1>2, <1>3, <1>4, <1>5 DEF DeLaPasse
<1>12. p'.branche # Aucun => branches'[p'.branche] = p'.depart
  BY <1>2, <1>3 DEF HEAD
<1>13. branches' = repere'.branches
  BY <1>2
<1>14. (Retour' /\ montre'.brCible \notin {p'.branche, Aucun}) =>
          branches'[montre'.brCible] \in {{}, montre'.cible} \cup {s.h : s \in DeLaPasse'}
  <2> SUFFICES ASSUME Retour', montre'.brCible \notin {p'.branche, Aucun},
                      branches[montre.brCible] \notin {{}, montre.cible}
               PROVE  branches[montre.brCible] \in {s.h : s \in DeLaPasse'}
    BY <1>2
  <2>1. a = montre.brCible /\ a # Aucun
    BY <1>2, <1>3 DEF Autre, Retour
  <2>2. NomCible # Aucun /\ NomCible.passe = compteur
    BY <1>8, <2>1
  <2>3. [nom |-> NomCible, h |-> branches[a]] \in sauvegardes'
    BY <2>2 DEF Sauvegarder
  <2>4. [nom |-> NomCible, h |-> branches[a]] \in DeLaPasse'
    BY <1>2, <2>2, <2>3 DEF DeLaPasse
  <2> QED
    BY <2>1, <2>4
<1>15. Gages'
  BY <1>11, <1>12, <1>13, <1>14 DEF Gages
<1>16. Etapes'
  BY <1>2, <1>3 DEF Etapes, EnMain
<1> QED
  BY <1>1, <1>3, <1>10, <1>15, <1>16 DEF DInv, RevenuOuArrive, EnMain

LEMMA AvantGesteSuite ==
    ASSUME DInv, Remiser \/ Copier \/ Omettre
    PROVE  DInv'
<1>1. Inv /\ Inv' /\ Etapes
  BY RemiserInv, CopierInv, OmettreInv DEF DInv
<1>2. /\ p.pc \in {"sauve", "remise"}
      /\ UNCHANGED <<branches, tete, operation, sauvegardes, montre, compteur, repere>>
  BY DEF Remiser, Copier, Omettre, depot, registre
<1>3. p'.pc \in {"remise", "copie"} /\ p'.branche = p.branche /\ p'.depart = p.depart
  <2>1. CASE Remiser
    <3>1. \/ p' = [p EXCEPT !.pc = "remise", !.mise = TRUE]
          \/ p' = [p EXCEPT !.pc = "remise", !.mise = FALSE]
      BY <2>1 DEF Remiser
    <3> QED
      BY <1>1, <3>1 DEF Inv, TypeOK
  <2>2. CASE Copier
    BY <1>1, <2>2 DEF Copier, Inv, TypeOK
  <2>3. CASE Omettre
    BY <1>1, <2>3 DEF Omettre, Inv, TypeOK
  <2> QED
    BY <2>1, <2>2, <2>3
<1>4. Etapes'
  BY <1>1, <1>2, <1>3 DEF Etapes, EnMain
<1> QED
  BY <1>1, <1>2, <1>3, <1>4, EnMainSuite DEF EnMain

LEMMA SansGesteSuite ==
    ASSUME DInv, Sauter \/ CopierRate \/ RendreRate \/ RemiseRefusee
    PROVE  DInv'
<1>1. Inv /\ Inv' /\ Datees /\ Etapes
  BY SansGesteInv, RendreRateInv DEF DInv
<1>2. UNCHANGED <<branches, tete, operation, copies, montre, compteur, repere>>
  BY DEF Sauter, CopierRate, RendreRate, RemiseRefusee, depot, disque, registre
<1>3. HEAD' = HEAD
  BY <1>2 DEF HEAD
<1>4. CASE Sauter
  <2>1. p'.pc = "fin" /\ p'.etat = "saute" /\ sauvegardes' = sauvegardes /\ p.pc = "constate"
    BY <1>1, <1>4, ChampsEtat DEF Sauter
  <2>2. DeLaPasse' = {} /\ Datees'
    BY <1>1, <1>2, <2>1 DEF DInv, DeLaPasse, Datees
  <2> QED
    BY <1>1, <2>1, <2>2, FinSuite DEF RevenuOuArrive
<1>5. CASE CopierRate \/ RendreRate
  <2>1. /\ p'.pc = "fin" /\ p'.etat = "interne" /\ sauvegardes' = sauvegardes
        /\ p.pc \in {"remise", "remis"} /\ p'.depart = p.depart /\ p'.branche = p.branche
    BY <1>1, <1>5, ChampsEtat DEF CopierRate, RendreRate
  <2>2. HEAD = p.depart /\ tete.branche = p.branche
    BY <1>1, <2>1 DEF Inv, Ecrases, Etapes
  <2>3. Datees' /\ Gages'
    BY <1>2, <2>1, GagesSuite DEF EnMain
  <2>4. RevenuOuArrive'
    BY <1>2, <1>3, <2>1, <2>2, <2>3 DEF RevenuOuArrive, Gages
  <2> QED
    BY <1>1, <2>1, <2>3, <2>4, FinSuite
<1>6. CASE RemiseRefusee
  <2>1. /\ p'.pc = "fin" /\ p'.etat = "erreur" /\ sauvegardes' = sauvegardes \ DeLaPasse
        /\ p.pc = "sauve" /\ p'.depart = p.depart /\ p'.branche = p.branche
    BY <1>1, <1>6, ChampsEtat DEF RemiseRefusee
  <2>2. HEAD = p.depart /\ tete.branche = p.branche /\ operation = Aucun
        /\ compteur \notin copies
    BY <1>1, <2>1 DEF Inv, Ecrases, Etapes, EnMain
  <2>3. DeLaPasse' = {} /\ Datees'
    BY <1>1, <1>2, <2>1 DEF DeLaPasse, Datees
  <2>4. Depart'
    BY <1>2, <1>3, <2>1, <2>2, <2>3 DEF Depart
  <2> QED
    BY <1>1, <2>1, <2>3, <2>4, FinSuite DEF RevenuOuArrive
<1> QED
  BY <1>4, <1>5, <1>6


\* What is integrated reaches the target.
LEMMA CibleIntegree == montre.cible \subseteq Integree
BY DEF Integree, Rejoue

LEMMA IntegrerSuite ==
    ASSUME DInv, Integrer
    PROVE  DInv'
<1>1. Inv /\ Inv' /\ Etapes /\ Gages /\ Datees /\ p.pc = "copie"
  BY IntegrerInv DEF DInv, Integrer, EnMain
<1>2. UNCHANGED <<operation, copies, montre, compteur, sauvegardes, repere>> /\ ~Retour
  BY DEF Integrer, registre
<1>3. /\ p'.pc = "pop" /\ p'.etat \in {"avance", "tire"}
      /\ p'.depart = p.depart /\ p'.branche = p.branche
  BY <1>1, ChampsEtat DEF Integrer
<1>4. /\ DeLaPasse' = DeLaPasse /\ Datees' /\ ~Retour'
  BY <1>1, <1>2 DEF DeLaPasse, Datees, Retour
<1>5. tete.branche = p.branche /\ p.branche \in Branche \cup {Aucun}
  BY <1>1, CibleType DEF Etapes
<1>6. PICK b \in {Aucun, p.branche}, h \in Histoire :
            Deplacer(b, h) /\ montre.cible \subseteq h
  <2>1. montre.cible \in Histoire /\ Integree \in Histoire /\ montre.cible \subseteq Integree
    BY <1>1, CibleType, IntegreeType, CibleIntegree DEF Inv
  <2>2. Porter(Aucun, montre.cible) \/ Porter(p.branche, Integree)
    BY <1>5 DEF Integrer
  <2> QED
    BY <2>1, <2>2 DEF Porter
<1>7. HEAD' = h
  BY <1>1, <1>5, <1>6, Deplace DEF Inv
<1>8. PICK t \in DeLaPasse : t.h = p.depart
  BY <1>1 DEF Gages
<1>9. \A x \in Branche : repere.branches[x] \in {branches'[x]} \cup {s.h : s \in DeLaPasse}
  <2> SUFFICES ASSUME NEW x \in Branche, repere.branches[x] # branches'[x]
               PROVE  repere.branches[x] \in {s.h : s \in DeLaPasse}
    OBVIOUS
  <2>1. x = b
    BY <1>1, <1>6 DEF Deplacer, Gages
  <2>2. x = p.branche /\ repere.branches[x] = p.depart
    BY <1>1, <1>6, <2>1, Noms DEF Gages
  <2> QED
    BY <1>8, <2>2
<1>10. Arrivee'
  BY <1>2, <1>3, <1>4, <1>6, <1>7, <1>8, <1>9 DEF Arrivee
<1>11. Etapes'
  BY <1>3, <1>10 DEF Etapes, EnMain
<1> QED
  BY <1>1, <1>3, <1>4, <1>11 DEF DInv, EnMain, RevenuOuArrive

LEMMA ButerSuite ==
    ASSUME DInv, Buter
    PROVE  DInv'
<1>1. Inv /\ Inv' /\ Etapes /\ Gages /\ p.pc = "copie"
  BY ButerInv DEF DInv, Buter, EnMain
<1>2. UNCHANGED <<montre, compteur, sauvegardes, repere>>
  BY DEF Buter, registre
<1>3. /\ p'.pc = "rate" /\ p'.etat = "conflit_annule"
      /\ p'.depart = p.depart /\ p'.branche = p.branche
  BY <1>1, ChampsEtat DEF Buter
<1>4. operation'.branche = p.branche
  BY DEF Buter
<1>5. branches' = branches
  <2>1. Deplacer(Aucun, montre.cible) \/ branches' = branches
    BY DEF Buter, Porter
  <2> QED
    BY <1>1, <2>1, SurPlace, Noms DEF Inv
<1>6. Etapes'
  BY <1>3, <1>4 DEF Etapes, EnMain
<1> QED
  BY <1>1, <1>2, <1>3, <1>5, <1>6, EnMainSuite DEF EnMain

LEMMA ExtraireSuite ==
    ASSUME DInv, Extraire
    PROVE  DInv'
<1>1. Inv /\ Inv' /\ Etapes /\ Gages /\ p.pc = "copie"
  BY RetourInv DEF DInv, Extraire, EnMain
<1>2. UNCHANGED <<operation, montre, compteur, sauvegardes, repere>>
  BY DEF Extraire, registre
<1>3. /\ p'.pc = "extrait" /\ p'.depart = p.depart /\ p'.branche = p.branche
  BY <1>1, Champs DEF Extraire
<1>4. branches' = branches
  BY <1>1, SurPlace DEF Inv, Extraire, Porter
<1>5. Retour' /\ tete'.branche # p'.branche
  <2>1. Retour /\ tete'.branche = Autre(p.branche)
    BY DEF Extraire, Porter, Deplacer
  <2>2. Autre(p.branche) # p.branche
    BY DEF Autre, Extraire
  <2> QED
    BY <1>2, <1>3, <2>1, <2>2 DEF Retour
<1>6. Etapes'
  BY <1>1, <1>2, <1>3, <1>5 DEF Etapes, EnMain
<1> QED
  BY <1>1, <1>2, <1>3, <1>4, <1>6, EnMainSuite DEF EnMain

LEMMA RamenerSuite ==
    ASSUME DInv, Ramener
    PROVE  DInv'
<1>1. Inv /\ Inv' /\ Gages /\ Datees /\ p.pc \in {"copie", "extrait"}
  BY RetourInv DEF DInv, Ramener, EnMain
<1>2. UNCHANGED <<operation, copies, montre, compteur, sauvegardes, repere>> /\ Retour
  BY DEF Ramener, registre
<1>3. /\ p'.pc = "fin" /\ p'.etat = "recule"
      /\ p'.depart = p.depart /\ p'.branche = p.branche
  BY <1>1, ChampsEtat DEF Ramener
<1>4. /\ DeLaPasse' = DeLaPasse /\ Datees' /\ Retour'
  BY <1>1, <1>2 DEF DeLaPasse, Datees, Retour
<1>5. montre.brCible \in Branche \cup {Aucun} /\ montre.cible \in Histoire
  BY <1>1, CibleType
<1>6. Deplacer(montre.brCible, montre.cible)
  BY DEF Ramener, Porter
<1>7. HEAD' = montre.cible /\ tete'.branche = montre.brCible
  BY <1>1, <1>5, <1>6, Deplace DEF Inv, Deplacer
<1>8. PICK t \in DeLaPasse : t.h = p.depart
  BY <1>1 DEF Gages
<1>9. \A x \in Branche : repere.branches[x] \in {{}, branches'[x]} \cup {s.h : s \in DeLaPasse}
  <2> SUFFICES ASSUME NEW x \in Branche, repere.branches[x] # branches'[x]
               PROVE  repere.branches[x] \in {{}} \cup {s.h : s \in DeLaPasse}
    OBVIOUS
  <2>1. x = montre.brCible /\ x # Aucun /\ branches'[x] = montre.cible
    BY <1>1, <1>6, Noms DEF Deplacer, Gages
  <2>2. CASE x = p.branche
    BY <1>1, <1>8, <2>1, <2>2 DEF Gages
  <2>3. CASE x # p.branche
    <3>1. branches[x] \in {{}, montre.cible} \cup {s.h : s \in DeLaPasse}
      BY <1>1, <1>2, <2>1, <2>3 DEF Gages
    <3>2. branches[x] = repere.branches[x]
      BY <1>1 DEF Gages
    <3> QED
      BY <2>1, <3>1, <3>2
  <2> QED
    BY <2>2, <2>3
<1>10. Arrivee'
  BY <1>2, <1>3, <1>4, <1>7, <1>8, <1>9 DEF Arrivee
<1> QED
  BY <1>1, <1>3, <1>4, <1>10, FinSuite DEF RevenuOuArrive

LEMMA EchouerSuite ==
    ASSUME DInv, Echouer
    PROVE  DInv'
<1>1. Inv /\ Inv' /\ Etapes /\ Gages /\ p.pc \in {"copie", "extrait"}
  BY EchouerInv DEF DInv, Echouer, EnMain
<1>2. UNCHANGED <<branches, operation, montre, compteur, sauvegardes, repere>>
  BY DEF Echouer, registre, depot
<1>3. /\ p'.pc = "abandonne" /\ p'.etat = "erreur"
      /\ p'.depart = p.depart /\ p'.branche = p.branche
  BY <1>1, ChampsEtat DEF Echouer
<1>4. UNCHANGED tete /\ HEAD' = HEAD /\ (Retour' <=> Retour)
  BY <1>2 DEF Echouer, depot, HEAD, Retour
<1>5. \/ HEAD = p.depart /\ tete.branche = p.branche
      \/ Retour /\ tete.branche # p.branche
  BY <1>1 DEF Inv, Ecrases, Etapes
<1>6. operation = Aucun
  BY <1>1 DEF Etapes, EnMain
<1>7. Etapes'
  BY <1>2, <1>3, <1>4, <1>5, <1>6 DEF Etapes
<1> QED
  BY <1>1, <1>2, <1>3, <1>7, EnMainSuite DEF EnMain

\* A pass that could not put the clone back leaves it with the backup of its start.
LEMMA RateSuite ==
    ASSUME DInv, Inv', p.pc \in EnMain,
           p' = [p EXCEPT !.pc = "fin", !.etat = "restauration_echouee"],
           UNCHANGED <<branches, repere, sauvegardes, montre, compteur>>
    PROVE  DInv'
<1>1. /\ p'.pc = "fin" /\ p'.etat = "restauration_echouee"
      /\ p'.depart = p.depart /\ p'.branche = p.branche
  BY ChampsEtat DEF DInv
<1>2. Datees' /\ Gages'
  BY <1>1, GagesSuite
<1> QED
  BY <1>1, <1>2, FinSuite DEF RevenuOuArrive, Gages

LEMMA AbandonnerSuite ==
    ASSUME DInv, Abandonner
    PROVE  DInv'
<1>1. Inv /\ Inv' /\ Etapes /\ Gages /\ p.pc = "rate"
  BY AbandonnerInv DEF DInv, Abandonner, EnMain
<1>2. UNCHANGED <<montre, compteur, sauvegardes, repere>>
  BY DEF Abandonner, registre
<1>3. CASE operation' = Aucun /\ Porter(operation.branche, operation.h)
           /\ p' = [p EXCEPT !.pc = "abandonne"]
  <2>1. /\ p'.pc = "abandonne" /\ p'.etat = p.etat
        /\ p'.depart = p.depart /\ p'.branche = p.branche
    BY <1>1, <1>3, Champs
  <2>2. operation.branche = p.branche /\ operation.h = p.depart /\ p.etat = "conflit_annule"
    BY <1>1 DEF Etapes, Inv, Ecrases
  <2>3. branches' = branches
    BY <1>1, <1>3, <2>2, SurPlace, Noms DEF Inv, Porter, Gages
  <2>4. HEAD' = p.depart /\ tete'.branche = p.branche
    <3>1. Deplacer(p.branche, p.depart)
      BY <1>3, <2>2 DEF Porter
    <3>2. p.branche \in Branche \cup {Aucun} /\ p.depart \in Histoire
      BY <1>1, CibleType
    <3>3. tete'.branche = p.branche
      BY <3>1 DEF Deplacer
    <3> QED
      BY <1>1, <3>1, <3>2, <3>3, Deplace DEF Inv
  <2>5. Etapes'
    BY <1>3, <2>1, <2>2, <2>4 DEF Etapes, EnMain
  <2> QED
    BY <1>1, <1>2, <2>1, <2>3, <2>5, EnMainSuite DEF EnMain
<1>4. CASE p' = [p EXCEPT !.pc = "fin", !.etat = "restauration_echouee"]
           /\ branches' = branches
  BY <1>1, <1>2, <1>4, RateSuite DEF EnMain
<1> QED
  BY <1>3, <1>4 DEF Abandonner, depot

LEMMA RemettreSuite ==
    ASSUME DInv, RemettreAuDepart
    PROVE  DInv'
<1>1. Inv /\ Inv' /\ Etapes /\ Gages /\ p.pc = "abandonne"
  BY RemettreInv DEF DInv, RemettreAuDepart, EnMain
<1>2. UNCHANGED <<operation, montre, compteur, sauvegardes, repere>>
  BY DEF RemettreAuDepart, registre
<1>3. ASSUME p' = [p EXCEPT !.pc = "remis"], branches' = branches, tete'.branche = p.branche
      PROVE  DInv'
  <2>1. /\ p'.pc = "remis" /\ p'.etat = p.etat
        /\ p'.depart = p.depart /\ p'.branche = p.branche
    BY <1>1, <1>3, Champs
  <2>2. Etapes'
    BY <1>1, <1>2, <1>3, <2>1 DEF Etapes, EnMain
  <2> QED
    BY <1>1, <1>2, <1>3, <2>1, <2>2, EnMainSuite DEF EnMain
<1>4. CASE /\ tete.branche = p.branche /\ p' = [p EXCEPT !.pc = "remis"]
           /\ UNCHANGED <<branches, tete>>
  BY <1>3, <1>4
<1>5. CASE Deplacer(p.branche, p.depart) /\ p' = [p EXCEPT !.pc = "remis"]
  <2>1. branches' = branches
    BY <1>1, <1>5, SurPlace, Noms DEF Inv, Gages
  <2> QED
    BY <1>3, <1>5, <2>1 DEF Deplacer
<1>6. CASE p' = [p EXCEPT !.pc = "fin", !.etat = "restauration_echouee"]
           /\ branches' = branches
  BY <1>1, <1>2, <1>6, RateSuite DEF EnMain
<1>7. CASE /\ Deplacer(p.branche, p.depart)
           /\ p' = [p EXCEPT !.pc = "fin", !.etat = "restauration_echouee"]
  <2>1. branches' = branches
    BY <1>1, <1>7, SurPlace, Noms DEF Inv, Gages
  <2> QED
    BY <1>6, <1>7, <2>1
<1> QED
  BY <1>4, <1>5, <1>6, <1>7 DEF RemettreAuDepart

LEMMA RendreSuite ==
    ASSUME DInv, RendreEtRetirer
    PROVE  DInv'
<1>1. Inv /\ Inv' /\ Etapes /\ Datees /\ p.pc = "remis"
  BY RendreInv DEF DInv, RendreEtRetirer
<1>2. /\ UNCHANGED <<branches, tete, operation, copies, montre, compteur, repere>>
      /\ sauvegardes' = sauvegardes \ DeLaPasse
      /\ compteur \in copies => fichier' = "sien"
  BY DEF RendreEtRetirer, depot, registre
<1>3. /\ p'.pc = "pop" /\ p'.etat = p.etat
      /\ p'.depart = p.depart /\ p'.branche = p.branche
  BY <1>1, Champs DEF RendreEtRetirer
<1>4. DeLaPasse' = {} /\ Datees'
  BY <1>1, <1>2 DEF DeLaPasse, Datees
<1>5. /\ HEAD' = p.depart /\ tete.branche = p.branche /\ operation = Aucun
      /\ p.etat \in {"erreur", "conflit_annule"}
  BY <1>1, <1>2 DEF Inv, Ecrases, Etapes, EnMain, HEAD
<1>6. Depart'
  BY <1>2, <1>3, <1>4, <1>5 DEF Depart
<1>7. Etapes'
  BY <1>3, <1>5, <1>6 DEF Etapes, EnMain
<1> QED
  BY <1>1, <1>3, <1>4, <1>7 DEF DInv, EnMain, RevenuOuArrive

LEMMA ReappliquerSuite ==
    ASSUME DInv, Reappliquer
    PROVE  DInv'
<1>1. Inv /\ Inv' /\ Etapes /\ Datees /\ p.pc = "pop"
  BY ReappliquerInv DEF DInv, Reappliquer
<1>2. UNCHANGED <<branches, tete, operation, fichier, copies, sauvegardes, montre,
                  compteur, repere>>
  BY DEF Reappliquer, depot, disque, registre
<1>3. /\ p'.pc = "fin" /\ p'.depart = p.depart /\ p'.branche = p.branche
      /\ p.etat \in {"avance", "tire"} => p'.etat \in {"avance", "tire", "stash_garde"}
      /\ p.etat \notin {"avance", "tire"} => p'.etat = p.etat
  <2>1. CASE p' = [p EXCEPT !.pc = "fin"]
    BY <1>1, <2>1, Champs
  <2>2. CASE p' = [p EXCEPT !.pc = "fin", !.etat =
                      IF @ \in {"avance", "tire"} THEN "stash_garde" ELSE @]
    BY <1>1, <2>2, ChampsEtat
  <2> QED
    BY <2>1, <2>2 DEF Reappliquer
<1>4. HEAD' = HEAD /\ DeLaPasse' = DeLaPasse /\ Datees' /\ (Retour' <=> Retour)
  BY <1>1, <1>2 DEF HEAD, DeLaPasse, Datees, Retour
<1>5. Arrivee => Arrivee'
  BY <1>2, <1>3, <1>4 DEF Arrivee
<1>6. Depart => Depart'
  BY <1>2, <1>3, <1>4 DEF Depart
<1>7. RevenuOuArrive'
  BY <1>1, <1>3, <1>5, <1>6 DEF Etapes, RevenuOuArrive
<1> QED
  BY <1>1, <1>3, <1>4, <1>7, FinSuite

LEMMA DInvInit == Init => DInv
<1> SUFFICES ASSUME Init PROVE DInv
  OBVIOUS
<1>0. Inv
  BY InitInv
<1>1. sauvegardes = {} /\ p.pc = "repos"
  BY DEF Init, Repos
<1>2. Datees /\ p.pc \notin EnMain
  BY <1>1 DEF Datees, EnMain
<1>3. Etapes
  BY <1>1 DEF Etapes, EnMain
<1>4. RevenuOuArrive
  BY <1>1 DEF RevenuOuArrive
<1> QED
  BY <1>0, <1>1, <1>2, <1>3, <1>4 DEF DInv

LEMMA DInvSuite == DInv /\ [Next]_vars => DInv'
<1> SUFFICES ASSUME DInv, [Next]_vars PROVE DInv'
  OBVIOUS
<1>0. Inv /\ Inv'
  BY InvSuite DEF DInv
<1> USE DEF depot, arbre, disque, amont, registre
<1>1. CASE Demander
  <2>1. ASSUME NEW mode, NEW st, NEW a, EssaiASec(mode, st, a) PROVE DInv'
    BY <1>0, <2>1, DehorsSuite DEF EssaiASec
  <2>2. ASSUME NEW h, NEW b, EssaiRetour(h, b) PROVE DInv'
    BY <1>0, <2>2, DehorsSuite DEF EssaiRetour
  <2>3. CASE Refuser
    BY <1>0, <2>3, DehorsSuite DEF Refuser
  <2> QED
    BY <1>1, <2>1, <2>2, <2>3, LancerSuite DEF Demander
<1>2. CASE Traiter
  <2>1. CASE Inscrire \/ Tuer
    <3>1. p'.pc = "repos" /\ UNCHANGED <<compteur, sauvegardes>>
      BY <2>1 DEF Inscrire, Tuer, Repos
    <3> QED
      BY <1>0, <3>1, FermeSuite
  <2> QED
    BY <1>2, <2>1, SansGesteSuite, SauvegarderSuite, AvantGesteSuite, IntegrerSuite,
       ButerSuite, ExtraireSuite, RamenerSuite, EchouerSuite, AbandonnerSuite, RemettreSuite,
       RendreSuite, ReappliquerSuite DEF Traiter
<1>3. CASE Gerer
  <2>1. ASSUME NEW s \in sauvegardes, Restaurer(s) \/ RestaurerAMoitie(s) \/ Supprimer(s)
        PROVE  DInv'
    <3>1. /\ p.pc = "repos" /\ p' = p /\ compteur' = compteur
          /\ sauvegardes' \subseteq sauvegardes
      BY <2>1 DEF Restaurer, RestaurerAMoitie, Supprimer, Restaurable
    <3> QED
      BY <1>0, <3>1, DehorsSuite
  <2>2. ASSUME NEW i, AppliquerRemise(i) PROVE DInv'
    BY <1>0, <2>2, DehorsSuite DEF AppliquerRemise
  <2> QED
    BY <1>3, <2>1, <2>2 DEF Gerer
<1>4. CASE Travailler
  <2>1. /\ p.pc \in {"repos", "constate"} /\ p' = p /\ compteur' = compteur
        /\ sauvegardes' = sauvegardes
    BY <1>4 DEF Travailler, Libre, Valider, Retoucher, Changer, Pousser, MettreDeCote,
                Deposer, Denouer, Publier
  <2> QED
    BY <1>0, <2>1, DehorsSuite
<1>5. CASE UNCHANGED vars
  <2>1. /\ DeLaPasse' = DeLaPasse /\ HEAD' = HEAD /\ (Retour' <=> Retour)
        /\ UNCHANGED <<branches, tete, operation, fichier, copies, sauvegardes, compteur,
                       montre, p, repere>>
    BY <1>5 DEF vars, DeLaPasse, HEAD, Retour
  <2>2. (Arrivee' <=> Arrivee) /\ (Depart' <=> Depart) /\ (Gages' <=> Gages)
    BY <2>1 DEF Arrivee, Depart, Gages
  <2>3. Etapes' /\ RevenuOuArrive' /\ Datees'
    BY <2>1, <2>2 DEF DInv, Etapes, RevenuOuArrive, Datees
  <2> QED
    BY <1>0, <2>1, <2>2, <2>3 DEF DInv
<1> QED
  BY <1>1, <1>2, <1>3, <1>4, <1>5 DEF Next

\* Only a return that had left its start branch is put back on its start.
LEMMA EffaceeEnRetour == DInv /\ Effacee => Retour /\ tete.branche # p.branche
BY DEF DInv, Etapes, Effacee, RemettreAuDepart

\* No step, of a pass or of anything else, takes a modification of the user's away: it is
\* in the work tree or in an entry of the stash, whatever fails and wherever a kill falls.
\* One step may: a return that could not read the tree, had left its start branch and
\* failed is put back on its start.
THEOREM RetouchesSauves == Spec => RetouchesGardees
<1>1. DInv /\ [Next]_vars =>
         [\/ Tenues \subseteq Tenues'
          \/ RemettreAuDepart /\ Retour /\ ~p.mise /\ tete.branche # p.branche]_vars
  BY PasRetouches, EffaceeEnRetour DEF DInv, Effacee
<1> QED
  BY <1>1, DInvInit, DInvSuite, PTL DEF Spec, RetouchesGardees

\* When a pass is done with the clone, the clone is at its target with a backup of every
\* branch it moved, or where it was with no backup left, whatever the user did before it
\* and whatever failed on the way.
THEOREM DepartOuCible == Spec => []RevenuOuArrive
<1>1. DInv => RevenuOuArrive
  BY DEF DInv
<1> QED
  BY <1>1, DInvInit, DInvSuite, PTL DEF Spec

-------------------------------------------------------------------------------
\* There and back.

\* HEAD where the pass of the record found it.
HeadTrouvee == IF repere.tete.branche = Aucun THEN repere.tete.detachee
               ELSE repere.branches[repere.tete.branche]

TeteDroite == tete.branche # Aucun => tete.detachee = {}

\* A pass has no record in passe.json before it ends.
TracesDatees ==
    \A k \in Passe : traces[k] # Aucun => k <= compteur /\ (p.pc # "repos" => k # compteur)

EnCours == p.pc \in EnMain \cup {"pop"} \/ (p.pc = "fin" /\ p.etat # "saute")

\* The name Inscrire looks for.
NomPrincipal == NomDe(IF Retour THEN "retour" ELSE "pull",
                      IF Retour \/ p.branche # Aucun THEN p.branche ELSE BrancheDuManifeste,
                      compteur)
NomAutre == NomDe("retour", Autre(p.branche), compteur)

\* A pass at work on the clone holds, under the names its record will give, the start and
\* the branch of the target as it found them, and has moved no other branch.
Cours ==
    /\ repere.passe = compteur
    /\ repere.tete.branche = p.branche /\ HeadTrouvee = p.depart
    /\ \A s \in sauvegardes :
          /\ s.nom = NomPrincipal => s.h = p.depart
          /\ (s.nom = NomAutre /\ Autre(p.branche) # Aucun) =>
                s.h = repere.branches[Autre(p.branche)]
    /\ (p.pc \in EnMain /\ Autre(p.branche) # Aucun) =>
          repere.branches[Autre(p.branche)] \in {{}, montre.cible} \/ Existe(NomAutre)
    /\ \A x \in Branche : branches[x] # repere.branches[x] =>
          \/ x = p.branche \/ repere.branches[x] = {}
          \/ x = Autre(p.branche) /\ Existe(NomAutre)

\* So does the record, as long as nothing else has moved the clone.
Point ==
    (repere # Aucun /\ traces[repere.passe] # Aucun) =>
        LET tr == traces[repere.passe] IN
        /\ tr.branche = repere.tete.branche
        /\ \A s \in sauvegardes :
              /\ s.nom = tr.sauvegarde => s.h = HeadTrouvee
              /\ (s.nom = tr.sauvegardeCible /\ tr.sauvegardeCible # Aucun) =>
                    s.h = repere.branches[tr.brCible]
        /\ \A x \in Branche : branches[x] # repere.branches[x] =>
              \/ x = tr.branche \/ repere.branches[x] = {}
              \/ x = tr.brCible /\ tr.sauvegardeCible # Aucun

AInv ==
    /\ DInv /\ TeteDroite /\ TracesDatees
    /\ repere # Aucun => (repere.tete.branche # Aucun => repere.tete.detachee = {})
    /\ EnCours => Cours
    /\ Point


LEMMA Droite == ASSUME NEW b, NEW h, Deplacer(b, h) PROVE TeteDroite'
BY DEF Deplacer, TeteDroite

LEMMA SansRecord ==
    ASSUME AInv, p.pc # "repos"
    PROVE  compteur \in Passe /\ traces[compteur] = Aucun
BY DEF AInv, DInv, Inv, TypeOK, TracesDatees

\* Out of a pass: something else moves the clone, or nothing does.
LEMMA DehorsAller ==
    ASSUME AInv, DInv', TeteDroite', p.pc \in {"repos", "constate"}, p' = p,
           repere' = Aucun \/ UNCHANGED <<repere, branches>>,
           sauvegardes' \subseteq sauvegardes, UNCHANGED <<traces, compteur>>
    PROVE  AInv'
<1>1. ~EnCours'
  BY DEF EnCours, EnMain
<1>2. TracesDatees'
  BY DEF AInv, TracesDatees
<1>3. CASE repere' = Aucun
  BY <1>1, <1>2, <1>3 DEF AInv, Point
<1>4. CASE UNCHANGED <<repere, branches>>
  <2>1. HeadTrouvee' = HeadTrouvee
    BY <1>4 DEF HeadTrouvee
  <2>2. Point'
    BY <1>4, <2>1 DEF AInv, Point
  <2> QED
    BY <1>1, <1>2, <1>4, <2>2 DEF AInv
<1> QED
  BY <1>3, <1>4

\* A pass that leaves the clone as it found it: skipped, killed, or starting.
LEMMA SautAller ==
    ASSUME AInv, DInv', ~EnCours', TracesDatees',
           UNCHANGED <<repere, branches, tete, sauvegardes, traces>>
    PROVE  AInv'
<1>1. HeadTrouvee' = HeadTrouvee /\ TeteDroite'
  BY DEF HeadTrouvee, AInv, TeteDroite
<1>2. Point'
  BY <1>1 DEF AInv, Point
<1> QED
  BY <1>1, <1>2 DEF AInv

\* A step of the pass.
LEMMA PasseAller ==
    ASSUME AInv, DInv', TeteDroite', EnCours, p.pc # "repos", p'.pc # "repos",
           p'.branche = p.branche, p'.depart = p.depart,
           UNCHANGED <<montre, compteur, repere, traces>>,
           sauvegardes' \subseteq sauvegardes,
           p'.pc \in EnMain => p.pc \in EnMain /\ sauvegardes' = sauvegardes,
           \A x \in Branche : branches'[x] # repere.branches[x] =>
              \/ x = p.branche \/ repere.branches[x] = {}
              \/ x = Autre(p.branche) /\ Existe(NomAutre)'
    PROVE  AInv'
<1>1. /\ NomPrincipal' = NomPrincipal /\ NomAutre' = NomAutre /\ HeadTrouvee' = HeadTrouvee
      /\ Autre(p.branche)' = Autre(p.branche)
  BY DEF NomPrincipal, NomAutre, HeadTrouvee, Autre, Retour
<1>2. Cours
  BY DEF AInv
<1>3. sauvegardes' = sauvegardes => (Existe(NomAutre)' <=> Existe(NomAutre))
  BY <1>1 DEF Existe
<1>4. Cours'
  <2>1. /\ repere'.passe = compteur'
        /\ repere'.tete.branche = p'.branche /\ HeadTrouvee' = p'.depart
    BY <1>1, <1>2 DEF Cours
  <2>2. \A s \in sauvegardes' :
          /\ s.nom = NomPrincipal' => s.h = p'.depart
          /\ (s.nom = NomAutre' /\ Autre(p.branche)' # Aucun) =>
                s.h = repere'.branches[Autre(p.branche)']
    BY <1>1, <1>2 DEF Cours
  <2>3. (p'.pc \in EnMain /\ Autre(p.branche)' # Aucun) =>
          repere'.branches[Autre(p.branche)'] \in {{}, montre'.cible} \/ Existe(NomAutre)'
    BY <1>1, <1>2, <1>3 DEF Cours
  <2>4. \A x \in Branche : branches'[x] # repere'.branches[x] =>
          \/ x = p'.branche \/ repere'.branches[x] = {}
          \/ x = Autre(p.branche)' /\ Existe(NomAutre)'
    BY <1>1
  <2> QED
    BY <2>1, <2>2, <2>3, <2>4 DEF Cours
<1>5. traces'[repere'.passe] = Aucun
  BY <1>2, SansRecord DEF Cours
<1>6. TracesDatees'
  BY DEF AInv, TracesDatees
<1>7. repere' # Aucun => (repere'.tete.branche # Aucun => repere'.tete.detachee = {})
  BY DEF AInv
<1> QED
  BY <1>4, <1>5, <1>6, <1>7 DEF AInv, Point

LEMMA SauvegarderAller ==
    ASSUME AInv, Sauvegarder
    PROVE  AInv'
<1>1. AInv /\ DInv /\ DInv' /\ Inv /\ Inv' /\ DeLaPasse = {}
  BY SauvegarderSuite DEF AInv, DInv, Sauvegarder
<1>2. /\ p.pc = "constate"
      /\ p' = [p EXCEPT !.pc = "sauve", !.depart = HEAD, !.branche = tete.branche]
      /\ repere' = [passe |-> compteur, branches |-> branches, tete |-> tete]
      /\ UNCHANGED <<branches, tete, traces, compteur, montre>>
  BY DEF Sauvegarder, depot
<1>3. p'.pc = "sauve" /\ p'.depart = HEAD /\ p'.branche = tete.branche
  BY <1>1, <1>2 DEF Inv, TypeOK
<1>5. HeadTrouvee' = HEAD
  BY <1>2 DEF HeadTrouvee, HEAD
<1> DEFINE a == Autre(tete.branche)
<1>6. /\ Autre(p.branche)' = a /\ (Retour' <=> Retour)
      /\ NomAutre' = NomDe("retour", a, compteur)
      /\ NomPrincipal' = NomHead
  BY <1>2, <1>3 DEF Autre, Retour, NomAutre, NomPrincipal, NomHead, NomTirage
<1>7. a # Aucun => NomHead # NomDe("retour", a, compteur)
  <2>1. a # Aucun => Retour /\ a # tete.branche
    BY DEF Autre
  <2> QED
    BY <2>1 DEF NomHead, NomDe
<1>8. NomCible # Aucun => a # Aucun /\ NomCible = NomDe("retour", a, compteur)
  BY DEF NomCible
<1>9. NomHead.passe = compteur /\ NomDe("retour", a, compteur).passe = compteur
  BY DEF NomHead, NomTirage, NomDe
<1>10. \A s \in sauvegardes : s.nom # NomHead /\ s.nom # NomDe("retour", a, compteur)
  BY <1>1, <1>9 DEF DeLaPasse
<1>11. \A s \in sauvegardes' :
         \/ s \in sauvegardes
         \/ s.nom = NomHead /\ s.h = HEAD
         \/ NomCible # Aucun /\ s.nom = NomCible /\ s.h = branches[a]
  BY DEF Sauvegarder
<1>12. \A s \in sauvegardes' :
          /\ s.nom = NomPrincipal' => s.h = p'.depart
          /\ (s.nom = NomAutre' /\ Autre(p.branche)' # Aucun) =>
                s.h = repere'.branches[Autre(p.branche)']
  <2>1. repere'.branches = branches
    BY <1>2
  <2> QED
    BY <1>3, <1>6, <1>7, <1>8, <1>10, <1>11, <2>1
<1>13. (p'.pc \in EnMain /\ Autre(p.branche)' # Aucun) =>
          repere'.branches[Autre(p.branche)'] \in {{}, montre'.cible} \/ Existe(NomAutre)'
  <2> SUFFICES ASSUME a # Aucun, branches[a] \notin {{}, montre.cible}
               PROVE  Existe(NomAutre)'
    BY <1>2, <1>6
  <2>1. NomCible = NomDe("retour", a, compteur)
    BY DEF NomCible
  <2>2. NomCible # Aucun
    <3>1. a \in Branche /\ compteur \in Passe
      BY <1>1, <1>2, CibleType DEF Autre, Inv, TypeOK
    <3> QED
      BY <2>1, <3>1, Marque DEF NomDe, Nom
  <2>3. [nom |-> NomCible, h |-> branches[a]] \in sauvegardes'
    BY <2>2 DEF Sauvegarder
  <2> QED
    BY <1>6, <2>1, <2>3 DEF Existe
<1>14. Cours'
  <2>1. \A x \in Branche : branches'[x] = repere'.branches[x]
    BY <1>2
  <2>2. repere'.passe = compteur' /\ repere'.tete.branche = p'.branche
    BY <1>2, <1>3
  <2> QED
    BY <1>3, <1>5, <1>12, <1>13, <2>1, <2>2 DEF Cours
<1>15. traces'[repere'.passe] = Aucun
  BY <1>2, SansRecord
<1>16. TracesDatees' /\ TeteDroite'
  BY <1>1, <1>2, <1>3 DEF AInv, TracesDatees, TeteDroite
<1>17. repere'.tete.branche # Aucun => repere'.tete.detachee = {}
  BY <1>1, <1>2 DEF AInv, TeteDroite
<1> QED
  BY <1>1, <1>14, <1>15, <1>16, <1>17 DEF AInv, Point


\* The steps after which the pass still holds its gages, and those that leave every branch
\* in place.
LEMMA EnMainAller ==
    ASSUME AInv, DInv', TeteDroite', p.pc \in EnMain, p'.pc \in EnMain,
           p'.branche = p.branche, p'.depart = p.depart,
           UNCHANGED <<montre, compteur, repere, traces, sauvegardes>>
    PROVE  AInv'
<1>1. branches' = repere.branches
  BY DEF DInv, Gages
<1>2. EnCours /\ p.pc # "repos" /\ p'.pc # "repos"
  BY DEF EnCours, EnMain
<1> QED
  BY <1>1, <1>2, PasseAller

LEMMA SurPlaceAller ==
    ASSUME AInv, DInv', TeteDroite', p.pc \in EnMain, p'.pc \in {"pop", "fin"},
           p'.branche = p.branche, p'.depart = p.depart,
           sauvegardes' \subseteq sauvegardes,
           UNCHANGED <<branches, montre, compteur, repere, traces>>
    PROVE  AInv'
<1>1. branches' = repere.branches
  BY DEF AInv, DInv, Gages
<1>2. EnCours /\ p.pc # "repos" /\ p'.pc # "repos" /\ p'.pc \notin EnMain
  BY DEF EnCours, EnMain
<1> QED
  BY <1>1, <1>2, PasseAller

LEMMA AvantAller ==
    ASSUME AInv, \/ Remiser \/ Copier \/ Omettre \/ CopierRate \/ RendreRate
                 \/ RemiseRefusee \/ Echouer
    PROVE  AInv'
<1>1. AInv /\ DInv /\ DInv' /\ Inv
  BY AvantGesteSuite, SansGesteSuite, EchouerSuite DEF AInv, DInv
<1>2. /\ p.pc \in EnMain
      /\ UNCHANGED <<branches, tete, montre, compteur, repere, traces>>
  BY DEF Remiser, Copier, Omettre, CopierRate, RendreRate, RemiseRefusee, Echouer, EnMain, depot,
     registre
<1>3. TeteDroite'
  BY <1>1, <1>2 DEF AInv, TeteDroite
<1>4. CASE Remiser \/ Copier \/ Omettre \/ Echouer
  <2>1. /\ p'.pc \in EnMain /\ p'.branche = p.branche /\ p'.depart = p.depart
        /\ sauvegardes' = sauvegardes
    BY <1>1, <1>4 DEF Remiser, Copier, Omettre, Echouer, EnMain, Inv, TypeOK
  <2> QED
    BY <1>1, <1>2, <1>3, <2>1, EnMainAller
<1>5. CASE CopierRate \/ RendreRate \/ RemiseRefusee
  <2>1. /\ p'.pc = "fin" /\ p'.branche = p.branche /\ p'.depart = p.depart
        /\ sauvegardes' \subseteq sauvegardes
    BY <1>1, <1>5, ChampsEtat DEF CopierRate, RendreRate, RemiseRefusee
  <2> QED
    BY <1>1, <1>2, <1>3, <2>1, SurPlaceAller
<1> QED
  BY <1>4, <1>5

LEMMA IntegrerAller ==
    ASSUME AInv, Integrer
    PROVE  AInv'
<1>1. AInv /\ DInv /\ DInv' /\ Inv /\ Etapes /\ Gages /\ p.pc = "copie"
  BY IntegrerSuite DEF AInv, DInv, Integrer, EnMain
<1>2. UNCHANGED <<montre, compteur, sauvegardes, repere, traces>>
  BY DEF Integrer, registre
<1>3. p'.pc = "pop" /\ p'.depart = p.depart /\ p'.branche = p.branche
  BY <1>1, ChampsEtat DEF Integrer
<1>4. tete.branche = p.branche
  BY <1>1 DEF Etapes
<1>5. PICK b \in {Aucun, p.branche}, h \in {montre.cible, Integree} : Deplacer(b, h)
  BY <1>4 DEF Integrer, Porter
<1>6. \A x \in Branche : branches'[x] # repere.branches[x] => x = p.branche
  BY <1>1, <1>5, Noms DEF Deplacer, Gages
<1>7. EnCours /\ p'.pc \notin EnMain
  BY <1>1, <1>3 DEF EnCours, EnMain
<1> QED
  BY <1>1, <1>2, <1>3, <1>5, <1>6, <1>7, Droite, PasseAller

LEMMA RamenerAller ==
    ASSUME AInv, Ramener
    PROVE  AInv'
<1>1. AInv /\ DInv /\ DInv' /\ Inv /\ Gages /\ p.pc \in {"copie", "extrait"}
  BY RamenerSuite DEF AInv, DInv, Ramener, EnMain
<1>2. UNCHANGED <<montre, compteur, sauvegardes, repere, traces>> /\ Retour
  BY DEF Ramener, registre
<1>3. p'.pc = "fin" /\ p'.depart = p.depart /\ p'.branche = p.branche
  BY <1>1, ChampsEtat DEF Ramener
<1>4. Deplacer(montre.brCible, montre.cible)
  BY DEF Ramener, Porter
<1>5. EnCours /\ p.pc \in EnMain /\ p'.pc \notin EnMain
  BY <1>1, <1>3 DEF EnCours, EnMain
<1>6. Cours
  BY <1>5 DEF AInv
<1>7. /\ NomAutre' = NomAutre /\ (Existe(NomAutre)' <=> Existe(NomAutre))
  BY <1>2, <1>3 DEF NomAutre, Autre, Retour, Existe
<1>8. \A x \in Branche : branches'[x] # repere.branches[x] =>
              \/ x = p.branche \/ repere.branches[x] = {}
              \/ x = Autre(p.branche) /\ Existe(NomAutre)'
  <2> SUFFICES ASSUME NEW x \in Branche, branches'[x] # repere.branches[x],
                      x # p.branche, repere.branches[x] # {}
               PROVE  x = Autre(p.branche) /\ Existe(NomAutre)
    BY <1>7
  <2>1. x = montre.brCible /\ branches'[x] = montre.cible /\ x # Aucun
    BY <1>1, <1>4, Noms DEF Deplacer, Gages
  <2>2. Autre(p.branche) = x
    BY <1>2, <2>1 DEF Autre
  <2> QED
    BY <1>5, <1>6, <2>1, <2>2 DEF Cours
<1> QED
  BY <1>1, <1>2, <1>3, <1>4, <1>5, <1>8, Droite, PasseAller

LEMMA GesteAller ==
    ASSUME AInv, Buter \/ Extraire
    PROVE  AInv'
<1>1. AInv /\ DInv /\ DInv' /\ Inv
  BY ButerSuite, ExtraireSuite DEF AInv, DInv
<1>2. p.pc = "copie" /\ UNCHANGED <<montre, compteur, sauvegardes, repere, traces>>
  BY DEF Buter, Extraire, registre
<1>3. p'.pc \in {"rate", "extrait"} /\ p'.depart = p.depart /\ p'.branche = p.branche
  BY <1>1, Champs, ChampsEtat DEF Buter, Extraire
<1>4. TeteDroite'
  <2>1. (\E b, h : Deplacer(b, h)) \/ tete' = tete
    BY DEF Buter, Extraire, Porter
  <2> QED
    BY <1>1, <2>1, Droite DEF AInv, TeteDroite
<1> QED
  BY <1>1, <1>2, <1>3, <1>4, EnMainAller DEF EnMain

LEMMA RemettreAller ==
    ASSUME AInv, Abandonner \/ RemettreAuDepart
    PROVE  AInv'
<1>1. AInv /\ DInv /\ DInv' /\ Inv
  BY AbandonnerSuite, RemettreSuite DEF AInv, DInv
<1>2. /\ p.pc \in EnMain
      /\ UNCHANGED <<montre, compteur, sauvegardes, repere, traces>>
  BY DEF Abandonner, RemettreAuDepart, registre, EnMain
<1>3. TeteDroite'
  <2>1. (\E b, h : Deplacer(b, h)) \/ tete' = tete
    BY DEF Abandonner, RemettreAuDepart, Porter, depot
  <2> QED
    BY <1>1, <2>1, Droite DEF AInv, TeteDroite
<1>4. CASE p' = [p EXCEPT !.pc = "abandonne"] \/ p' = [p EXCEPT !.pc = "remis"]
  <2>1. p'.pc \in EnMain /\ p'.depart = p.depart /\ p'.branche = p.branche
    BY <1>1, <1>4, Champs DEF EnMain
  <2> QED
    BY <1>1, <1>2, <1>3, <2>1, EnMainAller
<1>5. CASE p' = [p EXCEPT !.pc = "fin", !.etat = "restauration_echouee"]
           /\ branches' = branches
  <2>1. p'.pc = "fin" /\ p'.depart = p.depart /\ p'.branche = p.branche
    BY <1>1, <1>5, ChampsEtat
  <2> QED
    BY <1>1, <1>2, <1>3, <1>5, <2>1, SurPlaceAller
<1>6. CASE /\ RemettreAuDepart /\ Deplacer(p.branche, p.depart)
           /\ p' = [p EXCEPT !.pc = "fin", !.etat = "restauration_echouee"]
  <2>1. p.branche \in Branche => branches[p.branche] = p.depart
    BY <1>1, <1>2, Noms DEF DInv, Gages
  <2>2. branches' = branches
    BY <1>1, <1>6, <2>1, SurPlace DEF Inv
  <2> QED
    BY <1>5, <1>6, <2>2
<1> QED
  BY <1>4, <1>5, <1>6 DEF Abandonner, RemettreAuDepart, depot

LEMMA RendreAller ==
    ASSUME AInv, RendreEtRetirer
    PROVE  AInv'
<1>1. AInv /\ DInv /\ DInv' /\ Inv
  BY RendreSuite DEF AInv, DInv
<1>2. /\ p.pc \in EnMain /\ sauvegardes' \subseteq sauvegardes
      /\ UNCHANGED <<branches, tete, montre, compteur, repere, traces>>
  BY DEF RendreEtRetirer, depot, registre, EnMain
<1>3. p'.pc = "pop" /\ p'.depart = p.depart /\ p'.branche = p.branche
  BY <1>1, Champs DEF RendreEtRetirer
<1>4. TeteDroite'
  BY <1>1, <1>2 DEF AInv, TeteDroite
<1> QED
  BY <1>1, <1>2, <1>3, <1>4, SurPlaceAller

LEMMA ReappliquerAller ==
    ASSUME AInv, Reappliquer
    PROVE  AInv'
<1>1. AInv /\ DInv /\ DInv' /\ Inv
  BY ReappliquerSuite DEF AInv, DInv
<1>2. /\ p.pc = "pop"
      /\ UNCHANGED <<branches, tete, montre, compteur, repere, traces, sauvegardes>>
  BY DEF Reappliquer, depot, registre
<1>3. p'.pc = "fin" /\ p'.depart = p.depart /\ p'.branche = p.branche
  BY <1>1, Champs, ChampsEtat DEF Reappliquer
<1>4. TeteDroite' /\ EnCours /\ p'.pc \notin EnMain
  BY <1>1, <1>2, <1>3 DEF AInv, TeteDroite, EnCours, EnMain
<1>5. NomAutre' = NomAutre /\ (Existe(NomAutre)' <=> Existe(NomAutre))
  BY <1>2, <1>3 DEF NomAutre, Autre, Retour, Existe
<1>6. Cours
  BY <1>4 DEF AInv
<1>7. \A x \in Branche : branches'[x] # repere.branches[x] =>
              \/ x = p.branche \/ repere.branches[x] = {}
              \/ x = Autre(p.branche) /\ Existe(NomAutre)'
  BY <1>2, <1>5, <1>6 DEF Cours
<1> QED
  BY <1>1, <1>2, <1>3, <1>4, <1>7, PasseAller

\* The record is of what the pass held.
LEMMA InscrireAller ==
    ASSUME AInv, Inscrire
    PROVE  AInv'
<1>1. AInv /\ DInv /\ Inv /\ p.pc = "fin" /\ compteur \in Passe /\ traces[compteur] = Aucun
  BY SansRecord DEF AInv, DInv, Inscrire
<1>2. /\ p'.pc = "repos"
      /\ UNCHANGED <<branches, tete, sauvegardes, compteur, repere>>
  BY DEF Inscrire, Repos, depot
<1>3. DInv'
  BY <1>1, <1>2, InscrireInv, FermeSuite
<1> DEFINE t == [branche |-> p.branche, sauvegarde |-> NomPrincipal,
                 arrivee |-> IF \/ p.etat = "interne"
                                \/ ~Retour /\ p.etat = "restauration_echouee"
                             THEN {} ELSE HEAD,
                 brArrivee |-> IF ~Retour THEN p.branche
                               ELSE IF p.etat = "recule" THEN tete.branche ELSE Aucun,
                 brCible |-> montre.brCible,
                 sauvegardeCible |-> IF Autre(p.branche) # Aucun /\ Existe(NomAutre)
                                     THEN NomAutre ELSE Aucun]
<1>4. traces' = IF ~Existe(NomPrincipal) THEN traces ELSE [traces EXCEPT ![compteur] = t]
  BY DEF Inscrire, NomPrincipal, NomAutre
<1>5. /\ t.branche = p.branche /\ t.sauvegarde = NomPrincipal /\ t.brCible = montre.brCible
      /\ t.sauvegardeCible = IF Autre(p.branche) # Aucun /\ Existe(NomAutre)
                             THEN NomAutre ELSE Aucun
  OBVIOUS
<1> HIDE DEF t
<1>6. ~EnCours' /\ TeteDroite' /\ HeadTrouvee' = HeadTrouvee
  BY <1>1, <1>2 DEF EnCours, EnMain, AInv, TeteDroite, HeadTrouvee
<1>7. TracesDatees'
  <2>1. \A k \in Passe : traces'[k] # Aucun => traces[k] # Aucun \/ k = compteur
    BY <1>1, <1>4 DEF Inv, TypeOK
  <2>2. compteur <= compteur
    BY <1>1, Bornes DEF Passe
  <2> QED
    BY <1>1, <1>2, <2>1, <2>2 DEF AInv, TracesDatees
<1>8. CASE ~Existe(NomPrincipal)
  BY <1>1, <1>2, <1>3, <1>4, <1>6, <1>7, <1>8, SautAller
<1>9. CASE Existe(NomPrincipal)
  <2>1. EnCours
    <3>1. DeLaPasse # {}
      BY <1>9 DEF Existe, DeLaPasse, NomPrincipal, NomDe
    <3>2. p.etat = "saute" => DeLaPasse = {}
      BY <1>1 DEF DInv, RevenuOuArrive
    <3> QED
      BY <1>1, <3>1, <3>2 DEF EnCours
  <2>2. Cours
    BY <1>1, <2>1 DEF AInv
  <2>3. traces'[compteur] = t /\ repere.passe = compteur
    BY <1>1, <1>4, <1>9, <2>2 DEF Inv, TypeOK, Cours
  <2>4. t.branche = repere.tete.branche
    BY <1>5, <2>2 DEF Cours
  <2>5. t.sauvegardeCible # Aucun =>
          /\ t.sauvegardeCible = NomAutre /\ Autre(p.branche) # Aucun
          /\ Autre(p.branche) = t.brCible
    BY <1>5 DEF Autre
  <2>6. \A s \in sauvegardes :
              /\ s.nom = t.sauvegarde => s.h = HeadTrouvee
              /\ (s.nom = t.sauvegardeCible /\ t.sauvegardeCible # Aucun) =>
                    s.h = repere.branches[t.brCible]
    BY <1>5, <2>2, <2>5 DEF Cours
  <2>7. Autre(p.branche) # Aucun => NomAutre \in Nom /\ Autre(p.branche) = montre.brCible
    BY <1>1, CibleType DEF Autre, NomAutre, NomDe, Nom
  <2>8. \A x \in Branche : branches[x] # repere.branches[x] =>
              \/ x = t.branche \/ repere.branches[x] = {}
              \/ x = t.brCible /\ t.sauvegardeCible # Aucun
    <3> SUFFICES ASSUME NEW x \in Branche, x = Autre(p.branche), Existe(NomAutre)
                 PROVE  x = t.brCible /\ t.sauvegardeCible # Aucun
      BY <1>5, <2>2 DEF Cours
    <3> QED
      BY <1>5, <2>7, Noms, Marque
  <2>9. Point'
    BY <1>2, <1>6, <2>3, <2>4, <2>6, <2>8 DEF Point
  <2> QED
    BY <1>1, <1>2, <1>3, <1>6, <1>7, <2>9 DEF AInv
<1> QED
  BY <1>8, <1>9

LEMMA LancerAller ==
    ASSUME AInv, Lancer
    PROVE  AInv'
<1>1. AInv /\ DInv' /\ Inv /\ Inv'
  BY LancerSuite DEF AInv, DInv
<1>2. /\ p.pc = "repos" /\ compteur' = compteur + 1
      /\ p' = [p EXCEPT !.pc = "constate", !.verdict = p'.verdict]
      /\ UNCHANGED <<repere, branches, tete, sauvegardes, traces>>
  BY <1>1 DEF Lancer, depot, Inv, TypeOK
<1>3. p'.pc = "constate"
  BY <1>1, <1>2 DEF Inv, TypeOK
<1>4. TracesDatees'
  <2>1. compteur \in Nat /\ \A k \in Passe : k \in Nat
    BY <1>1 DEF Inv, TypeOK, Passe
  <2>2. \A k \in Passe : traces[k] # Aucun => k <= compteur
    BY <1>1 DEF AInv, TracesDatees
  <2> QED
    BY <1>2, <2>1, <2>2 DEF TracesDatees
<1>5. ~EnCours'
  BY <1>3 DEF EnCours, EnMain
<1> QED
  BY <1>1, <1>2, <1>4, <1>5, SautAller

LEMMA FermerAller ==
    ASSUME AInv, Sauter \/ Tuer
    PROVE  AInv'
<1>1. AInv /\ DInv /\ Inv
  BY DEF AInv, DInv
<1>2. UNCHANGED <<branches, tete, sauvegardes, compteur, traces, repere>>
  BY DEF Sauter, Tuer, depot, registre
<1>3. CASE Sauter
  <2>1. p.pc = "constate" /\ p'.pc = "fin" /\ p'.etat = "saute"
    BY <1>1, <1>3, ChampsEtat DEF Sauter
  <2>2. TracesDatees' /\ ~EnCours'
    BY <1>1, <1>2, <2>1 DEF AInv, TracesDatees, EnCours, EnMain
  <2> QED
    BY <1>1, <1>2, <1>3, <2>2, SansGesteSuite, SautAller
<1>4. CASE Tuer
  <2>1. p'.pc = "repos"
    BY <1>4 DEF Tuer, Repos
  <2>2. TracesDatees' /\ ~EnCours'
    BY <1>1, <1>2, <2>1 DEF AInv, TracesDatees, EnCours, EnMain
  <2>3. DInv'
    BY <1>1, <1>2, <1>4, <2>1, RefuserTuerInv, FermeSuite
  <2> QED
    BY <1>1, <1>2, <2>2, <2>3, SautAller
<1> QED
  BY <1>3, <1>4

LEMMA AInvInit == Init => AInv
<1> SUFFICES ASSUME Init PROVE AInv
  OBVIOUS
<1>1. DInv
  BY DInvInit
<1>2. /\ p.pc = "repos" /\ repere = Aucun /\ traces = [k \in Passe |-> Aucun]
  BY DEF Init, Repos
<1>3. TeteDroite
  BY DEF Init, TeteDroite
<1>4. TracesDatees /\ ~EnCours
  BY <1>2 DEF TracesDatees, EnCours, EnMain
<1> QED
  BY <1>1, <1>2, <1>3, <1>4 DEF AInv, Point

LEMMA AInvSuite == AInv /\ [Next]_vars => AInv'
<1> SUFFICES ASSUME AInv, [Next]_vars PROVE AInv'
  OBVIOUS
<1>0. DInv /\ DInv'
  BY DInvSuite DEF AInv
<1> USE DEF depot, arbre, disque, amont, registre
<1>1. ASSUME p.pc \in {"repos", "constate"}, p' = p,
             (\E b, h : Deplacer(b, h)) \/ UNCHANGED tete,
             repere' = Aucun \/ UNCHANGED <<repere, branches>>,
             sauvegardes' \subseteq sauvegardes, UNCHANGED <<traces, compteur>>
      PROVE  AInv'
  <2>1. TeteDroite'
    BY <1>1, Droite DEF AInv, TeteDroite
  <2> QED
    BY <1>0, <1>1, <2>1, DehorsAller
<1>2. CASE Demander
  <2>1. ASSUME NEW mode, NEW st, NEW a, EssaiASec(mode, st, a) PROVE AInv'
    BY <1>1, <2>1 DEF EssaiASec
  <2>2. ASSUME NEW h, NEW b, EssaiRetour(h, b) PROVE AInv'
    BY <1>1, <2>2 DEF EssaiRetour
  <2>3. CASE Refuser
    BY <1>1, <2>3 DEF Refuser
  <2> QED
    BY <1>2, <2>1, <2>2, <2>3, LancerAller DEF Demander
<1>3. CASE Traiter
  BY <1>3, FermerAller, SauvegarderAller, AvantAller, IntegrerAller, GesteAller, RamenerAller,
     RemettreAller, RendreAller, ReappliquerAller, InscrireAller DEF Traiter
<1>4. CASE Gerer
  <2>1. ASSUME NEW s \in sauvegardes, Restaurer(s) PROVE AInv'
    <3>1. TeteDroite'
      BY <2>1 DEF Restaurer, TeteDroite
    <3>2. /\ p.pc = "repos" /\ p' = p /\ repere' = Aucun
          /\ UNCHANGED <<sauvegardes, traces, compteur>>
      BY <2>1 DEF Restaurer, Restaurable
    <3> QED
      BY <1>0, <3>1, <3>2, DehorsAller
  <2>2. ASSUME NEW s \in sauvegardes, RestaurerAMoitie(s) PROVE AInv'
    BY <1>1, <2>2 DEF RestaurerAMoitie, Restaurable, Porter
  <2>3. ASSUME NEW s \in sauvegardes, Supprimer(s) PROVE AInv'
    BY <1>1, <2>3 DEF Supprimer
  <2>4. ASSUME NEW i, AppliquerRemise(i) PROVE AInv'
    BY <1>1, <2>4 DEF AppliquerRemise
  <2> QED
    BY <1>4, <2>1, <2>2, <2>3, <2>4 DEF Gerer
<1>5. CASE Travailler
  <2>1. ASSUME NEW c, Valider(c) PROVE AInv'
    BY <1>1, <2>1 DEF Valider, Libre
  <2>2. ASSUME NEW b, Changer(b) PROVE AInv'
    BY <1>1, <2>2 DEF Changer, Libre, Porter
  <2>3. ASSUME NEW h, Denouer(h) PROVE AInv'
    BY <1>1, <2>3 DEF Denouer, Libre, Porter
  <2>4. ASSUME \/ \E e \in Retouches : Retoucher(e)
               \/ Pousser \/ MettreDeCote \/ Deposer
               \/ \E l \in Lignes : Publier(l)
        PROVE  AInv'
    BY <1>1, <2>4 DEF Retoucher, Pousser, MettreDeCote, Deposer, Publier, Libre
  <2> QED
    BY <1>5, <2>1, <2>2, <2>3, <2>4 DEF Travailler
<1>6. CASE UNCHANGED vars
  <2>1. TeteDroite' /\ TracesDatees' /\ HeadTrouvee' = HeadTrouvee /\ (EnCours' <=> EnCours)
    BY <1>6 DEF vars, AInv, TeteDroite, TracesDatees, HeadTrouvee, EnCours
  <2>2. (Cours' <=> Cours) /\ (Point' <=> Point)
    BY <1>6, <2>1 DEF vars, Cours, Point, NomPrincipal, NomAutre, Autre, Retour, Existe
  <2> QED
    BY <1>0, <1>6, <2>1, <2>2 DEF vars, AInv
<1> QED
  BY <1>2, <1>3, <1>4, <1>5, <1>6 DEF Next

PasAllerRetour ==
    \A s \in sauvegardes :
          LET tr == TraceDe(s.nom) IN
          (/\ repere # Aucun /\ repere' = Aucun /\ repere.passe = s.nom.passe
           /\ tr # Aucun /\ Restaurer(s)
           /\ tr.sauvegardeCible # Aucun => Existe(tr.sauvegardeCible))
            => /\ tete' = repere.tete
               /\ \A x \in Branche : repere.branches[x] # {} =>
                     branches'[x] = repere.branches[x]

LEMMA Pointe == ASSUME NEW n, Existe(n) PROVE \E s \in sauvegardes : s.nom = n /\ s.h = PointeDe(n)
BY DEF Existe, PointeDe

LEMMA PasAllerRetourTenu == AInv => PasAllerRetour
<1> SUFFICES ASSUME AInv, NEW s \in sauvegardes,
                    repere # Aucun, repere.passe = s.nom.passe,
                    TraceDe(s.nom) # Aucun, Restaurer(s),
                    TraceDe(s.nom).sauvegardeCible # Aucun =>
                        Existe(TraceDe(s.nom).sauvegardeCible)
             PROVE  /\ tete' = repere.tete
                    /\ \A x \in Branche : repere.branches[x] # {} =>
                          branches'[x] = repere.branches[x]
  BY DEF PasAllerRetour
<1> DEFINE tr == TraceDe(s.nom)
           bc == BrancheCible(tr)
           d == tr.branche
<1>1. Inv /\ Point
  BY DEF AInv, DInv
<1>2. tr = traces[repere.passe] /\ tr # Aucun /\ tr.sauvegarde = s.nom
  BY DEF TraceDe
<1>3. /\ tete' = [branche |-> d, detachee |-> IF d = Aucun THEN s.h ELSE {}]
      /\ branches' = [x \in Branche |-> IF x \in DOMAIN bc THEN bc[x]
                                        ELSE IF x = d THEN s.h ELSE branches[x]]
  BY <1>2 DEF Restaurer, Destination
<1>4. /\ d = repere.tete.branche /\ s.h = HeadTrouvee
      /\ \A z \in sauvegardes : (z.nom = tr.sauvegardeCible /\ tr.sauvegardeCible # Aucun) =>
            z.h = repere.branches[tr.brCible]
      /\ \A x \in Branche : branches[x] # repere.branches[x] =>
              \/ x = d \/ repere.branches[x] = {}
              \/ x = tr.brCible /\ tr.sauvegardeCible # Aucun
  BY <1>1, <1>2 DEF Point
<1>5. \A x \in DOMAIN bc : bc[x] = repere.branches[x]
  <2> SUFFICES ASSUME NEW x \in DOMAIN bc PROVE bc[x] = repere.branches[x]
    OBVIOUS
  <2>1. /\ tr.sauvegardeCible # Aucun /\ Existe(tr.sauvegardeCible)
        /\ x = tr.brCible /\ bc[x] = PointeDe(tr.sauvegardeCible)
    BY DEF BrancheCible
  <2>2. PICK z \in sauvegardes :
          z.nom = tr.sauvegardeCible /\ z.h = PointeDe(tr.sauvegardeCible)
    BY <2>1, Pointe
  <2> QED
    BY <1>4, <2>1, <2>2
<1>6. \A x \in Branche : (x = tr.brCible /\ tr.sauvegardeCible # Aucun) => x \in DOMAIN bc
  BY <1>2, Noms DEF BrancheCible
<1>7. /\ repere.tete \in [branche : Branche \cup {Aucun}, detachee : Histoire]
      /\ repere.tete.branche # Aucun => repere.tete.detachee = {}
  BY <1>1 DEF Inv, TypeOK, AInv
<1> HIDE DEF tr, bc, d
<1>8. tete' = repere.tete
  <2>1. (IF d = Aucun THEN s.h ELSE {}) = repere.tete.detachee
    BY <1>4, <1>7 DEF HeadTrouvee
  <2>2. repere.tete = [branche |-> repere.tete.branche, detachee |-> repere.tete.detachee]
    BY <1>7
  <2> QED
    BY <1>3, <1>4, <2>1, <2>2
<1>9. d \in Branche => s.h = repere.branches[d]
  BY <1>4, Noms DEF HeadTrouvee
<1> QED
  BY <1>3, <1>4, <1>5, <1>6, <1>8, <1>9

\* A pass, then the restoring of its backup, is a round trip: HEAD and every branch the pass
\* found are as it found them, if nothing else moved the clone and none of the pass's
\* backups was deleted.
THEOREM RetourDeLAller == Spec => AllerRetour
<1>1. AInv /\ [Next]_vars => [PasAllerRetour]_vars
  BY PasAllerRetourTenu
<1> QED
  BY <1>1, AInvInit, AInvSuite, PTL DEF Spec, AllerRetour, PasAllerRetour

-------------------------------------------------------------------------------
\* The user's commits.

\* The user's commits in h, by content, are in g.
Garde(h, g) == Locaux \cap Contenus(h) \subseteq Contenus(g)

\* What a pull is given is on the tracking references, what a return is given is upstream's.
Amonts ==
    /\ (p.pc # "repos" \/ montre # Aucun) =>
          /\ montre.ancienne \subseteq Publies \X {0}
          /\ IF Retour THEN montre.cible \subseteq Publies \X {0}
             ELSE montre.cible \subseteq remotes
    /\ (p.pc # "repos" /\ Retour) => p.verdict = "retour"

\* Aborted or finished, an interrupted operation gives the user's commits back.
Interrompue ==
    (operation # Aucun \/ p.pc = "rate") =>
        /\ Garde(operation.h, operation.fini)
        /\ operation.branche # Aucun => branches[operation.branche] = operation.h
        /\ Garde(tete.detachee, operation.h \cup remotes)

\* A pass that has not arrived has its start or its target's branch checked out, and its
\* backups are of what the branches hold.
Surveille ==
    /\ (p.pc = "abandonne" /\ tete.branche = Aucun) => tete.detachee = p.depart
    /\ (p.pc = "abandonne" /\ Autre(p.branche) = Aucun) => HEAD = p.depart
    /\ p.pc = "extrait" => tete.branche # Aucun /\ Autre(p.branche) # Aucun
    /\ p.pc = "rate" => ~Retour
    /\ p.pc \in EnMain => \A s \in DeLaPasse :
          s.h = p.depart \/ \E x \in Branche : s.h = branches[x]

\* HEAD at the end of a pass has no commit of the user's that its start lacked.
Bilan ==
    /\ (p.pc \in {"pop", "fin"} /\ p.etat \in {"avance", "tire", "stash_garde"}) =>
          ~Retour /\ Garde(HEAD, p.depart \cup remotes)
    /\ p.pc = "fin" => p.etat \in Etat \ {"aucun"}
    /\ (p.pc = "fin" /\ p.etat = "recule") => Retour
    /\ (p.pc = "fin" /\ p.etat = "restauration_echouee" /\ Retour /\ montre.brCible = Aucun) =>
          HEAD = p.depart

\* Neither has the arrival of a record.
Arrivees ==
    \A k \in Passe : traces[k] # Aucun =>
        /\ traces[k].sauvegarde.passe = k
        /\ \A s \in sauvegardes :
              (/\ s.nom = traces[k].sauvegarde
               /\ s.nom.sorte = "pull" \/ traces[k].brArrivee = traces[k].brCible) =>
                  Garde(traces[k].arrivee, s.h \cup remotes)

CInv == AInv /\ Amonts /\ Interrompue /\ Surveille /\ Bilan /\ Arrivees


LEMMA GardeSous == ASSUME NEW h, NEW g, h \subseteq g PROVE Garde(h, g)
BY DEF Garde, Contenus

LEMMA GardeUnion ==
    ASSUME NEW a, NEW b, NEW g, Garde(a, g), Garde(b, g)
    PROVE  Garde(a \cup b, g)
BY DEF Garde, Contenus

LEMMA GardeSuit ==
    ASSUME NEW a, NEW b, NEW c, NEW d, Garde(a, b \cup c), Garde(b, d), c \subseteq d
    PROVE  Garde(a, d)
BY DEF Garde, Contenus

LEMMA GardePublies == ASSUME NEW h, NEW g, h \subseteq Publies \X {0} PROVE Garde(h, g)
BY Noms DEF Garde, Contenus

\* A rebase and a merge keep the user's commits, and make no other.
LEMMA GardeIntegree ==
    ASSUME TypeOK, Amonts, p.pc # "repos", ~Retour
    PROVE  /\ Garde(Integree, HEAD \cup montre.cible)
           /\ Garde(HEAD, Integree)
<1>1. CASE Integree = HEAD \cup montre.cible
  BY <1>1, GardeSous
<1>2. CASE Integree = HEAD \cup montre.cible \cup {<<Fusion, compteur>>}
  <2>1. Garde({<<Fusion, compteur>>}, HEAD \cup montre.cible)
    BY Noms DEF Garde, Contenus
  <2> QED
    BY <1>2, <2>1, GardeSous, GardeUnion
<1>3. CASE Integree = Rejoue(HEAD, montre.cible,
                        AmontDeDepart(HEAD, montre.ancienne, montre.cible), compteur)
  <2> DEFINE socle == AmontDeDepart(HEAD, montre.ancienne, montre.cible)
  <2>1. socle \subseteq Publies \X {0}
    BY DEF AmontDeDepart, Amonts
  <2> HIDE DEF socle
  <2>2. \A x \in Integree : \E d \in HEAD \cup montre.cible : d[1] = x[1]
    BY <1>3 DEF Rejoue, socle
  <2>3. ASSUME NEW d \in HEAD, d[1] \in Locaux
        PROVE  \E x \in Integree : x[1] = d[1]
    <3>1. d \notin socle
      BY <2>1, <2>3, Noms
    <3>2. CASE d[1] \in Contenus(montre.cible)
      BY <1>3, <3>2 DEF Rejoue, Contenus
    <3>3. CASE d[1] \notin Contenus(montre.cible)
      <4>1. d \notin montre.cible /\ d[1] # Fusion
        BY <2>3, <3>3, Noms DEF Contenus
      <4>2. <<d[1], compteur>> \in Integree
        BY <1>3, <3>1, <3>3, <4>1 DEF Rejoue, socle
      <4> QED
        BY <4>2
    <3> QED
      BY <3>2, <3>3
  <2> QED
    BY <2>2, <2>3 DEF Garde, Contenus
<1> QED
  BY <1>1, <1>2, <1>3 DEF Integree

-------------------------------------------------------------------------------
\* What a pass knows of commits.

LEMMA Acquis ==
    ASSUME AInv
    PROVE  /\ DInv /\ Inv /\ TypeOK /\ Ecrases /\ TeteDroite /\ Etapes
           /\ p.pc \in EnMain => Gages
BY DEF AInv, DInv, Inv

\* What the steps of a pass leave alone.
LEMMA Cadre ==
    ASSUME TypeOK, Traiter
    PROVE  \/ p'.pc = "repos" /\ montre' = Aucun /\ UNCHANGED <<branches, tete, operation, remotes>>
           \/ /\ p.pc # "repos" /\ p'.pc # "repos" /\ p'.verdict = p.verdict
              /\ UNCHANGED <<remotes, montre, compteur, traces>>
<1> USE DEF depot, arbre, disque, amont, registre
<1>1. CASE Inscrire \/ Tuer
  BY <1>1 DEF Inscrire, Tuer, Repos
<1>2. CASE Sauter \/ Sauvegarder \/ Remiser \/ RemiseRefusee \/ Copier \/ Omettre \/ CopierRate
  BY <1>2 DEF Sauter, Sauvegarder, Remiser, RemiseRefusee, Copier, Omettre, CopierRate, TypeOK
<1>3. CASE Integrer \/ Buter \/ Extraire \/ Ramener \/ Echouer
  BY <1>3 DEF Integrer, Buter, Extraire, Ramener, Echouer, TypeOK
<1>4. CASE Abandonner \/ RemettreAuDepart \/ RendreEtRetirer \/ RendreRate \/ Reappliquer
  BY <1>4 DEF Abandonner, RemettreAuDepart, RendreEtRetirer, RendreRate, Reappliquer, TypeOK
<1> QED
  BY <1>1, <1>2, <1>3, <1>4 DEF Traiter

LEMMA AmontsSuite ==
    ASSUME AInv, Amonts, [Next]_vars
    PROVE  Amonts'
<1> USE DEF depot, arbre, disque, amont, registre
<1>0. TypeOK
  BY Acquis
<1>1. ASSUME remotes \subseteq remotes', montre' = montre,
             p'.pc # "repos" => p.pc # "repos" /\ p'.verdict = p.verdict
      PROVE  Amonts'
  BY <1>1 DEF Amonts, Retour
<1>2. ASSUME p'.pc = "repos", montre' = Aucun
      PROVE  Amonts'
  BY <1>2 DEF Amonts
<1>3. CASE Demander
  <2>1. ASSUME NEW mode \in {"branche", "manifeste"}, NEW st,
               NEW a \in {{}} \cup {l \in Lignes : l \subseteq remotes}, EssaiASec(mode, st, a)
        PROVE  Amonts'
    <3>1. /\ montre'.cible = ligne /\ montre'.ancienne = a /\ montre'.mode = mode
          /\ remotes' = remotes \cup ligne /\ p'.pc = "repos"
      BY <2>1 DEF EssaiASec
    <3>2. a \subseteq Publies \X {0}
      BY Histoires
    <3> QED
      BY <3>1, <3>2 DEF Amonts, Retour
  <2>2. ASSUME NEW h \in Instantanes, NEW b, EssaiRetour(h, b) PROVE Amonts'
    <3>1. /\ montre'.cible = h /\ montre'.ancienne = {} /\ montre'.mode = "instantane"
          /\ p'.pc = "repos"
      BY <2>2 DEF EssaiRetour
    <3>2. h \subseteq Publies \X {0}
      BY Histoires
    <3> QED
      BY <3>1, <3>2 DEF Amonts, Retour
  <2>3. CASE Lancer
    <3>1. montre' = montre /\ montre # Aucun /\ remotes \subseteq remotes'
      BY <2>3 DEF Lancer
    <3>2. Retour => p'.verdict = "retour"
      BY <1>0, <2>3 DEF Lancer, TypeOK
    <3> QED
      BY <3>1, <3>2 DEF Amonts, Retour
  <2>4. CASE Refuser
    BY <1>2, <2>4 DEF Refuser
  <2> QED
    BY <1>3, <2>1, <2>2, <2>3, <2>4 DEF Demander
<1>4. CASE Traiter
  BY <1>0, <1>1, <1>2, <1>4, Cadre
<1>5. CASE Gerer
  BY <1>1, <1>5 DEF Gerer, Restaurer, RestaurerAMoitie, Supprimer, AppliquerRemise
<1>6. CASE Travailler
  BY <1>1, <1>6 DEF Travailler, Valider, Retoucher, Changer, Pousser, MettreDeCote, Deposer,
                    Denouer, Publier
<1>7. CASE UNCHANGED vars
  BY <1>1, <1>7 DEF vars
<1> QED
  BY <1>3, <1>4, <1>5, <1>6, <1>7 DEF Next

LEMMA InterrompueSuite ==
    ASSUME AInv, AInv', Amonts, Interrompue, [Next]_vars
    PROVE  Interrompue'
<1> USE DEF depot, arbre, disque, amont, registre
<1>0. TypeOK /\ Ecrases /\ Etapes /\ TeteDroite
  BY Acquis
<1>1. ASSUME UNCHANGED <<branches, tete, operation>>, remotes \subseteq remotes',
             p'.pc = "rate" => p.pc = "rate"
      PROVE  Interrompue'
  BY <1>1 DEF Interrompue, Garde, Contenus
<1>2. ASSUME operation' = Aucun, p'.pc # "rate"
      PROVE  Interrompue'
  BY <1>2 DEF Interrompue
<1>3. CASE Demander
  BY <1>0, <1>1, <1>3 DEF Demander, EssaiASec, EssaiRetour, Lancer, Refuser, TypeOK
<1>4. CASE Traiter
  <2>1. CASE Sauter \/ Sauvegarder \/ Remiser \/ RemiseRefusee \/ Copier \/ Omettre \/ CopierRate
    BY <1>0, <1>1, <2>1 DEF Sauter, Sauvegarder, Remiser, RemiseRefusee, Copier, Omettre,
       CopierRate, TypeOK
  <2>2. CASE Integrer \/ Extraire \/ Ramener \/ RemettreAuDepart
    <3>1. operation = Aucun
      BY <1>0, <2>2 DEF Etapes, EnMain, Integrer, Extraire, Ramener, RemettreAuDepart
    <3>2. operation' = operation /\ p'.pc # "rate"
      BY <1>0, <2>2 DEF Integrer, Extraire, Ramener, RemettreAuDepart, TypeOK
    <3> QED
      BY <1>2, <3>1, <3>2
  <2>3. CASE Echouer \/ RendreEtRetirer \/ RendreRate
    BY <1>0, <1>1, <2>3 DEF Echouer, RendreEtRetirer, RendreRate, TypeOK
  <2>6. CASE Reappliquer
    <3>1. p'.pc = "fin" /\ UNCHANGED <<branches, tete, operation, remotes>>
      BY <1>0, <2>6 DEF Reappliquer, TypeOK
    <3> QED
      BY <1>1, <3>1
  <2>7. CASE Inscrire \/ Tuer
    <3>1. p'.pc = "repos" /\ UNCHANGED <<branches, tete, operation, remotes>>
      BY <2>7 DEF Inscrire, Tuer, Repos
    <3> QED
      BY <1>1, <3>1
  <2>4. CASE Abandonner
    BY <1>0, <1>1, <1>2, <2>4 DEF Abandonner, TypeOK
  <2>5. CASE Buter
    <3>1. /\ p.pc = "copie" /\ remotes' = remotes /\ p.verdict = "diverge"
          /\ operation'.branche = p.branche /\ operation'.h = p.depart
          /\ operation'.fini = Integree
          /\ Porter(Aucun, montre.cible) \/ UNCHANGED <<branches, tete>>
      BY <2>5 DEF Buter
    <3>2. HEAD = p.depart /\ tete.branche = p.branche /\ Gages
      BY <1>0, <3>1, Acquis DEF Ecrases, Etapes, EnMain
    <3>3. ~Retour /\ montre.cible \subseteq remotes
      BY <3>1 DEF Amonts
    <3>4. Garde(p.depart, Integree)
      BY <1>0, <3>1, <3>2, <3>3, GardeIntegree
    <3>5. branches' = branches
      BY <1>0, <3>1, SurPlace, Noms DEF Porter
    <3>6. p.branche # Aucun => branches'[p.branche] = p.depart
      BY <3>2, <3>5 DEF Gages
    <3>7. tete'.detachee \subseteq p.depart \cup remotes
      BY <1>0, <3>1, <3>2, <3>3 DEF Porter, Deplacer, TeteDroite, HEAD
    <3> QED
      BY <3>1, <3>4, <3>6, <3>7, GardeSous DEF Interrompue
  <2> QED
    BY <1>4, <2>1, <2>2, <2>3, <2>4, <2>5, <2>6, <2>7 DEF Traiter
<1>5. CASE Gerer
  <2>1. ASSUME NEW s \in sauvegardes, Restaurer(s) \/ RestaurerAMoitie(s) PROVE Interrompue'
    BY <1>2, <2>1 DEF Restaurer, RestaurerAMoitie, Restaurable, Sale
  <2>2. ASSUME NEW s, Supprimer(s) PROVE Interrompue'
    BY <1>1, <2>2 DEF Supprimer
  <2>3. ASSUME NEW i, AppliquerRemise(i) PROVE Interrompue'
    BY <1>1, <2>3 DEF AppliquerRemise
  <2> QED
    BY <1>5, <2>1, <2>2, <2>3 DEF Gerer
<1>6. CASE Travailler
  <2>1. ASSUME NEW c, Valider(c) PROVE Interrompue'
    BY <1>2, <2>1 DEF Valider, Libre
  <2>2. ASSUME NEW b, Changer(b) PROVE Interrompue'
    BY <1>2, <2>2 DEF Changer, Libre, Sale
  <2>3. ASSUME NEW h, Denouer(h) PROVE Interrompue'
    BY <1>2, <2>3 DEF Denouer, Libre
  <2>4. ASSUME \/ \E e \in Retouches : Retoucher(e)
               \/ Pousser \/ MettreDeCote \/ Deposer
               \/ \E l \in Lignes : Publier(l)
        PROVE  Interrompue'
    BY <1>1, <2>4 DEF Retoucher, Pousser, MettreDeCote, Deposer, Publier
  <2> QED
    BY <1>6, <2>1, <2>2, <2>3, <2>4 DEF Travailler
<1>7. CASE UNCHANGED vars
  BY <1>1, <1>7 DEF vars
<1> QED
  BY <1>3, <1>4, <1>5, <1>6, <1>7 DEF Next

\* The backups of a pass at work, while no branch moves.
LEMMA SauvesTenues ==
    ASSUME AInv, AInv', Surveille, p.pc \in EnMain, p'.pc \in EnMain, p'.depart = p.depart,
           UNCHANGED <<repere, sauvegardes, compteur>>
    PROVE  \A s \in DeLaPasse' : s.h = p'.depart \/ \E x \in Branche : s.h = branches'[x]
<1>1. branches' = branches
  BY DEF AInv, DInv, Gages
<1>2. DeLaPasse' = DeLaPasse
  BY DEF DeLaPasse
<1> QED
  BY <1>1, <1>2 DEF Surveille

\* A pass before its gesture, or once the clone is back on its start.
LEMMA CalmeSuite ==
    ASSUME AInv, AInv', Surveille, p.pc \in EnMain, p'.pc \in {"remise", "copie", "remis"},
           p'.depart = p.depart, UNCHANGED <<repere, sauvegardes, compteur>>
    PROVE  Surveille' /\ Bilan'
<1>1. p'.pc \in EnMain
  BY DEF EnMain
<1> QED
  BY <1>1, SauvesTenues DEF Surveille, Bilan

LEMMA SauvegarderBilan ==
    ASSUME AInv, Sauvegarder
    PROVE  Surveille' /\ Bilan'
<1>1. TypeOK /\ DeLaPasse = {} /\ p.pc = "constate"
  BY Acquis DEF DInv, Sauvegarder
<1>2. /\ p' = [p EXCEPT !.pc = "sauve", !.depart = HEAD, !.branche = tete.branche]
      /\ UNCHANGED <<branches, compteur>>
  BY DEF Sauvegarder, depot, registre
<1>3. p'.pc = "sauve" /\ p'.depart = HEAD
  BY <1>1, <1>2 DEF TypeOK
<1>4. ASSUME NEW s \in DeLaPasse' PROVE s.h = HEAD \/ \E x \in Branche : s.h = branches[x]
  <2>1. s \in sauvegardes' /\ s \notin sauvegardes
    BY <1>1, <1>2, <1>4 DEF DeLaPasse
  <2>2. \/ s = [nom |-> NomHead, h |-> HEAD]
        \/ NomCible # Aucun /\ s = [nom |-> NomCible, h |-> branches[Autre(tete.branche)]]
    BY <2>1 DEF Sauvegarder
  <2>3. CASE NomCible # Aucun /\ s = [nom |-> NomCible, h |-> branches[Autre(tete.branche)]]
    <3>1. Autre(tete.branche) # Aucun
      BY <2>3 DEF NomCible
    <3>2. montre \in Montre
      BY <1>1 DEF TypeOK
    <3>3. Autre(tete.branche) \in Branche
      BY <3>1, <3>2 DEF Autre, Montre
    <3> QED
      BY <2>3, <3>3
  <2> QED
    BY <2>2, <2>3
<1> QED
  BY <1>2, <1>3, <1>4 DEF Surveille, Bilan

\* HEAD on a branch, or detached.
LEMMA DetacheeTete == ASSUME TypeOK, tete.branche = Aucun PROVE tete.detachee = HEAD
BY DEF HEAD

LEMMA GesteBilan ==
    ASSUME AInv, AInv', Amonts, Surveille, Bilan, Integrer \/ Buter \/ Extraire \/ Ramener \/ Echouer
    PROVE  Surveille' /\ Bilan'
<1> USE DEF registre
<1>1. TypeOK /\ TypeOK' /\ Ecrases /\ Etapes /\ Inv /\ Gages
  BY Acquis DEF AInv, DInv, Inv, EnMain, Integrer, Buter, Extraire, Ramener, Echouer
<1>2. /\ p'.depart = p.depart /\ p'.branche = p.branche
      /\ UNCHANGED <<remotes, repere, sauvegardes, compteur, montre>>
  BY <1>1 DEF Integrer, Buter, Extraire, Ramener, Echouer, amont, TypeOK
<1>3. Autre(p.branche)' = Autre(p.branche) /\ (Retour' <=> Retour)
  BY <1>2 DEF Autre, Retour
<1>4. (p.pc \in EnMain /\ p'.pc \in EnMain) =>
         \A s \in DeLaPasse' : s.h = p'.depart \/ \E x \in Branche : s.h = branches'[x]
  BY <1>2, SauvesTenues
<1>5. CASE Integrer
  <2>1. p.pc = "copie" /\ ~Retour /\ p'.pc = "pop" /\ p'.etat \in {"avance", "tire"}
    BY <1>1, <1>5 DEF Integrer, TypeOK
  <2>2. montre.cible \in Histoire /\ Integree \in Histoire /\ HEAD = p.depart
    BY <1>1, <2>1, CibleType, IntegreeType DEF Ecrases
  <2>3. Garde(Integree, p.depart \cup montre.cible) /\ montre.cible \subseteq remotes
    BY <1>1, <2>1, <2>2, GardeIntegree DEF Amonts
  <2>4. Garde(p.depart \cup montre.cible, p.depart \cup remotes)
    BY <2>3, GardeSous
  <2>5. Garde(Integree, p.depart \cup remotes) /\ Garde(montre.cible, p.depart \cup remotes)
    BY <2>3, <2>4, GardeSous DEF Garde
  <2>6. HEAD' = montre.cible \/ HEAD' = Integree
    <3>1. CASE Porter(Aucun, montre.cible)
      BY <1>1, <2>2, <3>1, Deplace DEF Porter
    <3>2. CASE Porter(tete.branche, Integree)
      BY <1>1, <2>2, <3>2, Deplace DEF Porter, TypeOK
    <3> QED
      BY <1>5, <3>1, <3>2 DEF Integrer
  <2>7. Garde(HEAD', p'.depart \cup remotes')
    BY <1>2, <2>5, <2>6
  <2>8. Garde(HEAD, p.depart \cup remotes)'
    BY <2>7 DEF Garde, Contenus
  <2> QED
    BY <1>3, <2>1, <2>8 DEF Surveille, Bilan, EnMain
<1>6. CASE Buter
  <2>1. p.pc = "copie" /\ p'.pc = "rate" /\ p.verdict = "diverge"
    BY <1>1, <1>6 DEF Buter, TypeOK
  <2>2. ~Retour
    BY <2>1 DEF Amonts
  <2> QED
    BY <1>3, <1>4, <2>1, <2>2 DEF Surveille, Bilan, EnMain
<1>7. CASE Extraire
  <2>1. p.pc = "copie" /\ p'.pc = "extrait" /\ Autre(p.branche) # Aucun
        /\ tete'.branche = Autre(p.branche)
    BY <1>1, <1>7 DEF Extraire, Porter, Deplacer, TypeOK
  <2> QED
    BY <1>2, <1>3, <1>4, <2>1 DEF Surveille, Bilan, EnMain
<1>8. CASE Ramener
  <2>1. p'.pc = "fin" /\ p'.etat = "recule" /\ Retour
    BY <1>1, <1>8 DEF Ramener, TypeOK
  <2> QED
    BY <1>3, <2>1 DEF Surveille, Bilan, EnMain, Etat
<1>9. CASE Echouer
  <2>1. p.pc \in {"copie", "extrait"} /\ p'.pc = "abandonne" /\ UNCHANGED <<branches, tete>>
    BY <1>1, <1>9 DEF Echouer, depot, TypeOK
  <2>2. HEAD' = HEAD
    BY <2>1 DEF HEAD
  <2>3. p.pc = "copie" => HEAD = p.depart
    BY <1>1 DEF Ecrases
  <2>4. (p.pc = "copie" /\ tete.branche = Aucun) => tete.detachee = p.depart
    BY <1>1, <2>3, DetacheeTete
  <2>5. p.pc = "extrait" => tete.branche # Aucun /\ Autre(p.branche) # Aucun
    BY DEF Surveille
  <2>6. p.pc \in EnMain /\ p'.pc \in EnMain
    BY <2>1 DEF EnMain
  <2>7. /\ tete'.branche = Aucun => tete'.detachee = p'.depart
        /\ Autre(p.branche)' = Aucun => HEAD' = p'.depart
    BY <1>2, <1>3, <2>1, <2>2, <2>3, <2>4, <2>5
  <2> QED
    BY <1>2, <1>4, <2>1, <2>6, <2>7 DEF Surveille, Bilan
<1> QED
  BY <1>5, <1>6, <1>7, <1>8, <1>9

LEMMA AbandonnerBilan ==
    ASSUME AInv, AInv', Surveille, Abandonner
    PROVE  Surveille' /\ Bilan'
<1>1. TypeOK /\ TypeOK' /\ Ecrases /\ Etapes /\ Inv /\ p.pc = "rate" /\ p.pc \in EnMain
  BY Acquis DEF AInv, DInv, Inv, Abandonner, EnMain
<1>2. /\ p'.depart = p.depart /\ p'.branche = p.branche
      /\ UNCHANGED <<repere, sauvegardes, compteur, montre>>
  BY <1>1 DEF Abandonner, registre, TypeOK
<1>3. (Retour' <=> Retour) /\ ~Retour
  BY <1>1, <1>2 DEF Retour, Surveille
<1>4. CASE Porter(operation.branche, operation.h) /\ p' = [p EXCEPT !.pc = "abandonne"]
  <2>1. p'.pc = "abandonne" /\ p'.pc \in EnMain
    BY <1>1, <1>4 DEF TypeOK, EnMain
  <2>2. operation \in Operation /\ operation.h = p.depart
    BY <1>1 DEF Inv, Comptees, Ecrases
  <2>3. HEAD' = p.depart /\ (tete'.branche = Aucun => tete'.detachee = p.depart)
    BY <1>1, <1>4, <2>2, Deplace DEF Porter, Operation, Deplacer
  <2> QED
    BY <1>1, <1>2, <2>1, <2>3, SauvesTenues DEF Surveille, Bilan
<1>5. CASE p' = [p EXCEPT !.pc = "fin", !.etat = "restauration_echouee"]
  <2>1. p'.pc = "fin" /\ p'.etat = "restauration_echouee"
    BY <1>1, <1>5 DEF TypeOK
  <2> QED
    BY <1>3, <2>1 DEF Surveille, Bilan, EnMain, Etat
<1> QED
  BY <1>4, <1>5 DEF Abandonner

LEMMA RemettreBilan ==
    ASSUME AInv, AInv', Surveille, RemettreAuDepart
    PROVE  Surveille' /\ Bilan'
<1>1. TypeOK /\ p.pc = "abandonne" /\ p.pc \in EnMain
  BY Acquis DEF RemettreAuDepart, EnMain
<1>2. /\ p'.depart = p.depart /\ p'.branche = p.branche
      /\ UNCHANGED <<repere, sauvegardes, compteur, montre>>
  BY <1>1 DEF RemettreAuDepart, registre, TypeOK
<1>3. CASE p' = [p EXCEPT !.pc = "remis"]
  <2>1. p'.pc = "remis"
    BY <1>1, <1>3 DEF TypeOK
  <2> QED
    BY <1>1, <1>2, <2>1, CalmeSuite
<1>4. CASE p' = [p EXCEPT !.pc = "fin", !.etat = "restauration_echouee"]
           /\ UNCHANGED <<branches, tete>>
  <2>1. p'.pc = "fin" /\ p'.etat = "restauration_echouee" /\ HEAD' = HEAD
    BY <1>1, <1>4 DEF TypeOK, HEAD
  <2>2. montre.brCible = Aucun => HEAD = p.depart
    BY <1>1 DEF Surveille, Autre
  <2> QED
    BY <1>2, <2>1, <2>2 DEF Surveille, Bilan, EnMain, Etat
<1>5. CASE /\ Deplacer(p.branche, p.depart)
           /\ p' = [p EXCEPT !.pc = "fin", !.etat = "restauration_echouee"]
  <2>1. p'.pc = "fin" /\ p'.etat = "restauration_echouee"
    BY <1>1, <1>5 DEF TypeOK
  <2>2. p.depart \in Histoire /\ p.branche \in Branche \cup {Aucun}
    BY <1>1 DEF TypeOK
  <2>3. HEAD' = p.depart
    BY <1>1, <1>5, <2>2, Deplace
  <2> QED
    BY <1>2, <2>1, <2>3 DEF Surveille, Bilan, EnMain, Etat
<1> QED
  BY <1>3, <1>4, <1>5 DEF RemettreAuDepart

LEMMA FinBilan ==
    ASSUME AInv, Surveille, Bilan, RendreEtRetirer \/ Reappliquer
    PROVE  Surveille' /\ Bilan'
<1>1. TypeOK /\ Etapes
  BY Acquis
<1>2. UNCHANGED <<branches, tete, remotes, montre>>
  BY DEF RendreEtRetirer, Reappliquer, depot, amont, registre
<1>3. HEAD' = HEAD /\ (Retour' <=> Retour)
  BY <1>2 DEF HEAD, Retour
<1>4. CASE RendreEtRetirer
  <2>1. p'.pc = "pop" /\ p'.etat \in {"erreur", "conflit_annule"}
    BY <1>1, <1>4 DEF RendreEtRetirer, TypeOK, Etapes
  <2> QED
    BY <2>1 DEF Surveille, Bilan, EnMain
<1>5. CASE Reappliquer
  <2>1. /\ p.pc = "pop" /\ p'.pc = "fin" /\ p'.depart = p.depart
        /\ p.etat \in {"avance", "tire", "erreur", "conflit_annule"}
        /\ p'.etat = p.etat \/ (p.etat \in {"avance", "tire"} /\ p'.etat = "stash_garde")
    <3>1. p.pc = "pop" /\ p.etat \in {"avance", "tire", "erreur", "conflit_annule"}
      BY <1>1, <1>5 DEF Reappliquer, Etapes
    <3>2. CASE p' = [p EXCEPT !.pc = "fin"]
      BY <1>1, <3>1, <3>2 DEF TypeOK
    <3>3. CASE p' = [p EXCEPT !.pc = "fin", !.etat =
                        IF @ \in {"avance", "tire"} THEN "stash_garde" ELSE @]
      BY <1>1, <3>1, <3>3 DEF TypeOK
    <3> QED
      BY <1>5, <3>2, <3>3, <3>1 DEF Reappliquer
  <2>2. p'.etat \in {"avance", "tire", "stash_garde"} => ~Retour /\ Garde(HEAD, p.depart \cup remotes)
    BY <2>1 DEF Bilan
  <2>3. Garde(HEAD, p.depart \cup remotes) => Garde(HEAD, p.depart \cup remotes)'
    BY <1>2, <1>3, <2>1 DEF Garde, Contenus
  <2> QED
    BY <1>3, <2>1, <2>2, <2>3 DEF Surveille, Bilan, EnMain, Etat
<1> QED
  BY <1>4, <1>5

LEMMA BilanSuite ==
    ASSUME AInv, AInv', Amonts, Surveille, Bilan, [Next]_vars
    PROVE  Surveille' /\ Bilan'
<1> USE DEF depot, arbre, disque, amont, registre
<1>0. TypeOK
  BY Acquis
<1>1. ASSUME p'.pc \in {"repos", "constate"}
      PROVE  Surveille' /\ Bilan'
  BY <1>1 DEF Surveille, Bilan, EnMain
<1>2. CASE Demander
  BY <1>0, <1>1, <1>2 DEF Demander, EssaiASec, EssaiRetour, Lancer, Refuser, TypeOK
<1>3. CASE Traiter
  <2>1. CASE Inscrire \/ Tuer
    BY <1>1, <2>1 DEF Inscrire, Tuer, Repos
  <2>2. CASE Remiser \/ Copier \/ Omettre
    <3>1. /\ p.pc \in EnMain /\ p'.pc \in {"remise", "copie", "remis"} /\ p'.depart = p.depart
          /\ UNCHANGED <<repere, sauvegardes, compteur>>
      BY <1>0, <2>2 DEF Remiser, Copier, Omettre, TypeOK, EnMain
    <3> QED
      BY <3>1, CalmeSuite
  <2>3. CASE Sauter \/ RemiseRefusee \/ CopierRate \/ RendreRate
    <3>1. p'.pc = "fin" /\ p'.etat \in {"saute", "erreur", "interne"}
      BY <1>0, <2>3 DEF Sauter, RemiseRefusee, CopierRate, RendreRate, TypeOK
    <3> QED
      BY <3>1 DEF Surveille, Bilan, EnMain, Etat
  <2> QED
    BY <1>3, <2>1, <2>2, <2>3, SauvegarderBilan, GesteBilan, AbandonnerBilan, RemettreBilan,
       FinBilan DEF Traiter
<1>4. CASE Gerer \/ Travailler
  <2>1. p.pc \in {"repos", "constate"} /\ p' = p
    BY <1>4 DEF Gerer, Restaurer, RestaurerAMoitie, Restaurable, Supprimer, AppliquerRemise,
       Travailler, Libre, Valider, Retoucher, Changer, Pousser, MettreDeCote, Deposer, Denouer,
       Publier
  <2> QED
    BY <1>1, <2>1
<1>5. CASE UNCHANGED vars
  <2>1. /\ HEAD' = HEAD /\ DeLaPasse' = DeLaPasse /\ (Retour' <=> Retour)
        /\ Autre(p.branche)' = Autre(p.branche)
        /\ UNCHANGED <<branches, tete, remotes, montre, p>>
    BY <1>5 DEF vars, HEAD, DeLaPasse, Retour, Autre
  <2>2. Surveille'
    BY <2>1 DEF Surveille
  <2>3. Garde(HEAD, p.depart \cup remotes)' <=> Garde(HEAD, p.depart \cup remotes)
    BY <2>1 DEF Garde, Contenus
  <2>4. Bilan'
    BY <2>1, <2>3 DEF Bilan
  <2> QED
    BY <2>2, <2>4
<1> QED
  BY <1>2, <1>3, <1>4, <1>5 DEF Next

-------------------------------------------------------------------------------
\* The arrivals on record.

\* What the record of a pass that ended calls its arrival.
LEMMA ArriveeGardee ==
    ASSUME AInv, Amonts, Bilan, p.pc = "fin", DeLaPasse # {},
           NEW r, r = (IF \/ p.etat = "interne"
                          \/ ~Retour /\ p.etat = "restauration_echouee"
                       THEN {} ELSE HEAD),
           ~Retour \/ (IF p.etat = "recule" THEN tete.branche ELSE Aucun) = montre.brCible
    PROVE  Garde(r, p.depart \cup remotes)
<1>1. RevenuOuArrive /\ p.etat \in Etat \ {"aucun"}
  BY DEF AInv, DInv, Bilan
<1>2. p.etat \in {"recule", "avance", "tire", "stash_garde", "interne", "restauration_echouee"}
  BY <1>1 DEF RevenuOuArrive, Depart, Etat
<1>3. CASE r = {}
  BY <1>3, GardeSous
<1>4. CASE r # {} /\ p.etat = "recule"
  <2>1. Retour /\ HEAD = montre.cible
    BY <1>1, <1>4 DEF Bilan, RevenuOuArrive, Arrivee
  <2>2. HEAD \subseteq Publies \X {0}
    BY <2>1 DEF Amonts
  <2> QED
    BY <1>4, <2>2, GardePublies
<1>5. CASE r # {} /\ p.etat \in {"avance", "tire", "stash_garde"}
  BY <1>5 DEF Bilan
<1>6. CASE r # {} /\ p.etat = "restauration_echouee"
  <2>1. Retour /\ montre.brCible = Aucun /\ r = HEAD
    BY <1>6
  <2>2. HEAD = p.depart
    BY <1>6, <2>1 DEF Bilan
  <2> QED
    BY <2>1, <2>2, GardeSous
<1> QED
  BY <1>2, <1>3, <1>4, <1>5, <1>6

LEMMA InscrireArrivee ==
    ASSUME AInv, Amonts, Bilan, Arrivees, Inscrire
    PROVE  Arrivees'
<1>1. TypeOK /\ p.pc = "fin" /\ UNCHANGED <<remotes, sauvegardes>>
  BY Acquis DEF Inscrire, amont
<1>2. CASE traces' = traces
  BY <1>1, <1>2 DEF Arrivees, Garde, Contenus
<1>3. CASE traces' # traces
  <2> DEFINE n == NomPrincipal
             r == IF p.etat = "interne" \/ (~Retour /\ p.etat = "restauration_echouee")
                  THEN {} ELSE HEAD
             b == IF ~Retour THEN p.branche ELSE IF p.etat = "recule" THEN tete.branche ELSE Aucun
             t == [branche |-> p.branche, sauvegarde |-> n, arrivee |-> r, brArrivee |-> b,
                   brCible |-> montre.brCible,
                   sauvegardeCible |-> IF Autre(p.branche) # Aucun /\ Existe(NomAutre)
                                       THEN NomAutre ELSE Aucun]
  <2>1. Existe(n) /\ traces' = [traces EXCEPT ![compteur] = t]
    BY <1>3 DEF Inscrire, NomPrincipal, NomAutre
  <2>2. n.passe = compteur /\ n.sorte = (IF Retour THEN "retour" ELSE "pull")
    BY DEF NomPrincipal, NomDe
  <2>3. /\ t.sauvegarde = n /\ t.arrivee = r /\ t.brArrivee = b /\ t.brCible = montre.brCible
    OBVIOUS
  <2> HIDE DEF n, r, b, t
  <2>4. compteur \in Passe /\ traces \in [Passe -> Trace \cup {Aucun}]
    BY <1>1 DEF TypeOK
  <2>5. /\ traces'[compteur] = t
        /\ \A k \in Passe : k # compteur => traces'[k] = traces[k]
    BY <2>1, <2>4
  <2>6. PICK z \in sauvegardes : z.nom = n
    BY <2>1 DEF Existe
  <2>7. DeLaPasse # {}
    BY <2>2, <2>6 DEF DeLaPasse
  <2>8. p.etat # "saute"
    BY <1>1, <2>7 DEF AInv, DInv, RevenuOuArrive
  <2>9. \A s \in sauvegardes : s.nom = n => s.h = p.depart
    BY <1>1, <2>8 DEF AInv, EnCours, Cours, n
  <2>10. ASSUME n.sorte = "pull" \/ b = montre.brCible
         PROVE  Garde(r, p.depart \cup remotes)
    <3>1. ~Retour \/ (IF p.etat = "recule" THEN tete.branche ELSE Aucun) = montre.brCible
      BY <2>2, <2>10 DEF b
    <3> QED
      BY <1>1, <2>7, <3>1, ArriveeGardee DEF r
  <2>11. ASSUME NEW s \in sauvegardes, s.nom = n, s.nom.sorte = "pull" \/ b = montre.brCible
         PROVE  Garde(r, s.h \cup remotes)
    BY <2>9, <2>10, <2>11
  <2>12. ASSUME NEW k \in Passe, traces'[k] # Aucun
         PROVE  /\ traces'[k].sauvegarde.passe = k
                /\ \A s \in sauvegardes' :
                     (/\ s.nom = traces'[k].sauvegarde
                      /\ s.nom.sorte = "pull" \/ traces'[k].brArrivee = traces'[k].brCible) =>
                        Garde(traces'[k].arrivee, s.h \cup remotes)
    <3>1. CASE k = compteur
      BY <1>1, <2>2, <2>3, <2>5, <2>11, <3>1
    <3>2. CASE k # compteur
      BY <1>1, <2>5, <2>12, <3>2 DEF Arrivees
    <3> QED
      BY <3>1, <3>2
  <2> QED
    BY <1>1, <2>12 DEF Arrivees, Garde, Contenus
<1> QED
  BY <1>2, <1>3

LEMMA ArriveesSuite ==
    ASSUME AInv, Amonts, Bilan, Arrivees, [Next]_vars
    PROVE  Arrivees'
<1> USE DEF depot, arbre, disque, amont, registre
<1>0. TypeOK
  BY Acquis
<1>1. ASSUME traces' = traces, sauvegardes' \subseteq sauvegardes, remotes \subseteq remotes'
      PROVE  Arrivees'
  BY <1>1 DEF Arrivees, Garde, Contenus
<1>2. CASE Demander
  BY <1>1, <1>2 DEF Demander, EssaiASec, EssaiRetour, Lancer, Refuser
<1>3. CASE Traiter
  <2>1. CASE Sauvegarder
    <3>1. /\ p.pc = "constate" /\ UNCHANGED <<traces, remotes>>
          /\ \A s \in sauvegardes' : \/ s \in sauvegardes \/ s.nom = NomHead
                                     \/ NomCible # Aucun /\ s.nom = NomCible
      BY <2>1 DEF Sauvegarder
    <3>2. traces[compteur] = Aucun
      BY <3>1, SansRecord
    <3>3. NomHead.passe = compteur /\ (NomCible # Aucun => NomCible.passe = compteur)
      BY DEF NomHead, NomCible, NomTirage, NomDe
    <3>4. ASSUME NEW k \in Passe, traces[k] # Aucun, NEW s \in sauvegardes',
                 s.nom = traces[k].sauvegarde
          PROVE  s \in sauvegardes
      <4>1. traces[k].sauvegarde.passe = k
        BY <3>4 DEF Arrivees
      <4> QED
        BY <3>1, <3>2, <3>3, <3>4, <4>1
    <3> QED
      BY <3>1, <3>4 DEF Arrivees, Garde, Contenus
  <2>2. CASE Sauter \/ Remiser \/ RemiseRefusee \/ Copier \/ Omettre \/ CopierRate
    BY <1>1, <2>2 DEF Sauter, Remiser, RemiseRefusee, Copier, Omettre, CopierRate
  <2>3. CASE Integrer \/ Buter \/ Extraire \/ Ramener \/ Echouer
    BY <1>1, <2>3 DEF Integrer, Buter, Extraire, Ramener, Echouer
  <2>4. CASE Abandonner \/ RemettreAuDepart \/ RendreEtRetirer \/ RendreRate \/ Reappliquer \/ Tuer
    BY <1>1, <2>4 DEF Abandonner, RemettreAuDepart, RendreEtRetirer, RendreRate, Reappliquer, Tuer
  <2> QED
    BY <1>3, <2>1, <2>2, <2>3, <2>4, InscrireArrivee DEF Traiter
<1>4. CASE Gerer
  BY <1>1, <1>4 DEF Gerer, Restaurer, RestaurerAMoitie, Supprimer, AppliquerRemise
<1>5. CASE Travailler
  BY <1>1, <1>5 DEF Travailler, Valider, Retoucher, Changer, Pousser, MettreDeCote, Deposer,
                    Denouer, Publier
<1>6. CASE UNCHANGED vars
  BY <1>1, <1>6 DEF vars
<1> QED
  BY <1>2, <1>3, <1>4, <1>5, <1>6 DEF Next

LEMMA CInvInit == Init => CInv
<1> SUFFICES ASSUME Init PROVE CInv
  OBVIOUS
<1>1. AInv
  BY AInvInit
<1>2. /\ p.pc = "repos" /\ montre = Aucun /\ operation = Aucun
      /\ traces = [k \in Passe |-> Aucun]
  BY DEF Init, Repos
<1> QED
  BY <1>1, <1>2 DEF CInv, Amonts, Interrompue, Surveille, Bilan, Arrivees, EnMain

LEMMA CInvSuite == CInv /\ [Next]_vars => CInv'
BY AInvSuite, AmontsSuite, InterrompueSuite, BilanSuite, ArriveesSuite DEF CInv

-------------------------------------------------------------------------------
\* Nothing is lost.

\* All that is kept.
Tout == References \cup (IF operation = Aucun THEN {} ELSE operation.h)

LEMMA ToutRetient == Garde(Tout, Tout') <=> Retient \subseteq Retient'
BY DEF Garde, Tout, Retient

Parties ==
    /\ tete.detachee \subseteq Tout /\ remotes \subseteq Tout
    /\ \A x \in Branche : branches[x] \subseteq Tout
    /\ \A s \in sauvegardes : s.h \subseteq Tout
    /\ operation # Aucun => operation.h \subseteq Tout

LEMMA Compris == Parties
<1>1. \A x \in Branche : branches[x] \subseteq UNION {branches[b] : b \in Branche}
  OBVIOUS
<1>2. \A s \in sauvegardes : s.h \subseteq UNION {z.h : z \in sauvegardes}
  OBVIOUS
<1>3. References \subseteq Tout /\ (operation # Aucun => operation.h \subseteq Tout)
  BY DEF Tout
<1> QED
  BY <1>1, <1>2, <1>3 DEF Parties, References

LEMMA ComprisApres == Parties'
BY Compris, PTL

LEMMA Reparti ==
    ASSUME NEW c \in Tout
    PROVE  \/ c \in tete.detachee \/ c \in remotes
           \/ \E x \in Branche : c \in branches[x]
           \/ \E s \in sauvegardes : c \in s.h
           \/ operation # Aucun /\ c \in operation.h
<1>1. c \in References \/ (operation # Aucun /\ c \in operation.h)
  BY DEF Tout
<1>2. CASE c \in UNION {branches[b] : b \in Branche}
  BY <1>2
<1>3. CASE c \in UNION {z.h : z \in sauvegardes}
  BY <1>3
<1> QED
  BY <1>1, <1>2, <1>3 DEF References

\* Kept part by part.
LEMMA Parts ==
    ASSUME Garde(tete.detachee, Tout'), \A x \in Branche : Garde(branches[x], Tout'),
           \A s \in sauvegardes : Garde(s.h, Tout'), remotes \subseteq remotes',
           operation # Aucun => Garde(operation.h, Tout')
    PROVE  Garde(Tout, Tout')
<1>1. remotes \subseteq Tout'
  BY ComprisApres DEF Parties
<1>2. ASSUME NEW c \in Tout, c[1] \in Locaux PROVE c[1] \in Contenus(Tout')
  <2>1. CASE c \in remotes
    BY <1>1, <2>1 DEF Contenus
  <2>2. CASE c \in tete.detachee
    BY <1>2, <2>2 DEF Garde, Contenus
  <2>3. CASE \E x \in Branche : c \in branches[x]
    BY <1>2, <2>3 DEF Garde, Contenus
  <2>4. CASE \E s \in sauvegardes : c \in s.h
    BY <1>2, <2>4 DEF Garde, Contenus
  <2>5. CASE operation # Aucun /\ c \in operation.h
    BY <1>2, <2>5 DEF Garde, Contenus
  <2> QED
    BY <2>1, <2>2, <2>3, <2>4, <2>5, Reparti
<1> QED
  BY <1>2 DEF Garde, Contenus

\* No reference moves, and the backups that go are of what the branches or HEAD hold.
LEMMA Immobile ==
    ASSUME UNCHANGED <<branches, tete>>, remotes \subseteq remotes',
           \/ sauvegardes \subseteq sauvegardes'
           \/ \A s \in sauvegardes \ sauvegardes' :
                 s.h = tete.detachee \/ \E x \in Branche : s.h = branches[x],
           operation' = operation \/ operation = Aucun
    PROVE  Garde(Tout, Tout')
<1>1. /\ tete.detachee \subseteq Tout' /\ \A x \in Branche : branches[x] \subseteq Tout'
      /\ \A s \in sauvegardes : s \in sauvegardes' => s.h \subseteq Tout'
      /\ operation # Aucun => operation.h \subseteq Tout'
  BY ComprisApres DEF Parties
<1>2. \A s \in sauvegardes : s.h \subseteq Tout'
  BY <1>1
<1> QED
  BY <1>1, <1>2, GardeSous, Parts

\* HEAD moves.
LEMMA Deplacee ==
    ASSUME TypeOK, NEW b \in Branche \cup {Aucun}, NEW h \in Histoire, Deplacer(b, h),
           UNCHANGED <<remotes, sauvegardes>>,
           h \subseteq Tout' =>
              /\ Garde(tete.detachee, Tout')
              /\ b # Aucun => Garde(branches[b], Tout')
              /\ operation # Aucun => Garde(operation.h, Tout')
    PROVE  Garde(Tout, Tout')
<1>1. HEAD' = h
  BY Deplace
<1>2. /\ tete' = [branche |-> b, detachee |-> IF b = Aucun THEN h ELSE {}]
      /\ branches' = [x \in Branche |-> IF x = b THEN h ELSE branches[x]]
  BY DEF Deplacer
<1>3. tete'.detachee \subseteq Tout' /\ \A x \in Branche : branches'[x] \subseteq Tout'
  BY ComprisApres DEF Parties
<1>4. h \subseteq Tout'
  BY <1>2, <1>3, Noms
<1>5. \A x \in Branche : x # b => Garde(branches[x], Tout')
  BY <1>2, <1>3, GardeSous
<1>6. \A x \in Branche : Garde(branches[x], Tout')
  BY <1>4, <1>5, Noms
<1>7. \A s \in sauvegardes : Garde(s.h, Tout')
  BY ComprisApres, GardeSous DEF Parties
<1> QED
  BY <1>4, <1>6, <1>7, Parts

\* Without an operation, HEAD goes to a branch that it keeps, from where it is kept.
LEMMA HeadDeplacee ==
    ASSUME CInv, operation = Aucun, NEW b \in Branche \cup {Aucun}, NEW h \in Histoire,
           Deplacer(b, h), UNCHANGED <<remotes, sauvegardes>>,
           h \subseteq Tout' => /\ tete.branche = Aucun => Garde(HEAD, Tout')
                                /\ b # Aucun => Garde(branches[b], Tout')
    PROVE  Garde(Tout, Tout')
<1>1. TypeOK /\ TeteDroite
  BY Acquis DEF CInv
<1>2. tete.detachee = {} \/ (tete.branche = Aucun /\ tete.detachee = HEAD)
  BY <1>1 DEF TeteDroite, HEAD
<1>3. Garde({}, Tout')
  BY GardeSous
<1> QED
  BY <1>1, <1>2, <1>3, Deplacee

-------------------------------------------------------------------------------
\* The user.

LEMMA ValiderGarde ==
    ASSUME CInv, NEW c \in Locaux, Valider(c)
    PROVE  Garde(Tout, Tout')
<1> DEFINE h == HEAD \cup {<<c, 0>>}
<1>1. TypeOK
  BY Acquis DEF CInv
<1>2. /\ operation = Aucun /\ Deplacer(tete.branche, h)
      /\ UNCHANGED <<remotes, sauvegardes>>
  BY DEF Valider, amont
<1>3. h \in Histoire /\ HEAD \subseteq h
  BY <1>1, TeteType, ContenuType
<1>4. tete.branche \in Branche \cup {Aucun} /\ (tete.branche # Aucun => branches[tete.branche] = HEAD)
  BY <1>1 DEF TypeOK, HEAD
<1> HIDE DEF h
<1>5. h \subseteq Tout' => Garde(HEAD, Tout')
  BY <1>3, GardeSous
<1> QED
  BY <1>2, <1>3, <1>4, <1>5, HeadDeplacee

LEMMA ChangerGarde ==
    ASSUME CInv, NEW b \in Branche, Changer(b)
    PROVE  Garde(Tout, Tout')
<1> DEFINE h == IF branches[b] = {} THEN HEAD ELSE branches[b]
<1>1. TypeOK
  BY Acquis DEF CInv
<1>2. /\ operation = Aucun /\ Deplacer(b, h) /\ UNCHANGED <<remotes, sauvegardes>>
      /\ tete.branche = Aucun => tete.detachee \subseteq h \cup remotes
  BY DEF Changer, Porter, Sale, amont
<1>3. h \in Histoire /\ branches[b] \subseteq h
  BY <1>1, TeteType DEF TypeOK
<1>4. tete.branche = Aucun => HEAD \subseteq h \cup remotes
  BY <1>1, <1>2, DetacheeTete
<1> HIDE DEF h
<1>5. remotes \subseteq Tout'
  BY <1>2, ComprisApres DEF Parties
<1>6. h \subseteq Tout' => /\ tete.branche = Aucun => Garde(HEAD, Tout')
                           /\ Garde(branches[b], Tout')
  BY <1>3, <1>4, <1>5, GardeSous
<1> QED
  BY <1>2, <1>3, <1>6, HeadDeplacee

LEMMA DenouerGarde ==
    ASSUME CInv, NEW h \in {operation.h, operation.fini}, Denouer(h)
    PROVE  Garde(Tout, Tout')
<1>1. TypeOK /\ Interrompue
  BY Acquis DEF CInv
<1>2. /\ operation # Aucun /\ Deplacer(operation.branche, h)
      /\ UNCHANGED <<remotes, sauvegardes>>
  BY DEF Denouer, Porter, amont
<1>3. operation \in Operation
  BY <1>1, <1>2 DEF TypeOK
<1>4. operation.branche \in Branche \cup {Aucun} /\ h \in Histoire
  BY <1>3 DEF Operation
<1>5. /\ Garde(operation.h, h)
      /\ operation.branche # Aucun => branches[operation.branche] = operation.h
      /\ Garde(tete.detachee, operation.h \cup remotes)
  BY <1>1, <1>2, GardeSous DEF Interrompue
<1>6. remotes \subseteq Tout'
  BY <1>2, ComprisApres DEF Parties
<1>7. ASSUME h \subseteq Tout'
      PROVE  Garde(operation.h, Tout') /\ Garde(tete.detachee, Tout')
  <2>1. Garde(h, Tout')
    BY <1>7, GardeSous
  <2>2. Garde(operation.h, Tout')
    BY <1>5, <2>1 DEF Garde
  <2> QED
    BY <1>5, <1>6, <2>2, GardeSuit
<1> QED
  BY <1>1, <1>2, <1>4, <1>5, <1>7, Deplacee

LEMMA TravaillerGarde ==
    ASSUME CInv, Travailler
    PROVE  Garde(Tout, Tout')
<1> USE DEF depot, arbre, disque, amont, registre
<1>1. ASSUME \/ \E e \in Retouches : Retoucher(e)
             \/ MettreDeCote \/ Deposer
             \/ \E l \in Lignes : Publier(l)
      PROVE  UNCHANGED <<branches, tete, operation, sauvegardes, remotes>>
  BY <1>1 DEF Retoucher, MettreDeCote, Deposer, Publier
<1>2. ASSUME Pousser
      PROVE  UNCHANGED <<branches, tete, operation, sauvegardes>> /\ remotes \subseteq remotes'
  BY <1>2 DEF Pousser
<1> QED
  BY <1>1, <1>2, Immobile, ValiderGarde, ChangerGarde, DenouerGarde DEF Travailler

-------------------------------------------------------------------------------
\* A pass.

\* The start of a pass at its gesture is under a backup.
LEMMA SousSauvegarde ==
    ASSUME CInv, p.pc \in EnMain, UNCHANGED sauvegardes
    PROVE  Garde(p.depart, Tout')
<1>1. PICK s \in DeLaPasse : s.h = p.depart
  BY Acquis DEF CInv, Gages
<1>2. s.h \subseteq Tout'
  BY ComprisApres DEF DeLaPasse, Parties
<1> QED
  BY <1>1, <1>2, GardeSous

LEMMA GestesGarde ==
    ASSUME CInv, Integrer \/ Buter \/ Extraire \/ Ramener
    PROVE  Garde(Tout, Tout')
<1>1. /\ TypeOK /\ Inv /\ Ecrases /\ Etapes /\ Gages /\ Surveille
      /\ p.pc \in {"copie", "extrait"} /\ p.pc \in EnMain
  BY Acquis DEF CInv, EnMain, Integrer, Buter, Extraire, Ramener
<1>2. operation = Aucun /\ UNCHANGED <<remotes, sauvegardes>>
  BY <1>1 DEF Etapes, EnMain, Integrer, Buter, Extraire, Ramener, amont
<1>3. p.pc = "copie" => HEAD = p.depart /\ tete.branche = p.branche
  BY <1>1 DEF Ecrases, Etapes
<1>4. p.pc = "extrait" => tete.branche # Aucun
  BY <1>1 DEF Surveille
<1>5. Garde(p.depart, Tout')
  BY <1>1, <1>2, SousSauvegarde DEF CInv
<1>6. tete.branche = Aucun => Garde(HEAD, Tout')
  BY <1>1, <1>3, <1>4, <1>5
<1>7. p.branche # Aucun => Garde(branches[p.branche], Tout')
  BY <1>1, <1>5 DEF Gages
<1>8. p.branche \in Branche \cup {Aucun} /\ montre.cible \in Histoire
      /\ montre.brCible \in Branche \cup {Aucun} /\ Integree \in Histoire
  BY <1>1, CibleType, IntegreeType
<1>9. CASE Integrer
  <2>1. p.pc = "copie"
    BY <1>9 DEF Integrer
  <2>2. Deplacer(Aucun, montre.cible) \/ Deplacer(p.branche, Integree)
    BY <1>3, <1>9, <2>1 DEF Integrer, Porter
  <2> QED
    BY <1>2, <1>6, <1>7, <1>8, <2>2, HeadDeplacee
<1>10. CASE Buter
  <2>1. Deplacer(Aucun, montre.cible) \/ UNCHANGED <<branches, tete>>
    BY <1>10 DEF Buter, Porter
  <2>2. CASE Deplacer(Aucun, montre.cible)
    BY <1>2, <1>6, <1>8, <2>2, HeadDeplacee
  <2>3. CASE UNCHANGED <<branches, tete>>
    BY <1>2, <2>3, Immobile
  <2> QED
    BY <2>1, <2>2, <2>3
<1>11. CASE Extraire
  <2> DEFINE a == Autre(p.branche)
  <2>1. a # Aucun /\ Deplacer(a, branches[a])
    BY <1>11 DEF Extraire, Porter
  <2>2. a \in Branche
    BY <1>8, <2>1 DEF Autre
  <2>3. branches[a] \in Histoire
    BY <1>1, <2>2 DEF TypeOK
  <2> HIDE DEF a
  <2>4. branches[a] \subseteq Tout' => Garde(branches[a], Tout')
    BY GardeSous
  <2> QED
    BY <1>2, <1>6, <2>1, <2>2, <2>3, <2>4, HeadDeplacee
<1>12. CASE Ramener
  <2> DEFINE b == montre.brCible
  <2>1. Retour /\ Deplacer(b, montre.cible)
    BY <1>12 DEF Ramener, Porter
  <2>2. ASSUME montre.cible \subseteq Tout', b # Aucun
        PROVE  Garde(branches[b], Tout')
    <3>1. CASE b = p.branche
      BY <1>7, <2>2, <3>1
    <3>2. CASE b # p.branche
      <4>1. branches[b] \in {{}, montre.cible} \cup {s.h : s \in DeLaPasse}
        BY <1>1, <2>1, <2>2, <3>2 DEF Gages
      <4>2. \A s \in DeLaPasse : s.h \subseteq Tout'
        BY <1>2, ComprisApres DEF DeLaPasse, Parties
      <4> QED
        BY <2>2, <4>1, <4>2, GardeSous
    <3> QED
      BY <3>1, <3>2
  <2> HIDE DEF b
  <2>3. b \in Branche \cup {Aucun}
    BY <1>8 DEF b
  <2> QED
    BY <1>2, <1>6, <1>8, <2>1, <2>2, <2>3, HeadDeplacee
<1> QED
  BY <1>9, <1>10, <1>11, <1>12

LEMMA DefaireGarde ==
    ASSUME CInv, Abandonner \/ RemettreAuDepart
    PROVE  Garde(Tout, Tout')
<1>1. TypeOK /\ Inv /\ Ecrases /\ Etapes /\ Gages /\ Surveille /\ Interrompue
      /\ p.pc \in {"rate", "abandonne"} /\ p.pc \in EnMain
  BY Acquis DEF CInv, EnMain, Abandonner, RemettreAuDepart
<1>2. UNCHANGED <<remotes, sauvegardes>>
  BY DEF Abandonner, RemettreAuDepart, amont
<1>3. Garde(p.depart, Tout')
  BY <1>1, <1>2, SousSauvegarde
<1>4. p.branche \in Branche \cup {Aucun} /\ p.depart \in Histoire
  BY <1>1 DEF TypeOK
<1>5. p.branche # Aucun => branches[p.branche] = p.depart
  BY <1>1 DEF Gages
<1>6. CASE Abandonner
  <2>1. CASE UNCHANGED depot
    BY <1>2, <2>1, Immobile DEF depot
  <2>2. CASE Porter(operation.branche, operation.h)
    <3>1. p.pc = "rate"
      BY <1>6 DEF Abandonner
    <3>2. /\ operation.h = p.depart /\ operation.branche = p.branche
          /\ Garde(tete.detachee, operation.h \cup remotes)
      BY <1>1, <3>1 DEF Ecrases, Etapes, Interrompue
    <3>3. remotes \subseteq Tout'
      BY <1>2, ComprisApres DEF Parties
    <3>4. Garde(tete.detachee, Tout')
      BY <1>3, <3>2, <3>3, GardeSuit
    <3>5. Deplacer(p.branche, p.depart)
      BY <2>2, <3>2 DEF Porter
    <3> QED
      BY <1>1, <1>2, <1>3, <1>4, <1>5, <3>2, <3>4, <3>5, Deplacee
  <2> QED
    BY <1>6, <2>1, <2>2 DEF Abandonner, depot
<1>7. CASE RemettreAuDepart
  <2>1. p.pc = "abandonne" /\ operation' = operation
    BY <1>7 DEF RemettreAuDepart
  <2>2. operation = Aucun
    BY <1>1, <2>1 DEF Etapes
  <2>3. CASE UNCHANGED <<branches, tete>>
    BY <1>2, <2>1, <2>3, Immobile
  <2>4. CASE Deplacer(p.branche, p.depart)
    <3>1. tete.branche = Aucun => HEAD = p.depart
      BY <1>1, <2>1, DetacheeTete DEF Surveille
    <3> QED
      BY <1>2, <1>3, <1>4, <1>5, <2>2, <2>4, <3>1, HeadDeplacee
  <2> QED
    BY <1>7, <2>3, <2>4 DEF RemettreAuDepart
<1> QED
  BY <1>6, <1>7

\* The backups a pass takes away are of what its branches and HEAD hold.
LEMMA RetirerGarde ==
    ASSUME CInv, RemiseRefusee \/ RendreEtRetirer
    PROVE  Garde(Tout, Tout')
<1>1. TypeOK /\ Ecrases /\ TeteDroite /\ Surveille /\ p.pc \in {"sauve", "remis"} /\ p.pc \in EnMain
  BY Acquis DEF CInv, EnMain, RemiseRefusee, RendreEtRetirer
<1>2. /\ UNCHANGED <<branches, tete, remotes, operation>>
      /\ sauvegardes' = sauvegardes \ DeLaPasse
  BY DEF RemiseRefusee, RendreEtRetirer, depot, amont
<1>3. HEAD = p.depart
  BY <1>1 DEF Ecrases
<1>4. HEAD = tete.detachee \/ \E x \in Branche : HEAD = branches[x]
  BY <1>1 DEF HEAD, TypeOK
<1>5. \A s \in sauvegardes \ sauvegardes' :
         s.h = tete.detachee \/ \E x \in Branche : s.h = branches[x]
  BY <1>1, <1>2, <1>3, <1>4 DEF Surveille
<1> QED
  BY <1>2, <1>5, Immobile

LEMMA TraiterGarde ==
    ASSUME CInv, Traiter
    PROVE  Garde(Tout, Tout')
<1> USE DEF depot, arbre, disque, amont, registre
<1>1. CASE Sauter \/ Sauvegarder \/ Remiser \/ Copier \/ Omettre \/ CopierRate \/ Echouer
  <2>1. UNCHANGED <<branches, tete, operation, remotes>> /\ sauvegardes \subseteq sauvegardes'
    BY <1>1 DEF Sauter, Sauvegarder, Remiser, Copier, Omettre, CopierRate, Echouer
  <2> QED
    BY <2>1, Immobile
<1>2. CASE RendreRate \/ Reappliquer \/ Inscrire \/ Tuer
  <2>1. UNCHANGED <<branches, tete, operation, remotes, sauvegardes>>
    BY <1>2 DEF RendreRate, Reappliquer, Inscrire, Tuer
  <2> QED
    BY <2>1, Immobile
<1> QED
  BY <1>1, <1>2, GestesGarde, DefaireGarde, RetirerGarde DEF Traiter

-------------------------------------------------------------------------------
\* The restoring of a backup.

\* The clone is where the pass left it, or on a tracking reference beyond the backup.
LEMMA HeadGardee ==
    ASSUME CInv, NEW s \in sauvegardes, Restaurable(s, TraceDe(s.nom)), ~Inaboutie(s.nom)
    PROVE  operation = Aucun /\ Garde(HEAD, s.h \cup remotes)
<1> DEFINE tr == TraceDe(s.nom)
<1>1. operation = Aucun /\ HeadInchangee(s.h, tr)
  BY DEF Restaurable, Sale
<1>2. CASE HEAD \ s.h \subseteq remotes
  BY <1>1, <1>2, GardeSous
<1>3. CASE tr # Aucun /\ HEAD = tr.arrivee
  <2>1. tr = traces[s.nom.passe] /\ tr.sauvegarde = s.nom
    BY <1>3 DEF TraceDe
  <2>2. s.nom \in Nom
    BY Acquis DEF CInv, TypeOK, Sauvegarde
  <2>3. s.nom.passe \in Passe /\ s.nom.sorte \in {"pull", "retour"}
    BY <2>2 DEF Nom
  <2>4. s.nom.sorte = "pull" \/ tr.brArrivee = tr.brCible
    BY <1>3, <2>3 DEF Inaboutie
  <2>5. Garde(tr.arrivee, s.h \cup remotes)
    BY <1>3, <2>1, <2>3, <2>4 DEF CInv, Arrivees
  <2> QED
    BY <1>1, <1>3, <2>5
<1> QED
  BY <1>1, <1>2, <1>3 DEF HeadInchangee

LEMMA RestaurerGarde ==
    ASSUME CInv, NEW s \in sauvegardes, Restaurer(s) \/ RestaurerAMoitie(s), ~Inaboutie(s.nom),
           \A b \in Branche \ {tete.branche} : branches'[b] = branches[b]
    PROVE  Garde(Tout, Tout')
<1>1. TypeOK /\ TeteDroite
  BY Acquis DEF CInv
<1>2. UNCHANGED <<sauvegardes, remotes, operation>>
  BY DEF Restaurer, RestaurerAMoitie, amont
<1>3. operation = Aucun /\ Garde(HEAD, s.h \cup remotes)
  BY HeadGardee DEF Restaurer, RestaurerAMoitie
<1>4. /\ s.h \subseteq Tout' /\ remotes \subseteq Tout'
      /\ \A z \in sauvegardes : z.h \subseteq Tout'
      /\ \A x \in Branche : branches'[x] \subseteq Tout'
  BY <1>2, ComprisApres DEF Parties
<1>5. Garde(HEAD, Tout')
  BY <1>3, <1>4, GardeSous, GardeSuit
<1>6. \A x \in Branche : Garde(branches[x], Tout')
  BY <1>4, <1>5, GardeSous, Noms DEF HEAD
<1>7. Garde(tete.detachee, Tout')
  BY <1>1, <1>5, DetacheeTete, GardeSous DEF TeteDroite
<1>8. \A z \in sauvegardes : Garde(z.h, Tout')
  BY <1>4, GardeSous
<1> QED
  BY <1>2, <1>3, <1>6, <1>7, <1>8, Parts

PasCommits ==
    \/ Retient \subseteq Retient'
    \/ \E s \in sauvegardes :
          \/ Supprimer(s)
          \/ /\ Restaurer(s) \/ RestaurerAMoitie(s)
             /\ \/ \E b \in Branche \ {tete.branche} : branches'[b] # branches[b]
                \/ Inaboutie(s.nom)

LEMMA PasCommitsTenu == CInv /\ [Next]_vars => [PasCommits]_vars
<1> SUFFICES ASSUME CInv, [Next]_vars, ~UNCHANGED vars PROVE PasCommits
  OBVIOUS
<1> USE DEF depot, arbre, disque, amont, registre
<1>1. SUFFICES ASSUME ~Garde(Tout, Tout') PROVE PasCommits
  BY ToutRetient DEF PasCommits
<1>2. CASE Demander
  <2>1. UNCHANGED <<branches, tete, operation, sauvegardes>> /\ remotes \subseteq remotes'
    BY <1>2 DEF Demander, EssaiASec, EssaiRetour, Lancer, Refuser
  <2> QED
    BY <1>1, <2>1, Immobile
<1>3. CASE Traiter \/ Travailler
  BY <1>1, <1>3, TraiterGarde, TravaillerGarde
<1>4. CASE Gerer
  <2>1. ASSUME NEW i, AppliquerRemise(i) PROVE FALSE
    BY <1>1, <2>1, Immobile DEF AppliquerRemise
  <2>2. PICK s \in sauvegardes : Restaurer(s) \/ RestaurerAMoitie(s) \/ Supprimer(s)
    BY <1>4, <2>1 DEF Gerer
  <2> QED
    BY <1>1, <2>2, RestaurerGarde DEF PasCommits
<1> QED
  BY <1>2, <1>3, <1>4 DEF Next

\* No commit of the user's leaves every reference, whatever the pass, its failures and the
\* restoring do, but by the deletion of a backup, by a restoring that moves a branch
\* that is not checked out, or by that of a return that ended away from its start.
THEOREM CommitsTenus == Spec => CommitsGardes
<1>1. CInv /\ [Next]_vars => [PasCommits]_vars
  BY PasCommitsTenu
<1> QED
  BY <1>1, CInvInit, CInvSuite, PTL DEF Spec, CommitsGardes, PasCommits

================================================================================
