----------------------------- MODULE GardesProofs -----------------------------
(***************************************************************************)
(* Theorems of the module Gardes.  Of the re-keying pass: for any keys,    *)
(* objects, dates and sizes, no key ever couples the body of a copy with   *)
(* the metadata of another, whatever was killed, unkilled passes keep the  *)
(* latest copy of each file, and the real one counts what the dry one      *)
(* announced.  Of the exceptions, for any machines and commands, killed or *)
(* not: the list is what the commands asked for as long as they ran one at *)
(* a time, and a start of the service lays the list.  Of the TLS front:    *)
(* what TLSFrontProofs proves.                                             *)
(***************************************************************************)
EXTENDS Gardes, FiniteSetTheorems, TLAPS

(* The re-keying pass.                                                     *)

\* Where a move under way is: what it removes and what it still has to place.
Mouvement ==
    pc \in {"oteCorps", "oteMeta", "placeCorps", "placeMeta"} =>
        /\ cours \in Cours /\ cours.anc # cours.nouv
        /\ meta[cours.anc] \in Objet \ Statuts /\ Nouvelle[meta[cours.anc]] = cours.nouv
        /\ pc \in {"oteCorps", "oteMeta"} => cours.ote \in {cours.anc, cours.nouv}
        /\ pc = "oteMeta" => body[cours.ote] = None
        /\ pc \in {"placeCorps", "placeMeta"} => meta[cours.nouv] = None /\ cours.ote # cours.anc
        /\ pc = "placeMeta" => body[cours.nouv] = meta[cours.anc] /\ body[cours.anc] = None

\* Even in the middle of a move, and whatever a kill left.
Paires == \A k \in Key : body[k] # None /\ meta[k] # None => body[k] = meta[k]

Inv == TypeOK /\ Mouvement /\ Paires

-------------------------------------------------------------------------------
LEMMA BilanType ==
    ASSUME NEW b \in Bilan, NEW c \in Cours
    PROVE  Compte(b, c) \in Bilan /\ [b EXCEPT !.refus = @ + 1] \in Bilan
<1>1. Deplace(b) \in Bilan
  BY DEF Bilan, Deplace
<1>2. ASSUME NEW e \in Bilan, NEW n \in Nat
      PROVE  Fondu(e, n) \in Bilan
  <2>1. e.fondus \in Nat /\ e.rendus \in Nat
    BY DEF Bilan
  <2>2. e.fondus + 1 \in Nat /\ e.rendus + n \in Nat
    BY <2>1
  <2> DEFINE f == e.fondus + 1
             r == e.rendus + n
  <2>3. Fondu(e, n) = [e EXCEPT !.fondus = f, !.rendus = r]
    BY DEF Fondu
  <2> HIDE DEF f, r
  <2>4. [e EXCEPT !.fondus = f, !.rendus = r] \in Bilan
    BY <2>2 DEF Bilan, f, r
  <2> QED
    BY <2>3, <2>4
<1>3. c.fondu # None => c.fondu \in Nat
  BY DEF Cours
<1>4. Compte(b, c) \in Bilan
  BY <1>1, <1>2, <1>3 DEF Compte
<1>5. [b EXCEPT !.refus = @ + 1] \in Bilan
  BY DEF Bilan
<1> QED
  BY <1>4, <1>5

\* What deplacer decides.
LEMMA PasseType ==
    ASSUME meta \in [Key -> Objet \cup {None}], NEW k \in Key, NEW o \in Objet
    PROVE  /\ Passe(k, o) \in Cours /\ Passe(k, o).anc = k /\ Passe(k, o).nouv = Nouvelle[o]
           /\ \/ Passe(k, o).ote = None /\ meta[Nouvelle[o]] = None
              \/ /\ Passe(k, o).ote = Nouvelle[o] /\ meta[Nouvelle[o]] # None
                 /\ Date[o] > Date[meta[Nouvelle[o]]]
              \/ /\ Passe(k, o).ote = k /\ meta[Nouvelle[o]] # None
                 /\ ~(Date[o] > Date[meta[Nouvelle[o]]])
<1> DEFINE nouv == Nouvelle[o]
           autre == meta[nouv]
<1>1. nouv \in Key /\ autre \in Objet \cup {None} /\ Octets[o] \in Nat
  BY ReclerAssumption
<1>2. autre \in Objet => Octets[autre] \in Nat
  BY ReclerAssumption
<1>3. CASE autre = None
  <2>1. Passe(k, o) = [anc |-> k, nouv |-> nouv, ote |-> None, fondu |-> None]
    BY <1>3 DEF Passe
  <2> QED
    BY <1>1, <1>3, <2>1 DEF Cours
<1>4. CASE autre # None /\ Date[o] > Date[autre]
  <2>1. Passe(k, o) = [anc |-> k, nouv |-> nouv, ote |-> nouv, fondu |-> Octets[autre]]
    BY <1>4 DEF Passe
  <2> QED
    BY <1>1, <1>2, <1>4, <2>1 DEF Cours
<1>5. CASE autre # None /\ ~(Date[o] > Date[autre])
  <2>1. Passe(k, o) = [anc |-> k, nouv |-> nouv, ote |-> k, fondu |-> Octets[o]]
    BY <1>5 DEF Passe
  <2> QED
    BY <1>1, <1>5, <2>1 DEF Cours
<1> QED
  BY <1>3, <1>4, <1>5

LEMMA EntiersType ==
    ASSUME TypeOK
    PROVE  Entiers \in [Key -> Objet \cup {None}]
BY DEF TypeOK, Entiers

LEMMA InitInv == Init => Inv
<1> SUFFICES ASSUME Init PROVE Inv
  OBVIOUS
<1>1. body \in [Key -> Objet \cup {None}]
  BY ReclerAssumption DEF Init
<1>2. Zero \in Bilan
  BY DEF Zero, Bilan
<1>3. TypeOK
  BY <1>1, <1>2 DEF Init, TypeOK
<1> QED
  BY <1>3 DEF Init, Inv, Mouvement, Paires

LEMMA LancerInv ==
    ASSUME Inv, NEW blanc \in BOOLEAN, Lancer(blanc)
    PROVE  Inv'
<1>1. UNCHANGED <<body, meta, cours, tuee>> /\ pc' = "parcours"
  BY DEF Lancer
<1>2. TypeOK'
  BY <1>1, EntiersType DEF Inv, TypeOK, Lancer, Zero, Bilan
<1> QED
  BY <1>1, <1>2 DEF Inv, Mouvement, Paires

LEMMA VisiterInv ==
    ASSUME Inv, NEW k \in Key, Visiter(k)
    PROVE  Inv'
<1> DEFINE o == meta[k]
<1>0. /\ UNCHANGED <<body, meta, aBlanc, prevu, avant, tuee>> /\ reste' = reste \ {k}
      /\ meta \in [Key -> Objet \cup {None}] /\ pc = "parcours" /\ bilan \in Bilan
  BY DEF Visiter, Inv, TypeOK
<1>1. CASE UNCHANGED <<pc, cours, bilan>>
  BY <1>0, <1>1 DEF Inv, TypeOK, Mouvement, Paires
<1>2. CASE o \in Objet /\ bilan' = Compte(bilan, Passe(k, o)) /\ UNCHANGED <<pc, cours>>
  <2>1. bilan' \in Bilan
    BY <1>0, <1>2, PasseType, BilanType
  <2> QED
    BY <1>0, <1>2, <2>1 DEF Inv, TypeOK, Mouvement, Paires
<1>3. CASE /\ o \in Objet \ Statuts /\ Nouvelle[o] # k /\ cours' = Passe(k, o)
           /\ pc' = (IF cours'.ote = None THEN "placeCorps" ELSE "oteCorps") /\ UNCHANGED bilan
  <2>1. /\ cours' \in Cours /\ cours'.anc = k /\ cours'.nouv = Nouvelle[o]
        /\ \/ cours'.ote = None /\ meta[Nouvelle[o]] = None
           \/ cours'.ote = Nouvelle[o]
           \/ cours'.ote = k
        /\ Nouvelle[o] # None /\ k # None
    BY <1>0, <1>3, PasseType, ReclerAssumption
  <2>2. TypeOK'
    BY <1>0, <1>3, <2>1 DEF Inv, TypeOK
  <2>3. Mouvement'
    BY <1>0, <1>3, <2>1 DEF Mouvement
  <2> QED
    BY <1>0, <2>2, <2>3 DEF Inv, Paires
<1> QED
  BY <1>1, <1>2, <1>3 DEF Visiter

LEMMA OterCorpsInv ==
    ASSUME Inv, OterCorps
    PROVE  Inv'
<1>0. /\ UNCHANGED <<meta, aBlanc, reste, cours, bilan, prevu, avant, tuee>>
      /\ pc = "oteCorps" /\ pc' = "oteMeta" /\ body' = [body EXCEPT ![cours.ote] = None]
      /\ body \in [Key -> Objet \cup {None}] /\ cours \in Cours /\ cours.ote \in Key
  BY DEF OterCorps, Inv, TypeOK, Mouvement, Cours
<1>1. TypeOK'
  BY <1>0 DEF Inv, TypeOK
<1>2. Mouvement'
  BY <1>0 DEF Inv, Mouvement
<1>3. Paires'
  BY <1>0 DEF Inv, Paires
<1> QED
  BY <1>1, <1>2, <1>3 DEF Inv

LEMMA OterMetaInv ==
    ASSUME Inv, OterMeta
    PROVE  Inv'
<1>0. /\ UNCHANGED <<body, aBlanc, reste, prevu, avant, tuee>>
      /\ pc = "oteMeta" /\ meta' = [meta EXCEPT ![cours.ote] = None] /\ bilan \in Bilan
      /\ meta \in [Key -> Objet \cup {None}] /\ cours \in Cours /\ cours.ote \in {cours.anc, cours.nouv}
      /\ cours.anc \in Key /\ cours.nouv \in Key
  BY DEF OterMeta, Inv, TypeOK, Mouvement, Cours
<1>1. Paires'
  BY <1>0 DEF Inv, Paires
<1>2. CASE cours.ote = cours.anc /\ bilan' = Compte(bilan, cours) /\ cours' = None /\ pc' = "parcours"
  <2>1. TypeOK'
    BY <1>0, <1>2, BilanType DEF Inv, TypeOK
  <2> QED
    BY <1>1, <1>2, <2>1 DEF Inv, Mouvement
<1>3. CASE cours.ote # cours.anc /\ pc' = "placeCorps" /\ UNCHANGED <<bilan, cours>>
  <2>1. TypeOK'
    BY <1>0, <1>3 DEF Inv, TypeOK
  <2>2. Mouvement'
    BY <1>0, <1>3 DEF Inv, Mouvement
  <2> QED
    BY <1>1, <2>1, <2>2 DEF Inv
<1> QED
  BY <1>2, <1>3 DEF OterMeta

LEMMA PlacerCorpsInv ==
    ASSUME Inv, PlacerCorps
    PROVE  Inv'
<1>0. /\ UNCHANGED <<meta, aBlanc, reste, prevu, avant, tuee>>
      /\ pc = "placeCorps" /\ bilan \in Bilan
      /\ body \in [Key -> Objet \cup {None}] /\ cours \in Cours
      /\ cours.anc \in Key /\ cours.nouv \in Key /\ cours.anc # cours.nouv
      /\ meta[cours.anc] \in Objet \ Statuts /\ meta[cours.nouv] = None
  BY DEF PlacerCorps, Inv, TypeOK, Mouvement, Cours
<1>1. CASE /\ bilan' = [bilan EXCEPT !.refus = @ + 1] /\ cours' = None /\ pc' = "parcours"
           /\ UNCHANGED body
  <2>1. bilan' \in Bilan
    BY <1>0, <1>1 DEF Bilan
  <2> QED
    BY <1>0, <1>1, <2>1 DEF Inv, TypeOK, Mouvement, Paires
<1>2. CASE /\ body[cours.anc] # None
           /\ body' = [body EXCEPT ![cours.nouv] = body[cours.anc], ![cours.anc] = None]
           /\ pc' = "placeMeta" /\ UNCHANGED <<bilan, cours>>
  <2>1. /\ body' \in [Key -> Objet \cup {None}]
        /\ body'[cours.nouv] = body[cours.anc] /\ body'[cours.anc] = None
        /\ \A k \in Key : k # cours.nouv /\ k # cours.anc => body'[k] = body[k]
    BY <1>0, <1>2
  <2>2. body[cours.anc] = meta[cours.anc]
    BY <1>0, <1>2, ReclerAssumption DEF Inv, Paires
  <2>3. TypeOK'
    BY <1>0, <1>2, <2>1 DEF Inv, TypeOK
  <2>4. Mouvement'
    BY <1>0, <1>2, <2>1, <2>2 DEF Inv, Mouvement
  <2>5. Paires'
    BY <1>0, <2>1 DEF Inv, Paires
  <2> QED
    BY <2>3, <2>4, <2>5 DEF Inv
<1> QED
  BY <1>1, <1>2 DEF PlacerCorps

LEMMA PlacerMetaInv ==
    ASSUME Inv, PlacerMeta
    PROVE  Inv'
<1>0. /\ UNCHANGED <<body, aBlanc, reste, prevu, avant, tuee>>
      /\ pc = "placeMeta" /\ bilan' = Compte(bilan, cours) /\ cours' = None /\ pc' = "parcours"
      /\ meta' = [meta EXCEPT ![cours.nouv] = meta[cours.anc], ![cours.anc] = None]
      /\ meta \in [Key -> Objet \cup {None}] /\ cours \in Cours /\ bilan \in Bilan
      /\ cours.anc \in Key /\ cours.nouv \in Key /\ cours.anc # cours.nouv
      /\ body[cours.nouv] = meta[cours.anc]
  BY DEF PlacerMeta, Inv, TypeOK, Mouvement, Cours
<1>1. /\ meta' \in [Key -> Objet \cup {None}]
      /\ meta'[cours.nouv] = meta[cours.anc] /\ meta'[cours.anc] = None
      /\ \A k \in Key : k # cours.nouv /\ k # cours.anc => meta'[k] = meta[k]
  BY <1>0
<1>2. TypeOK'
  BY <1>0, <1>1, BilanType DEF Inv, TypeOK
<1>3. Paires'
  BY <1>0, <1>1 DEF Inv, Paires
<1> QED
  BY <1>0, <1>2, <1>3 DEF Inv, Mouvement

LEMMA FinirInv ==
    ASSUME Inv, Finir
    PROVE  Inv'
<1>1. /\ UNCHANGED <<body, meta, aBlanc, reste, cours, bilan, avant, tuee>> /\ pc' = "repos"
      /\ prevu' \in {bilan, prevu}
  BY DEF Finir
<1> QED
  BY <1>1 DEF Inv, TypeOK, Mouvement, Paires

LEMMA InterrompreInv ==
    ASSUME Inv, Interrompre
    PROVE  Inv'
<1>1. UNCHANGED <<body, meta>> /\ pc' = "repos"
  BY DEF Interrompre
<1>2. TypeOK'
  BY <1>1, EntiersType DEF Inv, TypeOK, Interrompre, Zero, Bilan
<1> QED
  BY <1>1, <1>2 DEF Inv, Mouvement, Paires

LEMMA InvSuite ==
    ASSUME Inv, [Next]_vars
    PROVE  Inv'
<1>1. CASE UNCHANGED vars
  BY <1>1 DEF vars, Inv, TypeOK, Mouvement, Paires
<1> QED
  BY <1>1, LancerInv, VisiterInv, OterCorpsInv, OterMetaInv, PlacerCorpsInv, PlacerMetaInv,
     FinirInv, InterrompreInv DEF Next

LEMMA InvTenu == Spec => []Inv
BY InitInv, InvSuite, PTL DEF Spec

\* A pass that ends leaves no key coupling two copies, whatever killed passes left before.
THEOREM PairesTenues == Spec => []PaireCoherente
<1>1. Inv => PaireCoherente
  BY DEF Inv, Paires, PaireCoherente
<1> QED
  BY <1>1, InvTenu, PTL

-------------------------------------------------------------------------------
(* The latest copy of a file is kept.                                      *)

\* A store holds an object under one key.
SansDouble == \A d \in Debut : \A j, k \in Key : j # k /\ d[j] # None => d[j] # d[k]

\* Under the key that today's rule gives to a file lies a copy of that file or nothing: a
\* key is the hash of an address made canonical, today's rule refines those of before and
\* leaves a canonical address as it is, and a status lies under a key no file has.
SansEtranger ==
    \A d \in Debut : \A k \in Key : \A o \in Objet \ Statuts :
        Nouvelle[o] = k /\ d[k] # None => d[k] \in Objet \ Statuts /\ Nouvelle[d[k]] = k

\* The two copies of a merge, while the one that goes is being removed.
Choix ==
    pc \in {"oteCorps", "oteMeta"} =>
        /\ meta[cours.nouv] # None
        /\ cours.ote = cours.anc => ~(Date[meta[cours.anc]] > Date[meta[cours.nouv]])
        /\ cours.ote # cours.anc => Date[meta[cours.anc]] > Date[meta[cours.nouv]]

\* Each body lies with its metadata, but for the pair that a step has half removed or
\* half renamed.
Accord ==
    /\ pc \in {"repos", "parcours", "oteCorps", "placeCorps"} => body = meta
    /\ pc = "oteMeta" => body = [meta EXCEPT ![cours.ote] = None]
    /\ pc = "placeMeta" => body = [meta EXCEPT ![cours.nouv] = meta[cours.anc], ![cours.anc] = None]

Uniques == \A j, k \in Key : j # k /\ meta[j] # None => meta[j] # meta[k]

Logees ==
    \A k \in Key : \A o \in Objet \ Statuts :
        Nouvelle[o] = k /\ meta[k] # None => meta[k] \in Objet \ Statuts /\ Nouvelle[meta[k]] = k

\* Of each copy that the pass found, the store still has one as late, of the same file, and
\* it has only copies that the pass found.
Retenues ==
    /\ \A k \in Key : meta[k] \in Objet \ Statuts => \E j \in Key : avant[j] = meta[k]
    /\ \A j \in Key : avant[j] \in Objet \ Statuts =>
          \E k \in Key : /\ meta[k] \in Objet \ Statuts
                         /\ Nouvelle[meta[k]] = Nouvelle[avant[j]]
                         /\ Date[avant[j]] <= Date[meta[k]]

\* What a real pass has visited is in its place, or is being moved.
Rangees ==
    ~aBlanc => \A k \in Key \ reste : meta[k] \in Objet \ Statuts =>
                  \/ Nouvelle[meta[k]] = k
                  \/ pc \in {"oteCorps", "oteMeta", "placeCorps", "placeMeta"} /\ k = cours.anc

Suivi == Accord /\ Uniques /\ Logees /\ Retenues /\ Rangees

RInv ==
    /\ Inv
    /\ Choix
    /\ pc = "repos" => reste = {}
    /\ ~tuee => Suivi

LEMMA RInitInv == ASSUME SansDouble, SansEtranger PROVE Init => RInv
<1> SUFFICES ASSUME Init PROVE RInv
  OBVIOUS
<1>1. /\ body \in Debut /\ meta = body /\ avant = body /\ pc = "repos" /\ aBlanc = TRUE
      /\ reste = {} /\ body \in [Key -> Objet \cup {None}]
  BY ReclerAssumption DEF Init
<1>2. Uniques /\ Logees
  BY <1>1 DEF SansDouble, SansEtranger, Uniques, Logees
<1>3. Retenues
  <2>1. \A k \in Key : meta[k] \in Objet => Date[meta[k]] \in Nat
    BY ReclerAssumption
  <2> QED
    BY <1>1, <2>1 DEF Retenues
<1>4. Accord /\ Rangees /\ Choix
  BY <1>1 DEF Accord, Rangees, Choix
<1> QED
  BY <1>1, <1>2, <1>3, <1>4, InitInv DEF RInv, Suivi

LEMMA RLancer ==
    ASSUME RInv, NEW blanc \in BOOLEAN, Lancer(blanc)
    PROVE  RInv'
<1>1. /\ UNCHANGED <<body, meta, cours, tuee>> /\ pc = "repos" /\ pc' = "parcours"
      /\ reste' = {k \in Key : meta[k] # None} /\ avant' = Entiers
      /\ meta \in [Key -> Objet \cup {None}]
  BY DEF Lancer, RInv, Inv, TypeOK
<1>2. Inv' /\ Choix' /\ (pc' = "repos" => reste' = {})
  BY <1>1, LancerInv DEF RInv, Choix
<1>3. ASSUME ~tuee PROVE Suivi'
  <2>1. Accord /\ Uniques /\ Logees /\ body = meta
    BY <1>1, <1>3 DEF RInv, Suivi, Accord
  <2>2. \A k \in Key : avant'[k] = meta[k]
    BY <1>1, <2>1 DEF Entiers
  <2>3. Accord' /\ Uniques' /\ Logees'
    BY <1>1, <2>1 DEF Accord, Uniques, Logees
  <2>4. Retenues'
    <3>1. \A k \in Key : meta[k] \in Objet => Date[meta[k]] \in Nat
      BY ReclerAssumption
    <3> QED
      BY <1>1, <2>2, <3>1 DEF Retenues
  <2>5. Rangees'
    BY <1>1, ReclerAssumption DEF Rangees
  <2> QED
    BY <2>3, <2>4, <2>5 DEF Suivi
<1> QED
  BY <1>1, <1>2, <1>3 DEF RInv

LEMMA RVisiter ==
    ASSUME RInv, NEW k \in Key, Visiter(k)
    PROVE  RInv'
<1> DEFINE o == meta[k]
<1>0. /\ UNCHANGED <<body, meta, aBlanc, prevu, avant, tuee>> /\ reste' = reste \ {k}
      /\ meta \in [Key -> Objet \cup {None}] /\ pc = "parcours"
  BY DEF Visiter, RInv, Inv, TypeOK
<1>1. Inv' /\ (~tuee => Accord /\ Uniques /\ Logees /\ Retenues /\ Rangees)
  BY VisiterInv DEF RInv, Suivi
<1>2. ~tuee => Uniques' /\ Logees' /\ Retenues'
  BY <1>0, <1>1 DEF Uniques, Logees, Retenues
<1>3. CASE UNCHANGED <<pc, cours>> /\ (o \in Objet \ Statuts => Nouvelle[o] = k \/ aBlanc)
  <2>1. Choix' /\ pc' # "repos" /\ (~tuee => Accord')
    BY <1>0, <1>1, <1>3 DEF Choix, Accord
  <2>2. ~tuee => Rangees'
    BY <1>0, <1>1, <1>3 DEF Rangees
  <2> QED
    BY <1>0, <1>1, <1>2, <2>1, <2>2 DEF RInv, Suivi
<1>4. CASE /\ o \in Objet \ Statuts /\ Nouvelle[o] # k /\ ~aBlanc /\ cours' = Passe(k, o)
           /\ pc' = (IF cours'.ote = None THEN "placeCorps" ELSE "oteCorps")
  <2>1. /\ cours'.anc = k /\ cours'.nouv = Nouvelle[o]
        /\ \/ cours'.ote = None /\ meta[Nouvelle[o]] = None
           \/ /\ cours'.ote = Nouvelle[o] /\ meta[Nouvelle[o]] # None
              /\ Date[o] > Date[meta[Nouvelle[o]]]
           \/ /\ cours'.ote = k /\ meta[Nouvelle[o]] # None
              /\ ~(Date[o] > Date[meta[Nouvelle[o]]])
    BY <1>0, <1>4, PasseType
  <2>2. pc' \in {"placeCorps", "oteCorps"} /\ (pc' = "oteCorps" => cours'.ote # None)
    BY <1>4
  <2>3. Choix'
    BY <1>0, <1>4, <2>1, <2>2 DEF Choix
  <2>4. ~tuee => Accord' /\ Rangees'
    BY <1>0, <1>1, <2>1, <2>2 DEF Accord, Rangees
  <2> QED
    BY <1>0, <1>1, <1>2, <2>2, <2>3, <2>4 DEF RInv, Suivi
<1> QED
  BY <1>3, <1>4, ReclerAssumption DEF Visiter

LEMMA ROterCorps ==
    ASSUME RInv, OterCorps
    PROVE  RInv'
<1>0. /\ UNCHANGED <<meta, aBlanc, reste, cours, avant, tuee>>
      /\ pc = "oteCorps" /\ pc' = "oteMeta" /\ body' = [body EXCEPT ![cours.ote] = None]
  BY DEF OterCorps
<1>1. Inv' /\ Choix' /\ (~tuee => Accord /\ Uniques /\ Logees /\ Retenues /\ Rangees)
  BY <1>0, OterCorpsInv DEF RInv, Suivi, Choix
<1>2. ~tuee => Uniques' /\ Logees' /\ Retenues' /\ Rangees'
  BY <1>0, <1>1 DEF Uniques, Logees, Retenues, Rangees
<1>3. ~tuee => Accord'
  BY <1>0, <1>1 DEF Accord
<1> QED
  BY <1>0, <1>1, <1>2, <1>3 DEF RInv, Suivi

\* The metadata that goes is that of a copy no later than the one that stays.
LEMMA ROterMeta ==
    ASSUME RInv, OterMeta
    PROVE  RInv'
<1> DEFINE anc == cours.anc
           nouv == cours.nouv
           ote == cours.ote
<1>0. /\ UNCHANGED <<body, aBlanc, reste, avant, tuee>>
      /\ pc = "oteMeta" /\ meta' = [meta EXCEPT ![ote] = None]
      /\ meta \in [Key -> Objet \cup {None}] /\ avant \in [Key -> Objet \cup {None}]
      /\ ote \in {anc, nouv} /\ anc \in Key /\ nouv \in Key /\ anc # nouv
      /\ meta[anc] \in Objet \ Statuts /\ Nouvelle[meta[anc]] = nouv
      /\ pc' # "repos"
  BY DEF OterMeta, RInv, Inv, TypeOK, Mouvement, Cours
<1>1. /\ Inv' /\ meta[nouv] # None
      /\ ote = anc => ~(Date[meta[anc]] > Date[meta[nouv]])
      /\ ote # anc => Date[meta[anc]] > Date[meta[nouv]]
      /\ ~tuee => Accord /\ Uniques /\ Logees /\ Retenues /\ Rangees
  BY <1>0, OterMetaInv DEF RInv, Suivi, Choix
<1>2. /\ meta' \in [Key -> Objet \cup {None}] /\ meta'[ote] = None
      /\ \A k \in Key : k # ote => meta'[k] = meta[k]
      /\ None \notin Objet
  BY <1>0, ReclerAssumption
<1>3. \/ ote = anc /\ pc' = "parcours"
      \/ ote # anc /\ pc' = "placeCorps" /\ UNCHANGED cours
  BY DEF OterMeta
<1>4. Choix'
  BY <1>3 DEF Choix
<1>5. ASSUME ~tuee PROVE Suivi'
  <2>1. Accord'
    BY <1>0, <1>1, <1>3, <1>5 DEF Accord
  <2>2. Uniques' /\ Logees'
    BY <1>0, <1>1, <1>2, <1>5 DEF Uniques, Logees
  <2>3. PICK e \in Key : /\ e # ote /\ meta[e] \in Objet \ Statuts /\ meta[ote] \in Objet \ Statuts
                         /\ Nouvelle[meta[e]] = nouv /\ Nouvelle[meta[ote]] = nouv
                         /\ Date[meta[ote]] <= Date[meta[e]]
    <3>1. meta[nouv] \in Objet \ Statuts /\ Nouvelle[meta[nouv]] = nouv
      BY <1>0, <1>1, <1>5 DEF Logees
    <3>2. Date[meta[anc]] \in Nat /\ Date[meta[nouv]] \in Nat
      BY <1>0, <3>1, ReclerAssumption
    <3>3. CASE ote = anc
      BY <1>0, <1>1, <3>1, <3>2, <3>3
    <3>4. CASE ote = nouv
      BY <1>0, <1>1, <3>1, <3>2, <3>4
    <3> QED
      BY <1>0, <3>3, <3>4
  <2>4. Retenues'
    <3>1. \A k \in Key : meta'[k] \in Objet \ Statuts => \E j \in Key : avant[j] = meta'[k]
      BY <1>0, <1>1, <1>2, <1>5 DEF Retenues
    <3>2. ASSUME NEW j \in Key, avant[j] \in Objet \ Statuts
          PROVE  \E k \in Key : /\ meta'[k] \in Objet \ Statuts
                                /\ Nouvelle[meta'[k]] = Nouvelle[avant[j]]
                                /\ Date[avant[j]] <= Date[meta'[k]]
      <4>1. PICK k \in Key : /\ meta[k] \in Objet \ Statuts
                             /\ Nouvelle[meta[k]] = Nouvelle[avant[j]]
                             /\ Date[avant[j]] <= Date[meta[k]]
        BY <1>1, <1>5, <3>2 DEF Retenues
      <4>2. Date[avant[j]] \in Nat /\ Date[meta[k]] \in Nat /\ Date[meta[e]] \in Nat
        BY <2>3, <3>2, <4>1, ReclerAssumption
      <4>3. CASE k # ote
        BY <1>2, <4>1, <4>3
      <4>4. CASE k = ote
        <5>1. /\ meta'[e] = meta[e] /\ Nouvelle[meta[e]] = Nouvelle[avant[j]]
              /\ Date[avant[j]] <= Date[meta[e]]
          BY <1>2, <2>3, <4>1, <4>2, <4>4
        <5> QED
          BY <2>3, <5>1
      <4> QED
        BY <4>3, <4>4
    <3> QED
      BY <1>0, <3>1, <3>2 DEF Retenues
  <2>5. Rangees'
    BY <1>0, <1>1, <1>2, <1>3, <1>5 DEF Rangees
  <2> QED
    BY <2>1, <2>2, <2>4, <2>5 DEF Suivi
<1> QED
  BY <1>0, <1>1, <1>4, <1>5 DEF RInv

LEMMA RPlacerCorps ==
    ASSUME RInv, PlacerCorps
    PROVE  RInv'
<1>0. /\ UNCHANGED <<meta, aBlanc, reste, avant, tuee>> /\ pc = "placeCorps"
      /\ meta[cours.anc] \in Objet \ Statuts /\ cours.anc \in Key
      /\ None \notin Objet /\ Inv
  BY ReclerAssumption DEF PlacerCorps, RInv, Inv, Mouvement, Cours
<1>1. Inv' /\ (~tuee => Accord /\ Uniques /\ Logees /\ Retenues /\ Rangees)
  BY PlacerCorpsInv DEF RInv, Suivi
<1>2. ~tuee => Uniques' /\ Logees' /\ Retenues'
  BY <1>0, <1>1 DEF Uniques, Logees, Retenues
<1>3. CASE body[cours.anc] = None /\ pc' = "parcours"
  <2>1. tuee
    BY <1>0, <1>1, <1>3 DEF Accord
  <2> QED
    BY <1>0, <1>1, <1>3, <2>1 DEF RInv, Choix
<1>4. CASE /\ body' = [body EXCEPT ![cours.nouv] = body[cours.anc], ![cours.anc] = None]
           /\ pc' = "placeMeta" /\ UNCHANGED cours
  <2>1. ~tuee => Accord'
    BY <1>0, <1>1, <1>4 DEF Accord
  <2>2. ~tuee => Rangees'
    BY <1>0, <1>1, <1>4 DEF Rangees
  <2> QED
    BY <1>0, <1>1, <1>2, <1>4, <2>1, <2>2 DEF RInv, Suivi, Choix
<1> QED
  BY <1>3, <1>4 DEF PlacerCorps

LEMMA RPlacerMeta ==
    ASSUME RInv, PlacerMeta
    PROVE  RInv'
<1> DEFINE anc == cours.anc
           nouv == cours.nouv
<1>0. /\ UNCHANGED <<body, aBlanc, reste, avant, tuee>> /\ pc = "placeMeta" /\ pc' = "parcours"
      /\ meta' = [meta EXCEPT ![nouv] = meta[anc], ![anc] = None]
      /\ meta \in [Key -> Objet \cup {None}] /\ avant \in [Key -> Objet \cup {None}]
      /\ anc \in Key /\ nouv \in Key /\ anc # nouv /\ meta[nouv] = None
      /\ meta[anc] \in Objet \ Statuts /\ Nouvelle[meta[anc]] = nouv /\ None \notin Objet
  BY ReclerAssumption DEF PlacerMeta, RInv, Inv, TypeOK, Mouvement, Cours
<1>1. Inv' /\ (~tuee => Accord /\ Uniques /\ Logees /\ Retenues /\ Rangees)
  BY PlacerMetaInv DEF RInv, Suivi
<1>2. /\ meta'[nouv] = meta[anc] /\ meta'[anc] = None
      /\ \A k \in Key : k # nouv /\ k # anc => meta'[k] = meta[k]
  BY <1>0
<1>3. ASSUME ~tuee PROVE Suivi'
  <2>1. Accord'
    BY <1>0, <1>1, <1>3 DEF Accord
  <2>2. Uniques'
    <3> SUFFICES ASSUME NEW j \in Key, NEW k \in Key, j # k, meta'[j] # None
                 PROVE  meta'[j] # meta'[k]
      BY DEF Uniques
    <3>1. j # anc
      BY <1>2
    <3>2. CASE j = nouv
      BY <1>0, <1>1, <1>2, <1>3, <3>1, <3>2 DEF Uniques
    <3>3. CASE j # nouv
      BY <1>0, <1>1, <1>2, <1>3, <3>1, <3>3 DEF Uniques
    <3> QED
      BY <3>2, <3>3
  <2>3. Logees'
    BY <1>0, <1>1, <1>2, <1>3 DEF Logees
  <2>4. Retenues'
    <3>1. \A k \in Key : meta'[k] \in Objet \ Statuts => \E j \in Key : avant[j] = meta'[k]
      BY <1>0, <1>1, <1>2, <1>3 DEF Retenues
    <3>2. ASSUME NEW j \in Key, avant[j] \in Objet \ Statuts
          PROVE  \E k \in Key : /\ meta'[k] \in Objet \ Statuts
                                /\ Nouvelle[meta'[k]] = Nouvelle[avant[j]]
                                /\ Date[avant[j]] <= Date[meta'[k]]
      <4>1. PICK k \in Key : /\ meta[k] \in Objet \ Statuts
                             /\ Nouvelle[meta[k]] = Nouvelle[avant[j]]
                             /\ Date[avant[j]] <= Date[meta[k]]
        BY <1>1, <1>3, <3>2 DEF Retenues
      <4>2. CASE k = anc
        BY <1>0, <1>2, <4>1, <4>2
      <4>3. CASE k # anc
        BY <1>0, <1>2, <4>1, <4>3
      <4> QED
        BY <4>2, <4>3
    <3> QED
      BY <1>0, <3>1, <3>2 DEF Retenues
  <2>5. Rangees'
    BY <1>0, <1>1, <1>2, <1>3 DEF Rangees
  <2> QED
    BY <2>1, <2>2, <2>3, <2>4, <2>5 DEF Suivi
<1> QED
  BY <1>0, <1>1, <1>3 DEF RInv, Choix

LEMMA RSuite ==
    ASSUME RInv, [Next]_vars
    PROVE  RInv'
<1>1. CASE UNCHANGED vars
  <2>1. Inv'
    BY <1>1, InvSuite DEF RInv
  <2>2. Choix' /\ (pc' = "repos" => reste' = {}) /\ UNCHANGED tuee
    BY <1>1 DEF vars, RInv, Choix
  <2>3. ~tuee => Suivi'
    BY <1>1 DEF vars, RInv, Suivi, Accord, Uniques, Logees, Retenues, Rangees
  <2> QED
    BY <2>1, <2>2, <2>3 DEF RInv
<1>2. CASE Finir
  <2>1. /\ UNCHANGED <<body, meta, aBlanc, reste, cours, avant, tuee>> /\ pc = "parcours"
        /\ pc' = "repos" /\ reste = {} /\ Inv'
    BY <1>2, FinirInv DEF Finir, RInv
  <2>2. ~tuee => Suivi'
    BY <2>1 DEF RInv, Suivi, Accord, Uniques, Logees, Retenues, Rangees
  <2> QED
    BY <2>1, <2>2 DEF RInv, Choix
<1>3. CASE Interrompre
  <2>1. Inv' /\ pc' = "repos" /\ reste' = {} /\ tuee'
    BY <1>3, InterrompreInv DEF Interrompre, RInv
  <2> QED
    BY <2>1 DEF RInv, Choix
<1> QED
  BY <1>1, <1>2, <1>3, RLancer, RVisiter, ROterCorps, ROterMeta, RPlacerCorps, RPlacerMeta DEF Next

LEMMA RInvTenu == ASSUME SansDouble, SansEtranger PROVE Spec => []RInv
BY RInitInv, RSuite, PTL DEF Spec

\* recle.go:24: after real passes none of which was killed, each file is under its key, once,
\* and is the latest of its copies with its own metadata, however many copies there were and in
\* whatever order they were met.
THEOREM DerniereGardee == ASSUME SansDouble, SansEtranger PROVE Spec => []PlusRecentGarde
<1>1. RInv => PlusRecentGarde
  <2> SUFFICES ASSUME RInv, pc = "repos", ~aBlanc, ~tuee, NEW n \in Key, Copies(avant, n) # {}
               PROVE  /\ body = meta
                      /\ body[n] \in Copies(avant, n)
                      /\ \A o \in Copies(avant, n) : Date[o] <= Date[body[n]]
                      /\ Copies(body, n) = {body[n]}
                      /\ \A k \in Key : k # n => body[k] # body[n]
    BY DEF PlusRecentGarde, Repos, RInv, Suivi, Accord
  <2>1. /\ body = meta /\ reste = {} /\ Uniques /\ Retenues /\ None \notin Objet
        /\ \A k \in Key : meta[k] \in Objet \ Statuts => Nouvelle[meta[k]] = k
    BY ReclerAssumption DEF RInv, Suivi, Accord, Rangees
  <2>2. ASSUME NEW o \in Copies(avant, n)
        PROVE  /\ meta[n] \in Objet \ Statuts /\ Nouvelle[meta[n]] = n
               /\ Date[o] <= Date[meta[n]]
    BY <2>1 DEF Copies, Retenues
  <2>3. meta[n] \in Objet \ Statuts /\ Nouvelle[meta[n]] = n
    BY <2>2
  <2>4. meta[n] \in Copies(avant, n)
    BY <2>1, <2>3 DEF Copies, Retenues
  <2>5. Copies(meta, n) = {meta[n]}
    BY <2>1, <2>3 DEF Copies
  <2>6. \A k \in Key : k # n => meta[k] # meta[n]
    BY <2>1, <2>3 DEF Uniques
  <2> QED
    BY <2>1, <2>2, <2>4, <2>5, <2>6
<1> QED
  BY <1>1, RInvTenu, PTL

-------------------------------------------------------------------------------
(* A dry pass announces what the real one counts.                          *)

\* The keys whose object today's rule moves, and what lies where it goes.
Deplacables(d) == {k \in Key : d[k] \in Objet \ Statuts /\ Nouvelle[d[k]] # k}
Place(d, k) == d[Nouvelle[d[k]]]

\* The copy to move is the one that goes.
Cede(d, k) == Place(d, k) # None /\ ~(Date[d[k]] > Date[Place(d, k)])
Partant(d, k) == IF Cede(d, k) THEN d[k] ELSE Place(d, k)

\* What deplacer decides on a store that no move has touched.
Decision(d, k) ==
    [anc |-> k, nouv |-> Nouvelle[d[k]],
     ote |-> IF Place(d, k) = None THEN None
             ELSE IF Cede(d, k) THEN k ELSE Nouvelle[d[k]],
     fondu |-> IF Place(d, k) = None THEN None ELSE Octets[Partant(d, k)]]

\* What moving the keys of V counts: a sum of sizes is the number of the bytes.
Bouges(d, V) == {k \in V \cap Deplacables(d) : ~Cede(d, k)}
Fusions(d, V) == {k \in V \cap Deplacables(d) : Place(d, k) # None}
Effaces(d, V) == {c \in Fusions(d, V) \X Nat : c[2] \in 1 .. Octets[Partant(d, c[1])]}
Comptes(d, V) ==
    [deplaces |-> Cardinality(Bouges(d, V)), fondus |-> Cardinality(Fusions(d, V)),
     rendus |-> Cardinality(Effaces(d, V)), refus |-> 0]

\* No two copies of a file are to be moved.
Isolees == \A j, k \in Deplacables(avant) : Nouvelle[avant[j]] = Nouvelle[avant[k]] => j = k

LogeesAvant ==
    \A k \in Key : \A o \in Objet \ Statuts :
        Nouvelle[o] = k /\ avant[k] # None => avant[k] \in Objet \ Statuts /\ Nouvelle[avant[k]] = k

Gestes == {"oteCorps", "oteMeta", "placeCorps", "placeMeta"}
Faites == IF pc \in Gestes THEN Key \ (reste \cup {cours.anc}) ELSE Key \ reste

\* No move has touched what is still to be visited, nor where it goes.
Intactes ==
    \A k \in reste :
        IF k \in Deplacables(avant)
        THEN meta[k] = avant[k] /\ Place(meta, k) = Place(avant, k)
        ELSE k \notin Deplacables(meta)

ABlanc ==
    aBlanc =>
        /\ pc \in {"repos", "parcours"} /\ avant = meta
        /\ pc = "parcours" => bilan = Comptes(avant, Key \ reste)
        /\ prevu # None => prevu = Comptes(avant, Key)

PourDeBon ==
    ~aBlanc /\ Isolees =>
        /\ prevu # None => prevu = Comptes(avant, Key)
        /\ bilan = Comptes(avant, Faites)
        /\ Intactes
        /\ pc \in Gestes => /\ cours.anc \in Deplacables(avant) \ reste
                            /\ cours = Decision(avant, cours.anc)

CInv == RInv /\ (~tuee => LogeesAvant /\ ABlanc /\ PourDeBon)

-------------------------------------------------------------------------------
LEMMA DecisionEstPasse ==
    ASSUME meta \in [Key -> Objet \cup {None}], NEW k \in Key, meta[k] \in Objet
    PROVE  Passe(k, meta[k]) = Decision(meta, k)
<1> DEFINE o == meta[k]
           autre == meta[Nouvelle[o]]
<1>1. None \notin Objet /\ Nouvelle[o] \in Key /\ k \in Key
  BY ReclerAssumption
<1>2. CASE autre = None
  BY <1>2 DEF Passe, Decision, Place
<1>3. CASE autre # None /\ Date[o] > Date[autre]
  BY <1>3 DEF Passe, Decision, Place, Cede, Partant
<1>4. CASE autre # None /\ ~(Date[o] > Date[autre])
  BY <1>4 DEF Passe, Decision, Place, Cede, Partant
<1> QED
  BY <1>2, <1>3, <1>4

\* Where the copy goes, and what goes.
LEMMA DecisionType ==
    ASSUME NEW d \in [Key -> Objet \cup {None}], NEW k \in Deplacables(d)
    PROVE  /\ k \in Key /\ d[k] \in Objet \ Statuts /\ Nouvelle[d[k]] \in Key /\ Nouvelle[d[k]] # k
           /\ Place(d, k) \in Objet \cup {None}
           /\ Place(d, k) # None => Octets[Partant(d, k)] \in Nat
BY ReclerAssumption DEF Deplacables, Place, Partant

LEMMA ComptesFinis ==
    ASSUME IsFiniteSet(Key), NEW d \in [Key -> Objet \cup {None}], NEW V \in SUBSET Key
    PROVE  /\ IsFiniteSet(Bouges(d, V)) /\ IsFiniteSet(Fusions(d, V))
           /\ IsFiniteSet(Effaces(d, V))
<1>1. Bouges(d, V) \in SUBSET Key /\ Fusions(d, V) \in SUBSET Key
  BY DEF Bouges, Fusions, Deplacables
<1>2. IsFiniteSet(Bouges(d, V)) /\ IsFiniteSet(Fusions(d, V))
  BY <1>1, FS_Subset
<1> DEFINE E(k) == {k} \X (1 .. Octets[Partant(d, k)])
           F == {E(k) : k \in Fusions(d, V)}
<1>3. \A k \in Fusions(d, V) : IsFiniteSet(E(k))
  <2> SUFFICES ASSUME NEW k \in Fusions(d, V) PROVE IsFiniteSet(E(k))
    OBVIOUS
  <2>1. Octets[Partant(d, k)] \in Int
    BY DecisionType DEF Fusions
  <2>2. IsFiniteSet(1 .. Octets[Partant(d, k)])
    BY <2>1, FS_Interval
  <2>3. IsFiniteSet({k})
    BY FS_Singleton
  <2> QED
    BY <2>2, <2>3, FS_Product
<1>4. IsFiniteSet(F)
  <2> DEFINE f == [k \in Fusions(d, V) |-> E(k)]
  <2>1. f \in Surjection(Fusions(d, V), F)
    BY DEF Surjection
  <2> QED
    BY <1>2, <2>1, FS_Surjection
<1>5. IsFiniteSet(UNION F)
  <2>1. \A e \in F : IsFiniteSet(e)
    BY <1>3
  <2> QED
    BY <1>4, <2>1, FS_UNION
<1>6. Effaces(d, V) \in SUBSET (UNION F)
  BY DEF Effaces
<1> QED
  BY <1>2, <1>5, <1>6, FS_Subset

LEMMA ComptesAucun ==
    ASSUME NEW d, NEW V, NEW W, V \cap Deplacables(d) = W \cap Deplacables(d)
    PROVE  Comptes(d, V) = Comptes(d, W)
BY DEF Comptes, Bouges, Fusions, Effaces

LEMMA ComptesVides ==
    ASSUME NEW d, NEW V, V \cap Deplacables(d) = {}
    PROVE  Comptes(d, V) = Zero
<1>1. Bouges(d, V) = {} /\ Fusions(d, V) = {} /\ Effaces(d, V) = {}
  BY DEF Bouges, Fusions, Effaces
<1> QED
  BY <1>1, FS_EmptySet DEF Comptes, Zero

LEMMA Segment ==
    ASSUME NEW x, NEW n \in Nat
    PROVE  IsFiniteSet({x} \X (1 .. n)) /\ Cardinality({x} \X (1 .. n)) = n
<1>1. IsFiniteSet(1 .. n) /\ Cardinality(1 .. n) = IF 1 > n THEN 0 ELSE n - 1 + 1
  <2>1. 1 \in Int /\ n \in Int
    OBVIOUS
  <2> QED
    BY <2>1, FS_Interval
<1>2. IsFiniteSet({x}) /\ Cardinality({x}) = 1
  BY FS_Singleton
<1>3. IsFiniteSet({x} \X (1 .. n)) /\ Cardinality({x} \X (1 .. n)) = Cardinality({x}) * Cardinality(1 .. n)
  BY <1>1, <1>2, FS_Product
<1>4. (IF 1 > n THEN 0 ELSE n - 1 + 1) = n
  OBVIOUS
<1> QED
  BY <1>1, <1>2, <1>3, <1>4

\* The bytes of one more copy.
LEMMA EffacesUn ==
    ASSUME IsFiniteSet(Key), NEW d \in [Key -> Objet \cup {None}], NEW V \in SUBSET Key,
           NEW k \in Deplacables(d) \ V, Place(d, k) # None
    PROVE  Cardinality(Effaces(d, V \cup {k})) = Cardinality(Effaces(d, V)) + Octets[Partant(d, k)]
<1> DEFINE n == Octets[Partant(d, k)]
           E == {k} \X (1 .. n)
           S == Effaces(d, V)
           U == Effaces(d, V \cup {k})
<1>1. n \in Nat
  BY DecisionType
<1>2. IsFiniteSet(E) /\ Cardinality(E) = n
  BY <1>1, Segment
<1>3. Fusions(d, V \cup {k}) = Fusions(d, V) \cup {k} /\ k \notin Fusions(d, V)
  BY DEF Fusions
<1>4. U = S \cup E
  BY <1>1, <1>3 DEF Effaces
<1>5. S \cap E = {}
  BY <1>3 DEF Effaces
<1>6. IsFiniteSet(S) /\ Cardinality(S) \in Nat
  BY ComptesFinis, FS_CardinalityType
<1>7. Cardinality(S \cup E) = Cardinality(S) + Cardinality(E) - Cardinality(S \cap E)
  BY <1>2, <1>6, FS_Union
<1>8. Cardinality({}) = 0
  BY FS_EmptySet
<1>9. Cardinality(U) = Cardinality(S) + n
  <2> HIDE DEF n, E, S, U
  <2>1. Cardinality(U) = Cardinality(S) + n - 0
    BY <1>2, <1>4, <1>5, <1>7, <1>8
  <2> QED
    BY <1>1, <1>6, <2>1
<1> QED
  BY <1>9

\* One more move is one more in the counts, however many there were.
LEMMA ComptesUn ==
    ASSUME IsFiniteSet(Key), NEW d \in [Key -> Objet \cup {None}], NEW V \in SUBSET Key,
           NEW k \in Deplacables(d) \ V
    PROVE  Comptes(d, V \cup {k}) = Compte(Comptes(d, V), Decision(d, k))
<1> DEFINE W == V \cup {k}
           b == Comptes(d, V)
           c == Decision(d, k)
<1>0. /\ k \in Key /\ Nouvelle[d[k]] # k /\ Nouvelle[d[k]] \in Key
      /\ Place(d, k) # None => Octets[Partant(d, k)] \in Nat
      /\ None \notin Key /\ None \notin Nat
  BY DecisionType, ReclerAssumption
<1>1. /\ IsFiniteSet(Bouges(d, V)) /\ IsFiniteSet(Fusions(d, V)) /\ IsFiniteSet(Effaces(d, V))
      /\ k \notin Bouges(d, V) /\ k \notin Fusions(d, V)
  BY ComptesFinis DEF Bouges, Fusions
<1>2. Cardinality(Bouges(d, W)) = IF Cede(d, k) THEN Cardinality(Bouges(d, V))
                                  ELSE Cardinality(Bouges(d, V)) + 1
  <2>1. Bouges(d, W) = IF Cede(d, k) THEN Bouges(d, V) ELSE Bouges(d, V) \cup {k}
    BY DEF Bouges
  <2> QED
    BY <1>1, <2>1, FS_AddElement
<1>3. Place(d, k) = None => /\ Cardinality(Fusions(d, W)) = Cardinality(Fusions(d, V))
                            /\ Cardinality(Effaces(d, W)) = Cardinality(Effaces(d, V))
                            /\ ~Cede(d, k)
  BY DEF Fusions, Effaces, Cede
<1>4. Place(d, k) # None => /\ Cardinality(Fusions(d, W)) = Cardinality(Fusions(d, V)) + 1
                            /\ Cardinality(Effaces(d, W))
                                 = Cardinality(Effaces(d, V)) + Octets[Partant(d, k)]
  <2> SUFFICES ASSUME Place(d, k) # None
               PROVE  /\ Cardinality(Fusions(d, W)) = Cardinality(Fusions(d, V)) + 1
                      /\ Cardinality(Effaces(d, W))
                           = Cardinality(Effaces(d, V)) + Octets[Partant(d, k)]
    OBVIOUS
  <2>1. Fusions(d, W) = Fusions(d, V) \cup {k}
    BY DEF Fusions
  <2>2. Cardinality(Fusions(d, V) \cup {k}) = Cardinality(Fusions(d, V)) + 1
    BY <1>1, FS_AddElement
  <2>3. Cardinality(Effaces(d, W)) = Cardinality(Effaces(d, V)) + Octets[Partant(d, k)]
    BY EffacesUn
  <2> QED
    BY <2>1, <2>2, <2>3
<1>5. /\ c.ote = c.anc <=> Cede(d, k)
      /\ c.fondu = IF Place(d, k) = None THEN None ELSE Octets[Partant(d, k)]
  BY <1>0 DEF Decision, Cede
<1>6. c.fondu # None <=> Place(d, k) # None
  BY <1>0, <1>5
<1> QED
  BY <1>2, <1>3, <1>4, <1>5, <1>6 DEF Comptes, Compte, Deplace, Fondu

-------------------------------------------------------------------------------
LEMMA CInitInv == ASSUME SansDouble, SansEtranger PROVE Init => CInv
<1> SUFFICES ASSUME Init PROVE CInv
  OBVIOUS
<1>1. /\ body \in Debut /\ meta = body /\ avant = body /\ pc = "repos" /\ aBlanc = TRUE
      /\ prevu = None
  BY DEF Init
<1>2. LogeesAvant
  BY <1>1 DEF SansEtranger, LogeesAvant
<1> QED
  BY <1>1, <1>2, RInitInv DEF CInv, ABlanc, PourDeBon

\* A pass that starts finds the store as the dry one left it.
LEMMA CLancer ==
    ASSUME CInv, NEW blanc \in BOOLEAN, Lancer(blanc)
    PROVE  CInv'
<1>1. /\ UNCHANGED <<body, meta, cours, tuee>> /\ pc = "repos" /\ pc' = "parcours"
      /\ reste' = {k \in Key : meta[k] # None} /\ avant' = Entiers
      /\ aBlanc' = blanc /\ bilan' = Zero
      /\ prevu' = (IF aBlanc THEN prevu ELSE None)
      /\ meta \in [Key -> Objet \cup {None}] /\ None \notin Objet
  BY ReclerAssumption DEF Lancer, CInv, RInv, Inv, TypeOK
<1>2. RInv'
  BY RLancer DEF CInv
<1>3. ASSUME ~tuee PROVE LogeesAvant' /\ ABlanc' /\ PourDeBon'
  <2>1. body = meta /\ Logees /\ ABlanc
    BY <1>1, <1>3 DEF CInv, RInv, Suivi, Accord
  <2>2. avant' = meta
    BY <1>1, <2>1 DEF Entiers
  <2>3. LogeesAvant'
    BY <2>1, <2>2 DEF Logees, LogeesAvant
  <2>4. (Key \ reste') \cap Deplacables(meta) = {}
    BY <1>1 DEF Deplacables
  <2>5. bilan' = Comptes(avant', Key \ reste')
    BY <1>1, <2>2, <2>4, ComptesVides
  <2>6. prevu' # None => prevu' = Comptes(avant', Key)
    BY <1>1, <2>1, <2>2 DEF ABlanc
  <2>7. ABlanc'
    BY <1>1, <2>2, <2>5, <2>6 DEF ABlanc
  <2>8. Intactes'
    BY <1>1, <2>2 DEF Intactes
  <2>9. Faites' = Key \ reste' /\ pc' \notin Gestes
    BY <1>1 DEF Faites, Gestes
  <2> QED
    BY <2>3, <2>5, <2>6, <2>7, <2>8, <2>9 DEF PourDeBon
<1> QED
  BY <1>1, <1>2, <1>3 DEF CInv

LEMMA CVisiter ==
    ASSUME IsFiniteSet(Key), CInv, NEW k \in Key, Visiter(k)
    PROVE  CInv'
<1> DEFINE o == meta[k]
           V == Key \ reste
<1>0. /\ UNCHANGED <<body, meta, aBlanc, prevu, avant, tuee>> /\ reste' = reste \ {k}
      /\ meta \in [Key -> Objet \cup {None}] /\ avant \in [Key -> Objet \cup {None}]
      /\ pc = "parcours" /\ k \in reste /\ None \notin Objet /\ V \in SUBSET Key
      /\ aBlanc \in BOOLEAN
  BY ReclerAssumption DEF Visiter, CInv, RInv, Inv, TypeOK
<1>1. RInv'
  BY RVisiter DEF CInv
<1>2. Key \ reste' = V \cup {k} /\ k \notin V
  BY <1>0
<1>3. (k \in Deplacables(meta)) <=> (o \in Objet \ Statuts /\ Nouvelle[o] # k)
  BY DEF Deplacables
<1>4. \/ k \notin Deplacables(meta) /\ UNCHANGED <<pc, cours, bilan>>
      \/ k \in Deplacables(meta) /\ aBlanc /\ bilan' = Compte(bilan, Passe(k, o)) /\ UNCHANGED <<pc, cours>>
      \/ /\ k \in Deplacables(meta) /\ ~aBlanc /\ cours' = Passe(k, o)
         /\ pc' = (IF cours'.ote = None THEN "placeCorps" ELSE "oteCorps") /\ UNCHANGED bilan
  BY <1>3, ReclerAssumption DEF Visiter
<1>5. k \in Deplacables(meta) => Passe(k, o) = Decision(meta, k)
  BY <1>0, <1>3, DecisionEstPasse
<1>6. ASSUME ~tuee PROVE LogeesAvant' /\ ABlanc' /\ PourDeBon'
  <2>1. LogeesAvant /\ ABlanc /\ PourDeBon
    BY <1>6 DEF CInv
  <2>2. LogeesAvant'
    BY <1>0, <2>1 DEF LogeesAvant
  <2>3. CASE aBlanc
    <3>1. avant = meta /\ bilan = Comptes(avant, V) /\ (prevu # None => prevu = Comptes(avant, Key))
      BY <1>0, <2>1, <2>3 DEF ABlanc
    <3>2. bilan' = Comptes(avant, V \cup {k}) /\ UNCHANGED pc
      <4>1. CASE k \in Deplacables(meta)
        <5>1. Comptes(avant, V \cup {k}) = Compte(Comptes(avant, V), Decision(avant, k))
          BY <1>0, <1>2, <3>1, <4>1, ComptesUn
        <5> QED
          BY <1>4, <1>5, <2>3, <3>1, <4>1, <5>1
      <4>2. CASE k \notin Deplacables(meta)
        <5>1. V \cap Deplacables(avant) = (V \cup {k}) \cap Deplacables(avant)
          BY <3>1, <4>2
        <5>2. Comptes(avant, V) = Comptes(avant, V \cup {k})
          BY <5>1, ComptesAucun
        <5> QED
          BY <1>4, <3>1, <4>2, <5>2
      <4> QED
        BY <4>1, <4>2
    <3> QED
      BY <1>0, <1>2, <2>2, <2>3, <3>1, <3>2 DEF ABlanc, PourDeBon
  <2>4. CASE ~aBlanc
    <3>0. ABlanc'
      BY <1>0, <2>4 DEF ABlanc
    <3>1. Isolees' <=> Isolees
      BY <1>0 DEF Isolees
    <3>2. ASSUME Isolees
          PROVE  /\ prevu' # None => prevu' = Comptes(avant', Key)
                 /\ bilan' = Comptes(avant', Faites')
                 /\ Intactes'
                 /\ pc' \in Gestes => /\ cours'.anc \in Deplacables(avant') \ reste'
                                      /\ cours' = Decision(avant', cours'.anc)
      <4>1. /\ prevu # None => prevu = Comptes(avant, Key)
            /\ bilan = Comptes(avant, V) /\ Intactes
        BY <1>0, <2>1, <2>4, <3>2 DEF PourDeBon, Faites, Gestes
      <4>2. Intactes'
        BY <1>0, <4>1 DEF Intactes
      <4>3. k \in Deplacables(avant) <=> k \in Deplacables(meta)
        BY <1>0, <4>1 DEF Intactes, Deplacables
      <4>4. CASE k \in Deplacables(meta)
        <5>1. Decision(meta, k) = Decision(avant, k)
          BY <1>0, <4>1, <4>3, <4>4 DEF Intactes, Decision, Cede, Partant, Place
        <5>2. /\ cours' = Decision(avant, k) /\ pc' \in Gestes /\ UNCHANGED bilan
          BY <1>4, <1>5, <2>4, <4>4, <5>1 DEF Gestes
        <5>3. cours'.anc = k
          BY <5>2 DEF Decision
        <5>4. Faites' = V
          BY <1>0, <5>2, <5>3 DEF Faites
        <5> QED
          BY <1>0, <4>1, <4>2, <4>3, <4>4, <5>2, <5>3, <5>4
      <4>5. CASE k \notin Deplacables(meta)
        <5>1. UNCHANGED <<pc, cours, bilan>>
          BY <1>4, <4>5
        <5>2. Faites' = V \cup {k} /\ pc' \notin Gestes
          BY <1>0, <1>2, <5>1 DEF Faites, Gestes
        <5>3. V \cap Deplacables(avant) = (V \cup {k}) \cap Deplacables(avant)
          BY <4>3, <4>5
        <5>4. Comptes(avant, V) = Comptes(avant, V \cup {k})
          BY <5>3, ComptesAucun
        <5> QED
          BY <1>0, <4>1, <4>2, <5>1, <5>2, <5>4
      <4> QED
        BY <4>4, <4>5
    <3> QED
      BY <2>2, <3>0, <3>1, <3>2 DEF PourDeBon
  <2> QED
    BY <1>0, <2>3, <2>4
<1> QED
  BY <1>0, <1>1, <1>6 DEF CInv

\* A move that has begun ends with what the dry pass counted; it touches its two keys only.
LEMMA IntactesTenues ==
    ASSUME Inv, LogeesAvant, PourDeBon, ~aBlanc, Isolees, pc \in Gestes,
           UNCHANGED <<avant, reste>>,
           \A k \in Key \ {cours.anc, cours.nouv} : meta'[k] = meta[k],
           meta'[cours.nouv] \in {None, meta[cours.nouv], meta[cours.anc]}
    PROVE  Intactes'
<1> DEFINE anc == cours.anc
           nouv == cours.nouv
<1>1. /\ anc \in Deplacables(avant) \ reste /\ cours = Decision(avant, anc) /\ Intactes
      /\ meta[anc] \in Objet \ Statuts /\ Nouvelle[meta[anc]] = nouv
      /\ avant \in [Key -> Objet \cup {None}] /\ reste \subseteq Key /\ None \notin Objet
  BY ReclerAssumption DEF PourDeBon, Inv, Mouvement, Gestes, TypeOK
<1>2. /\ nouv = Nouvelle[avant[anc]] /\ nouv \in Key /\ anc \in Key
      /\ avant[anc] \in Objet \ Statuts /\ nouv # anc
  BY <1>1, DecisionType DEF Decision
<1>3. nouv \notin Deplacables(avant)
  BY <1>1, <1>2 DEF LogeesAvant, Deplacables
<1>4. ASSUME NEW k \in reste, k \in Deplacables(avant)
      PROVE  meta'[k] = avant[k] /\ Place(meta', k) = Place(avant, k)
  <2>1. /\ meta[k] = avant[k] /\ Place(meta, k) = Place(avant, k) /\ k # anc /\ k # nouv
        /\ avant[k] \in Objet \ Statuts /\ Nouvelle[avant[k]] \in Key
    BY <1>1, <1>3, <1>4, DecisionType DEF Intactes
  <2>2. Nouvelle[avant[k]] # nouv
    BY <1>1, <1>2, <1>4, <2>1 DEF Isolees
  <2>3. Nouvelle[avant[k]] # anc
    <3>1. avant[anc] # None /\ Nouvelle[avant[anc]] # anc
      BY <1>1, <1>2
    <3> QED
      BY <1>2, <2>1, <3>1 DEF LogeesAvant
  <2>4. meta'[k] = meta[k] /\ meta'[Nouvelle[avant[k]]] = meta[Nouvelle[avant[k]]]
    BY <1>1, <2>1, <2>2, <2>3
  <2> QED
    BY <2>1, <2>4 DEF Place
<1>5. ASSUME NEW k \in reste, k \notin Deplacables(avant)
      PROVE  k \notin Deplacables(meta')
  <2>1. k \notin Deplacables(meta) /\ k # anc /\ k \in Key
    BY <1>1, <1>5 DEF Intactes
  <2>2. CASE k = nouv
    <3>1. CASE meta'[nouv] = meta[nouv]
      BY <2>1, <2>2, <3>1 DEF Deplacables
    <3>2. CASE meta'[nouv] = meta[anc] \/ meta'[nouv] = None
      BY <1>1, <2>2, <3>2 DEF Deplacables
    <3> QED
      BY <3>1, <3>2
  <2>3. CASE k # nouv
    BY <2>1, <2>3 DEF Deplacables
  <2> QED
    BY <2>2, <2>3
<1> QED
  BY <1>4, <1>5 DEF Intactes

\* A system call in the middle of a move.
LEMMA CDurant ==
    ASSUME Inv, LogeesAvant, PourDeBon, ~aBlanc, pc \in Gestes, pc' \in Gestes,
           UNCHANGED <<aBlanc, avant, reste, cours, bilan, prevu>>,
           \A k \in Key \ {cours.anc, cours.nouv} : meta'[k] = meta[k],
           meta'[cours.nouv] \in {None, meta[cours.nouv], meta[cours.anc]}
    PROVE  PourDeBon'
<1>1. (Isolees' <=> Isolees) /\ Faites' = Faites
  BY DEF Isolees, Faites
<1>2. Isolees => Intactes'
  BY IntactesTenues
<1> QED
  BY <1>1, <1>2 DEF PourDeBon

\* The last call of a move counts it.
LEMMA CCompte ==
    ASSUME IsFiniteSet(Key), Inv, LogeesAvant, PourDeBon, ~aBlanc, pc \in Gestes, pc' = "parcours",
           UNCHANGED <<aBlanc, avant, reste, prevu>>, bilan' = Compte(bilan, cours),
           \A k \in Key \ {cours.anc, cours.nouv} : meta'[k] = meta[k],
           meta'[cours.nouv] \in {None, meta[cours.nouv], meta[cours.anc]}
    PROVE  PourDeBon'
<1> DEFINE anc == cours.anc
           V == Key \ (reste \cup {anc})
<1>1. (Isolees' <=> Isolees) /\ pc' \notin Gestes /\ Faites' = Key \ reste
  BY DEF Isolees, Faites, Gestes
<1>2. Isolees => Intactes'
  BY IntactesTenues
<1>3. ASSUME Isolees PROVE bilan' = Comptes(avant', Faites')
  <2>1. /\ anc \in Deplacables(avant) \ reste /\ cours = Decision(avant, anc)
        /\ bilan = Comptes(avant, V) /\ avant \in [Key -> Objet \cup {None}]
        /\ V \in SUBSET Key /\ anc \notin V
    BY <1>3 DEF PourDeBon, Faites, Inv, TypeOK
  <2>2. Key \ reste = V \cup {anc}
    BY <2>1 DEF Deplacables
  <2> HIDE DEF V
  <2>3. Comptes(avant, V \cup {anc}) = Compte(Comptes(avant, V), Decision(avant, anc))
    BY <2>1, ComptesUn
  <2> QED
    BY <1>1, <2>1, <2>2, <2>3
<1> QED
  BY <1>1, <1>2, <1>3 DEF PourDeBon

LEMMA CGestes ==
    ASSUME IsFiniteSet(Key), CInv, OterCorps \/ OterMeta \/ PlacerCorps \/ PlacerMeta
    PROVE  CInv'
<1>0. /\ UNCHANGED <<aBlanc, reste, prevu, avant, tuee>> /\ pc \in Gestes
      /\ meta \in [Key -> Objet \cup {None}] /\ aBlanc \in BOOLEAN
      /\ cours.anc \in Key /\ cours.nouv \in Key /\ cours.anc # cours.nouv
      /\ meta[cours.anc] \in Objet /\ None \notin Objet
      /\ pc = "oteMeta" => cours.ote \in {cours.anc, cours.nouv}
      /\ Inv
  BY ReclerAssumption DEF OterCorps, OterMeta, PlacerCorps, PlacerMeta, CInv, RInv, Inv, TypeOK,
     Mouvement, Cours, Gestes
<1>1. RInv'
  BY ROterCorps, ROterMeta, RPlacerCorps, RPlacerMeta DEF CInv
<1>2. ASSUME ~tuee PROVE LogeesAvant' /\ ABlanc' /\ PourDeBon'
  <2>1. LogeesAvant /\ PourDeBon /\ ~aBlanc
    BY <1>0, <1>2 DEF CInv, ABlanc, Gestes
  <2>2. LogeesAvant' /\ ABlanc'
    BY <1>0, <2>1 DEF LogeesAvant, ABlanc
  <2>3. CASE OterCorps
    <3>1. pc' \in Gestes /\ UNCHANGED <<meta, cours, bilan>>
      BY <2>3 DEF OterCorps, Gestes
    <3> QED
      BY <1>0, <2>1, <2>2, <3>1, CDurant
  <2>4. CASE PlacerCorps
    <3>1. body[cours.anc] # None
      BY <1>0, <1>2, <2>4 DEF PlacerCorps, CInv, RInv, Suivi, Accord
    <3>2. pc' \in Gestes /\ UNCHANGED <<meta, cours, bilan>>
      BY <2>4, <3>1 DEF PlacerCorps, Gestes
    <3> QED
      BY <1>0, <2>1, <2>2, <3>2, CDurant
  <2>5. CASE PlacerMeta
    <3>1. /\ meta' = [meta EXCEPT ![cours.nouv] = meta[cours.anc], ![cours.anc] = None]
          /\ bilan' = Compte(bilan, cours) /\ pc' = "parcours"
      BY <2>5 DEF PlacerMeta
    <3>2. /\ \A k \in Key \ {cours.anc, cours.nouv} : meta'[k] = meta[k]
          /\ meta'[cours.nouv] = meta[cours.anc]
      BY <1>0, <3>1
    <3> QED
      BY <1>0, <2>1, <2>2, <3>1, <3>2, CCompte
  <2>6. CASE OterMeta
    <3>1. /\ meta' = [meta EXCEPT ![cours.ote] = None] /\ cours.ote \in {cours.anc, cours.nouv}
          /\ \/ bilan' = Compte(bilan, cours) /\ pc' = "parcours"
             \/ pc' \in Gestes /\ UNCHANGED <<bilan, cours>>
      BY <1>0, <2>6 DEF OterMeta, Gestes
    <3>2. /\ \A k \in Key \ {cours.anc, cours.nouv} : meta'[k] = meta[k]
          /\ meta'[cours.nouv] \in {None, meta[cours.nouv]}
      BY <1>0, <3>1
    <3> QED
      BY <1>0, <2>1, <2>2, <3>1, <3>2, CCompte, CDurant
  <2> QED
    BY <2>3, <2>4, <2>5, <2>6
<1> QED
  BY <1>0, <1>1, <1>2 DEF CInv

LEMMA CFinir ==
    ASSUME CInv, Finir
    PROVE  CInv'
<1>1. /\ UNCHANGED <<body, meta, aBlanc, reste, cours, bilan, avant, tuee>> /\ pc = "parcours"
      /\ pc' = "repos" /\ reste = {} /\ prevu' = IF aBlanc THEN bilan ELSE prevu
  BY DEF Finir
<1>2. RInv'
  BY RSuite DEF CInv, Next
<1>3. ASSUME ~tuee PROVE LogeesAvant' /\ ABlanc' /\ PourDeBon'
  <2>1. LogeesAvant /\ ABlanc /\ PourDeBon
    BY <1>3 DEF CInv
  <2>2. LogeesAvant' /\ ABlanc'
    BY <1>1, <2>1 DEF LogeesAvant, ABlanc
  <2>3. (Isolees' <=> Isolees) /\ Faites' = Faites /\ (Intactes' <=> Intactes) /\ pc' \notin Gestes
    BY <1>1 DEF Isolees, Faites, Intactes, Gestes
  <2> QED
    BY <1>1, <2>1, <2>2, <2>3 DEF PourDeBon
<1> QED
  BY <1>1, <1>2, <1>3 DEF CInv

LEMMA CSuite ==
    ASSUME IsFiniteSet(Key), CInv, [Next]_vars
    PROVE  CInv'
<1>1. CASE UNCHANGED vars
  <2>1. RInv' /\ UNCHANGED tuee
    BY <1>1, RSuite DEF CInv, vars
  <2>2. ~tuee => LogeesAvant' /\ ABlanc' /\ PourDeBon'
    BY <1>1 DEF vars, CInv, LogeesAvant, ABlanc, PourDeBon, Isolees, Faites, Intactes
  <2> QED
    BY <2>1, <2>2 DEF CInv
<1>2. CASE Interrompre
  <2>1. RInv' /\ tuee'
    BY <1>2, RSuite DEF CInv, Interrompre, Next
  <2> QED
    BY <2>1 DEF CInv
<1> QED
  BY <1>1, <1>2, CLancer, CVisiter, CGestes, CFinir DEF Next

LEMMA CInvTenu == ASSUME IsFiniteSet(Key), SansDouble, SansEtranger PROVE Spec => []CInv
BY CInitInv, CSuite, PTL DEF Spec

\* recle.go:67: what a dry pass announces is what the real one that follows counts, moves,
\* merges and bytes given back, in whatever orders the two walked a store of finitely many files,
\* as long as no two copies of one file are to be moved and no pass was killed.
THEOREM AnnonceJuste ==
    ASSUME IsFiniteSet(Key), SansDouble, SansEtranger PROVE Spec => []AnnonceTenue
<1>1. CInv => AnnonceTenue
  <2> SUFFICES ASSUME CInv, pc = "repos", ~aBlanc, prevu # None, ~tuee,
                      \A m \in Key : Cardinality(ADeplacer(m)) <= 1
               PROVE  bilan = prevu
    BY DEF AnnonceTenue, Repos
  <2>1. Isolees
    <3> SUFFICES ASSUME NEW j \in Deplacables(avant), NEW k \in Deplacables(avant),
                        Nouvelle[avant[j]] = Nouvelle[avant[k]], j # k
                 PROVE  FALSE
      BY DEF Isolees
    <3> DEFINE m == Nouvelle[avant[j]]
    <3>1. m \in Key /\ j \in ADeplacer(m) /\ k \in ADeplacer(m) /\ ADeplacer(m) \in SUBSET Key
      BY ReclerAssumption DEF Deplacables, ADeplacer
    <3>2. IsFiniteSet(ADeplacer(m))
      BY <3>1, FS_Subset
    <3>3. Cardinality({j}) = 1 /\ IsFiniteSet({j})
      BY FS_Singleton
    <3>4. Cardinality({j} \cup {k}) = 1 + 1
      BY <3>3, FS_AddElement
    <3>5. {j} \cup {k} \in SUBSET ADeplacer(m)
      BY <3>1
    <3>6. Cardinality({j} \cup {k}) <= Cardinality(ADeplacer(m)) /\ Cardinality(ADeplacer(m)) \in Nat
      BY <3>2, <3>5, FS_Subset, FS_CardinalityType
    <3>7. Cardinality(ADeplacer(m)) <= 1
      BY <3>1
    <3> HIDE DEF m
    <3> QED
      BY <3>4, <3>6, <3>7
  <2>2. PourDeBon /\ reste = {} /\ Faites = Key
    BY DEF CInv, RInv, Faites, Gestes
  <2> QED
    BY <2>1, <2>2 DEF PourDeBon
<1> QED
  BY <1>1, CInvTenu, PTL

-------------------------------------------------------------------------------
(* The exceptions to the diversion.                                        *)

\* Until two commands met, one at most is at work, and what it is about to publish is
\* the file with its change.
UneALaFois ==
    ~ensemble =>
        /\ \A c, d \in Commande : cmd[c].pc # "repos" /\ cmd[d].pc # "repos" => c = d
        /\ \A c \in Commande :
              /\ cmd[c].pc \in {"ecrit", "renomme"} => cmd[c].lu = B!Applique(c, fichier)
              /\ cmd[c].pc = "renomme" => part = cmd[c].lu

\* Since a start that no command has troubled, none is at work, and the rules read are
\* those of the file.
SansTrouble ==
    ~trouble => /\ \A c \in Commande : cmd[c].pc = "repos"
                /\ service = "lu" => regles = fichier

BInv == B!TypeOK /\ UneALaFois /\ B!Durable /\ SansTrouble /\ B!Restauration

-------------------------------------------------------------------------------
LEMMA BInitInv == B!Init => BInv
<1> SUFFICES ASSUME B!Init PROVE BInv
  OBVIOUS
<1>1. \A c \in Commande :
        \E a \in MAC : cmd[c] = [pc |-> "repos", geste |-> "add", mac |-> a, lu |-> {}]
  BY DEF B!Init
<1>2. ASSUME NEW c \in Commande PROVE cmd[c].pc = "repos"
  <2>1. PICK a \in MAC : cmd[c] = [pc |-> "repos", geste |-> "add", mac |-> a, lu |-> {}]
    BY <1>1
  <2> QED
    BY <2>1
<1>3. cmd \in [Commande -> [pc : B!Etapes, geste : {"add", "del"}, mac : MAC, lu : SUBSET MAC]]
  BY <1>1 DEF B!Init, B!Etapes
<1>4. B!TypeOK
  BY <1>3 DEF B!Init, B!TypeOK
<1> QED
  BY <1>2, <1>4 DEF B!Init, BInv, UneALaFois, B!Durable, SansTrouble, B!Restauration

LEMMA BVaType ==
    ASSUME B!TypeOK, NEW c \in Commande, NEW e \in B!Etapes, B!Va(c, e)
    PROVE  /\ cmd' \in [Commande -> [pc : B!Etapes, geste : {"add", "del"}, mac : MAC,
                                     lu : SUBSET MAC]]
           /\ cmd'[c].pc = e /\ cmd'[c].lu = cmd[c].lu
           /\ cmd'[c].geste = cmd[c].geste /\ cmd'[c].mac = cmd[c].mac
           /\ \A d \in Commande : d # c => cmd'[d] = cmd[d]
BY DEF B!TypeOK, B!Va

LEMMA BAppliqueType ==
    ASSUME B!TypeOK, NEW c \in Commande, NEW S \in SUBSET MAC
    PROVE  B!Applique(c, S) \in SUBSET MAC
BY DEF B!TypeOK, B!Applique

\* A command that ends, by itself or killed, and leaves the file.
LEMMA BFinInv ==
    ASSUME BInv, NEW c \in Commande, B!Va(c, "repos"), cmd[c].pc # "repos",
           UNCHANGED <<fichier, part, tient, service, regles, trouble, ensemble>>,
           noyau' \in SUBSET MAC, service # "actif" => noyau' = {}
    PROVE  BInv'
<1> USE DEF BInv
<1>1. /\ cmd' \in [Commande -> [pc : B!Etapes, geste : {"add", "del"}, mac : MAC,
                                lu : SUBSET MAC]]
      /\ cmd'[c].pc = "repos" /\ \A d \in Commande : d # c => cmd'[d] = cmd[d]
  BY BVaType DEF B!Etapes
<1>2. B!TypeOK'
  BY <1>1 DEF B!TypeOK
<1>3. trouble
  BY DEF SansTrouble
<1>4. UneALaFois' /\ B!Durable'
  BY <1>1 DEF UneALaFois, B!Durable, B!Applique
<1>5. SansTrouble' /\ B!Restauration'
  BY <1>3 DEF SansTrouble, B!Restauration
<1> QED
  BY <1>2, <1>4, <1>5

LEMMA BAppelerInv ==
    ASSUME BInv, NEW c \in Commande, B!Appeler(c)
    PROVE  BInv'
<1> USE DEF BInv
<1>1. PICK g \in {"add", "del"}, a \in MAC :
        cmd' = [cmd EXCEPT ![c] = [pc |-> "charge", geste |-> g, mac |-> a, lu |-> {}]]
  BY DEF B!Appeler
<1>2. /\ cmd[c].pc = "repos" /\ trouble' = TRUE
      /\ ensemble' = (ensemble \/ \E d \in Commande \ {c} : cmd[d].pc # "repos")
      /\ UNCHANGED <<fichier, part, tient, noyau, service, regles>>
  BY DEF B!Appeler, B!liste
<1>3. /\ cmd'[c].pc = "charge" /\ \A d \in Commande : d # c => cmd'[d] = cmd[d]
  BY <1>1 DEF B!TypeOK
<1>4. B!TypeOK'
  BY <1>1, <1>2 DEF B!TypeOK, B!Etapes
<1>5. UneALaFois' /\ B!Durable'
  <2>1. ~ensemble' => ~ensemble /\ \A d \in Commande : d # c => cmd'[d].pc = "repos"
    BY <1>2, <1>3
  <2>2. UneALaFois'
    BY <1>3, <2>1 DEF UneALaFois
  <2>3. B!Durable'
    BY <1>2, <2>1 DEF B!Durable
  <2> QED
    BY <2>2, <2>3
<1>6. SansTrouble' /\ B!Restauration'
  BY <1>2 DEF SansTrouble, B!Restauration
<1> QED
  BY <1>4, <1>5, <1>6

LEMMA BChargerInv ==
    ASSUME BInv, NEW c \in Commande, B!Charger(c)
    PROVE  BInv'
<1> USE DEF BInv
<1>1. /\ cmd[c].pc = "charge"
      /\ UNCHANGED <<fichier, part, noyau, service, regles, trouble, ensemble>>
  BY DEF B!Charger, B!pose
<1>2. trouble
  BY <1>1 DEF SansTrouble
<1>3. SansTrouble' /\ B!Restauration'
  BY <1>1, <1>2 DEF SansTrouble, B!Restauration
<1>4. CASE cmd[c].geste = "del" /\ cmd[c].mac \notin fichier
  <2>1. B!Va(c, "chaud") /\ tient' = tient \ {cmd[c].mac}
    BY <1>4 DEF B!Charger
  <2>2. /\ cmd' \in [Commande -> [pc : B!Etapes, geste : {"add", "del"}, mac : MAC,
                                  lu : SUBSET MAC]]
        /\ cmd'[c].pc = "chaud" /\ \A d \in Commande : d # c => cmd'[d] = cmd[d]
    BY <2>1, BVaType DEF B!Etapes
  <2>3. B!TypeOK'
    BY <1>1, <2>1, <2>2 DEF B!TypeOK
  <2>4. UneALaFois'
    BY <1>1, <2>2 DEF UneALaFois, B!Applique
  <2>5. B!Durable'
    BY <1>1, <1>4, <2>1 DEF B!Durable
  <2> QED
    BY <1>3, <2>3, <2>4, <2>5
<1>5. CASE ~(cmd[c].geste = "del" /\ cmd[c].mac \notin fichier)
  <2>1. /\ cmd' = [cmd EXCEPT ![c].pc = "ecrit", ![c].lu = B!Applique(c, fichier)]
        /\ tient' = tient
    BY <1>5 DEF B!Charger
  <2>2. B!Applique(c, fichier) \in SUBSET MAC
    BY BAppliqueType DEF B!TypeOK
  <2>3. /\ cmd' \in [Commande -> [pc : B!Etapes, geste : {"add", "del"}, mac : MAC,
                                  lu : SUBSET MAC]]
        /\ cmd'[c].pc = "ecrit" /\ cmd'[c].lu = B!Applique(c, fichier)
        /\ cmd'[c].geste = cmd[c].geste /\ cmd'[c].mac = cmd[c].mac
        /\ \A d \in Commande : d # c => cmd'[d] = cmd[d]
    BY <2>1, <2>2 DEF B!TypeOK, B!Etapes
  <2>4. B!TypeOK'
    BY <1>1, <2>1, <2>3 DEF B!TypeOK
  <2>5. UneALaFois'
    <3>1. ~ensemble => \A d \in Commande : d # c => cmd'[d].pc = "repos"
      BY <1>1, <2>3 DEF UneALaFois
    <3>2. B!Applique(c, fichier)' = B!Applique(c, fichier)
      BY <1>1, <2>3 DEF B!Applique
    <3> QED
      BY <1>1, <2>3, <3>1, <3>2 DEF UneALaFois
  <2>6. B!Durable'
    BY <1>1, <2>1 DEF B!Durable
  <2> QED
    BY <1>3, <2>4, <2>5, <2>6
<1> QED
  BY <1>4, <1>5

LEMMA BEcrireInv ==
    ASSUME BInv, NEW c \in Commande, B!EcrirePart(c)
    PROVE  BInv'
<1> USE DEF BInv
<1>1. /\ cmd[c].pc = "ecrit" /\ part' = cmd[c].lu
      /\ UNCHANGED <<fichier, tient, noyau, service, regles, trouble, ensemble>>
  BY DEF B!EcrirePart, B!pose
<1>2. /\ cmd' \in [Commande -> [pc : B!Etapes, geste : {"add", "del"}, mac : MAC,
                                lu : SUBSET MAC]]
      /\ cmd'[c].pc = "renomme" /\ cmd'[c].lu = cmd[c].lu
      /\ cmd'[c].geste = cmd[c].geste /\ cmd'[c].mac = cmd[c].mac
      /\ \A d \in Commande : d # c => cmd'[d] = cmd[d]
  BY BVaType DEF B!EcrirePart, B!Etapes
<1>3. B!TypeOK'
  BY <1>1, <1>2 DEF B!TypeOK
<1>4. UneALaFois' /\ B!Durable'
  BY <1>1, <1>2, SMTT(30) DEF UneALaFois, B!Durable, B!Applique
<1>5. SansTrouble' /\ B!Restauration'
  BY <1>1 DEF SansTrouble, B!Restauration
<1> QED
  BY <1>3, <1>4, <1>5

\* The step that publishes: alone, a command renames what it wrote.
LEMMA BRenommerInv ==
    ASSUME BInv, NEW c \in Commande, B!Renommer(c)
    PROVE  BInv'
<1> USE DEF BInv
<1>1. /\ cmd[c].pc = "renomme" /\ part # Absent /\ fichier' = part /\ part' = Absent
      /\ tient' = B!Applique(c, tient)
      /\ UNCHANGED <<noyau, service, regles, trouble, ensemble>>
  BY DEF B!Renommer, B!pose
<1>2. /\ cmd' \in [Commande -> [pc : B!Etapes, geste : {"add", "del"}, mac : MAC,
                                lu : SUBSET MAC]]
      /\ cmd'[c].pc = "chaud" /\ \A d \in Commande : d # c => cmd'[d] = cmd[d]
  BY BVaType DEF B!Renommer, B!Etapes
<1>3. B!TypeOK'
  <2>1. tient' \in SUBSET MAC
    BY <1>1, BAppliqueType DEF B!TypeOK
  <2> QED
    BY <1>1, <1>2, <2>1 DEF B!TypeOK
<1>4. UneALaFois'
  <2>1. ~ensemble => \A d \in Commande : d # c => cmd'[d].pc = "repos"
    BY <1>1, <1>2 DEF UneALaFois
  <2> QED
    BY <1>1, <1>2, <2>1 DEF UneALaFois
<1>5. B!Durable'
  BY <1>1 DEF UneALaFois, B!Durable
<1>6. SansTrouble' /\ B!Restauration'
  BY <1>1 DEF SansTrouble, B!Restauration
<1> QED
  BY <1>3, <1>4, <1>5, <1>6

\* The service starts, lays its rules, stops.
LEMMA BServiceInv ==
    ASSUME BInv, B!Demarrer \/ B!Poser \/ B!Arreter
    PROVE  BInv'
<1> USE DEF BInv
<1>1. UNCHANGED <<fichier, part, tient, cmd, ensemble>>
  BY DEF B!Demarrer, B!Poser, B!Arreter, B!liste
<1>2. UneALaFois' /\ B!Durable'
  BY <1>1 DEF UneALaFois, B!Durable, B!Applique
<1>3. CASE B!Demarrer
  <2>1. B!TypeOK' /\ SansTrouble' /\ B!Restauration'
    BY <1>1, <1>3 DEF B!Demarrer, B!TypeOK, SansTrouble, B!Restauration
  <2> QED
    BY <1>2, <2>1
<1>4. CASE B!Poser
  <2>1. B!TypeOK' /\ SansTrouble' /\ B!Restauration'
    BY <1>1, <1>4 DEF B!Poser, B!TypeOK, SansTrouble, B!Restauration
  <2> QED
    BY <1>2, <2>1
<1>5. CASE B!Arreter
  <2>1. B!TypeOK' /\ SansTrouble' /\ B!Restauration'
    BY <1>1, <1>5 DEF B!Arreter, B!TypeOK, SansTrouble, B!Restauration
  <2> QED
    BY <1>2, <2>1
<1> QED
  BY <1>3, <1>4, <1>5

LEMMA BInvSuite == BInv /\ [B!Next]_B!vars => BInv'
<1> SUFFICES ASSUME BInv, [B!Next]_B!vars PROVE BInv'
  OBVIOUS
<1>1. ASSUME NEW c \in Commande, B!RenommerEchoue(c) \/ B!AChaud(c) \/ B!Tuer(c)
      PROVE  BInv'
  <2>1. /\ B!Va(c, "repos") /\ cmd[c].pc # "repos"
        /\ UNCHANGED <<fichier, part, tient, service, regles, trouble, ensemble>>
    BY <1>1 DEF B!RenommerEchoue, B!AChaud, B!Tuer, B!liste, B!pose
  <2>2. noyau' \in {noyau, IF service = "actif" THEN B!Applique(c, noyau) ELSE noyau}
    BY <1>1 DEF B!RenommerEchoue, B!AChaud, B!Tuer, B!pose
  <2>3. noyau' \in SUBSET MAC /\ (service # "actif" => noyau' = {})
    BY <2>2, BAppliqueType DEF BInv, B!TypeOK
  <2> QED
    BY <2>1, <2>3, BFinInv
<1>2. CASE UNCHANGED B!vars
  BY <1>2 DEF B!vars, BInv, B!TypeOK, UneALaFois, B!Durable, SansTrouble, B!Restauration, B!Applique
<1> QED
  BY <1>1, <1>2, BAppelerInv, BChargerInv, BEcrireInv, BRenommerInv, BServiceInv DEF B!Next

\* What a command holds, what the file, the temporary and the kernel's set hold stay consistent
\* through every step of the commands and of the service (main.go:194-221, bypass.go:149-170).
LEMMA BInvTenu == B!Spec => []BInv
BY BInitInv, BInvSuite, PTL DEF B!Spec

\* The list holds what the commands that reported success ask for, whichever were killed
\* and whatever temporary a killed one left, as long as they ran one at a time.
THEOREM ListeTenue == B!Spec => []Durable
<1>1. BInv => Durable
  BY DEF BInv, Durable
<1> QED
  BY <1>1, BInvTenu, PTL

\* A start of the service lays in the kernel the exceptions of the file, unless a command
\* runs meanwhile.
THEOREM NoyauTenu == B!Spec => []Restauration
<1>1. BInv => Restauration
  BY DEF BInv, Restauration
<1> QED
  BY <1>1, BInvTenu, PTL

-------------------------------------------------------------------------------
(* The TLS front, and the whole.                                           *)

\* mitm.go:258: no host is relayed undecrypted but for a declaration, an alert or a cut that is
\* more recent than Oubli.
THEOREM TunnelsTenus == ASSUME T!Durees PROVE T!Spec => []TunnelJustifie
<1>1. T!TunnelJustifie <=> TunnelJustifie
  BY DEF TunnelJustifie
<1> QED
  BY <1>1, T!TunnelsJustifies, PTL

\* mitm.go:360: a host is suspected only on as many cuts as the threshold, none of which a burst
\* explains, or on an alert.
THEOREM SoupconsTenus == ASSUME T!Durees PROVE T!Spec => SoupconFonde
BY T!SoupconsFondes DEF SoupconFonde

\* The three parts together keep their types, in particular no move of the pass ever pairs keys
\* that do not exist, no clock runs ahead and no kernel set outlives the service (recle.go:125,
\* mitm.go:221, bypass.go:149).
THEOREM TypesGardes == ASSUME T!Durees PROVE GardesSpec => []TypesTenus
<1>1. T!Inv => T!TypeOK
  BY DEF T!Inv
<1>2. Inv => TypeOK
  BY DEF Inv
<1>3. BInv => B!TypeOK
  BY DEF BInv
<1>4. TypeOK /\ T!TypeOK /\ B!TypeOK => TypesTenus
  BY DEF TypesTenus
<1> QED
  BY <1>1, <1>2, <1>3, <1>4, T!Porte, InvTenu, BInvTenu, PTL DEF GardesSpec
===============================================================================
