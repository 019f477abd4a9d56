-------------------------------- MODULE Recler --------------------------------
(***************************************************************************)
(* The re-keying pass of the store, script/qemu_cache/recle.go: the rule   *)
(* that turns an address into a key has changed, and every object is moved *)
(* under the key of today, copies of one file being merged.  The service   *)
(* is stopped meanwhile; the pass may be killed between any two of its     *)
(* system calls, and run again.                                            *)
(***************************************************************************)
EXTENDS Integers, FiniteSets

CONSTANTS
    Key, Objet, None,
    Nouvelle,   \* Nouvelle[o]: the key that CleDe gives today to o's address
    Date,       \* Date[o]: StoredAt
    Octets,     \* Octets[o]: the size of its body
    Statuts,    \* objects that carry a status only
    Debut,      \* the contents of the store the pass may find
    Pannes      \* may the pass be killed?

ASSUME ReclerAssumption ==
    /\ Nouvelle \in [Objet -> Key]
    /\ Date \in [Objet -> Nat]
    /\ Octets \in [Objet -> Nat]
    /\ Statuts \subseteq Objet
    /\ Debut \subseteq [Key -> Objet \cup {None}]
    /\ None \notin Objet \cup Key /\ None \notin Nat
    /\ Pannes \in BOOLEAN

VARIABLES
    body, meta,   \* the object whose body, whose metadata, each key has
    pc,           \* the next system call of the pass, or "repos"
    aBlanc,       \* the pass only counts; TRUE when no real one has just ended
    reste,        \* metadata listed and not visited yet
    cours,        \* the move under way, None between two
    bilan,        \* the counts of the pass
    prevu,        \* what a dry pass announced to the real one, None when none did
    avant,        \* the objects the pass found whole, body and metadata
    tuee          \* history: a pass was killed

vars == <<body, meta, pc, aBlanc, reste, cours, bilan, prevu, avant, tuee>>

Bilan == [deplaces : Nat, fondus : Nat, rendus : Nat, refus : Nat]

\* ote: the pair to remove first; fondu: the size of the copy that goes.
Cours == [anc : Key, nouv : Key, ote : Key \cup {None}, fondu : Nat \cup {None}]

\* A key has an object when its body and its metadata are those of one.
Entiers == [k \in Key |-> IF body[k] = meta[k] THEN body[k] ELSE None]

Zero == [deplaces |-> 0, fondus |-> 0, rendus |-> 0, refus |-> 0]

TypeOK ==
    /\ body \in [Key -> Objet \cup {None}]
    /\ meta \in [Key -> Objet \cup {None}]
    /\ pc \in {"repos", "parcours", "oteCorps", "oteMeta", "placeCorps", "placeMeta"}
    /\ aBlanc \in BOOLEAN
    /\ reste \subseteq Key
    /\ cours \in Cours \cup {None}
    /\ bilan \in Bilan
    /\ prevu \in Bilan \cup {None}
    /\ avant \in [Key -> Objet \cup {None}]
    /\ tuee \in BOOLEAN

Init ==
    /\ body \in Debut
    /\ meta = body
    /\ pc = "repos"
    /\ aBlanc = TRUE
    /\ reste = {}
    /\ cours = None
    /\ bilan = Zero
    /\ prevu = None
    /\ avant = body
    /\ tuee = FALSE

-------------------------------------------------------------------------------
\* Recler lists the metadata before it renames anything.
Lancer(blanc) ==
    /\ pc = "repos"
    /\ pc' = "parcours"
    /\ aBlanc' = blanc
    /\ reste' = {k \in Key : meta[k] # None}
    /\ bilan' = Zero
    /\ avant' = Entiers
    /\ prevu' = IF aBlanc THEN prevu ELSE None
    /\ UNCHANGED <<body, meta, cours, tuee>>

\* The counts when a move of the copy under anc to nouv is over.
Deplace(b) == [b EXCEPT !.deplaces = @ + 1]
Fondu(b, n) == [b EXCEPT !.fondus = @ + 1, !.rendus = @ + n]

\* Slips: the earlier copy is kept; the pair to replace is not removed first.
PasseAncienne(anc, o) ==
    LET nouv  == Nouvelle[o]
        autre == meta[nouv]
    IN  IF autre = None THEN [anc |-> anc, nouv |-> nouv, ote |-> None, fondu |-> None]
        ELSE [anc |-> anc, nouv |-> nouv, ote |-> anc, fondu |-> Octets[o]]

PasseSansRetrait(anc, o) ==
    LET nouv  == Nouvelle[o]
        autre == meta[nouv]
    IN  IF autre # None /\ Date[o] <= Date[autre]
        THEN [anc |-> anc, nouv |-> nouv, ote |-> anc, fondu |-> Octets[o]]
        ELSE [anc |-> anc, nouv |-> nouv, ote |-> None, fondu |-> None]

\* What deplacer decides for the object o found under anc.
Passe(anc, o) ==
    LET nouv  == Nouvelle[o]
        autre == meta[nouv]
    IN  CASE autre = None -> [anc |-> anc, nouv |-> nouv, ote |-> None, fondu |-> None]
        []   autre # None /\ Date[o] > Date[autre] ->
                [anc |-> anc, nouv |-> nouv, ote |-> nouv, fondu |-> Octets[autre]]
        []   OTHER ->
                [anc |-> anc, nouv |-> nouv, ote |-> anc, fondu |-> Octets[o]]

\* The counts of a whole move: a copy that stays where it is was not moved.
Compte(b, c) ==
    LET d == IF c.ote = c.anc THEN b ELSE Deplace(b)
    IN  IF c.fondu = None THEN d ELSE Fondu(d, c.fondu)

\* One turn of the loop.  Metadata that went meanwhile, a status alone and an
\* object that is already under its key are passed over.
Visiter(k) ==
    /\ pc = "parcours"
    /\ k \in reste
    /\ reste' = reste \ {k}
    /\ LET o == meta[k] IN
       \/ /\ \/ o \in {None} \cup Statuts
             \/ o \in Objet \ Statuts /\ Nouvelle[o] = k
          /\ UNCHANGED <<pc, cours, bilan>>
       \/ /\ o \in Objet \ Statuts
          /\ Nouvelle[o] # k
          /\ aBlanc
          /\ bilan' = Compte(bilan, Passe(k, o))
          /\ UNCHANGED <<pc, cours>>
       \/ /\ o \in Objet \ Statuts
          /\ Nouvelle[o] # k
          /\ ~aBlanc
          /\ cours' = Passe(k, o)
          /\ pc' = IF cours'.ote = None THEN "placeCorps" ELSE "oteCorps"
          /\ UNCHANGED bilan
    /\ UNCHANGED <<body, meta, aBlanc, prevu, avant, tuee>>

\* retirerPaire: the body, then the metadata; an absent file is no error.
OterCorps ==
    /\ pc = "oteCorps"
    /\ body' = [body EXCEPT ![cours.ote] = None]
    /\ pc' = "oteMeta"
    /\ UNCHANGED <<meta, aBlanc, reste, cours, bilan, prevu, avant, tuee>>

OterMeta ==
    /\ pc = "oteMeta"
    /\ meta' = [meta EXCEPT ![cours.ote] = None]
    /\ IF cours.ote = cours.anc
       THEN /\ bilan' = Compte(bilan, cours)
            /\ cours' = None
            /\ pc' = "parcours"
       ELSE /\ pc' = "placeCorps"
            /\ UNCHANGED <<bilan, cours>>
    /\ UNCHANGED <<body, aBlanc, reste, prevu, avant, tuee>>

\* renommerPaire: the body, then the metadata; a body that is not there is
\* an error, counted, and the pass goes on with the next object.
PlacerCorps ==
    /\ pc = "placeCorps"
    /\ IF body[cours.anc] = None
       THEN /\ bilan' = [bilan EXCEPT !.refus = @ + 1]
            /\ cours' = None
            /\ pc' = "parcours"
            /\ UNCHANGED body
       ELSE /\ body' = [body EXCEPT ![cours.nouv] = body[cours.anc],
                                    ![cours.anc] = None]
            /\ pc' = "placeMeta"
            /\ UNCHANGED <<bilan, cours>>
    /\ UNCHANGED <<meta, aBlanc, reste, prevu, avant, tuee>>

\* A slip: an object that was moved is not counted.
PlacerMetaSansCompte ==
    /\ pc = "placeMeta"
    /\ meta' = [meta EXCEPT ![cours.nouv] = meta[cours.anc], ![cours.anc] = None]
    /\ cours' = None
    /\ pc' = "parcours"
    /\ UNCHANGED <<body, aBlanc, reste, bilan, prevu, avant, tuee>>

PlacerMeta ==
    /\ pc = "placeMeta"
    /\ meta' = [meta EXCEPT ![cours.nouv] = meta[cours.anc], ![cours.anc] = None]
    /\ bilan' = Compte(bilan, cours)
    /\ cours' = None
    /\ pc' = "parcours"
    /\ UNCHANGED <<body, aBlanc, reste, prevu, avant, tuee>>

\* The pass ends; a dry one leaves its announcement.
Finir ==
    /\ pc = "parcours"
    /\ reste = {}
    /\ pc' = "repos"
    /\ prevu' = IF aBlanc THEN bilan ELSE prevu
    /\ UNCHANGED <<body, meta, aBlanc, reste, cours, bilan, avant, tuee>>

\* The pass is killed: it leaves no counts, and nothing is over.
Interrompre ==
    /\ Pannes
    /\ pc # "repos"
    /\ pc' = "repos"
    /\ reste' = {}
    /\ cours' = None
    /\ bilan' = Zero
    /\ avant' = Entiers
    /\ aBlanc' = TRUE
    /\ prevu' = None
    /\ tuee' = TRUE
    /\ UNCHANGED <<body, meta>>

Next ==
    \/ \E blanc \in BOOLEAN : Lancer(blanc)
    \/ \E k \in Key : Visiter(k)
    \/ OterCorps
    \/ OterMeta
    \/ PlacerCorps
    \/ PlacerMeta
    \/ Finir
    \/ Interrompre

Spec == Init /\ [][Next]_vars

-------------------------------------------------------------------------------
(* Properties.                                                             *)

Repos == pc = "repos"

\* The copies of one file that a store holds.
Copies(contenu, n) == {contenu[k] : k \in {j \in Key :
                          /\ contenu[j] \in Objet \ Statuts
                          /\ Nouvelle[contenu[j]] = n}}

\* recle.go:24: "Le plus recemment range est garde".  After real passes none of
\* which was killed, each file of which the pass found a copy is under its key,
\* once, and it is the latest of the copies, with its own metadata.
PlusRecentGarde ==
    Repos /\ ~aBlanc /\ ~tuee =>
        /\ body = meta
        /\ \A n \in Key : LET c == Copies(avant, n) IN
              c # {} => /\ body[n] \in c
                        /\ \A o \in c : Date[o] <= Date[body[n]]
                        /\ Copies(body, n) = {body[n]}
                        /\ \A k \in Key : k # n => body[k] # body[n]

\* recle.go:24: the copies are merged, and a file is not lost: after a pass that
\* ran to its end, each file of which it found a whole copy has one under its
\* key, whatever an earlier pass left when it was killed.
CopieGardee ==
    Repos /\ ~aBlanc =>
        \A n \in Key : LET c == Copies(avant, n) IN
            c # {} => Entiers[n] \in c

\* Whatever a killed pass leaves, no key ever pairs the body of an object with
\* the metadata of another.
PaireCoherente ==
    Repos => \A k \in Key : body[k] # None /\ meta[k] # None => body[k] = meta[k]

\* The copies of one file that lie under keys of old.
ADeplacer(m) == {k \in Key \ {m} : avant[k] \in Objet \ Statuts /\ Nouvelle[avant[k]] = m}

\* recle.go:67: in a dry pass "le compte dit ce qui bougerait".  The real pass
\* that follows counts what was announced, as long as no two copies of one
\* file are both to be moved (a dry pass does not see the first one arrive)
\* and no pass was killed (nor does it see that a body is missing).
AnnonceTenue ==
    /\ Repos /\ ~aBlanc /\ prevu # None /\ ~tuee
    /\ \A m \in Key : Cardinality(ADeplacer(m)) <= 1
    => bilan = prevu
===============================================================================
