-------------------------- MODULE JoignabiliteProofs --------------------------
(***************************************************************************)
(* The bound on refusals of Joignabilite, for any window, any dial delay   *)
(* and any number of requests and addresses.                               *)
(***************************************************************************)
EXTENDS Joignabilite, TLAPS

\* While the network is cut, no time counts as "back".
CoupeNeCompte == \A a \in Adresse : ~reseau[a] => retour[a] = 0

\* A dial that saw the cut began before the network came back.
DialDAvantLeRetour ==
    \A q \in Requete : req[q].pc = "compose" /\ req[q].vu = "coupure" =>
        retour[req[q].a] <= req[q].age

\* So the failure it notes is at most one dial younger than the return.
EchecPresDeLaCoupe ==
    \A a \in Adresse : muet[a] # None => retour[a] <= muet[a] + Delai

\* The sentinel that lifted the cut is later than the failure it found.
LeveeCouvre == \A a \in Adresse : levee[a] => muet[a] = None \/ leve[a]

IInv ==
    /\ TypeOK /\ CoupeNeCompte /\ DialDAvantLeRetour /\ EchecPresDeLaCoupe /\ RefusBorne
    /\ LeveeCouvre /\ LeveeImmediate

-------------------------------------------------------------------------------
LEMMA InitIInv == Init => IInv
BY JoignabiliteAssumption
   DEF Init, IInv, TypeOK, Repos, Borne, CoupeNeCompte, DialDAvantLeRetour,
       EchecPresDeLaCoupe, RefusBorne, LeveeCouvre, LeveeImmediate

LEMMA IInvStep == IInv /\ [Next]_vars => IInv'
<1> SUFFICES ASSUME IInv, [Next]_vars PROVE IInv'
  OBVIOUS
<1> USE JoignabiliteAssumption DEF IInv, TypeOK, Repos, Composition, Refus, Borne,
    CoupeNeCompte, DialDAvantLeRetour, EchecPresDeLaCoupe, RefusBorne, LeveeCouvre, LeveeImmediate
<1>1. ASSUME NEW q \in Requete, NEW a \in Adresse, Refuser(q, a) PROVE IInv'
  <2>1. /\ muet[a] \in 0 .. Fenetre - 1
        /\ ~leve[a]
        /\ req' = [req EXCEPT ![q] = [pc |-> "refusee", a |-> a,
                      retour |-> IF reseau[a] THEN retour[a] ELSE 0,
                      levee |-> levee[a]]]
        /\ UNCHANGED <<muet, leve, reseau, retour, levee>>
    BY <1>1 DEF Refuser, ConnuMuet
  <2>2. retour[a] \in 0 .. Borne /\ retour[a] < Borne /\ levee[a] = FALSE
    BY <2>1
  <2> QED
    BY <2>1, <2>2
<1>2. ASSUME NEW q \in Requete, NEW a \in Adresse, NEW repli \in BOOLEAN,
             Composer(q, a, repli)
      PROVE  IInv'
  <2>1. /\ muet' \in [Adresse -> 0 .. Fenetre \cup {None}]
        /\ \A b \in Adresse : muet'[b] # None => muet'[b] = muet[b]
        /\ UNCHANGED <<leve, reseau, retour, levee>>
    BY <1>2 DEF Composer, Consulte, ConnuMuet
  <2>2. /\ req' \in [Requete -> {Repos} \cup Composition \cup Refus]
        /\ req' = [req EXCEPT ![q] = [pc |-> "compose", a |-> a, age |-> 0,
                            vu |-> IF reseau[a] THEN "reseau" ELSE "coupure"]]
    BY <1>2 DEF Composer
  <2>3. TypeOK' /\ CoupeNeCompte' /\ EchecPresDeLaCoupe'
    BY <2>1, <2>2
  <2>4. DialDAvantLeRetour'
    BY <2>1, <2>2
  <2>5. RefusBorne'
    BY <2>1, <2>2
  <2>6. LeveeCouvre' /\ LeveeImmediate'
    BY <2>1, <2>2
  <2> QED
    BY <2>3, <2>4, <2>5, <2>6
<1>3. ASSUME NEW q \in Requete, Repondre(q) PROVE IInv'
  BY <1>3 DEF Repondre
<1>4. ASSUME NEW q \in Requete, Echouer(q) PROVE IInv'
  <2>1. req[q].a \in Adresse /\ retour[req[q].a] <= Delai
    BY <1>4 DEF Echouer
  <2> QED
    BY <1>4, <2>1 DEF Echouer
<1>5. ASSUME NEW q \in Requete, AutreErreur(q) \/ Replier(q) PROVE IInv'
  BY <1>5 DEF AutreErreur, Replier
<1>6. ASSUME NEW a \in Adresse, Couper(a) PROVE IInv'
  <2>1. /\ reseau' = [reseau EXCEPT ![a] = FALSE]
        /\ retour' = [retour EXCEPT ![a] = 0]
        /\ levee' = [levee EXCEPT ![a] = FALSE]
        /\ UNCHANGED <<muet, leve>>
    BY <1>6 DEF Couper
  <2>2. \A q \in Requete :
           \/ req'[q] = req[q]
           \/ /\ req[q].pc = "compose"
              /\ req[q].a = a
              /\ req'[q] = [req[q] EXCEPT !.vu = "coupure"]
    BY <1>6 DEF Couper
  <2>3. ASSUME NEW q \in Requete
        PROVE  /\ req'[q] \in {Repos} \cup Composition \cup Refus
               /\ req'[q].pc = req[q].pc
               /\ req'[q].pc = "compose" =>
                     /\ req'[q].a = req[q].a
                     /\ req'[q].age = req[q].age
                     /\ req'[q].vu = "coupure" => (req[q].vu = "coupure" \/ req[q].a = a)
               /\ req'[q].pc = "refusee" => req'[q] = req[q]
    BY <2>2, ZenonT(60)
  <2>4. TypeOK'
    <3>1. req' \in [Requete -> {Repos} \cup Composition \cup Refus]
      BY <1>6, <2>3 DEF Couper
    <3> QED
      BY <2>1, <3>1
  <2>5. CoupeNeCompte' /\ EchecPresDeLaCoupe'
    BY <2>1
  <2>6. DialDAvantLeRetour'
    BY <2>1, <2>3
  <2>7. RefusBorne' /\ LeveeImmediate'
    BY <2>3
  <2>8. LeveeCouvre'
    BY <2>1
  <2> QED
    BY <2>4, <2>5, <2>6, <2>7, <2>8
<1>7. ASSUME NEW a \in Adresse, Retablir(a) PROVE IInv'
  BY <1>7 DEF Retablir
<1>8. CASE ToucherSentinelle
  BY <1>8 DEF ToucherSentinelle
<1>9. CASE Tick
  BY <1>9 DEF Tick, Vieillir
<1>10. CASE UNCHANGED vars
  BY <1>10 DEF vars
<1> QED
  BY <1>1, <1>2, <1>3, <1>4, <1>5, <1>6, <1>7, <1>8, <1>9, <1>10 DEF Next, Aboutir

LEMMA Inductif == Spec => []IInv
BY InitIInv, IInvStep, PTL DEF Spec

\* joignable.go: the memory stays well formed, whatever the order in which
\* dials end, the network is cut and the sentinel is touched.
THEOREM TypeCorrect == Spec => []TypeOK
BY Inductif, PTL DEF IInv

\* joignable.go:29: an upstream that has been back for a window and a dial is
\* not refused, for every window and every delay.
THEOREM RefusBorneToujours == Spec => []RefusBorne
BY Inductif, PTL DEF IInv

\* joignable.go:69: once the cut is over and lifted, no request falls back on
\* account of it, unless a dial it had spoilt fails after the lift.
THEOREM LeveeImmediateToujours == Spec => []LeveeImmediate
BY Inductif, PTL DEF IInv
===============================================================================
