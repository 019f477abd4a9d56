---------------------------- MODULE TLSFrontProofs ----------------------------
(***************************************************************************)
(* Theorems of the module TLSFront, for any hosts, connections, threshold, *)
(* burst and forgetting: a suspicion rests on as many cuts as the          *)
(* threshold, none of which a burst explains, and a tunnel on a            *)
(* declaration, an alert or a recent cut.                                  *)
(***************************************************************************)
EXTENDS TLSFront, FiniteSetTheorems, TLAPS

\* A burst lasts: the code's default is two seconds.
Durees == TLSFrontAssumption /\ Rafale # 0

\* Cuts of h as many as are counted, none in the burst of another, none after the last
\* counted.
Preuves(h) ==
    {T \in SUBSET suite[h] : /\ IsFiniteSet(T) /\ Cardinality(T) = echecs[h]
                             /\ Espacees(T)
                             /\ \A t \in T : t <= dernier[h]}

\* The count of a host is that of such cuts, unless an alert was counted.
Comptes == \A h \in Hote : h \in alertes \/ Preuves(h) # {}

\* A tunnel was not chosen in the future, a suspicion dates from a cut.
Dates ==
    /\ \A c \in Connexion : cnx[c].quand <= heure
    /\ \A h \in Hote : apprises[h].nature = "soupcon" => apprises[h].quand \in coupes[h]

Inv == TypeOK /\ Comptes /\ Dates /\ TunnelJustifie

-------------------------------------------------------------------------------
LEMMA VideProuve ==
    ASSUME NEW h, echecs[h] = 0
    PROVE  Preuves(h) # {}
<1>1. {} \in Preuves(h)
  BY FS_EmptySet DEF Preuves, Espacees
<1> QED
  BY <1>1

LEMMA InitInv == ASSUME Durees PROVE Init => Inv
<1> SUFFICES ASSUME Init PROVE Inv
  OBVIOUS
<1>1. ASSUME NEW c \in Connexion
      PROVE  cnx[c].pc = "repos" /\ cnx[c].quand = 0 /\ cnx[c].hote \in Hote
             /\ cnx[c] \in [pc : Etapes, hote : Hote, quand : Heure]
  <2>1. PICK h \in Hote : cnx[c] = [pc |-> "repos", hote |-> h, quand |-> 0]
    BY DEF Init
  <2> QED
    BY <2>1 DEF Durees, TLSFrontAssumption, Etapes, Heure
<1>2. TypeOK
  <2>1. cnx \in [Connexion -> [pc : Etapes, hote : Hote, quand : Heure]]
    BY <1>1 DEF Init
  <2>2. 0 \in Heure /\ 0 \in 0 .. Seuil
    BY DEF Durees, TLSFrontAssumption, Heure
  <2> QED
    BY <2>1, <2>2 DEF Init, TypeOK, Inconnu
<1>3. Comptes
  BY VideProuve DEF Init, Comptes
<1>4. Dates /\ TunnelJustifie
  BY <1>1 DEF Init, Dates, TunnelJustifie, Inconnu
<1> QED
  BY <1>2, <1>3, <1>4 DEF Inv

\* What a host is known by, forgotten or cleared: the count starts again.
LEMMA CompteGarde ==
    ASSUME NEW h \in Hote, h \in alertes \/ Preuves(h) # {},
           \/ UNCHANGED <<echecs[h], dernier[h], suite[h]>> /\ (h \in alertes => h \in alertes')
           \/ echecs'[h] = 0
    PROVE  h \in alertes' \/ Preuves(h)' # {}
<1>1. CASE echecs'[h] = 0
  <2>1. ({} \in Preuves(h))'
    BY <1>1, FS_EmptySet DEF Preuves, Espacees
  <2> QED
    BY <2>1
<1>2. CASE UNCHANGED <<echecs[h], dernier[h], suite[h]>> /\ (h \in alertes => h \in alertes')
  BY <1>2 DEF Preuves
<1> QED
  BY <1>1, <1>2

\* A cut that counts adds one to the cuts it is spaced from.
LEMMA CompteCoupe ==
    ASSUME Durees, TypeOK, NEW h \in Hote, Preuves(h) # {}, EchecCoupe(h),
           suite'[h] = suite[h] \cup {heure}
    PROVE  Preuves(h)' # {}
<1>1. PICK T \in SUBSET suite[h] :
        /\ IsFiniteSet(T) /\ Cardinality(T) = echecs[h] /\ Espacees(T)
        /\ \A t \in T : t <= dernier[h]
  BY DEF Preuves
<1>2. /\ heure \in Nat /\ suite[h] \subseteq Nat /\ dernier[h] \in Nat \cup {-1}
      /\ echecs[h] \in 0 .. Seuil /\ Seuil \in Nat \ {0} /\ Rafale \in Nat \ {0}
      /\ dernier[h] <= heure
  BY DEF TypeOK, Heure, Durees, TLSFrontAssumption
<1>3. T \in SUBSET suite'[h]
  OBVIOUS
<1>4. CASE EnRafale(h)
  <2>1. UNCHANGED <<echecs, dernier>>
    BY <1>4 DEF EchecCoupe, refus
  <2>2. (T \in Preuves(h))'
    BY <1>1, <1>3, <2>1 DEF Preuves
  <2> QED
    BY <2>2
<1>5. CASE ~EnRafale(h)
  <2>1. dernier'[h] = heure /\ echecs'[h] = Compte(h)
    BY <1>5 DEF EchecCoupe, TypeOK
  <2>2. CASE echecs[h] = Seuil
    <3>1. echecs'[h] = echecs[h]
      BY <1>2, <2>1, <2>2 DEF Compte
    <3>2. \A t \in T : t <= heure
      BY <1>1, <1>2
    <3>3. (T \in Preuves(h))'
      BY <1>1, <1>3, <2>1, <3>1, <3>2 DEF Preuves
    <3> QED
      BY <3>3
  <2>3. CASE echecs[h] # Seuil
    <3>1. echecs'[h] = echecs[h] + 1
      BY <1>2, <2>1, <2>3 DEF Compte
    <3>2. \A t \in T : t \in Nat /\ heure - t >= Rafale /\ t < heure
      <4> SUFFICES ASSUME NEW t \in T PROVE t \in Nat /\ heure - t >= Rafale /\ t < heure
        OBVIOUS
      <4>1. t \in Nat /\ t <= dernier[h]
        BY <1>1, <1>2
      <4>2. dernier[h] # -1 /\ ~(heure - dernier[h] < Rafale)
        BY <1>2, <1>5, <4>1 DEF EnRafale
      <4> QED
        BY <1>2, <4>1, <4>2
    <3>3. PICK U : U = T \cup {heure}
      OBVIOUS
    <3>4. IsFiniteSet(U) /\ Cardinality(U) = echecs[h] + 1
      <4>1. heure \notin T
        BY <1>2, <3>2
      <4> QED
        BY <1>1, <3>3, <4>1, FS_AddElement
    <3>5. Espacees(U)
      BY <1>1, <1>2, <3>2, <3>3 DEF Espacees
    <3>6. U \in SUBSET suite'[h] /\ \A t \in U : t <= heure
      BY <1>2, <1>3, <3>2, <3>3
    <3>7. (U \in Preuves(h))'
      BY <2>1, <3>1, <3>4, <3>5, <3>6 DEF Preuves
    <3> QED
      BY <3>7
  <2> QED
    BY <2>2, <2>3
<1> QED
  BY <1>4, <1>5

-------------------------------------------------------------------------------
\* What the handshakes and the oversights make of the refusals.

LEMMA HeureType == ASSUME TypeOK, Durees PROVE heure \in Nat /\ heure \in Heure
BY DEF TypeOK, Heure, Durees, TLSFrontAssumption

LEMMA CompteType ==
    ASSUME TypeOK, Durees, NEW h \in Hote
    PROVE  Compte(h) \in 0 .. Seuil
BY DEF TypeOK, Durees, TLSFrontAssumption, Compte

\* The maps of Refusals and the history of one step, typed.
RefusType ==
    /\ apprises' \in [Hote -> [nature : {"rien", "soupcon", "alerte"}, quand : Heure]]
    /\ echecs' \in [Hote -> 0 .. Seuil]
    /\ dernier' \in [Hote -> Heure \cup {-1}]
    /\ suite' \in [Hote -> SUBSET Heure]
    /\ alertes' \subseteq Hote
    /\ \A h \in Hote : dernier'[h] <= heure /\ apprises'[h].quand <= heure

\* A step that leaves the clock and the refusals, or clears hosts that no tunnel rests on.
LEMMA RappelType ==
    ASSUME TypeOK, Durees, NEW h \in Hote, Oublier(h) \/ Reussite(h)
    PROVE  /\ RefusType
           /\ echecs'[h] = 0
           /\ \A g \in Hote \ {h} : /\ UNCHANGED <<echecs[g], dernier[g], suite[g]>>
                                    /\ g \in alertes => g \in alertes'
<1>1. heure \in Nat /\ heure \in Heure /\ 0 \in Heure /\ 0 \in 0 .. Seuil
  BY HeureType DEF Durees, TLSFrontAssumption, Heure
<1>2. CASE Oublier(h)
  <2>1. \A g \in Hote : apprises'[g].quand <= heure /\ dernier'[g] <= heure
    BY <1>1, <1>2 DEF TypeOK, Oublier, Inconnu
  <2> QED
    BY <1>1, <1>2, <2>1 DEF TypeOK, RefusType, Oublier, Inconnu
<1>3. CASE Reussite(h)
  <2>1. \A g \in Hote : apprises'[g].quand <= heure /\ dernier'[g] <= heure
    BY <1>1, <1>3 DEF TypeOK, Reussite
  <2> QED
    BY <1>1, <1>3, <2>1 DEF TypeOK, RefusType, Reussite
<1> QED
  BY <1>2, <1>3

LEMMA CoupeType ==
    ASSUME TypeOK, Durees, NEW h \in Hote, EchecCoupe(h),
           suite' = [suite EXCEPT ![h] = @ \cup {heure}], alertes' = alertes
    PROVE  /\ RefusType
           /\ \A g \in Hote \ {h} : UNCHANGED <<echecs[g], dernier[g], suite[g], apprises[g]>>
           /\ apprises'[h] \in {apprises[h], [nature |-> "soupcon", quand |-> heure]}
<1>1. heure \in Nat /\ heure \in Heure /\ Compte(h) \in 0 .. Seuil
  BY HeureType, CompteType
<1>2. suite' \in [Hote -> SUBSET Heure]
  BY <1>1 DEF TypeOK
<1>3. CASE UNCHANGED refus
  BY <1>2, <1>3 DEF refus, TypeOK, RefusType
<1>4. CASE /\ dernier' = [dernier EXCEPT ![h] = heure]
           /\ echecs' = [echecs EXCEPT ![h] = Compte(h)]
           /\ apprises' \in {apprises, [apprises EXCEPT ![h] = [nature |-> "soupcon",
                                                                quand |-> heure]]}
  BY <1>1, <1>2, <1>4 DEF TypeOK, RefusType
<1> QED
  BY <1>3, <1>4 DEF EchecCoupe

LEMMA AlerteType ==
    ASSUME TypeOK, Durees, NEW h \in Hote, EchecAlerte(h),
           suite' = suite, alertes' = alertes \cup {h}
    PROVE  /\ RefusType
           /\ \A g \in Hote \ {h} : UNCHANGED <<echecs[g], dernier[g], suite[g], apprises[g]>>
           /\ apprises'[h].nature = "alerte"
<1>1. heure \in Nat /\ heure \in Heure /\ Compte(h) \in 0 .. Seuil
  BY HeureType, CompteType
<1> QED
  BY <1>1 DEF TypeOK, RefusType, EchecAlerte

\* Where a connection is taken.
LEMMA VaType ==
    ASSUME TypeOK, Durees, NEW c \in Connexion, NEW e \in Etapes, Va(c, e)
    PROVE  /\ cnx' \in [Connexion -> [pc : Etapes, hote : Hote, quand : Heure]]
           /\ cnx'[c].pc = e /\ cnx'[c].quand = 0
           /\ \A d \in Connexion \ {c} : cnx'[d] = cnx[d]
<1>1. 0 \in Heure
  BY DEF Durees, TLSFrontAssumption, Heure
<1>2. cnx' = [cnx EXCEPT ![c] = [cnx[c] EXCEPT !.pc = e, !.quand = 0]]
  BY DEF Va, TypeOK
<1>3. [cnx[c] EXCEPT !.pc = e, !.quand = 0] \in [pc : Etapes, hote : Hote, quand : Heure]
  BY <1>1 DEF TypeOK
<1> QED
  BY <1>2, <1>3 DEF TypeOK

\* A tunnel keeps its reason as long as what is learnt of its host is not forgotten but
\* by age, and cuts are remembered.
LEMMA TunnelGarde ==
    ASSUME Inv, Durees, NEW c \in Connexion, cnx[c].pc = "tunnel", cnx'[c] = cnx[c],
           \A h \in Hote : coupes[h] \subseteq coupes'[h],
           \A h \in Hote : apprises[h].nature = "alerte" =>
              apprises'[h].nature = "alerte" \/ heure \in coupes'[h]
    PROVE  LET h == cnx'[c].hote
           IN  \/ h \in Declares
               \/ apprises'[h].nature = "alerte"
               \/ \E t \in coupes'[h] : cnx'[c].quand - t < Oubli
<1>1. cnx[c].hote \in Hote /\ cnx[c].quand \in Nat /\ cnx[c].quand <= heure /\ heure \in Nat
      /\ Oubli \in Nat \ {0}
  BY HeureType DEF Inv, TypeOK, Dates, Heure, Durees, TLSFrontAssumption
<1>2. CASE heure \in coupes'[cnx[c].hote]
  <2>1. cnx[c].quand - heure < Oubli
    BY <1>1
  <2> QED
    BY <1>2, <2>1
<1>3. CASE heure \notin coupes'[cnx[c].hote]
  BY <1>1, <1>3 DEF Inv, TunnelJustifie
<1> QED
  BY <1>2, <1>3

-------------------------------------------------------------------------------
\* The invariant, step by step.

\* A step of a connection that chooses no tunnel.
LEMMA PasInv ==
    ASSUME Inv, Durees, RefusType, UNCHANGED <<heure, amont>>,
           coupes' \in [Hote -> SUBSET Heure],
           \A h \in Hote : coupes[h] \subseteq coupes'[h],
           cnx' \in [Connexion -> [pc : Etapes, hote : Hote, quand : Heure]],
           \A c \in Connexion : cnx'[c] = cnx[c] \/ (cnx'[c].pc # "tunnel" /\ cnx'[c].quand = 0),
           Comptes',
           \A h \in Hote : apprises'[h].nature = "soupcon" =>
              \/ apprises'[h] = apprises[h]
              \/ apprises'[h].quand \in coupes'[h],
           \A h \in Hote : apprises[h].nature = "alerte" =>
              apprises'[h].nature = "alerte" \/ heure \in coupes'[h]
    PROVE  Inv'
<1>1. TypeOK'
  BY DEF Inv, TypeOK, RefusType
<1>2. Dates'
  <2>1. ASSUME NEW c \in Connexion PROVE cnx'[c].quand <= heure
    BY HeureType DEF Inv, Dates
  <2>2. ASSUME NEW h \in Hote, apprises'[h].nature = "soupcon"
        PROVE  apprises'[h].quand \in coupes'[h]
    BY <2>2 DEF Inv, Dates
  <2> QED
    BY <2>1, <2>2 DEF Dates
<1>3. TunnelJustifie'
  <2> SUFFICES ASSUME NEW c \in Connexion, cnx'[c].pc = "tunnel"
               PROVE  LET h == cnx'[c].hote
                      IN  \/ h \in Declares
                          \/ apprises'[h].nature = "alerte"
                          \/ \E t \in coupes'[h] : cnx'[c].quand - t < Oubli
    BY DEF TunnelJustifie
  <2>1. cnx'[c] = cnx[c] /\ cnx[c].pc = "tunnel"
    OBVIOUS
  <2> QED
    BY <2>1, TunnelGarde
<1> QED
  BY <1>1, <1>2, <1>3 DEF Inv

LEMMA RefusInchanges ==
    ASSUME Inv, UNCHANGED <<refus, histoire, heure>>
    PROVE  RefusType /\ Comptes'
BY DEF Inv, TypeOK, RefusType, Comptes, Preuves, refus, histoire

LEMMA TunnelInv ==
    ASSUME Inv, Durees, NEW c \in Connexion,
           TunnelOuvert(c) \/ TunnelRefuse(c) \/ TunnelAbandonne(c) \/ Clore(c)
    PROVE  Inv'
<1>1. UNCHANGED <<heure, refus, amont, coupes, histoire>>
  BY DEF TunnelOuvert, TunnelRefuse, TunnelAbandonne, Clore
<1>2. PICK e \in {"relaye", "poignee", "repos"} : Va(c, e)
  BY DEF TunnelOuvert, TunnelRefuse, TunnelAbandonne, Clore
<1>3. /\ cnx' \in [Connexion -> [pc : Etapes, hote : Hote, quand : Heure]]
      /\ \A d \in Connexion : cnx'[d] = cnx[d] \/ (cnx'[d].pc # "tunnel" /\ cnx'[d].quand = 0)
  BY <1>2, VaType DEF Inv, Etapes
<1>4. RefusType /\ Comptes'
  BY <1>1, RefusInchanges
<1>5. UNCHANGED <<heure, amont, coupes, apprises>>
  BY <1>1 DEF refus
<1>6. coupes' \in [Hote -> SUBSET Heure]
  BY <1>5 DEF Inv, TypeOK
<1> QED
  BY <1>3, <1>4, <1>5, <1>6, PasInv

LEMMA ReussieInv ==
    ASSUME Inv, Durees, NEW c \in Connexion, PoigneeReussie(c)
    PROVE  Inv'
<1> DEFINE h == cnx[c].hote
<1>1. /\ h \in Hote /\ Va(c, "servie") /\ Reussite(h) /\ UNCHANGED <<heure, amont, coupes, apprises>>
  BY DEF PoigneeReussie, Reussite, Inv, TypeOK
<1> HIDE DEF h
<1>2. /\ cnx' \in [Connexion -> [pc : Etapes, hote : Hote, quand : Heure]]
      /\ \A d \in Connexion : cnx'[d] = cnx[d] \/ (cnx'[d].pc # "tunnel" /\ cnx'[d].quand = 0)
  BY <1>1, VaType DEF Inv, Etapes
<1>3. RefusType /\ Comptes'
  <2>1. /\ RefusType /\ echecs'[h] = 0
        /\ \A g \in Hote \ {h} : /\ UNCHANGED <<echecs[g], dernier[g], suite[g]>>
                                 /\ g \in alertes => g \in alertes'
    BY <1>1, RappelType DEF Inv
  <2>2. ASSUME NEW g \in Hote PROVE g \in alertes' \/ Preuves(g)' # {}
    BY <2>1, CompteGarde DEF Inv, Comptes
  <2> QED
    BY <2>1, <2>2 DEF Comptes
<1>4. coupes' \in [Hote -> SUBSET Heure]
  BY <1>1 DEF Inv, TypeOK
<1> QED
  BY <1>1, <1>2, <1>3, <1>4, PasInv

LEMMA CoupeeInv ==
    ASSUME Inv, Durees, NEW c \in Connexion, PoigneeCoupee(c)
    PROVE  Inv'
<1> DEFINE h == cnx[c].hote
<1>1. /\ h \in Hote /\ Va(c, "repos") /\ EchecCoupe(h) /\ UNCHANGED <<heure, amont, alertes>>
      /\ coupes' = [coupes EXCEPT ![h] = @ \cup {heure}]
      /\ suite' = [suite EXCEPT ![h] = @ \cup {heure}]
  BY DEF PoigneeCoupee, Inv, TypeOK
<1> HIDE DEF h
<1>2. /\ cnx' \in [Connexion -> [pc : Etapes, hote : Hote, quand : Heure]]
      /\ \A d \in Connexion : cnx'[d] = cnx[d] \/ (cnx'[d].pc # "tunnel" /\ cnx'[d].quand = 0)
  BY <1>1, VaType DEF Inv, Etapes
<1>3. /\ RefusType
      /\ \A g \in Hote \ {h} : UNCHANGED <<echecs[g], dernier[g], suite[g], apprises[g]>>
      /\ apprises'[h] \in {apprises[h], [nature |-> "soupcon", quand |-> heure]}
  BY <1>1, CoupeType DEF Inv
<1>4. Comptes'
  <2>1. ASSUME NEW g \in Hote PROVE g \in alertes' \/ Preuves(g)' # {}
    <3>1. CASE g # h
      BY <1>1, <1>3, <3>1, CompteGarde DEF Inv, Comptes
    <3>2. CASE g = h /\ h \notin alertes
      <4>1. suite'[h] = suite[h] \cup {heure}
        BY <1>1 DEF Inv, TypeOK
      <4> QED
        BY <1>1, <3>2, <4>1, CompteCoupe DEF Inv, Comptes
    <3>3. CASE g = h /\ h \in alertes
      BY <1>1, <3>3
    <3> QED
      BY <3>1, <3>2, <3>3
  <2> QED
    BY <2>1 DEF Comptes
<1>5. /\ coupes' \in [Hote -> SUBSET Heure] /\ heure \in coupes'[h]
      /\ \A g \in Hote : coupes[g] \subseteq coupes'[g]
  BY <1>1, HeureType DEF Inv, TypeOK
<1>6. ASSUME NEW g \in Hote
      PROVE  /\ apprises'[g].nature = "soupcon" =>
                   apprises'[g] = apprises[g] \/ apprises'[g].quand \in coupes'[g]
             /\ apprises[g].nature = "alerte" =>
                   apprises'[g].nature = "alerte" \/ heure \in coupes'[g]
  BY <1>3, <1>5
<1> QED
  BY <1>1, <1>2, <1>3, <1>4, <1>5, <1>6, PasInv

LEMMA RefuseeInv ==
    ASSUME Inv, Durees, NEW c \in Connexion, PoigneeRefusee(c)
    PROVE  Inv'
<1> DEFINE h == cnx[c].hote
<1>1. /\ h \in Hote /\ Va(c, "repos") /\ EchecAlerte(h)
      /\ UNCHANGED <<heure, amont, coupes, suite>> /\ alertes' = alertes \cup {h}
  BY DEF PoigneeRefusee, Inv, TypeOK
<1> HIDE DEF h
<1>2. /\ cnx' \in [Connexion -> [pc : Etapes, hote : Hote, quand : Heure]]
      /\ \A d \in Connexion : cnx'[d] = cnx[d] \/ (cnx'[d].pc # "tunnel" /\ cnx'[d].quand = 0)
  BY <1>1, VaType DEF Inv, Etapes
<1>3. /\ RefusType
      /\ \A g \in Hote \ {h} : UNCHANGED <<echecs[g], dernier[g], suite[g], apprises[g]>>
      /\ apprises'[h].nature = "alerte"
  BY <1>1, AlerteType DEF Inv
<1>4. Comptes'
  <2>1. ASSUME NEW g \in Hote PROVE g \in alertes' \/ Preuves(g)' # {}
    BY <1>1, <1>3, CompteGarde DEF Inv, Comptes
  <2> QED
    BY <2>1 DEF Comptes
<1>5. coupes' \in [Hote -> SUBSET Heure]
  BY <1>1 DEF Inv, TypeOK
<1>6. ASSUME NEW g \in Hote
      PROVE  /\ apprises'[g].nature = "soupcon" => apprises'[g] = apprises[g]
             /\ apprises[g].nature = "alerte" => apprises'[g].nature = "alerte"
  BY <1>3
<1> QED
  BY <1>1, <1>2, <1>3, <1>4, <1>5, <1>6, PasInv

LEMMA ListerInv ==
    ASSUME Inv, Durees, Lister
    PROVE  Inv'
<1> DEFINE E == {h \in Hote : Echu(h)}
<1>1. /\ apprises' = [h \in Hote |-> IF h \in E THEN Inconnu ELSE apprises[h]]
      /\ echecs' = [h \in Hote |-> IF h \in E THEN 0 ELSE echecs[h]]
      /\ dernier' = [h \in Hote |-> IF h \in E THEN -1 ELSE dernier[h]]
      /\ suite' = [h \in Hote |-> IF h \in E THEN {} ELSE suite[h]]
      /\ alertes' = alertes \ E
      /\ UNCHANGED <<heure, amont, cnx, coupes>>
  BY DEF Lister
<1>2. \A h \in E : apprises[h].nature = "soupcon"
  BY DEF Echu
<1> HIDE DEF E
<1>3. heure \in Nat /\ 0 \in Heure /\ 0 \in 0 .. Seuil
  BY HeureType DEF Inv, Durees, TLSFrontAssumption, Heure
<1>4. RefusType
  BY <1>1, <1>3 DEF Inv, TypeOK, RefusType, Inconnu
<1>5. Comptes'
  <2>1. ASSUME NEW g \in Hote PROVE g \in alertes' \/ Preuves(g)' # {}
    <3>1. CASE g \in E
      BY <1>1, <3>1, CompteGarde DEF Inv, Comptes
    <3>2. CASE g \notin E
      BY <1>1, <3>2, CompteGarde DEF Inv, Comptes
    <3> QED
      BY <3>1, <3>2
  <2> QED
    BY <2>1 DEF Comptes
<1>6. ASSUME NEW g \in Hote
      PROVE  /\ apprises'[g].nature = "soupcon" => apprises'[g] = apprises[g]
             /\ apprises[g].nature = "alerte" => apprises'[g].nature = "alerte"
  BY <1>1, <1>2 DEF Inconnu
<1>7. /\ coupes' \in [Hote -> SUBSET Heure]
      /\ cnx' \in [Connexion -> [pc : Etapes, hote : Hote, quand : Heure]]
  BY <1>1 DEF Inv, TypeOK
<1> QED
  BY <1>1, <1>4, <1>5, <1>6, <1>7, PasInv

LEMMA AiguillerInv ==
    ASSUME Inv, Durees, NEW c \in Connexion, Aiguiller(c)
    PROVE  Inv'
<1> DEFINE h == cnx[c].hote
<1>1. /\ h \in Hote /\ Rappeler(h) /\ UNCHANGED <<heure, amont, coupes>>
      /\ IF Has(h) THEN cnx' = [cnx EXCEPT ![c].pc = "tunnel", ![c].quand = heure]
                   ELSE Va(c, "poignee")
      /\ cnx[c].hote = h
  BY DEF Aiguiller, Inv, TypeOK
<1> HIDE DEF h
<1>2. heure \in Nat /\ heure \in Heure /\ Oubli \in Nat \ {0}
  BY HeureType DEF Inv, Durees, TLSFrontAssumption
<1>3. CASE h \notin Declares /\ Echu(h)
  <2>1. Va(c, "poignee") /\ Oublier(h) /\ apprises[h].nature = "soupcon"
    BY <1>1, <1>3 DEF Has, Rappeler, Echu
  <2>2. /\ cnx' \in [Connexion -> [pc : Etapes, hote : Hote, quand : Heure]]
        /\ \A d \in Connexion : cnx'[d] = cnx[d] \/ (cnx'[d].pc # "tunnel" /\ cnx'[d].quand = 0)
    BY <2>1, VaType DEF Inv, Etapes
  <2>3. /\ RefusType /\ echecs'[h] = 0
        /\ \A g \in Hote \ {h} : /\ UNCHANGED <<echecs[g], dernier[g], suite[g]>>
                                 /\ g \in alertes => g \in alertes'
    BY <1>1, <2>1, RappelType DEF Inv
  <2>4. Comptes'
    <3>1. ASSUME NEW g \in Hote PROVE g \in alertes' \/ Preuves(g)' # {}
      BY <2>3, CompteGarde DEF Inv, Comptes
    <3> QED
      BY <3>1 DEF Comptes
  <2>5. ASSUME NEW g \in Hote
        PROVE  /\ apprises'[g].nature = "soupcon" => apprises'[g] = apprises[g]
               /\ apprises[g].nature = "alerte" => apprises'[g].nature = "alerte"
    BY <2>1 DEF Oublier, Inconnu, Inv, TypeOK
  <2>6. coupes' \in [Hote -> SUBSET Heure]
    BY <1>1 DEF Inv, TypeOK
  <2> QED
    BY <1>1, <2>2, <2>3, <2>4, <2>5, <2>6, PasInv
<1>4. CASE ~(h \notin Declares /\ Echu(h))
  <2>1. UNCHANGED <<refus, histoire>>
    BY <1>1, <1>4 DEF Rappeler
  <2>2. RefusType /\ Comptes' /\ apprises' = apprises
    BY <1>1, <2>1, RefusInchanges DEF refus
  <2>3. coupes' \in [Hote -> SUBSET Heure]
    BY <1>1 DEF Inv, TypeOK
  <2>4. CASE ~Has(h)
    <3>1. /\ cnx' \in [Connexion -> [pc : Etapes, hote : Hote, quand : Heure]]
          /\ \A d \in Connexion : cnx'[d] = cnx[d] \/ (cnx'[d].pc # "tunnel" /\ cnx'[d].quand = 0)
      BY <1>1, <2>4, VaType DEF Inv, Etapes
    <3> QED
      BY <1>1, <2>2, <2>3, <3>1, PasInv
  <2>5. CASE Has(h)
    <3>1. cnx' = [cnx EXCEPT ![c] = [cnx[c] EXCEPT !.pc = "tunnel", !.quand = heure]]
      BY <1>1, <2>5 DEF Inv, TypeOK
    <3>2. /\ [cnx[c] EXCEPT !.pc = "tunnel", !.quand = heure]
                \in [pc : Etapes, hote : Hote, quand : Heure]
          /\ [cnx[c] EXCEPT !.pc = "tunnel", !.quand = heure].quand = heure
          /\ [cnx[c] EXCEPT !.pc = "tunnel", !.quand = heure].hote = h
      BY <1>1, <1>2 DEF Inv, TypeOK, Etapes
    <3>3. /\ cnx' \in [Connexion -> [pc : Etapes, hote : Hote, quand : Heure]]
          /\ cnx'[c].quand = heure /\ cnx'[c].hote = h
          /\ \A d \in Connexion \ {c} : cnx'[d] = cnx[d]
      BY <3>1, <3>2 DEF Inv, TypeOK
    <3>4. TypeOK'
      BY <1>1, <2>2, <2>3, <3>3 DEF Inv, TypeOK, RefusType
    <3>5. Dates'
      BY <1>1, <1>2, <2>2, <3>3 DEF Inv, Dates
    <3>6. TunnelJustifie'
      <4>1. ASSUME NEW d \in Connexion \ {c}, cnx'[d].pc = "tunnel"
            PROVE  LET g == cnx'[d].hote
                   IN  \/ g \in Declares
                       \/ apprises'[g].nature = "alerte"
                       \/ \E t \in coupes'[g] : cnx'[d].quand - t < Oubli
        <5>1. cnx'[d] = cnx[d] /\ cnx[d].pc = "tunnel"
          BY <3>3, <4>1
        <5> QED
          BY <1>1, <2>2, <5>1, TunnelGarde
      <4>2. \/ h \in Declares
            \/ apprises'[h].nature = "alerte"
            \/ \E t \in coupes'[h] : heure - t < Oubli
        <5>1. CASE h \in Declares \/ apprises[h].nature = "alerte"
          BY <2>2, <5>1
        <5>2. CASE ~(h \in Declares \/ apprises[h].nature = "alerte")
          <6>1. apprises[h].nature = "soupcon" /\ ~Echu(h)
            BY <1>1, <2>5, <5>2 DEF Has, Inv, TypeOK
          <6>2. apprises[h].quand \in coupes'[h] /\ apprises[h].quand \in Nat
            BY <1>1, <6>1 DEF Inv, Dates, TypeOK, Heure
          <6>3. heure - apprises[h].quand < Oubli
            BY <1>2, <6>1, <6>2 DEF Echu
          <6> QED
            BY <6>2, <6>3
        <5> QED
          BY <5>1, <5>2
      <4> QED
        BY <3>3, <4>1, <4>2 DEF TunnelJustifie
    <3> QED
      BY <2>2, <3>4, <3>5, <3>6 DEF Inv
  <2> QED
    BY <2>4, <2>5
<1> QED
  BY <1>3, <1>4

\* Time passes; a destination comes or goes.
LEMMA DehorsInv ==
    ASSUME Inv, Durees, Attendre \/ \E h \in Hote : Amont(h)
    PROVE  Inv'
<1>1. /\ UNCHANGED <<refus, histoire, cnx, coupes>>
      /\ heure' \in {heure, heure + 1} /\ heure' \in Heure /\ amont' \in [Hote -> BOOLEAN]
  <2>1. CASE Attendre
    <3>1. /\ UNCHANGED <<refus, histoire, cnx, amont, coupes>>
          /\ heure < MaxHeure /\ heure' = heure + 1
      BY <2>1 DEF Attendre
    <3>2. heure' \in Heure /\ amont' \in [Hote -> BOOLEAN]
      BY <3>1, HeureType DEF Inv, TypeOK, Heure, Durees, TLSFrontAssumption
    <3> QED
      BY <3>1, <3>2
  <2>2. ASSUME NEW h \in Hote, Amont(h)
        PROVE  /\ UNCHANGED <<refus, histoire, cnx, coupes, heure>>
               /\ amont' \in [Hote -> BOOLEAN]
    BY <2>2 DEF Amont, Inv, TypeOK
  <2>3. heure \in Heure
    BY DEF Inv, TypeOK
  <2> QED
    BY <2>1, <2>2, <2>3
<1>2. heure \in Nat /\ heure <= heure'
  BY <1>1, HeureType DEF Inv
<1>3. UNCHANGED <<apprises, echecs, dernier, suite, alertes, cnx, coupes>>
  BY <1>1 DEF refus, histoire
<1>4. TypeOK'
  <2>1. \A h \in Hote : dernier[h] <= heure' /\ apprises[h].quand <= heure'
    BY <1>1, <1>2 DEF Inv, TypeOK, Heure
  <2> QED
    BY <1>1, <1>3, <2>1 DEF Inv, TypeOK
<1>5. Comptes' /\ TunnelJustifie'
  BY <1>3 DEF Inv, Comptes, Preuves, TunnelJustifie
<1>6. Dates'
  <2>1. \A c \in Connexion : cnx[c].quand \in Nat /\ cnx[c].quand <= heure
    BY DEF Inv, TypeOK, Dates, Heure
  <2>2. \A c \in Connexion : cnx[c].quand <= heure'
    BY <1>1, <1>2, <2>1
  <2> QED
    BY <1>3, <2>2 DEF Inv, Dates
<1> QED
  BY <1>4, <1>5, <1>6 DEF Inv

LEMMA InvSuite == ASSUME Durees PROVE Inv /\ [Next]_vars => Inv'
<1> SUFFICES ASSUME Inv, [Next]_vars PROVE Inv'
  OBVIOUS
<1>1. CASE UNCHANGED vars
  <2>1. UNCHANGED <<heure, apprises, echecs, dernier, suite, alertes, cnx, coupes, amont>>
    BY <1>1 DEF vars, refus, histoire
  <2> QED
    BY <2>1 DEF Inv, TypeOK, Comptes, Preuves, Dates, TunnelJustifie
<1> QED
  BY <1>1, AiguillerInv, TunnelInv, ReussieInv, CoupeeInv, RefuseeInv, ListerInv, DehorsInv
  DEF Next

\* What a host is known by, and the tunnels of its connections, rest on its cuts.
THEOREM Porte == ASSUME Durees PROVE Spec => []Inv
BY InitInv, InvSuite, PTL DEF Spec

\* A connection is relayed undecrypted because its host is declared, because a client
\* refused it, or because of a cut younger than Oubli.
THEOREM TunnelsJustifies == ASSUME Durees PROVE Spec => []TunnelJustifie
<1>1. Inv => TunnelJustifie
  BY DEF Inv
<1> QED
  BY <1>1, Porte, PTL

\* A step that suspects a host reaches the threshold.
LEMMA SeuilAtteint ==
    ASSUME Inv, Inv', Durees, NEW h \in Hote, [Next]_vars,
           apprises'[h].nature = "soupcon", apprises'[h] # apprises[h]
    PROVE  echecs'[h] = Seuil
<1>1. ASSUME NEW c \in Connexion, PoigneeCoupee(c) PROVE echecs'[h] = Seuil
  <2> DEFINE g == cnx[c].hote
  <2>1. g \in Hote /\ EchecCoupe(g)
    BY <1>1 DEF PoigneeCoupee, Inv, TypeOK
  <2> HIDE DEF g
  <2>2. /\ echecs' = [echecs EXCEPT ![g] = Compte(g)] /\ ~(Compte(g) < Seuil)
        /\ apprises' = [apprises EXCEPT ![g] = [nature |-> "soupcon", quand |-> heure]]
    BY <2>1 DEF EchecCoupe, refus
  <2>3. h = g
    BY <2>1, <2>2 DEF Inv, TypeOK
  <2>4. Compte(g) = Seuil
    BY <2>1, <2>2, CompteType DEF Inv, Durees, TLSFrontAssumption
  <2> QED
    BY <2>1, <2>2, <2>3, <2>4 DEF Inv, TypeOK
<1>2. ASSUME NEW c \in Connexion, Aiguiller(c) PROVE FALSE
  BY <1>2 DEF Aiguiller, Rappeler, Oublier, Inconnu, refus, Inv, TypeOK
<1>3. ASSUME NEW c \in Connexion, PoigneeRefusee(c) PROVE FALSE
  BY <1>3 DEF PoigneeRefusee, EchecAlerte, Inv, TypeOK
<1>4. CASE Lister
  BY <1>4 DEF Lister, Inconnu
<1>5. ASSUME \/ \E c \in Connexion : \/ TunnelOuvert(c) \/ TunnelRefuse(c)
                                     \/ TunnelAbandonne(c) \/ PoigneeReussie(c) \/ Clore(c)
             \/ Attendre
             \/ \E g \in Hote : Amont(g)
             \/ UNCHANGED vars
      PROVE  FALSE
  BY <1>5 DEF TunnelOuvert, TunnelRefuse, TunnelAbandonne, PoigneeReussie, Clore, Reussite,
              Attendre, Amont, vars, refus
<1> QED
  BY <1>1, <1>2, <1>3, <1>4, <1>5 DEF Next

\* A host is suspected only on as many cuts as the threshold, none in the burst of another,
\* all since it last succeeded or was forgotten, unless an alert was counted too.
THEOREM SoupconsFondes == ASSUME Durees PROVE Spec => SoupconFonde
<1>1. Inv /\ Inv' /\ [Next]_vars => [PasFonde]_vars
  <2> SUFFICES ASSUME Inv, Inv', [Next]_vars, NEW h \in Hote,
                      apprises'[h].nature = "soupcon", apprises'[h] # apprises[h],
                      h \notin alertes'
               PROVE  Fonde(h)
    BY DEF PasFonde
  <2>1. echecs'[h] = Seuil
    BY SeuilAtteint
  <2>2. PICK T \in SUBSET suite'[h] : Cardinality(T) = echecs'[h] /\ Espacees(T)
    BY DEF Inv, Comptes, Preuves
  <2> QED
    BY <2>1, <2>2 DEF Fonde
<1> QED
  BY <1>1, Porte, PTL DEF Spec, SoupconFonde
===============================================================================
