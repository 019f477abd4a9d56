--------------------------- MODULE ProxyServeProofs ---------------------------
EXTENDS ProxyServe, TLAPS

ReqType == [pc : Etapes, u : Url, d : Demande, detient : BOOLEAN,
            variante : BOOLEAN, valide : Objet, repli : BOOLEAN,
            compose : BOOLEAN, promis : BOOLEAN, cle : Cle,
            sinon : Etapes, sorte : Sortes, obj : Objet]

\* Where a request goes on when the object it tries has gone.
Suites == {"repos", "renvoi", "horsBase", "horsStatut", "refus"}

\* The key of a representation is tried by a client that asked for it; a response at
\* hand is one; what the background fetch has is a whole body of a file that never changes.
Clefs ==
    \A q \in Requete :
        /\ req[q].variante \/ req[q].pc \in {"copie", "horsVariante"}
              => CleVariante(req[q].u, req[q].d) # None
        /\ req[q].pc \in {"recu", "copie"} => req[q].obj.code # 0
        /\ req[q].sinon \in Suites

Prises ==
    /\ \A u \in Url : /\ prise[u].pc # "aucune" => Classe[u] = "immuable"
                      /\ prise[u].pc = "recu" => prise[u].obj.code = 200
    /\ \A q \in Requete : req[q].pc = "local" => Classe[req[q].u] = "immuable"

Inv == TypeOK /\ Clefs /\ Prises

-------------------------------------------------------------------------------
LEMMA RienType == Rien \in Objet /\ Rien.code = 0
BY ProxyServeAssumption DEF Rien, Objet

LEMMA OisifType ==
    /\ Oisif \in ReqType
    /\ Oisif.pc = "repos" /\ ~Oisif.variante /\ Oisif.valide = Rien /\ Oisif.obj = Rien
    /\ Oisif.sinon \in Suites /\ ~Oisif.promis /\ ~Oisif.compose /\ Oisif.sorte = "aucune" /\ ~Oisif.repli
<1>1. (CHOOSE u \in Url : TRUE) \in Url /\ (CHOOSE d \in Demande : TRUE) \in Demande
  BY ProxyServeAssumption
<1> QED
  BY <1>1, RienType DEF Oisif, ReqType, Etapes, Sortes, Cle, Suites

LEMMA DemandeType ==
    ASSUME NEW u \in Url, NEW d \in Demande
    PROVE  /\ d \in [methode : {"GET", "HEAD"}, accept : Accept \cup {None},
                     cond : BOOLEAN, plage : BOOLEAN]
           /\ CleVariante(u, d) \in Accept \cup {None}
           /\ CleVariante(u, d) # None => /\ CleVariante(u, d) \in Accept
                                          /\ Classe[u] = "volatile" /\ CleVariante(u, d) = d.accept
           /\ CleRevalidee(u, d) \in Cle
<1>1. d \in [methode : {"GET", "HEAD"}, accept : Accept \cup {None},
                     cond : BOOLEAN, plage : BOOLEAN]
  BY ProxyServeAssumption
<1> QED
  BY <1>1 DEF CleVariante, CleRevalidee, VarianteTenue, Cle

\* What the upstream answers.
LEMMA ReponseType ==
    ASSUME amont \in [Url -> 0 .. MaxVersion], NEW u \in Url, NEW d,
           d.accept \in Accept \cup {None}, NEW r \in Reponses(u, d)
    PROVE  /\ r \in Objet /\ r.code \in {200, 404}
           /\ (r.code = 200 /\ u \in Varie /\ d.accept # None) => r.rep = d.accept
<1>1. PICK v \in (IF u \in Portable THEN 0 .. amont[u] ELSE {amont[u]}) :
         r = IF v = 0 THEN [Rien EXCEPT !.code = 404]
             ELSE [code |-> 200, version |-> v,
                   rep |-> IF u \in Varie /\ d.accept # None THEN d.accept ELSE Defaut]
  BY DEF Reponses
<1>2. v \in 0 .. MaxVersion
  BY <1>1, ProxyServeAssumption
<1> QED
  BY <1>1, <1>2, ProxyServeAssumption DEF Objet, Rien

LEMMA Avancee ==
    ASSUME TypeOK, NEW q \in Requete, NEW r \in ReqType, Avance(q, r)
    PROVE  /\ req' \in [Requete -> ReqType] /\ req'[q] = r
           /\ \A p \in Requete \ {q} : req'[p] = req[p]
BY DEF TypeOK, ReqType, Avance

LEMMA ReponduType ==
    ASSUME TypeOK, NEW q \in Requete, NEW s \in Sortes, NEW o \in Objet
    PROVE  /\ Reponse(q, s, o) \in ReqType
           /\ Reponse(q, s, o).pc = "repondu"
           /\ Reponse(q, s, o).sorte = s /\ Reponse(q, s, o).obj = o
           /\ ~Reponse(q, s, o).variante /\ Reponse(q, s, o).sinon \in Suites
           /\ Reponse(q, s, o).valide = IF s = "revalide" THEN req[q].valide ELSE Rien
           /\ Reponse(q, s, o).promis <=> (s = "refus" /\ req[q].promis)
           /\ Reponse(q, s, o).compose <=> (s = "refus" /\ req[q].compose)
<1>1. req[q] \in ReqType
  BY DEF TypeOK, ReqType
<1> DEFINE v == IF s = "revalide" THEN req[q].valide ELSE Rien
           a == s = "refus" /\ req[q].promis
           b == s = "refus" /\ req[q].compose
           r == [Oisif EXCEPT !.pc = "repondu", !.sorte = s, !.obj = o,
                              !.valide = v, !.promis = a, !.compose = b]
<1>2. Reponse(q, s, o) \in ReqType
  <2>1. v \in Objet /\ a \in BOOLEAN /\ b \in BOOLEAN
    BY <1>1, RienType DEF ReqType
  <2>2. Reponse(q, s, o) = r
    BY DEF Reponse
  <2> HIDE DEF v, a, b
  <2>3. r \in ReqType
    BY <2>1, OisifType DEF ReqType, Etapes
  <2> QED
    BY <2>2, <2>3
<1>3. Reponse(q, s, o).sinon = Oisif.sinon
  BY OisifType DEF Reponse, ReqType
<1>4. /\ Reponse(q, s, o).pc = "repondu"
      /\ Reponse(q, s, o).sorte = s /\ Reponse(q, s, o).obj = o
      /\ ~Reponse(q, s, o).variante
      /\ Reponse(q, s, o).valide = IF s = "revalide" THEN req[q].valide ELSE Rien
      /\ Reponse(q, s, o).promis <=> (s = "refus" /\ req[q].promis)
      /\ Reponse(q, s, o).compose <=> (s = "refus" /\ req[q].compose)
  BY OisifType DEF Reponse, ReqType
<1> QED
  BY <1>2, <1>3, <1>4, OisifType

-------------------------------------------------------------------------------
\* One request moves on.

Saine(r) ==
    /\ r \in ReqType
    /\ r.variante \/ r.pc \in {"copie", "horsVariante"} => CleVariante(r.u, r.d) # None
    /\ r.pc \in {"recu", "copie"} => r.obj.code # 0
    /\ r.sinon \in Suites
    /\ r.pc = "local" => Classe[r.u] = "immuable"

LEMMA Tient ==
    ASSUME Inv, NEW q \in Requete
    PROVE  Saine(req[q]) /\ req[q].u \in Url /\ req[q].d \in Demande
BY DEF Inv, TypeOK, Clefs, Prises, Saine, ReqType

MagasinType ==
    /\ magasin \in [Url -> [Cle -> Objet]]
    /\ \A u \in Url : /\ \A k \in {"corps"} \cup Accept : magasin[u][k].code # 404
                      /\ magasin[u]["GET"].code # 200

PriseType ==
    /\ prise \in [Url -> [pc : {"aucune", "envoi", "recu"}, obj : Objet]]
    /\ \A u \in Url : /\ prise[u].pc # "aucune" => Classe[u] = "immuable"
                      /\ prise[u].pc = "recu" => prise[u].obj.code = 200

LEMMA InvParties ==
    Inv <=> /\ MagasinType /\ PriseType
            /\ amont \in [Url -> 0 .. MaxVersion] /\ reseau \in BOOLEAN /\ muet \in BOOLEAN
            /\ req \in [Requete -> ReqType] /\ \A q \in Requete : Saine(req[q])
BY DEF Inv, TypeOK, Clefs, Prises, MagasinType, PriseType, Saine, ReqType

LEMMA CadreInv ==
    ASSUME Inv, NEW q \in Requete, NEW r, Saine(r), Avance(q, r),
           MagasinType', PriseType', muet' \in BOOLEAN, UNCHANGED monde
    PROVE  /\ Inv'
           /\ req'[q] = r /\ \A p \in Requete \ {q} : req'[p] = req[p]
<1>1. /\ req' \in [Requete -> ReqType] /\ req'[q] = r
      /\ \A p \in Requete \ {q} : req'[p] = req[p]
  BY Avancee DEF Inv, Saine
<1>2. UNCHANGED <<amont, reseau>>
  BY DEF monde
<1>3. \A p \in Requete : Saine(req'[p])
  BY <1>1, InvParties
<1>4. (\A p \in Requete : Saine(req[p]))'
  BY <1>3 DEF Saine
<1>5. (amont \in [Url -> 0 .. MaxVersion] /\ reseau \in BOOLEAN)'
  BY <1>2, InvParties
<1>6. /\ MagasinType' /\ PriseType' /\ (req \in [Requete -> ReqType])'
  BY <1>1 DEF ReqType, Etapes, Sortes, Objet, Cle
<1>7. TypeOK'
  BY <1>5, <1>6 DEF TypeOK, MagasinType, PriseType, ReqType
<1>8. Clefs' /\ Prises'
  BY <1>4, <1>6 DEF Clefs, Prises, Saine, PriseType
<1>9. Inv'
  BY <1>7, <1>8 DEF Inv
<1> QED
  BY <1>1, <1>9

\* A request that reads only.
LEMMA LitInv ==
    ASSUME Inv, NEW q \in Requete, NEW r, Saine(r), Avance(q, r),
           UNCHANGED <<magasin, prise, monde>>, muet' \in BOOLEAN
    PROVE  /\ Inv'
           /\ req'[q] = r /\ \A p \in Requete \ {q} : req'[p] = req[p]
<1>1. MagasinType' /\ PriseType'
  BY InvParties DEF MagasinType, PriseType
<1> QED
  BY <1>1, CadreInv

LEMMA ReponseSaine ==
    ASSUME Inv, NEW q \in Requete, NEW s \in Sortes, NEW o \in Objet
    PROVE  Saine(Reponse(q, s, o))
BY ReponduType DEF Inv, Saine

LEMMA PrepareSain ==
    ASSUME Inv, NEW q \in Requete, NEW a \in BOOLEAN, NEW b \in BOOLEAN, NEW o \in Objet,
           NEW k \in Cle, NEW c \in BOOLEAN, b => CleVariante(req[q].u, req[q].d) # None
    PROVE  Saine([req[q] EXCEPT !.pc = "envoi", !.detient = a, !.variante = b,
                                !.valide = o, !.cle = k, !.repli = c])
<1> DEFINE r == [req[q] EXCEPT !.pc = "envoi", !.detient = a, !.variante = b,
                               !.valide = o, !.cle = k, !.repli = c]
<1>1. req[q] \in ReqType
  BY Tient DEF Saine
<1>2. r \in ReqType
  BY <1>1 DEF ReqType, Etapes
<1>3. /\ r.pc = "envoi" /\ r.variante = b /\ r.u = req[q].u /\ r.d = req[q].d
      /\ r.sinon = req[q].sinon /\ Saine(req[q])
  BY <1>1, Tient DEF ReqType
<1> HIDE DEF r
<1>4. Saine(r)
  BY <1>2, <1>3 DEF Saine
<1> QED
  BY <1>4 DEF r

\* Only the progress changes.
LEMMA VaSain ==
    ASSUME Inv, NEW q \in Requete,
           NEW pc \in Etapes \ {"copie", "horsVariante", "recu", "local"}
    PROVE  Saine([req[q] EXCEPT !.pc = pc])
BY Tient DEF Saine, ReqType

LEMMA EssayerSain ==
    ASSUME Inv, NEW q \in Requete, NEW k \in Cle, NEW s \in Sortes, NEW n \in Suites
    PROVE  Saine([req[q] EXCEPT !.pc = "sert", !.cle = k, !.sinon = n, !.sorte = s])
BY Tient, ZenonT(60) DEF Saine, ReqType, Etapes, Suites

LEMMA MagasinSuivant ==
    ASSUME magasin' \in [Url -> [Cle -> Objet]],
           \A v \in Url : \A k \in {"corps"} \cup Accept : magasin'[v][k].code # 404,
           \A v \in Url : magasin'[v]["GET"].code # 200
    PROVE  MagasinType'
BY DEF MagasinType

\* A copy of the store with another object under a key.
LEMMA MagasinEcrit ==
    ASSUME MagasinType, NEW u \in Url, NEW k \in Cle, NEW o \in Objet,
           k \in {"corps"} \cup Accept => o.code # 404,
           k = "GET" => o.code # 200,
           magasin' = [magasin EXCEPT ![u][k] = o]
    PROVE  /\ MagasinType'
           /\ magasin'[u][k] = o
           /\ \A v \in Url, j \in Cle : v # u \/ j # k => magasin'[v][j] = magasin[v][j]
<1>1. magasin' = [magasin EXCEPT ![u] = [magasin[u] EXCEPT ![k] = o]]
  OBVIOUS
<1>2. magasin' \in [Url -> [Cle -> Objet]]
  BY <1>1 DEF MagasinType
<1>3. /\ magasin'[u][k] = o
      /\ \A v \in Url, j \in Cle : v # u \/ j # k => magasin'[v][j] = magasin[v][j]
  BY <1>1 DEF MagasinType
<1>4. \A v \in Url, j \in {"corps"} \cup Accept : magasin'[v][j].code # 404
  <2> TAKE v \in Url, j \in {"corps"} \cup Accept
  <2>1. j \in Cle
    BY DEF Cle
  <2>2. CASE v = u /\ j = k
    BY <2>2, <1>3
  <2>3. CASE v # u \/ j # k
    BY <2>1, <2>3, <1>3 DEF MagasinType
  <2> QED
    BY <2>2, <2>3
<1>5. \A v \in Url : magasin'[v]["GET"].code # 200
  <2> TAKE v \in Url
  <2>1. "GET" \in Cle
    BY DEF Cle
  <2>2. CASE v = u /\ "GET" = k
    BY <2>2, <1>3
  <2>3. CASE v # u \/ "GET" # k
    BY <2>1, <2>3, <1>3 DEF MagasinType
  <2> QED
    BY <2>2, <2>3
<1>6. MagasinType'
  BY <1>2, <1>4, <1>5, MagasinSuivant
<1> QED
  BY <1>3, <1>6

-------------------------------------------------------------------------------
(* Every action keeps Inv, and what it does to its request.                *)

LEMMA DemanderInv ==
    ASSUME Inv, NEW q \in Requete, NEW u \in Url, NEW d \in Demande,
           Avance(q, [Oisif EXCEPT !.pc = IF Classe[u] = "immuable" THEN "local" ELSE "prepare",
                                   !.u = u, !.d = d, !.promis = Detenir(u, d)]),
           UNCHANGED <<magasin, monde, muet, prise>>
    PROVE  Inv' /\ \A p \in Requete \ {q} : req'[p] = req[p]
<1> DEFINE r == [Oisif EXCEPT !.pc = IF Classe[u] = "immuable" THEN "local" ELSE "prepare",
                              !.u = u, !.d = d, !.promis = Detenir(u, d)]
<1>1. Detenir(u, d) \in BOOLEAN
  BY DEF Detenir
<1>2. Saine(r)
  BY <1>1, OisifType DEF Saine, ReqType, Etapes
<1>3. muet' \in BOOLEAN
  BY InvParties
<1> HIDE DEF r
<1>4. Avance(q, r)
  BY DEF r
<1> QED
  BY <1>2, <1>3, <1>4, LitInv

LEMMA ServirLocalInv ==
    ASSUME Inv, NEW q \in Requete, ServirLocal(q)
    PROVE  Inv' /\ \A p \in Requete \ {q} : req'[p] = req[p]
<1> DEFINE u == req[q].u
           d == req[q].d
<1>0. /\ u \in Url /\ d \in Demande /\ Saine(req[q]) /\ req[q].pc = "local"
      /\ muet \in BOOLEAN /\ MagasinType /\ PriseType
  BY Tient, InvParties DEF ServirLocal
<1>1. UNCHANGED <<magasin, monde, muet>> /\ muet' \in BOOLEAN
  BY <1>0 DEF ServirLocal
<1>2. CASE Detient(u, d)
  <2>1. "corps" \in Cle /\ magasin[u]["corps"] \in Objet /\ "hit" \in Sortes
    BY <1>0 DEF MagasinType, Cle, Sortes
  <2>2. Saine(Reponse(q, "hit", magasin[u]["corps"]))
    BY <2>1, ReponseSaine
  <2>3. Avance(q, Reponse(q, "hit", magasin[u]["corps"])) /\ UNCHANGED prise
    BY <1>2 DEF ServirLocal, Repond
  <2> QED
    BY <1>1, <2>2, <2>3, LitInv
<1>3. CASE ~Detient(u, d)
  <2> DEFINE r == [req[q] EXCEPT !.pc = "prepare"]
  <2>1. Saine(r)
    BY VaSain DEF Etapes
  <2>2. Avance(q, r)
    BY <1>3 DEF ServirLocal, Va
  <2>3. prise' = prise \/ prise' = [prise EXCEPT ![u] = [prise[u] EXCEPT !.pc = "envoi"]]
    BY <1>3, <1>0 DEF ServirLocal, PriseType
  <2>4. Classe[u] = "immuable"
    BY <1>0 DEF Saine
  <2>5. PriseType'
    BY <2>3, <2>4, <1>0 DEF PriseType
  <2>6. MagasinType'
    BY <1>0, <1>1 DEF MagasinType
  <2> HIDE DEF r
  <2> QED
    BY <1>1, <2>1, <2>2, <2>5, <2>6, CadreInv
<1> QED
  BY <1>2, <1>3

LEMMA PreparerInv ==
    ASSUME Inv, NEW q \in Requete, Preparer(q)
    PROVE  Inv' /\ \A p \in Requete \ {q} : req'[p] = req[p]
<1> DEFINE u == req[q].u
           d == req[q].d
           r == [req[q] EXCEPT
                    !.pc = "envoi",
                    !.detient = Detient(u, d),
                    !.variante = VarianteTenue(u, d),
                    !.valide = Validateur(u, d),
                    !.cle = CleRevalidee(u, d),
                    !.repli = Cachable(u) /\ (Detient(u, d) \/ d.cond \/ Tenu(u, d.methode))]
<1>0. /\ u \in Url /\ d \in Demande /\ Saine(req[q])
      /\ muet \in BOOLEAN /\ MagasinType
  BY Tient, InvParties
<1>1. /\ Detient(u, d) \in BOOLEAN /\ VarianteTenue(u, d) \in BOOLEAN
      /\ (Cachable(u) /\ (Detient(u, d) \/ d.cond \/ Tenu(u, d.methode))) \in BOOLEAN
      /\ VarianteTenue(u, d) => CleVariante(u, d) # None
  BY DEF Detient, VarianteTenue
<1>2. Validateur(u, d) \in Objet /\ CleRevalidee(u, d) \in Cle
  BY <1>0, DemandeType, RienType DEF Validateur, MagasinType
<1>3. Avance(q, r) /\ UNCHANGED <<magasin, monde, muet, prise>> /\ muet' \in BOOLEAN
  BY <1>0 DEF Preparer
<1>4. Saine(r)
  BY <1>1, <1>2, PrepareSain, ZenonT(60)
<1> HIDE DEF r
<1> QED
  BY <1>3, <1>4, LitInv

LEMMA HorsLigneInv ==
    ASSUME Inv, NEW q \in Requete, NEW c \in BOOLEAN, HorsLigne(q, c),
           UNCHANGED <<magasin, monde, prise>>, muet' \in BOOLEAN
    PROVE  Inv' /\ \A p \in Requete \ {q} : req'[p] = req[p]
<1> DEFINE r == [Oisif EXCEPT !.pc = IF req[q].variante THEN "horsVariante" ELSE "horsBase",
                            !.u = req[q].u, !.d = req[q].d,
                            !.promis = req[q].promis,
                            !.compose = c]
<1>1. Saine(r)
  BY Tient, OisifType, ZenonT(60) DEF Saine, ReqType, Etapes
<1>2. Avance(q, r)
  BY DEF HorsLigne
<1> HIDE DEF r
<1> QED
  BY <1>1, <1>2, LitInv

LEMMA EnvoiEpargneInv ==
    ASSUME Inv, NEW q \in Requete, EnvoiEpargne(q)
    PROVE  Inv' /\ \A p \in Requete \ {q} : req'[p] = req[p]
<1>1. req[q].compose \in BOOLEAN /\ muet \in BOOLEAN
  BY Tient, InvParties DEF Saine, ReqType
<1> QED
  BY <1>1, HorsLigneInv DEF EnvoiEpargne

LEMMA EnvoiEchoueInv ==
    ASSUME Inv, NEW q \in Requete, EnvoiEchoue(q)
    PROVE  Inv' /\ \A p \in Requete \ {q} : req'[p] = req[p]
BY HorsLigneInv DEF EnvoiEchoue

LEMMA EnvoiAboutiInv ==
    ASSUME Inv, NEW q \in Requete, EnvoiAbouti(q)
    PROVE  Inv' /\ \A p \in Requete \ {q} : req'[p] = req[p]
<1>0. /\ Saine(req[q]) /\ req[q].u \in Url /\ req[q].d \in Demande
      /\ amont \in [Url -> 0 .. MaxVersion]
      /\ muet' \in BOOLEAN /\ UNCHANGED <<magasin, monde, prise>>
      /\ req[q].pc \in {"envoi", "renvoi"}
  BY Tient, InvParties DEF EnvoiAbouti
<1>1. CASE \E r \in Reponses(req[q].u, req[q].d) :
             IF req[q].pc = "envoi" /\ req[q].valide = r /\ r.code = 200
             THEN Avance(q, [req[q] EXCEPT !.pc = "rejoue", !.compose = TRUE])
             ELSE Recoit(q, r)
  <2>1. PICK r \in Reponses(req[q].u, req[q].d) :
             IF req[q].pc = "envoi" /\ req[q].valide = r /\ r.code = 200
             THEN Avance(q, [req[q] EXCEPT !.pc = "rejoue", !.compose = TRUE])
             ELSE Recoit(q, r)
    BY <1>1
  <2>2. CASE req[q].pc = "envoi" /\ req[q].valide = r /\ r.code = 200
    <3> DEFINE n == [req[q] EXCEPT !.pc = "rejoue", !.compose = TRUE]
    <3>1. Saine(n)
      BY <1>0 DEF Saine, ReqType, Etapes
    <3>2. Avance(q, n)
      BY <2>1, <2>2
    <3> HIDE DEF n
    <3> QED
      BY <1>0, <3>1, <3>2, LitInv
  <2>3. CASE ~(req[q].pc = "envoi" /\ req[q].valide = r /\ r.code = 200)
    <3> DEFINE n == [Oisif EXCEPT !.pc = "recu", !.u = req[q].u, !.d = req[q].d,
                                  !.detient = req[q].detient, !.obj = r]
    <3>1. req[q].d.accept \in Accept \cup {None}
      BY <1>0, DemandeType
    <3>2. r \in Objet /\ r.code # 0
      BY <1>0, <3>1, ReponseType
    <3>3. Saine(n)
      BY <1>0, <3>2, OisifType DEF Saine, ReqType, Etapes
    <3>4. Avance(q, n)
      BY <2>1, <2>3 DEF Recoit
    <3> HIDE DEF n
    <3> QED
      BY <1>0, <3>3, <3>4, LitInv
  <2> QED
    BY <2>2, <2>3
<1>2. CASE Repond(q, "client", Rien)
  <2>1. Saine(Reponse(q, "client", Rien))
    BY ReponseSaine, RienType DEF Sortes
  <2> QED
    BY <1>0, <1>2, <2>1, LitInv DEF Repond
<1> QED
  BY <1>1, <1>2 DEF EnvoiAbouti

LEMMA EssayerInv ==
    ASSUME Inv, NEW q \in Requete, NEW k \in Cle, NEW n \in Suites, NEW s \in Sortes,
           Essayer(q, k, n, s), UNCHANGED <<magasin, monde, muet, prise>>
    PROVE  Inv' /\ \A p \in Requete \ {q} : req'[p] = req[p]
<1> DEFINE r == [req[q] EXCEPT !.pc = "sert", !.cle = k, !.sinon = n, !.sorte = s]
<1>1. Saine(r)
  BY EssayerSain
<1>2. Avance(q, r) /\ muet' \in BOOLEAN
  BY InvParties DEF Essayer
<1> HIDE DEF r
<1> QED
  BY <1>1, <1>2, LitInv

LEMMA VaInv ==
    ASSUME Inv, NEW q \in Requete, NEW n \in Etapes \ {"copie", "horsVariante", "recu", "local"},
           Va(q, n), UNCHANGED <<magasin, monde, muet, prise>>
    PROVE  Inv' /\ \A p \in Requete \ {q} : req'[p] = req[p]
<1> DEFINE r == [req[q] EXCEPT !.pc = n]
<1>1. Saine(r)
  BY VaSain
<1>2. Avance(q, r) /\ muet' \in BOOLEAN
  BY InvParties DEF Va
<1> HIDE DEF r
<1> QED
  BY <1>1, <1>2, LitInv

LEMMA RepondInv ==
    ASSUME Inv, NEW q \in Requete, NEW s \in Sortes, NEW o \in Objet,
           Repond(q, s, o), MagasinType', UNCHANGED <<monde, muet, prise>>
    PROVE  Inv' /\ \A p \in Requete \ {q} : req'[p] = req[p]
<1> DEFINE r == Reponse(q, s, o)
<1>1. Saine(r)
  BY ReponseSaine
<1>2. Avance(q, r) /\ muet' \in BOOLEAN /\ PriseType'
  BY InvParties DEF Repond, PriseType
<1> HIDE DEF r
<1> QED
  BY <1>1, <1>2, CadreInv

LEMMA RevaliderInv ==
    ASSUME Inv, NEW q \in Requete, Revalider(q)
    PROVE  Inv' /\ \A p \in Requete \ {q} : req'[p] = req[p]
<1>1. req[q].cle \in Cle
  BY Tient DEF Saine, ReqType
<1> QED
  BY <1>1, EssayerInv DEF Revalider, Etapes, Sortes, Suites

LEMMA CommitCorpsInv ==
    ASSUME Inv, NEW q \in Requete, CommitCorps(q)
    PROVE  Inv' /\ \A p \in Requete \ {q} : req'[p] = req[p]
<1> DEFINE u == req[q].u
           d == req[q].d
           o == req[q].obj
<1>0. /\ u \in Url /\ d \in Demande /\ o \in Objet /\ Saine(req[q]) /\ MagasinType
      /\ PriseType /\ UNCHANGED <<monde, muet, prise>> /\ o.code = 200
      /\ req[q].pc = "recu" /\ muet' \in BOOLEAN
      /\ magasin' = [magasin EXCEPT ![u]["corps"] = o]
  BY Tient, InvParties DEF CommitCorps, Gardable, Saine, ReqType
<1>1. MagasinType'
  <2> DEFINE k == "corps"
  <2>1. k \in Cle /\ (k \in {"corps"} \cup Accept => o.code # 404) /\ (k = "GET" => o.code # 200)
    BY <1>0 DEF Cle
  <2>2. magasin' = [magasin EXCEPT ![u][k] = o] /\ MagasinType /\ u \in Url /\ o \in Objet
    BY <1>0
  <2> HIDE DEF u, o, k
  <2> QED
    BY <2>1, <2>2, MagasinEcrit
<1>2. CASE u \in Varie /\ CleVariante(u, d) # None
  <2> DEFINE r == [req[q] EXCEPT !.pc = "copie"]
  <2>1. Saine(r)
    BY <1>0, <1>2 DEF Saine, ReqType, Etapes
  <2>2. Avance(q, r) /\ PriseType'
    BY <1>0, <1>2 DEF CommitCorps, Va, PriseType
  <2> HIDE DEF r
  <2> QED
    BY <1>0, <1>1, <2>1, <2>2, CadreInv
<1>3. CASE ~(u \in Varie /\ CleVariante(u, d) # None)
  <2>1. Repond(q, "amont", o)
    BY <1>3 DEF CommitCorps
  <2> QED
    BY <1>0, <1>1, <2>1, RepondInv DEF Sortes
<1> QED
  BY <1>2, <1>3

LEMMA CommitStatutInv ==
    ASSUME Inv, NEW q \in Requete, CommitStatut(q)
    PROVE  Inv' /\ \A p \in Requete \ {q} : req'[p] = req[p]
<1> DEFINE u == req[q].u
           k == req[q].d.methode
           o == req[q].obj
<1>0. /\ u \in Url /\ req[q].d \in Demande /\ o \in Objet /\ MagasinType
      /\ UNCHANGED <<monde, muet, prise>> /\ Repond(q, "amont", o)
      /\ magasin' = [magasin EXCEPT ![u][k] = o]
  BY Tient, InvParties DEF CommitStatut, Saine, ReqType
<1>1. k \in {"GET", "HEAD"}
  BY <1>0, DemandeType
<1>2. k = "GET" => o.code # 200
  BY <1>0 DEF CommitStatut, StatutSeul, Gardable, Cachable
<1>3. k \in Cle /\ k \notin {"corps"} \cup Accept
  BY <1>1, ProxyServeAssumption DEF Cle
<1>4. MagasinType'
  <2> HIDE DEF u, k, o
  <2> QED
    BY <1>0, <1>2, <1>3, MagasinEcrit
<1> QED
  BY <1>0, <1>4, RepondInv DEF Sortes

LEMMA RelayerInv ==
    ASSUME Inv, NEW q \in Requete, Relayer(q)
    PROVE  Inv' /\ \A p \in Requete \ {q} : req'[p] = req[p]
<1>1. req[q].obj \in Objet /\ MagasinType'
  BY Tient, InvParties DEF Saine, ReqType, Relayer, MagasinType
<1> QED
  BY <1>1, RepondInv DEF Relayer, Sortes

LEMMA CopierInv ==
    ASSUME Inv, NEW q \in Requete, Copier(q)
    PROVE  Inv' /\ \A p \in Requete \ {q} : req'[p] = req[p]
<1> DEFINE u == req[q].u
           k == CleVariante(u, req[q].d)
           o == magasin[u]["corps"]
<1>0. /\ u \in Url /\ req[q].d \in Demande /\ req[q].obj \in Objet /\ MagasinType
      /\ UNCHANGED <<monde, muet, prise>> /\ Repond(q, "amont", req[q].obj)
      /\ k # None
  BY Tient, InvParties DEF Copier, Saine, ReqType
<1>1. k \in Cle /\ k \in Accept /\ k # "GET" /\ o \in Objet /\ o.code # 404
  BY <1>0, DemandeType, ProxyServeAssumption DEF Cle, MagasinType
<1>2. MagasinType'
  <2>1. CASE Tenu(u, "corps")
    <3>1. magasin' = [magasin EXCEPT ![u][k] = o]
      BY <2>1 DEF Copier
    <3> HIDE DEF u, k, o
    <3> QED
      BY <1>0, <1>1, <3>1, MagasinEcrit
  <2>2. CASE ~Tenu(u, "corps")
    BY <1>0, <2>2 DEF Copier, MagasinType
  <2> QED
    BY <2>1, <2>2
<1> QED
  BY <1>0, <1>2, RepondInv DEF Sortes

LEMMA HorsVarianteInv ==
    ASSUME Inv, NEW q \in Requete, HorsVariante(q)
    PROVE  Inv' /\ \A p \in Requete \ {q} : req'[p] = req[p]
<1>1. CleVariante(req[q].u, req[q].d) \in Cle
  BY Tient, DemandeType DEF HorsVariante, Saine, Cle
<1> QED
  BY <1>1, EssayerInv, VaInv DEF HorsVariante, Etapes, Sortes, Suites

LEMMA HorsBaseInv ==
    ASSUME Inv, NEW q \in Requete, HorsBase(q)
    PROVE  Inv' /\ \A p \in Requete \ {q} : req'[p] = req[p]
BY EssayerInv, VaInv DEF HorsBase, Etapes, Sortes, Suites, Cle

LEMMA HorsStatutInv ==
    ASSUME Inv, NEW q \in Requete, HorsStatut(q)
    PROVE  Inv' /\ \A p \in Requete \ {q} : req'[p] = req[p]
<1> DEFINE o == magasin[req[q].u][req[q].d.methode]
<1>1. req[q].u \in Url /\ req[q].d.methode \in Cle /\ MagasinType
  BY Tient, DemandeType, InvParties DEF Cle
<1>2. o \in Objet /\ MagasinType' /\ UNCHANGED <<magasin, monde, muet, prise>>
  <2>1. UNCHANGED <<magasin, monde, muet, prise>>
    BY DEF HorsStatut
  <2>2. magasin[req[q].u] \in [Cle -> Objet]
    BY <1>1 DEF MagasinType
  <2>3. MagasinType'
    BY <1>1, <2>1 DEF MagasinType
  <2> QED
    BY <1>1, <2>1, <2>2, <2>3
<1>3. \/ Repond(q, "client", Rien) \/ Repond(q, "statut", o)
      \/ Va(q, "horsTete") \/ Va(q, "refus")
  BY DEF HorsStatut, RejouerStatut, Tete
<1> HIDE DEF o
<1> QED
  BY <1>2, <1>3, RepondInv, VaInv, RienType DEF Etapes, Sortes

LEMMA HorsTeteInv ==
    ASSUME Inv, NEW q \in Requete, HorsTete(q)
    PROVE  Inv' /\ \A p \in Requete \ {q} : req'[p] = req[p]
BY EssayerInv, VaInv DEF HorsTete, Etapes, Sortes, Suites, Cle

LEMMA RefuserInv ==
    ASSUME Inv, NEW q \in Requete, Refuser(q)
    PROVE  Inv' /\ \A p \in Requete \ {q} : req'[p] = req[p]
<1>1. MagasinType'
  BY InvParties DEF Refuser, MagasinType
<1> QED
  BY <1>1, RepondInv, RienType DEF Refuser, Sortes

LEMMA ServirTenuInv ==
    ASSUME Inv, NEW q \in Requete, ServirTenu(q)
    PROVE  Inv' /\ \A p \in Requete \ {q} : req'[p] = req[p]
<1> DEFINE o == magasin[req[q].u][req[q].cle]
           s == req[q].sorte
           n == req[q].sinon
<1>1. /\ o \in Objet /\ s \in Sortes /\ n \in Etapes /\ n \in Suites
      /\ MagasinType' /\ UNCHANGED <<magasin, monde, muet, prise>>
  BY Tient, InvParties DEF Saine, ReqType, MagasinType, ServirTenu
<1>2. CASE Repond(q, s, o)
  <2> HIDE DEF o, s, n
  <2> QED
    BY <1>1, <1>2, RepondInv
<1>3. CASE Va(q, n)
  <2>1. n \notin {"copie", "horsVariante", "recu", "local"}
    BY <1>1 DEF Suites
  <2> HIDE DEF o, s, n
  <2> QED
    BY <1>1, <1>3, <2>1, VaInv
<1> QED
  BY <1>2, <1>3 DEF ServirTenu

LEMMA FinirInv ==
    ASSUME Inv, NEW q \in Requete, Finir(q)
    PROVE  Inv' /\ \A p \in Requete \ {q} : req'[p] = req[p]
<1>1. Saine(Oisif)
  BY OisifType DEF Saine
<1>2. Avance(q, Oisif) /\ UNCHANGED <<magasin, prise, monde>> /\ muet' \in BOOLEAN
  BY InvParties DEF Finir
<1> QED
  BY <1>1, <1>2, LitInv

\* The requests and the store stay as they are.
LEMMA PriseInv ==
    ASSUME Inv, UNCHANGED <<monde, req>>, MagasinType', PriseType', muet' \in BOOLEAN
    PROVE  Inv'
<1>1. UNCHANGED <<amont, reseau, req>>
  BY DEF monde
<1>2. TypeOK'
  BY <1>1 DEF Inv, TypeOK, MagasinType, PriseType
<1>3. Clefs' /\ Prises'
  BY <1>1 DEF Inv, Clefs, Prises, PriseType
<1> QED
  BY <1>2, <1>3 DEF Inv

LEMMA CesseType ==
    ASSUME PriseType, NEW u \in Url, Cesse(u)
    PROVE  PriseType'
BY RienType DEF PriseType, Cesse

LEMMA PriseEnvoiInv ==
    ASSUME Inv, NEW u \in Url, PriseEnvoi(u)
    PROVE  Inv'
<1>0. /\ UNCHANGED <<magasin, monde, req>> /\ muet' \in BOOLEAN
      /\ PriseType /\ MagasinType /\ amont \in [Url -> 0 .. MaxVersion]
  BY InvParties DEF PriseEnvoi
<1>1. MagasinType'
  BY <1>0 DEF MagasinType
<1>2. CASE Cesse(u)
  BY <1>0, <1>1, <1>2, CesseType, PriseInv
<1>3. CASE \E r \in Reponses(u, [accept |-> None]) :
              r.code = 200 /\ prise' = [prise EXCEPT ![u] = [pc |-> "recu", obj |-> r]]
  <2>1. PICK r \in Reponses(u, [accept |-> None]) :
              r.code = 200 /\ prise' = [prise EXCEPT ![u] = [pc |-> "recu", obj |-> r]]
    BY <1>3
  <2>2. r \in Objet
    BY <1>0, ReponseType
  <2>3. PriseType'
    BY <1>0, <2>1, <2>2 DEF PriseType, PriseEnvoi
  <2> QED
    BY <1>0, <1>1, <2>3, PriseInv
<1> QED
  BY <1>2, <1>3 DEF PriseEnvoi

LEMMA PriseCommitInv ==
    ASSUME Inv, NEW u \in Url, PriseCommit(u)
    PROVE  Inv'
<1> DEFINE o == prise[u].obj
           k == "corps"
<1>0. /\ UNCHANGED <<monde, muet, req>> /\ muet' \in BOOLEAN /\ PriseType /\ MagasinType
      /\ Cesse(u)
  BY InvParties DEF PriseCommit
<1>1. o \in Objet /\ o.code = 200 /\ magasin' = [magasin EXCEPT ![u][k] = o]
  BY <1>0 DEF PriseType, PriseCommit
<1>2. k \in Cle /\ (k \in {"corps"} \cup Accept => o.code # 404) /\ (k = "GET" => o.code # 200)
  BY <1>1 DEF Cle
<1>3. MagasinType'
  <2>1. MagasinType /\ o \in Objet /\ magasin' = [magasin EXCEPT ![u][k] = o]
    BY <1>0, <1>1
  <2> HIDE DEF o, k
  <2> QED
    BY <1>2, <2>1, MagasinEcrit
<1> QED
  BY <1>0, <1>3, CesseType, PriseInv

LEMMA PriseCoupeeInv ==
    ASSUME Inv, NEW u \in Url, PriseCoupee(u)
    PROVE  Inv'
<1>1. /\ UNCHANGED <<magasin, monde, muet, req>> /\ muet' \in BOOLEAN /\ PriseType
      /\ MagasinType' /\ Cesse(u)
  BY InvParties DEF PriseCoupee, MagasinType
<1> QED
  BY <1>1, CesseType, PriseInv

LEMMA PurgerInv ==
    ASSUME Inv, NEW u \in Url, NEW k \in Cle, Purger(u, k)
    PROVE  Inv'
<1>1. /\ UNCHANGED <<monde, muet, req, prise>> /\ muet' \in BOOLEAN /\ PriseType' /\ MagasinType
      /\ magasin' = [magasin EXCEPT ![u][k] = Rien]
  BY InvParties DEF Purger, PriseType
<1>2. MagasinType /\ magasin' = [magasin EXCEPT ![u][k] = Rien]
  BY <1>1
<1>3. Rien \in Objet /\ Rien.code # 404 /\ Rien.code # 200
  BY RienType
<1>4. MagasinType'
  BY <1>2, <1>3, MagasinEcrit
<1> QED
  BY <1>1, <1>4, PriseInv

LEMMA OublierInv ==
    ASSUME Inv, NEW u \in Url, Oublier(u)
    PROVE  Inv'
<1>1. /\ UNCHANGED <<monde, muet, req, prise>> /\ muet' \in BOOLEAN /\ PriseType' /\ MagasinType
  BY InvParties DEF Oublier, PriseType
<1>2. magasin' = [magasin EXCEPT ![u] = [[magasin[u] EXCEPT !["corps"] = Rien] EXCEPT !["GET"] = Rien]]
  BY <1>1 DEF MagasinType, Oublier
<1>3. \A v \in Url, j \in Cle : magasin'[v][j] \in {magasin[v][j], Rien}
  BY <1>1, <1>2 DEF MagasinType
<1>4. magasin' \in [Url -> [Cle -> Objet]]
  BY <1>1, <1>2, RienType DEF MagasinType
<1>5. /\ \A v \in Url : \A k \in {"corps"} \cup Accept : magasin'[v][k].code # 404
      /\ \A v \in Url : magasin'[v]["GET"].code # 200
  BY <1>1, <1>3, RienType, SMTT(30) DEF MagasinType, Cle
<1>6. MagasinType'
  BY <1>4, <1>5, MagasinSuivant
<1> QED
  BY <1>1, <1>6, PriseInv

LEMMA PublierInv ==
    ASSUME Inv, NEW u \in Url, Publier(u)
    PROVE  Inv'
<1> DEFINE v == IF Signature[u] = None THEN amont[u] + 1 ELSE amont[Signature[u]] + 1
<1>1. /\ UNCHANGED <<magasin, reseau, muet, req, prise>> /\ v <= MaxVersion
      /\ amont' = [w \in Url |-> IF w = u \/ w = Signature[u] THEN v ELSE amont[w]]
      /\ amont \in [Url -> 0 .. MaxVersion]
  BY InvParties DEF Publier
<1>2. v \in 0 .. MaxVersion
  BY <1>1, ProxyServeAssumption
<1> HIDE DEF v
<1>3. amont' \in [Url -> 0 .. MaxVersion]
  BY <1>1, <1>2
<1>4. TypeOK'
  BY <1>1, <1>3 DEF Inv, TypeOK
<1>5. Clefs' /\ Prises'
  BY <1>1 DEF Inv, Clefs, Prises
<1> QED
  BY <1>4, <1>5 DEF Inv

LEMMA ReseauInv ==
    ASSUME Inv, Reseau \/ MuetEchoit
    PROVE  Inv'
<1>1. UNCHANGED <<magasin, amont, req, prise>> /\ reseau' \in BOOLEAN /\ muet' \in BOOLEAN
  BY InvParties DEF Reseau, MuetEchoit, monde
<1>2. TypeOK'
  BY <1>1 DEF Inv, TypeOK
<1>3. Clefs' /\ Prises'
  BY <1>1 DEF Inv, Clefs, Prises
<1> QED
  BY <1>2, <1>3 DEF Inv

LEMMA AvancerInv ==
    ASSUME Inv, NEW q \in Requete, Avancer(q)
    PROVE  Inv' /\ \A p \in Requete \ {q} : req'[p] = req[p]
BY ServirLocalInv, PreparerInv, EnvoiEpargneInv, EnvoiEchoueInv, EnvoiAboutiInv, RevaliderInv,
   CommitCorpsInv, CommitStatutInv, RelayerInv, CopierInv, HorsVarianteInv, HorsBaseInv,
   HorsStatutInv, HorsTeteInv, RefuserInv, ServirTenuInv, FinirInv DEF Avancer

LEMMA InvSuite ==
    ASSUME Inv, [Next]_vars
    PROVE  Inv'
<1>1. CASE \E q \in Requete : Demander(q)
  BY <1>1, DemanderInv DEF Demander
<1>2. CASE \E q \in Requete : Avancer(q)
  BY <1>2, AvancerInv
<1>3. CASE \E u \in Url : PriseEnvoi(u) \/ PriseCommit(u) \/ PriseCoupee(u)
  BY <1>3, PriseEnvoiInv, PriseCommitInv, PriseCoupeeInv
<1>4. CASE \E u \in Url : Oublier(u) \/ Publier(u) \/ \E k \in Cle : Purger(u, k)
  BY <1>4, OublierInv, PublierInv, PurgerInv
<1>5. CASE Reseau \/ MuetEchoit
  BY <1>5, ReseauInv
<1>6. CASE UNCHANGED vars
  BY <1>6 DEF vars, Inv, TypeOK, Clefs, Prises
<1> QED
  BY <1>1, <1>2, <1>3, <1>4, <1>5, <1>6 DEF Next

LEMMA InvDebut == Init => Inv
<1> SUFFICES ASSUME Init PROVE Inv
  OBVIOUS
<1>1. \A q \in Requete : req[q] = Oisif
  BY DEF Init
<1>2. \A u \in Url : \A k \in Cle : magasin[u][k] = Rien
  BY DEF Init
<1>3. \A u \in Url : prise[u] = [pc |-> "aucune", obj |-> Rien]
  BY DEF Init
<1>4. MagasinType
  BY <1>2, RienType DEF Init, MagasinType, Cle
<1>5. PriseType
  BY <1>3, RienType DEF Init, PriseType
<1>6. amont \in [Url -> 0 .. MaxVersion]
  BY ProxyServeAssumption DEF Init
<1>7. reseau \in BOOLEAN /\ muet \in BOOLEAN /\ req \in [Requete -> ReqType]
  BY OisifType DEF Init
<1>8. \A q \in Requete : Saine(req[q])
  BY <1>1, OisifType DEF Saine
<1> QED
  BY <1>4, <1>5, <1>6, <1>7, <1>8, InvParties

LEMMA InvTenu == Spec => []Inv
BY InvDebut, InvSuite, PTL DEF Spec

\* Requests, store and background fetches have their types; a status is never kept under
\* the key of a body, nor a body under that of the status of a GET.
THEOREM TypesTenus == Spec => []TypeOK
BY InvTenu, PTL DEF Inv

-------------------------------------------------------------------------------
(* What is promised, and what spares a dial, is still there at the end, of   *)
(* every file that no signature vouches for, unless it is erased meanwhile.  *)

Travaille(q) == req[q].pc \notin {"repos", "repondu"}

\* A step takes nothing of u from the store.
CroitDe(u) == \A k \in Cle : Tenu(u, k) => magasin'[u][k].code # 0

\* A step takes nothing from the store of a file that a request is at work on.
Menage == \A q \in Requete : Travaille(q) => CroitDe(req[q].u)

\* No signature is compared for the request; an answer no longer says for what it was.
NonSigne(q) ==
    \/ \A u \in Url : Signature[u] = None
    \/ req[q].pc # "repondu" /\ Signature[req[q].u] = None

\* What serve calls repli.
Repliable(u, d) == Cachable(u) /\ (Detient(u, d) \/ d.cond \/ Tenu(u, d.methode))

\* A request that has not dialled still has what spared it the dial; one that was
\* promised its object still has it in front of it.
Tenable(q) ==
    LET u == req[q].u
        d == req[q].d
        sinon == IF req[q].pc = "sert" THEN req[q].sinon ELSE "repos"
    IN  /\ req[q].pc \in {"rejoue", "renvoi"} \/ sinon = "renvoi" => req[q].compose
        /\ req[q].pc = "sert" => req[q].sorte # "refus" /\ req[q].sinon # "repos"
        /\ sinon \in {"horsStatut", "refus"} => req[q].cle = "corps"
        /\ sinon = "horsStatut" => d.methode = "GET"
        /\ ~req[q].compose =>
              /\ req[q].pc = "envoi" /\ req[q].repli => Repliable(u, d)
              /\ req[q].pc \in {"horsVariante", "horsBase"} => Repliable(u, d)
              /\ sinon \in {"horsBase", "horsStatut"} => Repliable(u, d)
              /\ req[q].pc = "horsStatut" => Cachable(u) /\ (d.cond \/ Tenu(u, d.methode))
              /\ req[q].pc \notin {"horsTete", "refus"} /\ sinon # "refus"
              /\ ~Repondu(q, "refus")
        /\ req[q].promis =>
              /\ req[q].pc \notin {"repos", "refus", "repondu"}
              /\ Detenir(u, d)
              /\ req[q].pc = "horsStatut" 
                    => (Tenu(u, d.methode) \/ (d.methode = "HEAD" /\ Tenu(u, "corps")))
              /\ req[q].pc = "horsTete" \/ sinon = "refus" => Tenu(u, "corps")

Promesses == \A q \in Requete : NonSigne(q) => Tenable(q)

LEMMA Effet ==
    ASSUME Inv, NEW q \in Requete, NEW r, Avance(q, r)
    PROVE  req'[q] = r
BY DEF Inv, TypeOK, Avance

LEMMA EssayerEffet ==
    ASSUME Inv, NEW q \in Requete, NEW k \in Cle, NEW n \in Etapes, NEW s \in Sortes,
           Essayer(q, k, n, s)
    PROVE  /\ req'[q].u = req[q].u /\ req'[q].d = req[q].d
           /\ req'[q].pc = "sert" /\ req'[q].cle = k /\ req'[q].sinon = n /\ req'[q].sorte = s
           /\ req'[q].promis = req[q].promis /\ req'[q].compose = req[q].compose
           /\ req'[q].valide = req[q].valide /\ req'[q].obj = req[q].obj
<1> DEFINE r == [req[q] EXCEPT !.pc = "sert", !.cle = k, !.sinon = n, !.sorte = s]
<1>1. req[q] \in ReqType
  BY Tient DEF Saine
<1>2. r.pc = "sert" /\ r.cle = k /\ r.sinon = n /\ r.sorte = s
  BY <1>1 DEF ReqType
<1>3. r.u = req[q].u /\ r.d = req[q].d /\ r.valide = req[q].valide /\ r.obj = req[q].obj
  BY <1>1 DEF ReqType
<1>4. r.promis = req[q].promis /\ r.compose = req[q].compose
  BY <1>1 DEF ReqType
<1>5. Avance(q, r)
  BY DEF Essayer
<1> HIDE DEF r
<1>6. req'[q] = r
  BY <1>5, Effet
<1> QED
  BY <1>2, <1>3, <1>4, <1>6

LEMMA VaEffet ==
    ASSUME Inv, NEW q \in Requete, NEW n \in Etapes, Va(q, n)
    PROVE  /\ req'[q].u = req[q].u /\ req'[q].d = req[q].d
           /\ req'[q].pc = n /\ req'[q].cle = req[q].cle /\ req'[q].sinon = req[q].sinon
           /\ req'[q].promis = req[q].promis /\ req'[q].compose = req[q].compose
           /\ req'[q].valide = req[q].valide /\ req'[q].obj = req[q].obj
           /\ req'[q].sorte = req[q].sorte /\ req'[q].repli = req[q].repli
<1> DEFINE r == [req[q] EXCEPT !.pc = n]
<1>1. req[q] \in ReqType
  BY Tient DEF Saine
<1>2. r.pc = n /\ r.cle = req[q].cle /\ r.sinon = req[q].sinon /\ r.sorte = req[q].sorte
  BY <1>1 DEF ReqType
<1>3. r.u = req[q].u /\ r.d = req[q].d /\ r.valide = req[q].valide /\ r.obj = req[q].obj
  BY <1>1 DEF ReqType
<1>4. r.promis = req[q].promis /\ r.compose = req[q].compose /\ r.repli = req[q].repli
  BY <1>1 DEF ReqType
<1>5. Avance(q, r)
  BY DEF Va
<1> HIDE DEF r
<1>6. req'[q] = r
  BY <1>5, Effet
<1> QED
  BY <1>2, <1>3, <1>4, <1>6

LEMMA SansSuite ==
    ASSUME NEW u \in Url, Signature[u] = None
    PROVE  ~Incoherent(u)
BY DEF Incoherent

\* An answer that is not a refusal keeps every promise.
LEMMA RepondTenable ==
    ASSUME Inv, NEW q \in Requete, NEW s \in Sortes \ {"refus"}, NEW o \in Objet,
           Repond(q, s, o)
    PROVE  Tenable(q)'
<1>1. req'[q] = Reponse(q, s, o)
  BY Effet DEF Repond
<1>2. /\ req'[q].pc = "repondu" /\ req'[q].sorte = s /\ ~req'[q].promis
      /\ ~req'[q].compose
  BY <1>1, ReponduType DEF Inv
<1> QED
  BY <1>2 DEF Tenable, Repondu

Croit == \A u \in Url : CroitDe(u)

LEMMA Reste ==
    ASSUME Inv, NEW p \in Requete, CroitDe(req[p].u),
           req'[p].u = req[p].u, req'[p].d = req[p].d
    PROVE  /\ Tenu(req[p].u, "corps") => Tenu(req[p].u, "corps")'
           /\ Tenu(req[p].u, req[p].d.methode) => Tenu(req[p].u, req[p].d.methode)'
           /\ Repliable(req[p].u, req[p].d) => Repliable(req[p].u, req[p].d)'
           /\ Detenir(req[p].u, req[p].d) => Detenir(req[p].u, req[p].d)'
           /\ Cachable(req[p].u) => Cachable(req[p].u)'
<1>1. /\ req[p].u \in Url /\ req[p].d \in Demande
      /\ req[p].d.methode \in Cle /\ "corps" \in Cle
  BY Tient, DemandeType DEF Cle
<1>2. /\ Tenu(req[p].u, "corps") => Tenu(req[p].u, "corps")'
      /\ Tenu(req[p].u, req[p].d.methode) => Tenu(req[p].u, req[p].d.methode)'
  BY <1>1 DEF CroitDe, Tenu
<1> QED
  BY <1>2 DEF Repliable, Detenir, Detient, Cachable

LEMMA RestePromis ==
    ASSUME Inv, NEW p \in Requete, Tenable(p), Travaille(p) => CroitDe(req[p].u),
           req'[p] = req[p]
    PROVE  Tenable(p)'
<1>1. CASE Travaille(p)
  BY <1>1, Reste DEF Tenable, Repondu
<1>2. CASE ~Travaille(p)
  BY <1>2 DEF Travaille, Tenable, Repondu
<1> QED
  BY <1>1, <1>2

LEMMA CroitInchange == UNCHANGED magasin => Croit /\ \A u : CroitDe(u)
BY DEF Croit, CroitDe, Tenu

LEMMA CroitPour ==
    ASSUME Inv, NEW p \in Requete, Croit
    PROVE  CroitDe(req[p].u)
BY Tient DEF Croit

LEMMA DemanderTenable ==
    ASSUME Inv, NEW q \in Requete, NEW u \in Url, NEW d \in Demande,
           Avance(q, [Oisif EXCEPT !.pc = IF Classe[u] = "immuable" THEN "local" ELSE "prepare",
                                   !.u = u, !.d = d, !.promis = Detenir(u, d)]),
           UNCHANGED magasin
    PROVE  Tenable(q)'
<1> DEFINE b == Detenir(u, d)
           r == [Oisif EXCEPT !.pc = IF Classe[u] = "immuable" THEN "local" ELSE "prepare",
                              !.u = u, !.d = d, !.promis = b]
<1>1. req'[q] = r
  BY Effet
<1>2. /\ req'[q].u = u /\ req'[q].d = d /\ req'[q].pc \in {"local", "prepare"}
      /\ req'[q].promis = b
  <2> HIDE DEF b
  <2> QED
    BY <1>1, OisifType DEF ReqType
<1>3. b => Detenir(u, d)'
  BY DEF Detenir, Tenu, Cachable
<1> HIDE DEF b
<1> QED
  BY <1>2, <1>3 DEF Tenable, Repondu

LEMMA ServirLocalTenable ==
    ASSUME Inv, NEW q \in Requete, Tenable(q), CroitDe(req[q].u), ServirLocal(q)
    PROVE  Tenable(q)'
<1> DEFINE o == magasin[req[q].u]["corps"]
<1>1. CASE Detient(req[q].u, req[q].d)
  <2>1. o \in Objet /\ "hit" \in Sortes \ {"refus"} /\ Repond(q, "hit", o)
    BY <1>1, Tient, InvParties DEF ServirLocal, MagasinType, Cle, Sortes
  <2> HIDE DEF o
  <2> QED
    BY <2>1, RepondTenable
<1>2. CASE ~Detient(req[q].u, req[q].d)
  <2>1. req'[q] = [req[q] EXCEPT !.pc = "prepare"] /\ UNCHANGED magasin
    BY <1>2, Effet DEF ServirLocal, Va
  <2>2. /\ req'[q].u = req[q].u /\ req'[q].d = req[q].d /\ req'[q].pc = "prepare"
        /\ req'[q].promis = req[q].promis
    BY <2>1, Tient DEF Saine, ReqType
  <2>3. req[q].promis => Detenir(req[q].u, req[q].d)'
    BY <2>2, Reste DEF Tenable
  <2> QED
    BY <2>2, <2>3 DEF Tenable, Repondu
<1> QED
  BY <1>1, <1>2

LEMMA PreparerTenable ==
    ASSUME Inv, NEW q \in Requete, Tenable(q), Preparer(q)
    PROVE  Tenable(q)'
<1> DEFINE u == req[q].u
           d == req[q].d
           a == Detient(u, d)
           b == VarianteTenue(u, d)
           v == Validateur(u, d)
           k == CleRevalidee(u, d)
           c == Cachable(u) /\ (Detient(u, d) \/ d.cond \/ Tenu(u, d.methode))
<1>1. req'[q] = [req[q] EXCEPT !.pc = "envoi", !.detient = a, !.variante = b, !.valide = v,
                               !.cle = k, !.repli = c]
  BY Effet DEF Preparer
<1>5. UNCHANGED magasin
  BY DEF Preparer
<1>2. /\ req'[q].u = u /\ req'[q].d = d /\ req'[q].pc = "envoi"
      /\ req'[q].promis = req[q].promis /\ req'[q].repli = c
      /\ req'[q].compose = req[q].compose
  <2> HIDE DEF a, b, c, v, k
  <2> QED
    BY <1>1, Tient DEF Saine, ReqType
<1>3. c => Repliable(req[q].u, req[q].d)'
  BY <1>2, <1>5, Reste, CroitInchange DEF Repliable
<1>4. req[q].promis => Detenir(req[q].u, req[q].d)'
  BY <1>2, <1>5, Reste, CroitInchange DEF Tenable
<1> HIDE DEF c
<1> QED
  BY <1>2, <1>3, <1>4 DEF Tenable, Repondu

\* Offline, the request either dialled or still has its fallback.
LEMMA HorsLigneTenable ==
    ASSUME Inv, NEW q \in Requete, Tenable(q), NEW c \in BOOLEAN, HorsLigne(q, c),
           UNCHANGED magasin, req[q].pc \in {"envoi", "renvoi"},
           ~c => Repliable(req[q].u, req[q].d)
    PROVE  Tenable(q)'
<1> DEFINE u == req[q].u
           d == req[q].d
<1>1. req'[q] = [Oisif EXCEPT !.pc = IF req[q].variante THEN "horsVariante" ELSE "horsBase",
                              !.u = req[q].u, !.d = req[q].d,
                              !.promis = req[q].promis, !.compose = c]
  BY Effet DEF HorsLigne
<1>2. /\ req'[q].u = u /\ req'[q].d = d /\ req'[q].pc \in {"horsVariante", "horsBase"}
      /\ req'[q].promis = req[q].promis /\ req'[q].compose = c
  BY <1>1, OisifType DEF ReqType
<1>3. /\ Repliable(u, d) => Repliable(u, d)'
      /\ Detenir(u, d) => Detenir(u, d)'
  BY <1>2, Reste, CroitInchange
<1>4. req[q].promis => Detenir(u, d)
  BY DEF Tenable
<1> QED
  BY <1>2, <1>3, <1>4 DEF Tenable, Repondu

LEMMA EnvoiEpargneTenable ==
    ASSUME Inv, NEW q \in Requete, Tenable(q), EnvoiEpargne(q)
    PROVE  Tenable(q)'
<1>1. req[q].compose \in BOOLEAN
  BY Tient DEF Saine, ReqType
<1>2. ~req[q].compose => Repliable(req[q].u, req[q].d)
  BY DEF EnvoiEpargne, Epargne, Tenable
<1> QED
  BY <1>1, <1>2, HorsLigneTenable DEF EnvoiEpargne

LEMMA EnvoiEchoueTenable ==
    ASSUME Inv, NEW q \in Requete, Tenable(q), EnvoiEchoue(q)
    PROVE  Tenable(q)'
BY HorsLigneTenable DEF EnvoiEchoue

LEMMA EnvoiAboutiTenable ==
    ASSUME Inv, NEW q \in Requete, Tenable(q), EnvoiAbouti(q)
    PROVE  Tenable(q)'
<1>0. /\ UNCHANGED magasin /\ req[q].pc \in {"envoi", "renvoi"}
  BY DEF EnvoiAbouti
<1>1. CASE Repond(q, "client", Rien)
  BY <1>1, RepondTenable, RienType DEF Sortes
<1>2. CASE Avance(q, [req[q] EXCEPT !.pc = "rejoue", !.compose = TRUE])
  <2>1. /\ req'[q].u = req[q].u /\ req'[q].d = req[q].d /\ req'[q].pc = "rejoue"
        /\ req'[q].promis = req[q].promis /\ req'[q].compose = TRUE
    BY <1>2, Tient, Effet, ZenonT(60) DEF Saine, ReqType
  <2>2. req[q].promis => Detenir(req[q].u, req[q].d)'
    BY <1>0, <2>1, Reste, CroitInchange DEF Tenable
  <2> QED
    BY <2>1, <2>2 DEF Tenable, Repondu
<1>3. CASE \E r : Recoit(q, r)
  <2>1. /\ req'[q].pc = "recu" /\ ~req'[q].promis /\ ~req'[q].compose
    BY <1>3, Effet, OisifType, ZenonT(60) DEF Recoit, ReqType
  <2> QED
    BY <2>1 DEF Tenable, Repondu
<1> QED
  BY <1>1, <1>2, <1>3 DEF EnvoiAbouti

LEMMA RevaliderTenable ==
    ASSUME Inv, NEW q \in Requete, Tenable(q), Revalider(q)
    PROVE  Tenable(q)'
<1>0. /\ UNCHANGED magasin /\ req[q].pc = "rejoue" /\ req[q].cle \in Cle
      /\ Essayer(q, req[q].cle, "renvoi", "revalide")
  BY Tient DEF Revalider, Saine, ReqType
<1>1. /\ req'[q].u = req[q].u /\ req'[q].d = req[q].d /\ req'[q].pc = "sert"
      /\ req'[q].sinon = "renvoi" /\ req'[q].sorte = "revalide"
      /\ req'[q].promis = req[q].promis /\ req'[q].compose = req[q].compose
  BY <1>0, EssayerEffet, ZenonT(60) DEF Etapes, Sortes
<1>2. req[q].promis => Detenir(req[q].u, req[q].d)'
  BY <1>0, <1>1, Reste, CroitInchange DEF Tenable
<1>3. req'[q].compose
  BY <1>0, <1>1 DEF Tenable
<1> QED
  BY <1>1, <1>2, <1>3 DEF Tenable, Repondu

LEMMA CommitCorpsTenable ==
    ASSUME Inv, NEW q \in Requete, Tenable(q), CroitDe(req[q].u), CommitCorps(q)
    PROVE  Tenable(q)'
<1>1. CASE Repond(q, "amont", req[q].obj)
  <2>1. req[q].obj \in Objet
    BY Tient DEF Saine, ReqType
  <2> QED
    BY <1>1, <2>1, RepondTenable DEF Sortes
<1>2. CASE Va(q, "copie")
  <2>1. /\ req'[q].u = req[q].u /\ req'[q].d = req[q].d /\ req'[q].pc = "copie"
        /\ req'[q].promis = req[q].promis
    BY <1>2, VaEffet DEF Etapes
  <2>2. req[q].promis => Detenir(req[q].u, req[q].d)'
    BY <2>1, Reste DEF Tenable
  <2> QED
    BY <2>1, <2>2 DEF Tenable, Repondu
<1> QED
  BY <1>1, <1>2 DEF CommitCorps

LEMMA AutresReponsesTenable ==
    ASSUME Inv, NEW q \in Requete, CommitStatut(q) \/ Relayer(q) \/ Copier(q)
    PROVE  Tenable(q)'
<1>1. Repond(q, "amont", req[q].obj) /\ req[q].obj \in Objet
  BY Tient DEF CommitStatut, Relayer, Copier, Saine, ReqType
<1> QED
  BY <1>1, RepondTenable DEF Sortes

LEMMA HorsVarianteTenable ==
    ASSUME Inv, NEW q \in Requete, Signature[req[q].u] = None, Tenable(q), HorsVariante(q)
    PROVE  Tenable(q)'
<1> DEFINE k == CleVariante(req[q].u, req[q].d)
<1>0. /\ UNCHANGED magasin /\ req[q].pc = "horsVariante" /\ req[q].u \in Url /\ k \in Cle
      /\ Essayer(q, k, "horsBase", "perime")
  BY Tient, SansSuite, DemandeType DEF HorsVariante, Saine, Cle
<1> HIDE DEF k
<1>1. /\ req'[q].u = req[q].u /\ req'[q].d = req[q].d /\ req'[q].pc = "sert"
      /\ req'[q].sinon = "horsBase" /\ req'[q].sorte = "perime"
      /\ req'[q].promis = req[q].promis /\ req'[q].compose = req[q].compose
  BY <1>0, EssayerEffet, ZenonT(60) DEF Etapes, Sortes
<1>2. /\ req[q].promis => Detenir(req[q].u, req[q].d)'
      /\ ~req[q].compose => Repliable(req[q].u, req[q].d)'
  BY <1>0, <1>1, Reste, CroitInchange DEF Tenable
<1> QED
  BY <1>1, <1>2 DEF Tenable, Repondu

\* What a request needs when only the condition of its client or a status is left.
LEMMA ArriveStatut ==
    ASSUME NEW q \in Requete, req'[q].pc = "horsStatut",
           ~req'[q].compose => Cachable(req[q].u)',
           ~req'[q].compose => (req[q].d.cond \/ Tenu(req[q].u, req[q].d.methode))',
           req'[q].promis => Detenir(req[q].u, req[q].d)',
           req'[q].promis => (Tenu(req[q].u, req[q].d.methode)
                              \/ (req[q].d.methode = "HEAD" /\ Tenu(req[q].u, "corps")))'
    PROVE  Tenable(q)'
<1>1. ~req'[q].compose => (req[q].pc = "horsStatut" => Cachable(req[q].u))'
  OBVIOUS
<1>2. ~req'[q].compose
        => (req[q].pc = "horsStatut" => req[q].d.cond \/ Tenu(req[q].u, req[q].d.methode))'
  OBVIOUS
<1>3. req'[q].promis
        => (/\ req[q].pc \notin {"refus", "repondu"}
            /\ Detenir(req[q].u, req[q].d)
            /\ req[q].pc = "horsStatut"
                  => (Tenu(req[q].u, req[q].d.methode)
                      \/ (req[q].d.methode = "HEAD" /\ Tenu(req[q].u, "corps"))))'
  OBVIOUS
<1> QED
  BY <1>1, <1>2, <1>3 DEF Tenable, Repondu

\* Without a body to try, the fallback is the condition of the client or a status.
LEMMA HorsBaseTenable ==
    ASSUME Inv, NEW q \in Requete, Signature[req[q].u] = None, Tenable(q), HorsBase(q)
    PROVE  Tenable(q)'
<1>0. /\ UNCHANGED magasin /\ req[q].pc = "horsBase" /\ req[q].u \in Url
      /\ req[q].d.methode \in {"GET", "HEAD"}
  BY Tient, DemandeType DEF HorsBase
<1>1. CASE /\ Cachable(req[q].u) /\ req[q].d.methode = "GET"
           /\ Essayer(q, "corps", "horsStatut", "perime")
  <2>1. /\ req'[q].u = req[q].u /\ req'[q].d = req[q].d /\ req'[q].pc = "sert"
        /\ req'[q].sinon = "horsStatut" /\ req'[q].sorte = "perime" /\ req'[q].cle = "corps"
        /\ req'[q].promis = req[q].promis /\ req'[q].compose = req[q].compose
    BY <1>1, EssayerEffet, ZenonT(60) DEF Etapes, Sortes, Cle
  <2>2. /\ req[q].promis => Detenir(req[q].u, req[q].d)'
        /\ ~req[q].compose => Repliable(req[q].u, req[q].d)'
    BY <1>0, <2>1, Reste, CroitInchange DEF Tenable
  <2> QED
    BY <1>1, <2>1, <2>2 DEF Tenable, Repondu
<1>2. CASE ~(Cachable(req[q].u) /\ req[q].d.methode = "GET") /\ Va(q, "horsStatut")
  <2>1. /\ req'[q].u = req[q].u /\ req'[q].d = req[q].d /\ req'[q].pc = "horsStatut"
        /\ req'[q].promis = req[q].promis /\ req'[q].compose = req[q].compose
    BY <1>2, VaEffet DEF Etapes
  <2>2. /\ req[q].promis => Detenir(req[q].u, req[q].d)
        /\ ~req[q].compose => Repliable(req[q].u, req[q].d)
    BY <1>0 DEF Tenable
  <2>3. ~req[q].compose => /\ Cachable(req[q].u)'
                           /\ req[q].d.cond \/ Tenu(req[q].u, req[q].d.methode)'
    BY <1>0, <1>2, <2>1, <2>2, Reste, CroitInchange DEF Repliable, Detient
  <2>4. req[q].promis => /\ Detenir(req[q].u, req[q].d)'
                         /\ \/ Tenu(req[q].u, req[q].d.methode)'
                            \/ req[q].d.methode = "HEAD" /\ Tenu(req[q].u, "corps")'
    BY <1>0, <1>2, <2>1, <2>2, Reste, CroitInchange DEF Detenir
  <2>5. /\ ~req'[q].compose => Cachable(req[q].u)'
        /\ ~req'[q].compose => (req[q].d.cond \/ Tenu(req[q].u, req[q].d.methode))'
    BY <2>1, <2>3
  <2>6. /\ req'[q].promis => Detenir(req[q].u, req[q].d)'
        /\ req'[q].promis => (Tenu(req[q].u, req[q].d.methode)
                               \/ (req[q].d.methode = "HEAD" /\ Tenu(req[q].u, "corps")))'
    BY <2>1, <2>4
  <2> QED
    BY <2>1, <2>5, <2>6, ArriveStatut
<1> QED
  BY <1>0, <1>1, <1>2, SansSuite DEF HorsBase

LEMMA HorsStatutTenable ==
    ASSUME Inv, NEW q \in Requete, Tenable(q), HorsStatut(q)
    PROVE  Tenable(q)'
<1> DEFINE u == req[q].u
           d == req[q].d
           o == magasin[u][d.methode]
<1>0. /\ UNCHANGED magasin /\ req[q].pc = "horsStatut" /\ u \in Url /\ d \in Demande
      /\ d.methode \in {"GET", "HEAD"} /\ o \in Objet
  BY Tient, DemandeType, InvParties DEF HorsStatut, MagasinType, Cle
<1>1. CASE Repond(q, "client", Rien)
  BY <1>1, RepondTenable, RienType DEF Sortes
<1>2. CASE Repond(q, "statut", o)
  <2> HIDE DEF o
  <2> QED
    BY <1>0, <1>2, RepondTenable DEF Sortes
<1>3. CASE ~d.cond /\ ~(Cachable(u) /\ o.code # 0) /\ Va(q, Tete(q))
  <2>1. req[q].compose
    BY <1>0, <1>3 DEF Tenable, Tenu
  <2>2. req[q].promis => Cachable(u) /\ d.methode = "HEAD" /\ Tenu(u, "corps")
    BY <1>0, <1>3 DEF Tenable, Tenu, Detenir
  <2>3. Tete(q) \in {"horsTete", "refus"} /\ (req[q].promis => Tete(q) = "horsTete")
    BY <2>2 DEF Tete
  <2> DEFINE n == Tete(q)
  <2> HIDE DEF n
  <2>4. /\ req'[q].u = req[q].u /\ req'[q].d = req[q].d /\ req'[q].pc = Tete(q)
        /\ req'[q].promis = req[q].promis /\ req'[q].compose = req[q].compose
    BY <1>3, <2>3, VaEffet DEF Etapes
  <2>5. req[q].promis => Detenir(u, d)' /\ Tenu(u, "corps")'
    BY <1>0, <2>2, <2>4, Reste, CroitInchange DEF Tenable
  <2> QED
    BY <2>1, <2>3, <2>4, <2>5 DEF Tenable, Repondu
<1> QED
  BY <1>1, <1>2, <1>3 DEF HorsStatut, RejouerStatut

LEMMA HorsTeteTenable ==
    ASSUME Inv, NEW q \in Requete, Signature[req[q].u] = None, Tenable(q), HorsTete(q)
    PROVE  Tenable(q)'
<1>0. /\ UNCHANGED magasin /\ req[q].pc = "horsTete" /\ req[q].u \in Url
      /\ Essayer(q, "corps", "refus", "perime")
  BY Tient, SansSuite DEF HorsTete
<1>1. /\ req'[q].u = req[q].u /\ req'[q].d = req[q].d /\ req'[q].pc = "sert"
      /\ req'[q].sinon = "refus" /\ req'[q].sorte = "perime" /\ req'[q].cle = "corps"
      /\ req'[q].promis = req[q].promis /\ req'[q].compose = req[q].compose
  BY <1>0, EssayerEffet, ZenonT(60) DEF Etapes, Sortes, Cle
<1>2. /\ req[q].promis => Detenir(req[q].u, req[q].d)' /\ Tenu(req[q].u, "corps")'
      /\ req[q].compose
  BY <1>0, <1>1, Reste, CroitInchange DEF Tenable
<1> QED
  BY <1>1, <1>2 DEF Tenable, Repondu

LEMMA RefuserTenable ==
    ASSUME Inv, NEW q \in Requete, Tenable(q), Refuser(q)
    PROVE  Tenable(q)'
<1>1. req[q].compose /\ ~req[q].promis /\ req'[q] = Reponse(q, "refus", Rien)
  BY Effet DEF Refuser, Repond, Tenable
<1>2. req'[q].pc = "repondu" /\ req'[q].compose /\ ~req'[q].promis
  BY <1>1, ReponduType, RienType DEF Inv, Sortes
<1> QED
  BY <1>2 DEF Tenable, Repondu

LEMMA ServirTenuTenable ==
    ASSUME Inv, NEW q \in Requete, Tenable(q), ServirTenu(q)
    PROVE  Tenable(q)'
<1> DEFINE o == magasin[req[q].u][req[q].cle]
           s == req[q].sorte
           n == req[q].sinon
<1>0. /\ o \in Objet /\ s \in Sortes \ {"refus"} /\ n \in Etapes /\ n \in Suites
      /\ UNCHANGED magasin /\ req[q].pc = "sert"
      /\ req[q].d.methode \in {"GET", "HEAD"}
  BY Tient, InvParties, DemandeType DEF Saine, ReqType, MagasinType, ServirTenu, Tenable
<1>1. CASE Repond(q, s, o)
  <2> HIDE DEF o, s
  <2> QED
    BY <1>0, <1>1, RepondTenable
<1>2. CASE ~Tenu(req[q].u, req[q].cle) /\ Va(q, n)
  <2>1. /\ req'[q].u = req[q].u /\ req'[q].d = req[q].d /\ req'[q].pc = n
        /\ req'[q].promis = req[q].promis /\ req'[q].compose = req[q].compose
    <3> HIDE DEF n
    <3> QED
      BY <1>0, <1>2, VaEffet
  <2>2. /\ req[q].promis => Detenir(req[q].u, req[q].d)
        /\ ~req[q].compose /\ n \in {"horsBase", "horsStatut"}
              => Repliable(req[q].u, req[q].d)
        /\ n = "horsStatut" => req[q].d.methode = "GET" /\ ~Tenu(req[q].u, "corps")
        /\ n = "renvoi" => req[q].compose
        /\ n = "refus" => req[q].compose /\ ~req[q].promis
        /\ n # "repos"
    BY <1>0, <1>2 DEF Tenable
  <2>3. n = "horsStatut" =>
           /\ ~req[q].compose => /\ Cachable(req[q].u)
                                 /\ req[q].d.cond \/ Tenu(req[q].u, req[q].d.methode)
           /\ req[q].promis => Tenu(req[q].u, req[q].d.methode)
    BY <2>2 DEF Repliable, Detient, Detenir
  <2>4. /\ req'[q].promis => Detenir(req[q].u, req[q].d)'
        /\ ~req'[q].compose /\ n \in {"horsBase", "horsStatut"}
              => Repliable(req[q].u, req[q].d)'
    BY <1>0, <2>1, <2>2, Reste, CroitInchange
  <2>5. n = "horsStatut" =>
           /\ ~req'[q].compose => Cachable(req[q].u)'
           /\ ~req'[q].compose => (req[q].d.cond \/ Tenu(req[q].u, req[q].d.methode))'
           /\ req'[q].promis => Tenu(req[q].u, req[q].d.methode)'
    BY <1>0, <2>1, <2>3, Reste, CroitInchange
  <2>6. /\ n = "renvoi" => req'[q].compose
        /\ n = "refus" => req'[q].compose /\ ~req'[q].promis
        /\ n \in Suites \ {"repos"}
    BY <1>0, <2>1, <2>2
  <2>7. CASE n = "horsStatut"
    <3>1. req'[q].promis => (Tenu(req[q].u, req[q].d.methode)
                             \/ (req[q].d.methode = "HEAD" /\ Tenu(req[q].u, "corps")))'
      BY <2>5, <2>7
    <3> QED
      BY <2>1, <2>4, <2>5, <2>7, <3>1, ArriveStatut
  <2>8. CASE n = "horsBase"
    BY <2>1, <2>4, <2>8 DEF Tenable, Repondu
  <2>9. CASE n = "renvoi"
    BY <2>1, <2>4, <2>6, <2>9 DEF Tenable, Repondu
  <2>10. CASE n = "refus"
    BY <2>1, <2>6, <2>10 DEF Tenable, Repondu
  <2> QED
    BY <2>6, <2>7, <2>8, <2>9, <2>10 DEF Suites
<1> QED
  BY <1>1, <1>2 DEF ServirTenu

LEMMA FinirTenable ==
    ASSUME Inv, NEW q \in Requete, Finir(q)
    PROVE  Tenable(q)'
<1>1. req'[q] = Oisif
  BY Effet DEF Finir
<1> QED
  BY <1>1, OisifType DEF Tenable, Repondu

\* What is written is an object, and nothing is erased.
LEMMA CommitCorpsCroit ==
    ASSUME Inv, NEW q \in Requete, CommitCorps(q)
    PROVE  Croit
<1>1. /\ magasin' = [magasin EXCEPT ![req[q].u]["corps"] = req[q].obj]
      /\ req[q].obj.code = 200 /\ req[q].u \in Url /\ MagasinType
  BY Tient, InvParties DEF CommitCorps, Gardable
<1> QED
  BY <1>1 DEF Croit, CroitDe, Tenu, MagasinType

LEMMA CommitStatutCroit ==
    ASSUME Inv, NEW q \in Requete, CommitStatut(q)
    PROVE  Croit
<1>1. /\ magasin' = [magasin EXCEPT ![req[q].u][req[q].d.methode] = req[q].obj]
      /\ req[q].obj.code # 0 /\ req[q].u \in Url /\ MagasinType
  BY Tient, InvParties DEF CommitStatut, Saine
<1> QED
  BY <1>1 DEF Croit, CroitDe, Tenu, MagasinType

LEMMA CopierCroit ==
    ASSUME Inv, NEW q \in Requete, Copier(q)
    PROVE  Croit
<1>1. CASE UNCHANGED magasin
  BY <1>1, CroitInchange
<1>2. CASE /\ Tenu(req[q].u, "corps")
           /\ magasin' = [magasin EXCEPT ![req[q].u][CleVariante(req[q].u, req[q].d)]
                             = magasin[req[q].u]["corps"]]
  BY <1>2, Tient, InvParties DEF Croit, CroitDe, Tenu, MagasinType
<1> QED
  BY <1>1, <1>2 DEF Copier

LEMMA PriseCommitCroit ==
    ASSUME Inv, NEW u \in Url, PriseCommit(u)
    PROVE  Croit
<1>1. /\ magasin' = [magasin EXCEPT ![u]["corps"] = prise[u].obj]
      /\ prise[u].obj.code = 200 /\ MagasinType
  BY InvParties DEF PriseCommit, PriseType
<1> QED
  BY <1>1 DEF Croit, CroitDe, Tenu, MagasinType

LEMMA AvancerCroit ==
    ASSUME Inv, NEW q \in Requete, Avancer(q)
    PROVE  Croit
<1>1. CASE UNCHANGED magasin
  BY <1>1, CroitInchange
<1>2. CASE CommitCorps(q) \/ CommitStatut(q) \/ Copier(q)
  BY <1>2, CommitCorpsCroit, CommitStatutCroit, CopierCroit
<1> QED
  BY <1>1, <1>2 DEF Avancer, ServirLocal, Preparer, EnvoiEpargne, EnvoiEchoue, EnvoiAbouti,
     Revalider, Relayer, HorsVariante, HorsBase, HorsStatut, HorsTete, Refuser, ServirTenu, Finir

LEMMA AvancerTenable ==
    ASSUME Inv, NEW q \in Requete, Signature[req[q].u] = None \/ req[q].pc = "repondu",
           Tenable(q), Avancer(q)
    PROVE  Tenable(q)'
<1>0. CroitDe(req[q].u)
  BY AvancerCroit, CroitPour
<1>1. CASE ServirLocal(q)
  BY <1>0, <1>1, ServirLocalTenable
<1>2. CASE Preparer(q) \/ EnvoiEpargne(q) \/ EnvoiEchoue(q) \/ EnvoiAbouti(q) \/ Revalider(q)
  BY <1>2, PreparerTenable, EnvoiEpargneTenable, EnvoiEchoueTenable, EnvoiAboutiTenable,
     RevaliderTenable
<1>3. CASE CommitCorps(q)
  BY <1>0, <1>3, CommitCorpsTenable
<1>4. CASE CommitStatut(q) \/ Relayer(q) \/ Copier(q)
  BY <1>4, AutresReponsesTenable
<1>5. CASE HorsVariante(q) \/ HorsBase(q) \/ HorsStatut(q) \/ HorsTete(q)
  <2>1. req[q].pc # "repondu"
    BY <1>5 DEF HorsVariante, HorsBase, HorsStatut, HorsTete
  <2> QED
    BY <1>5, <2>1, HorsVarianteTenable, HorsBaseTenable, HorsStatutTenable, HorsTeteTenable
<1>6. CASE Refuser(q) \/ ServirTenu(q) \/ Finir(q)
  BY <1>6, RefuserTenable, ServirTenuTenable, FinirTenable
<1> QED
  BY <1>1, <1>2, <1>3, <1>4, <1>5, <1>6 DEF Avancer

\* A step of a request is its own.
LEMMA SeulLeSien ==
    ASSUME Inv, NEW q \in Requete, Next
    PROVE  \/ Avancer(q)
           \/ req'[q] = req[q]
           \/ \E u \in Url, d \in Demande : req'[q] = [Oisif EXCEPT
                      !.pc = IF Classe[u] = "immuable" THEN "local" ELSE "prepare",
                      !.u = u, !.d = d, !.promis = Detenir(u, d)]
<1>1. ASSUME NEW p \in Requete, Demander(p), p # q PROVE req'[q] = req[q]
  BY <1>1 DEF Demander, Avance, Inv, TypeOK
<1>2. ASSUME Demander(q)
      PROVE  \E u \in Url, d \in Demande : req'[q] = [Oisif EXCEPT
                      !.pc = IF Classe[u] = "immuable" THEN "local" ELSE "prepare",
                      !.u = u, !.d = d, !.promis = Detenir(u, d)]
  BY <1>2, Effet DEF Demander
<1>3. ASSUME NEW p \in Requete, Avancer(p), p # q PROVE req'[q] = req[q]
  BY <1>3, AvancerInv
<1>4. ASSUME UNCHANGED req PROVE req'[q] = req[q]
  BY <1>4
<1>5. CASE \E p \in Requete : Demander(p) \/ Avancer(p)
  BY <1>1, <1>2, <1>3, <1>5
<1>6. CASE UNCHANGED req
  BY <1>6
<1> QED
  BY <1>5, <1>6 DEF Next, PriseEnvoi, PriseCommit, PriseCoupee, Oublier, Publier, Purger, Reseau,
     MuetEchoit

\* A request is for the same file until it is answered.
LEMMA AvancerUrl ==
    ASSUME Inv, NEW q \in Requete, Avancer(q), req'[q].pc # "repondu"
    PROVE  Finir(q) \/ (req[q].pc # "repondu" /\ req'[q].u = req[q].u)
<1>0. req[q] \in ReqType
  BY Tient DEF Saine
<1>1. ASSUME NEW n \in Etapes, Va(q, n) PROVE req'[q].u = req[q].u
  BY <1>1, VaEffet
<1>2. ASSUME NEW k \in Cle, NEW n \in Etapes, NEW s \in Sortes, Essayer(q, k, n, s)
      PROVE  req'[q].u = req[q].u
  BY <1>2, EssayerEffet
<1>3. ASSUME NEW s, NEW o, Repond(q, s, o) PROVE FALSE
  <2>1. req'[q] = Reponse(q, s, o)
    BY <1>3, Effet DEF Repond
  <2>2. req'[q].pc = "repondu"
    BY <2>1, OisifType DEF Reponse, ReqType
  <2> QED
    BY <2>2
<1>4. CASE ServirLocal(q)
  BY <1>1, <1>3, <1>4 DEF ServirLocal, Etapes
<1>5. CASE Preparer(q)
  <2> DEFINE u == req[q].u
             d == req[q].d
             a == Detient(u, d)
             b == VarianteTenue(u, d)
             v == Validateur(u, d)
             k == CleRevalidee(u, d)
             c == Cachable(u) /\ (Detient(u, d) \/ d.cond \/ Tenu(u, d.methode))
  <2>1. req'[q] = [req[q] EXCEPT !.pc = "envoi", !.detient = a, !.variante = b, !.valide = v,
                                 !.cle = k, !.repli = c]
    BY <1>5, Effet DEF Preparer
  <2> HIDE DEF a, b, v, k, c
  <2> QED
    BY <1>0, <1>5, <2>1 DEF Preparer, ReqType
<1>6. ASSUME NEW c, HorsLigne(q, c) PROVE req'[q].u = req[q].u
  <2>1. req'[q] = [Oisif EXCEPT !.pc = IF req[q].variante THEN "horsVariante" ELSE "horsBase",
                                !.u = req[q].u, !.d = req[q].d,
                                !.promis = req[q].promis, !.compose = c]
    BY <1>6, Effet DEF HorsLigne
  <2> QED
    BY <2>1, OisifType DEF ReqType
<1>7. CASE EnvoiEpargne(q) \/ EnvoiEchoue(q)
  BY <1>6, <1>7 DEF EnvoiEpargne, EnvoiEchoue
<1>8. CASE EnvoiAbouti(q)
  <2>1. ASSUME NEW o, Recoit(q, o) PROVE req'[q].u = req[q].u
    <3>1. req'[q] = [Oisif EXCEPT !.pc = "recu", !.u = req[q].u, !.d = req[q].d,
                                  !.detient = req[q].detient, !.obj = o]
      BY <2>1, Effet DEF Recoit
    <3> QED
      BY <3>1, OisifType DEF ReqType
  <2>2. ASSUME Avance(q, [req[q] EXCEPT !.pc = "rejoue", !.compose = TRUE])
        PROVE  req'[q].u = req[q].u
    BY <1>0, <2>2, Effet DEF ReqType
  <2> QED
    BY <1>3, <1>8, <2>1, <2>2 DEF EnvoiAbouti
<1>9. CASE Revalider(q)
  BY <1>0, <1>2, <1>9 DEF Revalider, ReqType, Etapes, Sortes
<1>10. CASE CommitCorps(q) \/ CommitStatut(q) \/ Relayer(q) \/ Copier(q) \/ Refuser(q)
  BY <1>1, <1>3, <1>10 DEF CommitCorps, CommitStatut, Relayer, Copier, Refuser, Etapes
<1>11. CASE HorsVariante(q)
  <2>1. CleVariante(req[q].u, req[q].d) \in Cle
    BY <1>11, Tient, DemandeType DEF HorsVariante, Saine, Cle
  <2> QED
    BY <1>1, <1>2, <1>11, <2>1 DEF HorsVariante, Etapes, Sortes
<1>12. CASE HorsBase(q) \/ HorsTete(q)
  BY <1>1, <1>2, <1>12 DEF HorsBase, HorsTete, Etapes, Sortes, Cle
<1>13. CASE HorsStatut(q)
  BY <1>1, <1>3, <1>13 DEF HorsStatut, RejouerStatut, Tete, Etapes
<1>14. CASE ServirTenu(q)
  BY <1>0, <1>1, <1>3, <1>14 DEF ServirTenu, ReqType
<1> QED
  BY <1>4, <1>5, <1>7, <1>8, <1>9, <1>10, <1>11, <1>12, <1>13, <1>14 DEF Avancer,
     ServirLocal, Preparer, EnvoiEpargne, EnvoiEchoue, EnvoiAbouti, Revalider, CommitCorps,
     CommitStatut, Relayer, Copier, Refuser, HorsVariante, HorsBase, HorsTete, HorsStatut, ServirTenu

LEMMA PromessesSuite ==
    ASSUME Inv, Promesses, [Next]_vars, [Menage]_vars
    PROVE  Promesses'
<1>1. CASE \E q \in Requete : Demander(q)
  <2>1. PICK q \in Requete : Demander(q)
    BY <1>1
  <2>2. PICK u \in Url, d \in Demande :
           /\ Avance(q, [Oisif EXCEPT !.pc = IF Classe[u] = "immuable" THEN "local" ELSE "prepare",
                                      !.u = u, !.d = d, !.promis = Detenir(u, d)])
           /\ UNCHANGED <<magasin, monde, muet, prise>>
    BY <2>1 DEF Demander
  <2>3. Tenable(q)'
    BY <2>2, DemanderTenable
  <2>4. Croit /\ \A p \in Requete \ {q} : req'[p] = req[p]
    BY <2>2, DemanderInv, CroitInchange
  <2> QED
    BY <2>3, <2>4, CroitPour, RestePromis DEF Promesses, NonSigne
<1>2. CASE \E q \in Requete : Avancer(q)
  <2>1. PICK q \in Requete : Avancer(q)
    BY <1>2
  <2>2. Croit /\ \A p \in Requete \ {q} : req'[p] = req[p]
    BY <2>1, AvancerCroit, AvancerInv
  <2>3. ASSUME NonSigne(q)' PROVE Tenable(q)'
    <3>1. CASE Finir(q)
      BY <3>1, FinirTenable
    <3>2. CASE ~Finir(q)
      <4>1. NonSigne(q) /\ (Signature[req[q].u] = None \/ req[q].pc = "repondu")
        BY <2>1, <2>3, <3>2, AvancerUrl, Tient DEF NonSigne
      <4> QED
        BY <2>1, <4>1, AvancerTenable DEF Promesses
    <3> QED
      BY <3>1, <3>2
  <2> QED
    BY <2>2, <2>3, CroitPour, RestePromis DEF Promesses, NonSigne
<1>3. CASE UNCHANGED req
  <2>1. \A p \in Requete : Travaille(p) => CroitDe(req[p].u)
    <3>1. CASE Menage
      BY <3>1 DEF Menage
    <3>2. CASE UNCHANGED vars
      BY <3>2, CroitInchange DEF vars
    <3> QED
      BY <3>1, <3>2
  <2> QED
    BY <1>3, <2>1, RestePromis DEF Promesses, NonSigne
<1> QED
  BY <1>1, <1>2, <1>3 DEF Next, PriseEnvoi, PriseCommit, PriseCoupee, Oublier, Purger, Publier,
     Reseau, MuetEchoit, vars

LEMMA PromessesDebut == Init => Promesses
BY OisifType DEF Init, Promesses, Tenable, Repondu

LEMMA PromessesTenues == Spec /\ [][Menage]_vars => []Promesses
BY InvTenu, PromessesDebut, PromessesSuite, PTL DEF Spec

\* Without erasures, there is nothing to take.
LEMMA SansEffacement ==
    ASSUME ~Effacements
    PROVE  Spec => [][Menage]_vars
<1>1. ASSUME Inv, [Next]_vars PROVE [Menage]_vars
  <2>1. ASSUME Croit PROVE Menage
    BY <1>1, <2>1, CroitPour DEF Menage
  <2>2. CASE UNCHANGED magasin
    BY <2>1, <2>2, CroitInchange
  <2>3. CASE \E q \in Requete : Avancer(q)
    BY <1>1, <2>1, <2>3, AvancerCroit
  <2>4. CASE \E u \in Url : PriseCommit(u)
    BY <1>1, <2>1, <2>4, PriseCommitCroit
  <2> QED
    BY <1>1, <2>2, <2>3, <2>4 DEF Next, Demander, PriseEnvoi, PriseCoupee, Oublier, Purger,
       Publier, Reseau, MuetEchoit, vars
<1> QED
  BY <1>1, InvTenu, PTL DEF Spec

\* detient.go:79 and proxy.go:343: a refusal, of a file that no signature vouches for, is of
\* one that --detient did not report as kept, after a dial, whatever is signed beside.
RefusMerite ==
    \A q \in Requete :
        req[q].pc # "repondu" /\ Signature[req[q].u] = None /\ Repondu(q, "refus")'
            => ~req'[q].promis /\ req'[q].compose

\* No request for an unsigned file is refused what --detient reported as kept, nor without a
\* dial, unless that file is erased while the request is at work: whatever the other requests,
\* signed files included, the other erasures and the cuts (detient.go:79, proxy.go:343).
THEOREM Refus == Spec /\ [][Menage]_vars => [][RefusMerite]_vars
<1>1. ASSUME Inv, Promesses, [Next]_vars PROVE [RefusMerite]_vars
  <2> SUFFICES ASSUME NEW q \in Requete, req[q].pc # "repondu", Signature[req[q].u] = None,
                      Repondu(q, "refus")', Next
               PROVE  ~req'[q].promis /\ req'[q].compose
    BY <1>1 DEF RefusMerite
  <2>1. Tenable(q)
    BY <1>1 DEF Promesses, NonSigne
  <2>2. Tenable(q)'
    <3>1. CASE Avancer(q)
      BY <1>1, <2>1, <3>1, AvancerTenable
    <3>2. CASE req'[q] = req[q]
      BY <3>2 DEF Repondu
    <3>3. CASE \E u \in Url, d \in Demande : req'[q] = [Oisif EXCEPT
                      !.pc = IF Classe[u] = "immuable" THEN "local" ELSE "prepare",
                      !.u = u, !.d = d, !.promis = Detenir(u, d)]
      BY <3>3, OisifType DEF Repondu, ReqType
    <3> QED
      BY <1>1, <3>1, <3>2, <3>3, SeulLeSien
  <2> QED
    BY <2>2 DEF Tenable, Repondu
<1> QED
  BY <1>1, InvTenu, PromessesTenues, PTL DEF Spec

\* detient.go:79: what --detient reports as kept is never refused, whatever the requests, the
\* erasures of other files and the cuts beside, when no signature is compared.
THEOREM Detention ==
    ASSUME \A u \in Url : Signature[u] = None
    PROVE  Spec /\ [][Menage]_vars => []DetentionTenue
<1>1. Promesses => DetentionTenue
  BY DEF Promesses, NonSigne, Tenable, DetentionTenue, Repondu
<1> QED
  BY <1>1, PromessesTenues, PTL

\* proxy.go:343: nobody is told 504 without a dial, under the same assumptions.
THEOREM Composition ==
    ASSUME \A u \in Url : Signature[u] = None
    PROVE  Spec /\ [][Menage]_vars => []CompositionTentee
<1>1. Promesses => CompositionTentee
  BY DEF Promesses, NonSigne, Tenable, CompositionTentee, Repondu
<1> QED
  BY <1>1, PromessesTenues, PTL

-------------------------------------------------------------------------------
(* What a request confirmed, copied or compared, and what the other requests,  *)
(* the background fetches, the erasures and the purges do to it meanwhile.     *)

\* The index about to be served is no later than its signature.
Accorde(q) ==
    LET u == req[q].u
        s == Signature[u]
    IN  /\ s # None /\ Classe[u] # "immuable" /\ Classe[s] # "immuable" /\ u \notin Varie
        /\ Tenu(s, "corps") /\ Tenu(u, req[q].cle)
        => magasin[u][req[q].cle].version <= magasin[s]["corps"].version

\* A response at hand is in the representation asked for.
Conforme(q) ==
    /\ req[q].pc = "recu" /\ req[q].u \in Varie /\ req[q].obj.code = 200
          /\ req[q].d.accept # None => req[q].obj.rep = req[q].d.accept
    /\ req[q].pc = "copie" =>
          req[q].u \in Varie /\ req[q].obj.rep = CleVariante(req[q].u, req[q].d)

Conformes == \A q \in Requete : Conforme(q)

Fidele(q) == Confirmee(q) /\ Conforme(q) /\ Deposee(q)

Juste(q) == Fidele(q) /\ (req[q].pc = "sert" /\ req[q].sorte = "perime" => Accorde(q))

\* No variant is kept of what the upstream does not vary.
Varies == \A u \in Url \ Varie, a \in Accept : ~Tenu(u, a)

VarianteJuste == \A u \in Url, a \in Accept : Propre(u, a)

Fidelite == VarianteJuste /\ Varies /\ \A q \in Requete : Fidele(q)

Justesse == Fidelite /\ \A q \in Requete : Juste(q)

\* Under the feet of the request: the fetches take only what never changes.
EffaceDe(u) == \A k \in Cle :
    magasin'[u][k] \in {magasin[u][k], Rien} \/ (Classe[u] = "immuable" /\ k = "corps")

Efface == \A u \in Url : EffaceDe(u)

LEMMA EffaceConfirmee ==
    ASSUME Inv, NEW q \in Requete, Travaille(q) => EffaceDe(req[q].u), req'[q] = req[q]
    PROVE  /\ Confirmee(q) => Confirmee(q)'
           /\ Deposee(q) => Deposee(q)'
           /\ Conforme(q) => Conforme(q)'
<1> DEFINE u == req[q].u
           k == req[q].cle
<1>0. u \in Url /\ k \in Cle /\ "corps" \in Cle /\ Rien.code = 0
  BY Tient, RienType DEF Saine, ReqType, Cle
<1>1. Conforme(q) => Conforme(q)'
  BY DEF Conforme, CleVariante
<1>2. CASE ~Travaille(q)
  BY <1>1, <1>2 DEF Travaille, Confirmee, Deposee, Repondu
<1>3. CASE EffaceDe(u)
  <2>1. Confirme(q) => Confirme(q)'
    BY <1>0, <1>3 DEF EffaceDe, Confirme, Tenu
  <2>2. magasin[u]["corps"] \in {req[q].obj, Rien} /\ Classe[u] # "immuable"
           => magasin'[u]["corps"] \in {req[q].obj, Rien}
    BY <1>0, <1>3 DEF EffaceDe
  <2>3. req[q].pc = "copie" => Classe[u] # "immuable"
    BY Tient, DemandeType DEF Saine
  <2> QED
    BY <1>1, <2>1, <2>2, <2>3 DEF Confirmee, Deposee, Repondu
<1> QED
  BY <1>2, <1>3

LEMMA EffaceFidele ==
    ASSUME Inv, NEW q \in Requete, Fidele(q), Travaille(q) => EffaceDe(req[q].u),
           req'[q] = req[q]
    PROVE  Fidele(q)'
BY EffaceConfirmee DEF Fidele

LEMMA EffaceJuste ==
    ASSUME Inv, NEW q \in Requete, Juste(q), req'[q] = req[q],
           Travaille(q) => /\ EffaceDe(req[q].u)
                           /\ Signature[req[q].u] \in Url => EffaceDe(Signature[req[q].u])
    PROVE  Juste(q)'
<1> DEFINE u == req[q].u
           k == req[q].cle
           s == Signature[u]
<1>0. u \in Url /\ k \in Cle /\ "corps" \in Cle /\ s \in Url \cup {None} /\ Rien.code = 0
  BY Tient, ProxyServeAssumption, RienType DEF Saine, ReqType, Cle
<1>1. Fidele(q)'
  BY EffaceFidele DEF Juste
<1>2. ASSUME req[q].pc = "sert", Accorde(q) PROVE Accorde(q)'
  <2> SUFFICES ASSUME s # None, Classe[u] # "immuable", Classe[s] # "immuable",
                      u \notin Varie, Tenu(s, "corps")', Tenu(u, k)'
               PROVE  magasin'[u][k].version <= magasin'[s]["corps"].version
    BY DEF Accorde
  <2>1. EffaceDe(u) /\ EffaceDe(s)
    BY <1>0, <1>2 DEF Travaille
  <2>2. magasin'[u][k] = magasin[u][k] /\ magasin'[s]["corps"] = magasin[s]["corps"]
    BY <1>0, <2>1 DEF EffaceDe, Tenu
  <2> QED
    BY <1>2, <2>2 DEF Accorde, Tenu
<1> QED
  BY <1>1, <1>2 DEF Juste

LEMMA EffaceVariantes ==
    ASSUME Inv, VarianteJuste, Varies, Efface
    PROVE  VarianteJuste' /\ Varies'
<1>1. \A u \in Url, a \in Accept : magasin'[u][a] \in {magasin[u][a], Rien}
  BY ProxyServeAssumption DEF Efface, EffaceDe, Cle
<1> QED
  BY <1>1, RienType DEF VarianteJuste, Propre, Varies, Tenu

LEMMA EffaceInchange == UNCHANGED magasin => Efface
BY DEF Efface, EffaceDe

\* An answer that does not claim a confirmation.
LEMMA RepondJuste ==
    ASSUME Inv, NEW q \in Requete, NEW s \in Sortes \ {"revalide"}, NEW o \in Objet,
           Repond(q, s, o)
    PROVE  Juste(q)'
<1>1. req'[q] = Reponse(q, s, o)
  BY Effet DEF Repond
<1>2. /\ req'[q].pc = "repondu" /\ req'[q].sorte = s
  BY <1>1, ReponduType DEF Inv
<1> QED
  BY <1>2 DEF Juste, Fidele, Confirmee, Conforme, Deposee, Repondu

\* A step that only goes elsewhere.
LEMMA VaJuste ==
    ASSUME NEW q \in Requete,
           req'[q].pc \notin {"envoi", "rejoue", "sert", "repondu", "recu", "copie"}
    PROVE  Juste(q)'
BY DEF Juste, Fidele, Confirmee, Conforme, Deposee, Repondu

LEMMA EssayerJuste ==
    ASSUME Inv, NEW q \in Requete, NEW k \in Cle, NEW n \in Etapes, Essayer(q, k, n, "perime"),
           UNCHANGED magasin, req[q].u \in Url, ~Incoherent(req[q].u),
           Varies, k \in {"corps"} \cup Accept
    PROVE  Juste(q)'
<1>1. /\ req'[q].u = req[q].u /\ req'[q].pc = "sert" /\ req'[q].cle = k
      /\ req'[q].sorte = "perime"
  BY EssayerEffet DEF Sortes
<1>2. Accorde(q)'
  <2> DEFINE u == req[q].u
             s == Signature[u]
  <2>1. SUFFICES ASSUME s # None, u \notin Varie, Tenu(s, "corps"), Tenu(u, k)
                 PROVE  magasin[u][k].version <= magasin[s]["corps"].version
    BY <1>1 DEF Accorde, Tenu
  <2>2. k = "corps"
    BY <2>1 DEF Varies
  <2>3. ~(magasin[u]["corps"].version > magasin[s]["corps"].version)
    BY <2>1, <2>2 DEF Incoherent
  <2>4. magasin[u]["corps"].version \in Int /\ magasin[s]["corps"].version \in Int
    BY <2>1, InvParties, ProxyServeAssumption DEF MagasinType, Cle, Objet
  <2> QED
    BY <2>2, <2>3, <2>4
<1> QED
  BY <1>1, <1>2 DEF Juste, Fidele, Confirmee, Conforme, Deposee, Repondu

LEMMA DemanderJuste ==
    ASSUME Inv, NEW q \in Requete, NEW u \in Url, NEW d \in Demande,
           Avance(q, [Oisif EXCEPT !.pc = IF Classe[u] = "immuable" THEN "local" ELSE "prepare",
                                   !.u = u, !.d = d, !.promis = Detenir(u, d)])
    PROVE  Juste(q)'
<1> DEFINE b == Detenir(u, d)
           r == [Oisif EXCEPT !.pc = IF Classe[u] = "immuable" THEN "local" ELSE "prepare",
                              !.u = u, !.d = d, !.promis = b]
<1>1. req'[q] = r
  BY Effet
<1>2. req'[q].pc \in {"local", "prepare"}
  <2> HIDE DEF b
  <2> QED
    BY <1>1, OisifType DEF ReqType
<1> QED
  BY <1>2, VaJuste

LEMMA ServirLocalJuste ==
    ASSUME Inv, NEW q \in Requete, ServirLocal(q)
    PROVE  Juste(q)'
<1> DEFINE o == magasin[req[q].u]["corps"]
<1>1. CASE Repond(q, "hit", o)
  <2>1. o \in Objet /\ "hit" \in Sortes \ {"revalide"}
    BY Tient, InvParties DEF MagasinType, Cle, Sortes
  <2> HIDE DEF o
  <2> QED
    BY <1>1, <2>1, RepondJuste
<1>2. CASE Va(q, "prepare")
  <2>1. req'[q].pc = "prepare"
    BY <1>2, VaEffet DEF Etapes
  <2> QED
    BY <2>1, VaJuste
<1> QED
  BY <1>1, <1>2 DEF ServirLocal

\* The validator is that of the object that will be served.
LEMMA PreparerJuste ==
    ASSUME Inv, NEW q \in Requete, Preparer(q)
    PROVE  Juste(q)'
<1> DEFINE u == req[q].u
           d == req[q].d
           a == Detient(u, d)
           b == VarianteTenue(u, d)
           v == Validateur(u, d)
           k == CleRevalidee(u, d)
           c == Cachable(u) /\ (Detient(u, d) \/ d.cond \/ Tenu(u, d.methode))
<1>1. req'[q] = [req[q] EXCEPT !.pc = "envoi", !.detient = a, !.variante = b, !.valide = v,
                               !.cle = k, !.repli = c]
  BY Effet DEF Preparer
<1>2. /\ req'[q].u = u /\ req'[q].pc = "envoi" /\ req'[q].valide = v /\ req'[q].cle = k
  <2> HIDE DEF a, b, c, v, k
  <2> QED
    BY <1>1, Tient DEF Saine, ReqType
<1>3. v # Rien => Classe[u] = "volatile" /\ magasin[u][k] = v
  BY DEF Validateur
<1>4. UNCHANGED magasin
  BY DEF Preparer
<1>5. v # Rien => Confirme(q)'
  <2> HIDE DEF u, v, k
  <2> QED
    BY <1>2, <1>3, <1>4 DEF Confirme
<1> HIDE DEF v
<1> QED
  BY <1>2, <1>5 DEF Juste, Fidele, Confirmee, Conforme, Deposee, Repondu

LEMMA HorsLigneJuste ==
    ASSUME Inv, NEW q \in Requete, EnvoiEpargne(q) \/ EnvoiEchoue(q)
    PROVE  Juste(q)'
<1>1. PICK c \in BOOLEAN : HorsLigne(q, c)
  BY Tient DEF EnvoiEpargne, EnvoiEchoue, Saine, ReqType
<1>2. req'[q] = [Oisif EXCEPT !.pc = IF req[q].variante THEN "horsVariante" ELSE "horsBase",
                              !.u = req[q].u, !.d = req[q].d,
                              !.promis = req[q].promis, !.compose = c]
  BY <1>1, Effet DEF HorsLigne
<1>3. req'[q].pc \in {"horsVariante", "horsBase"}
  BY <1>2, OisifType DEF ReqType
<1> QED
  BY <1>3, VaJuste

\* A response at hand is in the representation asked for.
LEMMA RecoitJuste ==
    ASSUME Inv, NEW q \in Requete, NEW r \in Reponses(req[q].u, req[q].d), Recoit(q, r)
    PROVE  Juste(q)'
<1>0. /\ req[q].u \in Url /\ req[q].d \in Demande
      /\ amont \in [Url -> 0 .. MaxVersion]
  BY Tient, InvParties
<1>1. req[q].d.accept \in Accept \cup {None}
  BY <1>0, DemandeType
<1>2. r.code = 200 /\ req[q].u \in Varie /\ req[q].d.accept # None => r.rep = req[q].d.accept
  BY <1>0, <1>1, ReponseType
<1> DEFINE e == req[q].detient
<1>3. req'[q] = [Oisif EXCEPT !.pc = "recu", !.u = req[q].u, !.d = req[q].d,
                              !.detient = e, !.obj = r]
  BY Effet DEF Recoit
<1>4. req'[q].pc = "recu" /\ req'[q].u = req[q].u /\ req'[q].d = req[q].d /\ req'[q].obj = r
  <2> HIDE DEF e
  <2> QED
    BY <1>3, OisifType DEF ReqType
<1> QED
  BY <1>2, <1>4 DEF Juste, Fidele, Confirmee, Conforme, Deposee, Repondu

\* A 304 confirms what the validator was taken from.
LEMMA EnvoiAboutiJuste ==
    ASSUME Inv, NEW q \in Requete, Fidele(q), EnvoiAbouti(q)
    PROVE  Juste(q)'
<1>0. /\ UNCHANGED magasin /\ Saine(req[q]) /\ req[q].u \in Url /\ req[q].d \in Demande
      /\ amont \in [Url -> 0 .. MaxVersion]
  BY Tient, InvParties DEF EnvoiAbouti
<1>1. CASE Repond(q, "client", Rien)
  BY <1>1, RepondJuste, RienType DEF Sortes
<1>2. CASE \E r \in Reponses(req[q].u, req[q].d) :
             IF req[q].pc = "envoi" /\ req[q].valide = r /\ r.code = 200
             THEN Avance(q, [req[q] EXCEPT !.pc = "rejoue", !.compose = TRUE])
             ELSE Recoit(q, r)
  <2>1. PICK r \in Reponses(req[q].u, req[q].d) :
             IF req[q].pc = "envoi" /\ req[q].valide = r /\ r.code = 200
             THEN Avance(q, [req[q] EXCEPT !.pc = "rejoue", !.compose = TRUE])
             ELSE Recoit(q, r)
    BY <1>2
  <2>2. CASE /\ req[q].pc = "envoi" /\ req[q].valide = r /\ r.code = 200
             /\ Avance(q, [req[q] EXCEPT !.pc = "rejoue", !.compose = TRUE])
    <3>1. /\ req'[q].u = req[q].u /\ req'[q].pc = "rejoue"
          /\ req'[q].valide = req[q].valide /\ req'[q].cle = req[q].cle
      <4>1. req'[q] = [req[q] EXCEPT !.pc = "rejoue", !.compose = TRUE]
        BY <2>2, Effet
      <4>2. req[q] \in ReqType
        BY <1>0 DEF Saine
      <4> QED
        BY <4>1, <4>2 DEF ReqType
    <3>2. Confirme(q)
      BY <2>2, RienType DEF Juste, Fidele, Confirmee, Conforme, Deposee
    <3>3. Confirme(q)'
      BY <1>0, <3>1, <3>2 DEF Confirme, Tenu
    <3> QED
      BY <3>1, <3>3 DEF Juste, Fidele, Confirmee, Conforme, Deposee, Repondu
  <2>3. CASE Recoit(q, r)
    BY <2>3, RecoitJuste
  <2> QED
    BY <2>1, <2>2, <2>3
<1> QED
  BY <1>1, <1>2 DEF EnvoiAbouti

LEMMA RevaliderJuste ==
    ASSUME Inv, NEW q \in Requete, Fidele(q), Revalider(q)
    PROVE  Juste(q)'
<1>0. /\ UNCHANGED magasin /\ Confirme(q) /\ req[q].cle \in Cle
      /\ Essayer(q, req[q].cle, "renvoi", "revalide")
  BY Tient DEF Revalider, Juste, Fidele, Confirmee, Conforme, Deposee, Saine, ReqType
<1>1. /\ req'[q].u = req[q].u /\ req'[q].pc = "sert" /\ req'[q].sorte = "revalide"
      /\ req'[q].cle = req[q].cle /\ req'[q].valide = req[q].valide
  BY <1>0, EssayerEffet, ZenonT(60) DEF Etapes, Sortes
<1>2. Confirme(q)'
  BY <1>0, <1>1 DEF Confirme, Tenu
<1> QED
  BY <1>1, <1>2 DEF Juste, Fidele, Confirmee, Conforme, Deposee, Repondu

\* The body is there for Copier, in the representation of the client.
LEMMA CommitCorpsFidele ==
    ASSUME Inv, NEW q \in Requete, Conforme(q), CommitCorps(q)
    PROVE  Juste(q)'
<1> DEFINE u == req[q].u
           o == req[q].obj
<1>0. /\ magasin' = [magasin EXCEPT ![u]["corps"] = o] /\ o \in Objet
      /\ o.code = 200 /\ u \in Url /\ req[q].d \in Demande /\ MagasinType
      /\ req[q].pc = "recu"
  BY Tient, InvParties DEF CommitCorps, Gardable, Saine, ReqType
<1>1. magasin'[u]["corps"] = o
  BY <1>0 DEF MagasinType, Cle
<1>2. CASE Repond(q, "amont", o)
  BY <1>0, <1>2, RepondJuste DEF Sortes
<1>3. CASE u \in Varie /\ CleVariante(u, req[q].d) # None /\ Va(q, "copie")
  <2>1. req'[q].u = u /\ req'[q].d = req[q].d /\ req'[q].pc = "copie" /\ req'[q].obj = o
    BY <1>3, VaEffet DEF Etapes
  <2>2. o.rep = CleVariante(u, req[q].d)
    BY <1>0, <1>3, DemandeType DEF Conforme
  <2>3. o.rep = CleVariante(req[q].u, req[q].d)'
    BY <2>1, <2>2 DEF CleVariante
  <2> QED
    BY <1>1, <1>3, <2>1, <2>3 DEF Juste, Fidele, Confirmee, Conforme, Deposee, Repondu
<1> QED
  BY <1>2, <1>3 DEF CommitCorps

\* The commits are under other keys than those of the representations.
LEMMA VariantesIntactes ==
    ASSUME Inv, NEW q \in Requete, CommitCorps(q) \/ CommitStatut(q)
    PROVE  \A v \in Url, a \in Accept : magasin'[v][a] = magasin[v][a]
<1>1. PICK k \in {"corps", "GET", "HEAD"} :
         magasin' = [magasin EXCEPT ![req[q].u][k] = req[q].obj]
  BY Tient, DemandeType DEF CommitCorps, CommitStatut
<1>2. MagasinType /\ \A a \in Accept : a \in Cle /\ a # k
  BY InvParties, ProxyServeAssumption DEF Cle
<1> QED
  BY <1>1, <1>2 DEF MagasinType

LEMMA CommitCorpsJuste ==
    ASSUME Inv, VarianteJuste, Varies, NEW q \in Requete, Fidele(q), CommitCorps(q)
    PROVE  VarianteJuste' /\ Varies' /\ Juste(q)'
<1>1. Juste(q)'
  BY CommitCorpsFidele DEF Fidele
<1> QED
  BY <1>1, VariantesIntactes DEF VarianteJuste, Propre, Varies, Tenu

LEMMA CommitStatutJuste ==
    ASSUME Inv, VarianteJuste, Varies, NEW q \in Requete, CommitStatut(q)
    PROVE  VarianteJuste' /\ Varies' /\ Juste(q)'
<1>1. req[q].obj \in Objet /\ Repond(q, "amont", req[q].obj)
  BY Tient DEF CommitStatut, Saine, ReqType
<1>2. VarianteJuste' /\ Varies'
  BY VariantesIntactes DEF VarianteJuste, Propre, Varies, Tenu
<1> QED
  BY <1>1, <1>2, RepondJuste DEF Sortes

LEMMA CopierJuste ==
    ASSUME Inv, VarianteJuste, Varies, NEW q \in Requete, Fidele(q), Copier(q)
    PROVE  VarianteJuste' /\ Varies' /\ Juste(q)'
<1> DEFINE u == req[q].u
           k == CleVariante(u, req[q].d)
           o == magasin[u]["corps"]
<1>0. /\ u \in Url /\ req[q].obj \in Objet /\ MagasinType /\ Repond(q, "amont", req[q].obj)
      /\ k \in Accept /\ u \in Varie /\ req[q].obj.rep = k /\ o \in {req[q].obj, Rien}
  BY Tient, DemandeType, InvParties DEF Copier, Saine, ReqType, Juste, Fidele, Confirmee, Conforme, Deposee
<1>1. Juste(q)'
  BY <1>0, RepondJuste DEF Sortes
<1>2. CASE UNCHANGED magasin
  BY <1>1, <1>2 DEF VarianteJuste, Propre, Varies, Tenu
<1>3. CASE Tenu(u, "corps") /\ magasin' = [magasin EXCEPT ![u][k] = o]
  <2>1. o.rep = k
    BY <1>0, <1>3, RienType DEF Tenu
  <2> HIDE DEF u, k, o
  <2>2. /\ magasin'[u][k] = o
        /\ \A v \in Url, a \in Accept : v # u \/ a # k => magasin'[v][a] = magasin[v][a]
    BY <1>0, <1>3 DEF MagasinType, Cle
  <2>3. VarianteJuste'
    BY <2>1, <2>2 DEF VarianteJuste, Propre, Tenu
  <2>4. Varies'
    BY <1>0, <2>2 DEF Varies, Tenu
  <2> QED
    BY <1>1, <2>3, <2>4
<1> QED
  BY <1>2, <1>3 DEF Copier

LEMMA HorsJuste ==
    ASSUME Inv, Varies, NEW q \in Requete, HorsVariante(q) \/ HorsBase(q) \/ HorsTete(q)
    PROVE  Juste(q)'
<1> DEFINE v == CleVariante(req[q].u, req[q].d)
<1>0. /\ UNCHANGED magasin /\ req[q].u \in Url
      /\ req[q].pc = "horsVariante" => v \in Accept
  BY Tient, DemandeType DEF HorsVariante, HorsBase, HorsTete, Saine
<1>1. CASE \E n \in {"horsBase", "horsStatut", "refus"} : Va(q, n)
  BY <1>1, VaEffet, VaJuste DEF Etapes
<1>2. CASE \E k \in {"corps"} \cup Accept, n \in {"horsBase", "horsStatut", "refus"} :
              Essayer(q, k, n, "perime") /\ ~Incoherent(req[q].u)
  <2>1. PICK k \in {"corps"} \cup Accept, n \in {"horsBase", "horsStatut", "refus"} :
              Essayer(q, k, n, "perime") /\ ~Incoherent(req[q].u)
    BY <1>2
  <2>2. k \in Cle /\ n \in Etapes
    BY DEF Cle, Etapes
  <2> QED
    BY <1>0, <2>1, <2>2, EssayerJuste
<1> HIDE DEF v
<1> QED
  BY <1>0, <1>1, <1>2 DEF HorsVariante, HorsBase, HorsTete, v

LEMMA HorsStatutJuste ==
    ASSUME Inv, NEW q \in Requete, HorsStatut(q)
    PROVE  Juste(q)'
<1> DEFINE o == magasin[req[q].u][req[q].d.methode]
<1>1. o \in Objet
  BY Tient, DemandeType, InvParties DEF MagasinType, Cle
<1>2. \/ Repond(q, "client", Rien) \/ Repond(q, "statut", o)
      \/ Va(q, "horsTete") \/ Va(q, "refus")
  BY DEF HorsStatut, RejouerStatut, Tete
<1> HIDE DEF o
<1>3. CASE Repond(q, "client", Rien) \/ Repond(q, "statut", o)
  BY <1>1, <1>3, RepondJuste, RienType DEF Sortes
<1>4. CASE Va(q, "horsTete") \/ Va(q, "refus")
  BY <1>4, VaEffet, VaJuste DEF Etapes
<1> QED
  BY <1>2, <1>3, <1>4

\* What leaves the store is what was confirmed.
LEMMA ServirTenuJuste ==
    ASSUME Inv, NEW q \in Requete, Fidele(q), ServirTenu(q)
    PROVE  Juste(q)'
<1> DEFINE o == magasin[req[q].u][req[q].cle]
           s == req[q].sorte
           n == req[q].sinon
<1>0. /\ o \in Objet /\ s \in Sortes /\ n \in Suites /\ n \in Etapes
      /\ UNCHANGED magasin /\ req[q].pc = "sert"
  BY Tient, InvParties DEF Saine, ReqType, MagasinType, ServirTenu
<1>1. CASE Repond(q, s, o) /\ s # "revalide"
  <2> HIDE DEF o, s
  <2> QED
    BY <1>0, <1>1, RepondJuste
<1>2. CASE Repond(q, s, o) /\ s = "revalide" /\ Tenu(req[q].u, req[q].cle)
  <2>1. o = req[q].valide
    BY <1>0, <1>2 DEF Juste, Fidele, Confirmee, Conforme, Deposee, Confirme
  <2>2. /\ req'[q].pc = "repondu" /\ req'[q].obj = o /\ req'[q].valide = req[q].valide
    <3> HIDE DEF o, s
    <3>1. req'[q] = Reponse(q, s, o)
      BY <1>2, Effet DEF Repond
    <3> QED
      BY <1>0, <1>2, <3>1, ReponduType DEF Inv
  <2> QED
    BY <2>1, <2>2 DEF Juste, Fidele, Confirmee, Conforme, Deposee
<1>3. CASE Va(q, n)
  <2> HIDE DEF n
  <2>1. req'[q].pc \in {"repos", "renvoi", "horsBase", "horsStatut", "refus"}
    BY <1>0, <1>3, VaEffet DEF Suites
  <2> QED
    BY <2>1, VaJuste
<1> QED
  BY <1>1, <1>2, <1>3 DEF ServirTenu

LEMMA AvancerJuste ==
    ASSUME Inv, VarianteJuste, Varies, NEW q \in Requete, Fidele(q), Avancer(q)
    PROVE  VarianteJuste' /\ Varies' /\ Juste(q)'
<1>1. CASE UNCHANGED magasin
  <2>1. VarianteJuste' /\ Varies'
    BY <1>1, EffaceInchange, EffaceVariantes
  <2>2. CASE ServirLocal(q) \/ Preparer(q) \/ EnvoiEpargne(q) \/ EnvoiEchoue(q)
             \/ EnvoiAbouti(q) \/ Revalider(q)
    BY <2>1, <2>2, ServirLocalJuste, PreparerJuste, HorsLigneJuste, EnvoiAboutiJuste, RevaliderJuste
  <2>3. CASE HorsVariante(q) \/ HorsBase(q) \/ HorsStatut(q) \/ HorsTete(q) \/ ServirTenu(q)
    BY <2>1, <2>3, HorsJuste, HorsStatutJuste, ServirTenuJuste
  <2>4. CASE Relayer(q) \/ Refuser(q)
    <3>1. req[q].obj \in Objet
      BY Tient DEF Saine, ReqType
    <3> QED
      BY <2>1, <2>4, <3>1, RepondJuste, RienType DEF Relayer, Refuser, Sortes
  <2>5. CASE Finir(q)
    <3>1. req'[q].pc = "repos"
      BY <2>5, Effet, OisifType DEF Finir
    <3> QED
      BY <2>1, <3>1, VaJuste
  <2>6. CASE CommitCorps(q) \/ CommitStatut(q) \/ Copier(q)
    BY <2>6, CommitCorpsJuste, CommitStatutJuste, CopierJuste
  <2> QED
    BY <2>2, <2>3, <2>4, <2>5, <2>6 DEF Avancer
<1>2. CASE CommitCorps(q) \/ CommitStatut(q) \/ Copier(q)
  BY <1>2, CommitCorpsJuste, CommitStatutJuste, CopierJuste
<1> QED
  BY <1>1, <1>2 DEF Avancer, ServirLocal, Preparer, EnvoiEpargne, EnvoiEchoue, EnvoiAbouti,
     Revalider, Relayer, HorsVariante, HorsBase, HorsStatut, HorsTete, Refuser, ServirTenu, Finir

LEMMA PriseEfface ==
    ASSUME Inv, NEW u \in Url, PriseCommit(u)
    PROVE  Efface
<1>1. /\ magasin' = [magasin EXCEPT ![u]["corps"] = prise[u].obj]
      /\ Classe[u] = "immuable" /\ MagasinType
  BY InvParties DEF PriseCommit, PriseType
<1> QED
  BY <1>1 DEF Efface, EffaceDe, MagasinType, Cle

LEMMA OublierEfface ==
    ASSUME Inv, NEW u \in Url, Oublier(u)
    PROVE  Efface
<1>1. /\ magasin' = [magasin EXCEPT ![u] = [[magasin[u] EXCEPT !["corps"] = Rien] EXCEPT !["GET"] = Rien]]
      /\ MagasinType
  BY InvParties DEF Oublier, MagasinType
<1> QED
  BY <1>1 DEF Efface, EffaceDe, MagasinType

LEMMA PurgerEfface ==
    ASSUME Inv, NEW u \in Url, NEW k \in Cle, Purger(u, k)
    PROVE  Efface
<1>1. magasin' = [magasin EXCEPT ![u][k] = Rien] /\ MagasinType
  BY InvParties DEF Purger
<1> QED
  BY <1>1 DEF Efface, EffaceDe, MagasinType

\* A step of a request touches no file but its own, and that one in three ways.
LEMMA AvancerAilleurs ==
    ASSUME Inv, NEW q \in Requete, Avancer(q)
    PROVE  /\ \A u \in Url \ {req[q].u} : magasin'[u] = magasin[u] /\ EffaceDe(u)
           /\ UNCHANGED magasin \/ Travaille(q)
           /\ UNCHANGED magasin \/ CommitCorps(q) \/ CommitStatut(q) \/ Copier(q)
<1>1. CASE UNCHANGED magasin
  BY <1>1 DEF EffaceDe
<1>2. CASE CommitCorps(q) \/ CommitStatut(q) \/ Copier(q)
  <2>1. /\ req[q].u \in Url /\ MagasinType /\ Travaille(q)
        /\ \/ UNCHANGED magasin
           \/ \E k, o : magasin' = [magasin EXCEPT ![req[q].u][k] = o]
    BY <1>2, Tient, InvParties DEF CommitCorps, CommitStatut, Copier, Travaille
  <2>2. ASSUME NEW u \in Url \ {req[q].u} PROVE magasin'[u] = magasin[u]
    <3>1. CASE UNCHANGED magasin
      BY <3>1
    <3>2. ASSUME NEW k, NEW o, magasin' = [magasin EXCEPT ![req[q].u][k] = o]
          PROVE  magasin'[u] = magasin[u]
      BY <2>1, <3>2 DEF MagasinType
    <3> QED
      BY <2>1, <3>1, <3>2
  <2> QED
    BY <1>2, <2>1, <2>2 DEF EffaceDe
<1> QED
  BY <1>1, <1>2 DEF Avancer, ServirLocal, Preparer, EnvoiEpargne, EnvoiEchoue, EnvoiAbouti,
     Revalider, Relayer, HorsVariante, HorsBase, HorsStatut, HorsTete, Refuser, ServirTenu, Finir

\* What is not a step of a request takes things away, or brings what never changes.
LEMMA AutresEffacent ==
    ASSUME Inv, [Next]_vars
    PROVE  \/ \E q \in Requete : Demander(q) \/ Avancer(q)
           \/ Efface /\ UNCHANGED req
<1>1. CASE \E u \in Url : PriseEnvoi(u) \/ PriseCommit(u) \/ PriseCoupee(u)
  BY <1>1, EffaceInchange, PriseEfface DEF PriseEnvoi, PriseCommit, PriseCoupee
<1>2. CASE \E u \in Url : Oublier(u) \/ Publier(u) \/ \E k \in Cle : Purger(u, k)
  BY <1>2, EffaceInchange, OublierEfface, PurgerEfface DEF Oublier, Purger, Publier
<1>3. CASE Reseau \/ MuetEchoit \/ UNCHANGED vars
  BY <1>3, EffaceInchange DEF Reseau, MuetEchoit, vars
<1> QED
  BY <1>1, <1>2, <1>3 DEF Next

-------------------------------------------------------------------------------
(* Whatever requests are at work on one file: what a 304 lets out, and what a  *)
(* variant key holds, is departed from by a crossing of requests alone.        *)

\* The steps that neither bring a response nor store one.
LEMMA AvancerSansReponse ==
    ASSUME Inv, NEW q \in Requete,
           \/ Revalider(q) \/ ServirTenu(q)
           \/ HorsVariante(q) \/ HorsBase(q) \/ HorsTete(q)
    PROVE  /\ req'[q].pc \notin {"recu", "copie"}
           /\ HorsVariante(q) \/ HorsBase(q) \/ HorsTete(q) => Confirmee(q)'
<1> DEFINE u == req[q].u
           d == req[q].d
           v == CleVariante(u, d)
           o == magasin[u][req[q].cle]
           s == req[q].sorte
           n == req[q].sinon
           k == req[q].cle
<1>0. /\ o \in Objet /\ s \in Sortes /\ n \in Suites /\ n \in Etapes /\ k \in Cle
      /\ req[q].pc = "horsVariante" => v \in Cle
      /\ "corps" \in Cle
  BY Tient, DemandeType, InvParties DEF Saine, ReqType, MagasinType, Cle
<1>1. CASE Revalider(q)
  <2>1. req'[q].pc = "sert"
    BY <1>0, <1>1, EssayerEffet DEF Revalider, Etapes, Sortes
  <2> QED
    BY <1>1, <2>1 DEF Revalider, HorsVariante, HorsBase, HorsTete
<1>2. CASE ServirTenu(q)
  <2>1. CASE Repond(q, s, o)
    <3> HIDE DEF o, s
    <3>1. req'[q] = Reponse(q, s, o)
      BY <2>1, Effet DEF Repond
    <3> QED
      BY <1>0, <1>2, <3>1, ReponduType DEF Inv, ServirTenu, HorsVariante, HorsBase, HorsTete
  <2>2. CASE Va(q, n)
    <3> HIDE DEF n
    <3>1. req'[q].pc \in Suites
      BY <1>0, <2>2, VaEffet
    <3> QED
      BY <1>2, <3>1 DEF Suites, ServirTenu, HorsVariante, HorsBase, HorsTete
  <2> QED
    BY <1>2, <2>1, <2>2 DEF ServirTenu
<1>3. CASE HorsVariante(q) \/ HorsBase(q) \/ HorsTete(q)
  <2>1. \/ \E p \in {"horsBase", "horsStatut", "refus"} : Va(q, p)
        \/ \E j \in Cle, p \in {"horsBase", "horsStatut", "refus"} : Essayer(q, j, p, "perime")
    <3> HIDE DEF v
    <3>1. CASE HorsVariante(q)
      BY <1>0, <3>1 DEF HorsVariante, v
    <3>2. CASE HorsBase(q)
      BY <1>0, <3>2 DEF HorsBase
    <3>3. CASE HorsTete(q)
      BY <1>0, <3>3 DEF HorsTete
    <3> QED
      BY <1>3, <3>1, <3>2, <3>3
  <2>2. \/ req'[q].pc \in {"horsBase", "horsStatut", "refus"}
        \/ req'[q].pc = "sert" /\ req'[q].sorte = "perime"
    <3>1. ASSUME NEW p \in {"horsBase", "horsStatut", "refus"}, Va(q, p)
          PROVE  req'[q].pc = p
      BY <3>1, VaEffet DEF Etapes
    <3>2. ASSUME NEW j \in Cle, NEW p \in {"horsBase", "horsStatut", "refus"},
                 Essayer(q, j, p, "perime")
          PROVE  req'[q].pc = "sert" /\ req'[q].sorte = "perime"
      <4>1. p \in Etapes /\ "perime" \in Sortes
        BY DEF Etapes, Sortes
      <4> QED
        BY <3>2, <4>1, EssayerEffet, ZenonT(60)
    <3> QED
      BY <2>1, <3>1, <3>2
  <2> QED
    BY <2>2 DEF Confirmee, Repondu
<1> QED
  BY <1>1, <1>2, <1>3

LEMMA EnvoiAboutiConforme ==
    ASSUME Inv, NEW q \in Requete, EnvoiAbouti(q)
    PROVE  Conforme(q)' /\ Deposee(q)'
<1>1. CASE Repond(q, "client", Rien)
  <2>1. Juste(q)'
    BY <1>1, RepondJuste, RienType DEF Sortes
  <2> QED
    BY <2>1 DEF Juste, Fidele
<1>2. ASSUME NEW r \in Reponses(req[q].u, req[q].d), Recoit(q, r)
      PROVE  Conforme(q)' /\ Deposee(q)'
  <2>1. Juste(q)'
    BY <1>2, RecoitJuste
  <2> QED
    BY <2>1 DEF Juste, Fidele
<1>3. CASE Avance(q, [req[q] EXCEPT !.pc = "rejoue", !.compose = TRUE])
  <2>1. req'[q] = [req[q] EXCEPT !.pc = "rejoue", !.compose = TRUE] /\ req[q] \in ReqType
    BY <1>3, Effet, Tient DEF Saine
  <2>2. req'[q].pc = "rejoue"
    BY <2>1 DEF ReqType
  <2> QED
    BY <2>2 DEF Conforme, Deposee
<1> QED
  BY <1>1, <1>2, <1>3 DEF EnvoiAbouti

\* What the step of a request leaves of its own beliefs.
LEMMA AvancerSien ==
    ASSUME Inv, NEW q \in Requete, Conforme(q), Avancer(q)
    PROVE  /\ Conforme(q)' /\ Deposee(q)'
           /\ Confirmee(q) => Confirmee(q)'
<1>1. ASSUME Juste(q)' PROVE Conforme(q)' /\ Deposee(q)' /\ Confirmee(q)'
  BY <1>1 DEF Juste, Fidele
<1>2. ASSUME Confirmee(q), req[q].pc \notin {"recu", "copie"} PROVE Fidele(q)
  BY <1>2 DEF Fidele, Conforme, Deposee
<1>3. CASE ServirLocal(q) \/ Preparer(q) \/ EnvoiEpargne(q) \/ EnvoiEchoue(q) \/ HorsStatut(q)
  BY <1>1, <1>3, ServirLocalJuste, PreparerJuste, HorsLigneJuste, HorsStatutJuste
<1>4. CASE CommitCorps(q)
  BY <1>1, <1>4, CommitCorpsFidele
<1>5. CASE CommitStatut(q) \/ Relayer(q) \/ Copier(q) \/ Refuser(q)
  <2>1. \E s \in {"amont", "refus"}, o \in Objet : Repond(q, s, o)
    BY <1>5, Tient, RienType DEF Saine, ReqType, CommitStatut, Relayer, Copier, Refuser
  <2>2. Juste(q)'
    BY <2>1, RepondJuste DEF Sortes
  <2> QED
    BY <1>1, <2>2
<1>6. CASE Finir(q)
  <2>1. req'[q].pc = "repos"
    BY <1>6, Effet, OisifType DEF Finir
  <2>2. Juste(q)'
    BY <2>1, VaJuste
  <2> QED
    BY <1>1, <2>2
<1>7. CASE EnvoiAbouti(q)
  <2>1. Confirmee(q) => Fidele(q)
    BY <1>2, <1>7 DEF EnvoiAbouti
  <2>2. Confirmee(q) => Juste(q)'
    BY <1>7, <2>1, EnvoiAboutiJuste
  <2> QED
    BY <1>1, <1>7, <2>2, EnvoiAboutiConforme
<1>8. CASE Revalider(q) \/ ServirTenu(q)
  <2>1. Confirmee(q) => Fidele(q)
    BY <1>2, <1>8 DEF Revalider, ServirTenu
  <2>2. Confirmee(q) => Juste(q)'
    BY <1>8, <2>1, RevaliderJuste, ServirTenuJuste
  <2>3. req'[q].pc \notin {"recu", "copie"}
    BY <1>8, AvancerSansReponse
  <2>4. Conforme(q)' /\ Deposee(q)'
    BY <2>3 DEF Conforme, Deposee
  <2> QED
    BY <1>1, <2>2, <2>4
<1>9. CASE HorsVariante(q) \/ HorsBase(q) \/ HorsTete(q)
  <2>1. req'[q].pc \notin {"recu", "copie"} /\ Confirmee(q)'
    BY <1>9, AvancerSansReponse
  <2> QED
    BY <2>1 DEF Conforme, Deposee
<1> QED
  BY <1>3, <1>4, <1>5, <1>6, <1>7, <1>8, <1>9 DEF Avancer

\* A step of one request leaves those of another, unless it crosses it.
LEMMA AvancerAutrui ==
    ASSUME Inv, NEW q \in Requete, Avancer(q), NEW p \in Requete \ {q}
    PROVE  /\ Conforme(p) => Conforme(p)'
           /\ Confirmee(p) => Confirmee(p)' \/ Croise(p, req[p].cle)
           /\ Deposee(p) => Deposee(p)' \/ Croise(p, "corps")
<1>1. req'[p] = req[p] /\ req[p].u \in Url
  BY AvancerInv, Tient
<1>2. ASSUME NEW k, ~Croise(p, k)
      PROVE  magasin'[req[p].u][k] = magasin[req[p].u][k]
  <2>1. CASE req[p].u # req[q].u
    BY <1>1, <2>1, AvancerAilleurs
  <2>2. CASE UNCHANGED magasin
    BY <2>2
  <2>3. CASE req[p].u = req[q].u /\ (CommitCorps(q) \/ CommitStatut(q) \/ Copier(q))
    BY <1>2, <2>3 DEF Croise
  <2> QED
    BY <2>1, <2>2, <2>3, AvancerAilleurs
<1>3. Conforme(p) => Conforme(p)'
  BY <1>1 DEF Conforme, CleVariante
<1>4. ASSUME Confirmee(p), ~Croise(p, req[p].cle) PROVE Confirmee(p)'
  <2>1. magasin'[req[p].u][req[p].cle] = magasin[req[p].u][req[p].cle]
    BY <1>2, <1>4
  <2>2. Confirme(p) => Confirme(p)'
    BY <1>1, <2>1 DEF Confirme, Tenu
  <2> QED
    BY <1>1, <1>4, <2>2 DEF Confirmee, Repondu
<1>5. ASSUME Deposee(p), ~Croise(p, "corps") PROVE Deposee(p)'
  <2>1. magasin'[req[p].u]["corps"] = magasin[req[p].u]["corps"]
    BY <1>2, <1>5
  <2> QED
    BY <1>1, <1>5, <2>1 DEF Deposee
<1> QED
  BY <1>3, <1>4, <1>5

\* Every step keeps what a request believes of its response, and of the store but
\* for a crossing.
LEMMA Croyances ==
    ASSUME Inv, Conformes, [Next]_vars, NEW q \in Requete
    PROVE  /\ Conforme(q)'
           /\ Confirmee(q) => Confirmee(q)' \/ Croise(q, req[q].cle)
           /\ Deposee(q) => Deposee(q)' \/ Croise(q, "corps")
<1>0. Conforme(q)
  BY DEF Conformes
<1>1. CASE \E p \in Requete : Demander(p)
  <2>1. PICK p \in Requete : Demander(p)
    BY <1>1
  <2>2. Juste(p)' /\ UNCHANGED magasin /\ \A r \in Requete \ {p} : req'[r] = req[r]
    BY <2>1, DemanderJuste, DemanderInv DEF Demander
  <2>3. CASE q = p
    BY <2>2, <2>3 DEF Juste, Fidele
  <2>4. CASE q # p
    <3>1. req'[q] = req[q] /\ EffaceDe(req[q].u)
      BY <2>2, <2>4, EffaceInchange DEF EffaceDe
    <3> QED
      BY <1>0, <3>1, EffaceConfirmee
  <2> QED
    BY <2>3, <2>4
<1>2. CASE \E p \in Requete : Avancer(p)
  <2>1. PICK p \in Requete : Avancer(p)
    BY <1>2
  <2>2. CASE q = p
    BY <1>0, <2>1, <2>2, AvancerSien
  <2>3. CASE q # p
    BY <1>0, <2>1, <2>3, AvancerAutrui
  <2> QED
    BY <2>2, <2>3
<1>3. CASE Efface /\ UNCHANGED req
  <2>1. req'[q] = req[q] /\ EffaceDe(req[q].u)
    BY <1>3, Tient DEF Efface
  <2> QED
    BY <1>0, <2>1, EffaceConfirmee
<1> QED
  BY <1>1, <1>2, <1>3, AutresEffacent

LEMMA ConformesTenus == Spec => []Conformes
<1>1. Init => Conformes
  BY OisifType DEF Init, Conformes, Conforme
<1>2. Inv /\ Conformes /\ [Next]_vars => Conformes'
  BY Croyances DEF Conformes
<1> QED
  BY <1>1, <1>2, InvTenu, PTL DEF Spec

\* The copy under a variant key stays that of its clients, but for a Copier whose
\* body another request has replaced.
LEMMA PropreDUnPas ==
    ASSUME Inv, Conformes, [Next]_vars, NEW u \in Url, NEW a \in Accept, Propre(u, a)
    PROVE  \/ Propre(u, a)'
           \/ \E q \in Requete : /\ Copier(q) /\ ~Deposee(q)
                                 /\ u = req[q].u /\ a = CleVariante(u, req[q].d)
<1>1. CASE magasin'[u][a] \in {magasin[u][a], Rien}
  BY <1>1, RienType DEF Propre, Tenu
<1>2. CASE Efface
  <2>1. magasin'[u][a] \in {magasin[u][a], Rien}
    BY <1>2, ProxyServeAssumption DEF Efface, EffaceDe, Cle
  <2> QED
    BY <1>1, <2>1
<1>3. CASE \E q \in Requete : Demander(q)
  <2>1. UNCHANGED magasin
    BY <1>3 DEF Demander
  <2> QED
    BY <1>2, <2>1, EffaceInchange
<1>4. ASSUME NEW q \in Requete, Avancer(q)
      PROVE  \/ Propre(u, a)'
             \/ Copier(q) /\ ~Deposee(q) /\ u = req[q].u /\ a = CleVariante(u, req[q].d)
  <2>1. CASE UNCHANGED magasin
    BY <1>2, <2>1, EffaceInchange DEF Propre, Tenu
  <2>2. CASE CommitCorps(q) \/ CommitStatut(q)
    BY <2>2, VariantesIntactes DEF Propre, Tenu
  <2>3. CASE Copier(q) /\ ~UNCHANGED magasin
    <3> DEFINE k == CleVariante(req[q].u, req[q].d)
               o == magasin[req[q].u]["corps"]
    <3>1. /\ magasin' = [magasin EXCEPT ![req[q].u][k] = o]
          /\ Tenu(req[q].u, "corps") /\ req[q].u \in Url /\ k \in Accept /\ k \in Cle
          /\ MagasinType /\ a \in Cle /\ req[q].pc = "copie"
      BY <2>3, Tient, DemandeType, InvParties DEF Copier, Saine, Cle
    <3> HIDE DEF k, o
    <3>2. CASE u = req[q].u /\ a = k
      <4>1. magasin'[u][a] = o
        BY <3>1, <3>2 DEF MagasinType
      <4>2. ASSUME Deposee(q) PROVE o.rep = a
        <5>1. o = req[q].obj
          BY <3>1, <4>2, RienType DEF Deposee, Tenu, o
        <5>2. req[q].obj.rep = k
          BY <3>1 DEF Conformes, Conforme, k
        <5> QED
          BY <3>2, <5>1, <5>2
      <4>3. Deposee(q) => Propre(u, a)'
        BY <4>1, <4>2 DEF Propre
      <4> QED
        BY <2>3, <3>2, <4>3 DEF k
    <3>3. CASE u # req[q].u \/ a # k
      <4>1. magasin'[u][a] = magasin[u][a]
        BY <3>1, <3>3 DEF MagasinType
      <4> QED
        BY <4>1 DEF Propre, Tenu
    <3> QED
      BY <3>2, <3>3
  <2> QED
    BY <1>4, <2>1, <2>2, <2>3, AvancerAilleurs
<1> QED
  BY <1>2, <1>3, <1>4, AutresEffacent

\* proxy.go:304: an idle request is confirmed, and stays so at every step, its own, those of
\* the other requests for any file, of the fetches, the erasures and the purges, up to the
\* answer it takes from the store, unless another request stores something else under that
\* very key of that very file: whatever is concurrent, a 304 that lets out what it did not
\* confirm comes after such a crossing, during the request.
THEOREM Revalidation == Spec => [][RevalidePas]_vars
<1>1. Inv /\ Conformes /\ [Next]_vars => [RevalidePas]_vars
  BY Croyances DEF RevalidePas
<1> QED
  BY <1>1, InvTenu, ConformesTenus, PTL DEF Spec

\* proxy.go:535: the copy under a variant key is the representation that the client of that
\* key accepts, and stays so at every step, whatever requests are at work on the file, but
\* for the copy by a request whose body another request has replaced since it stored it.
THEOREM Variantes == Spec => [][VariantePas]_vars
<1>1. Inv /\ Conformes /\ [Next]_vars => [VariantePas]_vars
  BY Croyances, PropreDUnPas DEF VariantePas
<1> QED
  BY <1>1, InvTenu, ConformesTenus, PTL DEF Spec

-------------------------------------------------------------------------------
(* An index and its signature compared offline, by requests that are apart.    *)

\* The files that requests are at work on are different ones.
Separees ==
    \A p, q \in Requete : p # q /\ Travaille(p) /\ Travaille(q) => req[p].u # req[q].u

\* Neither is any of them the signature of another.
SuitesSeparees ==
    /\ Separees
    /\ \A p, q \in Requete :
          p # q /\ Travaille(p) /\ Travaille(q) => req[p].u # Signature[req[q].u]

LEMMA FideliteSuite ==
    ASSUME Inv, Separees, Fidelite, [Next]_vars
    PROVE  Fidelite'
<1>0. VarianteJuste /\ Varies /\ \A q \in Requete : Fidele(q)
  BY DEF Fidelite
<1>1. CASE \E q \in Requete : Demander(q)
  <2>1. PICK q \in Requete : Demander(q)
    BY <1>1
  <2>2. Juste(q)' /\ UNCHANGED magasin /\ \A p \in Requete \ {q} : req'[p] = req[p]
    BY <2>1, DemanderJuste, DemanderInv DEF Demander
  <2>3. Efface
    BY <2>2, EffaceInchange
  <2>4. VarianteJuste' /\ Varies'
    BY <1>0, <2>3, EffaceVariantes
  <2>5. \A p \in Requete \ {q} : Fidele(p)'
    BY <1>0, <2>2, <2>3, Tient, EffaceFidele DEF Efface
  <2> QED
    BY <2>2, <2>4, <2>5 DEF Fidelite, Juste
<1>2. CASE \E q \in Requete : Avancer(q)
  <2>1. PICK q \in Requete : Avancer(q)
    BY <1>2
  <2>2. VarianteJuste' /\ Varies' /\ Juste(q)'
    BY <1>0, <2>1, AvancerJuste
  <2>3. ASSUME NEW p \in Requete \ {q} PROVE Fidele(p)'
    <3>1. req'[p] = req[p]
      BY <2>1, AvancerInv
    <3>2. Travaille(p) => EffaceDe(req[p].u)
      BY <2>1, AvancerAilleurs, Tient, EffaceInchange DEF Separees, Efface
    <3> QED
      BY <1>0, <3>1, <3>2, EffaceFidele
  <2> QED
    BY <2>2, <2>3 DEF Fidelite, Juste
<1>3. CASE Efface /\ UNCHANGED req
  <2>1. VarianteJuste' /\ Varies'
    BY <1>0, <1>3, EffaceVariantes
  <2>2. \A p \in Requete : Fidele(p)'
    BY <1>0, <1>3, Tient, EffaceFidele DEF Efface
  <2> QED
    BY <2>1, <2>2 DEF Fidelite
<1> QED
  BY <1>1, <1>2, <1>3, AutresEffacent

LEMMA JustesseSuite ==
    ASSUME Inv, SuitesSeparees, Justesse, [Next]_vars
    PROVE  Justesse'
<1>0. Fidelite /\ Separees /\ Fidelite' /\ \A q \in Requete : Juste(q)
  BY FideliteSuite DEF Justesse, SuitesSeparees
<1>1. CASE \E q \in Requete : Demander(q)
  <2>1. PICK q \in Requete : Demander(q)
    BY <1>1
  <2>2. Juste(q)' /\ UNCHANGED magasin /\ \A p \in Requete \ {q} : req'[p] = req[p]
    BY <2>1, DemanderJuste, DemanderInv DEF Demander
  <2>3. \A p \in Requete \ {q} : Juste(p)'
    BY <1>0, <2>2, Tient, EffaceInchange, EffaceJuste DEF Efface
  <2> QED
    BY <1>0, <2>2, <2>3 DEF Justesse
<1>2. CASE \E q \in Requete : Avancer(q)
  <2>1. PICK q \in Requete : Avancer(q)
    BY <1>2
  <2>2. Juste(q)'
    BY <1>0, <2>1, AvancerJuste DEF Fidelite
  <2>3. ASSUME NEW p \in Requete \ {q} PROVE Juste(p)'
    <3>1. req'[p] = req[p]
      BY <2>1, AvancerInv
    <3>2. Travaille(p) => /\ EffaceDe(req[p].u)
                          /\ Signature[req[p].u] \in Url => EffaceDe(Signature[req[p].u])
      BY <2>1, AvancerAilleurs, Tient, EffaceInchange DEF SuitesSeparees, Separees, Efface
    <3> QED
      BY <1>0, <3>1, <3>2, EffaceJuste
  <2> QED
    BY <1>0, <2>2, <2>3 DEF Justesse
<1>3. CASE Efface /\ UNCHANGED req
  <2>1. \A p \in Requete : Juste(p)'
    BY <1>0, <1>3, Tient, EffaceJuste DEF Efface
  <2> QED
    BY <1>0, <2>1 DEF Justesse
<1> QED
  BY <1>1, <1>2, <1>3, AutresEffacent

LEMMA JustesseDebut == Init => Justesse
<1> SUFFICES ASSUME Init PROVE Justesse
  OBVIOUS
<1>1. \A q \in Requete : req[q] = Oisif
  BY DEF Init
<1>2. \A u \in Url : \A k \in Cle : magasin[u][k] = Rien
  BY DEF Init
<1>3. VarianteJuste /\ Varies
  BY <1>2, RienType DEF VarianteJuste, Propre, Varies, Tenu, Cle
<1>4. \A q \in Requete : Juste(q)
  BY <1>1, OisifType DEF Juste, Fidele, Confirmee, Conforme, Deposee, Repondu
<1> QED
  BY <1>3, <1>4 DEF Justesse, Fidelite, Juste

LEMMA JustesseTenue == Spec /\ []SuitesSeparees => []Justesse
BY InvTenu, JustesseDebut, JustesseSuite, PTL DEF Spec

LEMMA SuiteDUnPas ==
    ASSUME Inv, Justesse, [Next]_vars,
           \A u \in Url : Signature[u] # None =>
               u \notin Varie /\ Classe[u] # "immuable" /\ Classe[Signature[u]] # "immuable"
    PROVE  SuitePas
<1> SUFFICES ASSUME NEW q \in Requete, req[q].pc = "sert", req[q].sorte = "perime",
                    req'[q].pc = "repondu", Signature[req[q].u] # None,
                    Tenu(Signature[req[q].u], "corps")
             PROVE  req'[q].obj.version <= magasin[Signature[req[q].u]]["corps"].version
  BY DEF SuitePas
<1> DEFINE u == req[q].u
           o == magasin[u][req[q].cle]
<1>1. u \in Url /\ o \in Objet /\ req[q].sorte \in Sortes /\ req[q].sinon \in Suites
  BY Tient, InvParties DEF Saine, ReqType, MagasinType
<1>2. ServirTenu(q)
  <2>1. CASE \E p \in Requete : Demander(p)
    <3>1. \E p \in Requete : req[p].pc = "repos" /\ \A r \in Requete \ {p} : req'[r] = req[r]
      BY <2>1, DemanderInv DEF Demander
    <3> QED
      BY <3>1
  <2>2. CASE \E p \in Requete : Avancer(p)
    <3>1. PICK p \in Requete : Avancer(p)
      BY <2>2
    <3>2. p = q
      BY <3>1, AvancerInv
    <3> QED
      BY <3>1, <3>2 DEF Avancer, ServirLocal, Preparer, EnvoiEpargne, EnvoiEchoue, EnvoiAbouti,
         Revalider, CommitCorps, CommitStatut, Relayer, Copier, HorsVariante, HorsBase, HorsStatut,
         HorsTete, Refuser, Finir
  <2>3. CASE UNCHANGED req
    BY <2>3
  <2> QED
    BY <2>1, <2>2, <2>3 DEF Next, vars, PriseEnvoi, PriseCommit, PriseCoupee, Oublier, Publier,
       Purger, Reseau, MuetEchoit
<1>3. Tenu(u, req[q].cle) /\ Repond(q, req[q].sorte, o)
  <2>1. CASE Va(q, req[q].sinon)
    BY <1>1, <2>1, VaEffet DEF Suites, Etapes
  <2> QED
    BY <1>2, <2>1 DEF ServirTenu
<1>4. req'[q].obj = o
  <2>1. req'[q] = Reponse(q, req[q].sorte, o)
    BY <1>3, Effet DEF Repond
  <2> QED
    BY <1>1, <2>1, ReponduType DEF Inv
<1>5. o.version <= magasin[Signature[u]]["corps"].version
  BY <1>1, <1>3 DEF Justesse, Juste, Accorde
<1> QED
  BY <1>4, <1>5

\* instantane.go:24: as long as no two requests are at work on one file, nor on an index and
\* its signature, an index that is later than the signature kept for its suite is not served
\* offline.  Neither may be taken by a background fetch, which only takes what never changes,
\* nor the index be kept in several representations.
THEOREM SuiteAccordee ==
    ASSUME \A u \in Url : Signature[u] # None =>
               u \notin Varie /\ Classe[u] # "immuable" /\ Classe[Signature[u]] # "immuable"
    PROVE  Spec /\ []SuitesSeparees => SuiteCoherente
BY InvTenu, JustesseTenue, SuiteDUnPas, PTL DEF Spec, SuiteCoherente
================================================================================
