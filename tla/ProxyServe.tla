------------------------------ MODULE ProxyServe ------------------------------
(***************************************************************************)
(* What the download cache does with one request, proxy.go: serve, with    *)
(* fetch, completer, serveFromStore and rejouerStatut, and what offline    *)
(* serving refuses (instantane.go) and promises (detient.go).              *)
(*                                                                         *)
(* The store is taken at the grain of its complete objects: CacheStore     *)
(* models how one of them appears and goes.  A response of the upstream is *)
(* a status, a representation and a version; its ETag names the last two.  *)
(* Redirections and the git mirror (module GitMirror) are left out.        *)
(***************************************************************************)
EXTENDS Integers

CONSTANTS
    Url,
    Classe,        \* Classe[u]: "immuable", "volatile" or "nostore"
    Portable,      \* URLs stored without their host: any mirror, even late
    Signature,     \* Signature[u]: the InRelease that vouches for u, or None
    Accept,        \* the representations a client may ask for
    Defaut,        \* the one it gets when it asks for none
    Varie,         \* URLs whose upstream answers "Vary: Accept"
    Demande,       \* the requests clients make
    Requete,       \* requests at work: one goroutine each
    Effacements,   \* may objects be erased?
    Coupures,      \* may the network go?
    MaxVersion,    \* bound on the versions of the upstream
    None

ASSUME ProxyServeAssumption ==
    /\ Classe \in [Url -> {"immuable", "volatile", "nostore"}]
    /\ Portable \subseteq Url
    /\ Signature \in [Url -> Url \cup {None}]
    /\ Url # {} /\ None \notin Url \cup Accept
    /\ Defaut \in Accept /\ Accept \cap {"corps", "GET", "HEAD"} = {}
    /\ Varie \subseteq Url
    /\ Demande \subseteq [methode : {"GET", "HEAD"}, accept : Accept \cup {None},
                          cond : BOOLEAN, plage : BOOLEAN]
    /\ Demande # {}
    /\ Effacements \in BOOLEAN
    /\ Coupures \in BOOLEAN
    /\ MaxVersion \in Nat

VARIABLES
    magasin,   \* magasin[u][k]: the object of u under key k
    amont,     \* amont[u]: the version of u at the upstream, 0 when it has none
    reseau,    \* the upstream can be reached
    muet,      \* Muets: it is known not to answer
    req,       \* req[q]: the progress of a request
    prise      \* prise[u]: the background fetch of the whole of u

vars == <<magasin, amont, reseau, muet, req, prise>>

\* CleDe, CleStatut for each method, CleVariante for each representation.
Cle == {"corps", "GET", "HEAD"} \cup Accept

Objet == [code : {0, 200, 404}, rep : Accept, version : 0 .. MaxVersion]
Rien == [code |-> 0, rep |-> Defaut, version |-> 0]

Etapes == {"repos", "local", "prepare", "envoi", "rejoue", "renvoi", "recu", "copie",
           "horsVariante", "horsBase", "horsStatut", "horsTete", "refus",
           "sert", "repondu"}

Sortes == {"aucune", "hit", "revalide", "perime", "client", "statut", "refus", "amont"}

Oisif == [pc |-> "repos", u |-> CHOOSE u \in Url : TRUE, d |-> CHOOSE d \in Demande : TRUE,
          detient |-> FALSE, variante |-> FALSE, valide |-> Rien, repli |-> FALSE,
          compose |-> FALSE, promis |-> FALSE, cle |-> "corps", sinon |-> "repos",
          sorte |-> "aucune", obj |-> Rien]

TypeOK ==
    /\ magasin \in [Url -> [Cle -> Objet]]
    /\ amont \in [Url -> 0 .. MaxVersion]
    /\ {reseau, muet} \subseteq BOOLEAN
    /\ req \in [Requete -> [pc : Etapes, u : Url, d : Demande, detient : BOOLEAN,
                            variante : BOOLEAN, valide : Objet, repli : BOOLEAN,
                            compose : BOOLEAN, promis : BOOLEAN, cle : Cle,
                            sinon : Etapes, sorte : Sortes, obj : Objet]]
    /\ prise \in [Url -> [pc : {"aucune", "envoi", "recu"}, obj : Objet]]
    \* Bodies are kept for GET alone, statuses under their own keys.
    /\ \A u \in Url : /\ \A k \in {"corps"} \cup Accept : magasin[u][k].code # 404
                      /\ magasin[u]["GET"].code # 200

Init ==
    /\ magasin = [u \in Url |-> [k \in Cle |-> Rien]]
    /\ amont = [u \in Url |-> 0]
    /\ reseau = TRUE
    /\ muet = FALSE
    /\ req = [q \in Requete |-> Oisif]
    /\ prise = [u \in Url |-> [pc |-> "aucune", obj |-> Rien]]

monde == <<amont, reseau>>

-------------------------------------------------------------------------------
(* Reading the store and classifying a request.                            *)

Tenu(u, k) == magasin[u][k].code # 0

Cachable(u) == Classe[u] # "nostore"

\* Detient: HEAD never has a body under its own key.
Detient(u, d) == Cachable(u) /\ d.methode = "GET" /\ Tenu(u, "corps")

\* A slip: every client is given the same variant key.
CleVarianteUnique(u, d) ==
    IF Classe[u] = "volatile" /\ d.methode = "GET" /\ ~d.plage /\ d.accept # None
    THEN Defaut ELSE None

\* The key of the representation this client accepts, None when it has none.
CleVariante(u, d) ==
    IF Classe[u] = "volatile" /\ d.methode = "GET" /\ ~d.plage THEN d.accept ELSE None

VarianteTenue(u, d) == CleVariante(u, d) # None /\ Tenu(u, CleVariante(u, d))

\* cleRevalidee.
CleRevalidee(u, d) == IF VarianteTenue(u, d) THEN CleVariante(u, d) ELSE "corps"

\* What the request asks the upstream to confirm, Rien when nothing.
Validateur(u, d) ==
    IF /\ Detient(u, d) \/ VarianteTenue(u, d)
       /\ Classe[u] = "volatile" /\ d.methode = "GET" /\ ~d.plage /\ ~d.cond
       /\ u \notin Portable
    THEN magasin[u][CleRevalidee(u, d)]
    ELSE Rien

\* A slip: the dates are compared the wrong way round.
IncoherentALEnvers(u) ==
    /\ Signature[u] # None
    /\ Tenu(Signature[u], "corps")
    /\ Tenu(u, "corps")
    /\ magasin[u]["corps"].version < magasin[Signature[u]]["corps"].version

\* indexIncoherent: the index is later than the signature that announces it.
Incoherent(u) ==
    /\ Signature[u] # None
    /\ Tenu(Signature[u], "corps")
    /\ Tenu(u, "corps")
    /\ magasin[u]["corps"].version > magasin[Signature[u]]["corps"].version

\* Detenir: the verdict of --detient is not "absent".
Detenir(u, d) ==
    /\ Cachable(u)
    /\ \/ Tenu(u, "corps")
       \/ Tenu(u, d.methode) /\ (d.methode = "HEAD" => Classe[u] = "volatile" /\ u \notin Portable)

\* What an upstream may answer to a plain request: a mirror may lag.
Reponses(u, d) ==
    {IF v = 0 THEN [Rien EXCEPT !.code = 404]
     ELSE [code |-> 200, version |-> v,
           rep |-> IF u \in Varie /\ d.accept # None THEN d.accept ELSE Defaut] :
     v \in IF u \in Portable THEN 0 .. amont[u] ELSE {amont[u]}}

Avance(q, champs) == req' = [req EXCEPT ![q] = champs]

Va(q, pc) == Avance(q, [req[q] EXCEPT !.pc = pc])

\* An answered request keeps its answer and what that one is compared with.
Reponse(q, sorte, obj) ==
    [Oisif EXCEPT !.pc = "repondu", !.sorte = sorte, !.obj = obj,
                  !.valide = IF sorte = "revalide" THEN req[q].valide ELSE Rien,
                  !.promis = sorte = "refus" /\ req[q].promis,
                  !.compose = sorte = "refus" /\ req[q].compose]

Repond(q, sorte, obj) == Avance(q, Reponse(q, sorte, obj))

\* Try the body under cle, and go to sinon when it is not there.
Essayer(q, cle, sinon, sorte) ==
    Avance(q, [req[q] EXCEPT !.pc = "sert", !.cle = cle, !.sinon = sinon, !.sorte = sorte])

-------------------------------------------------------------------------------
(* Before the upstream.                                                    *)

Demander(q) ==
    \E u \in Url, d \in Demande :
        /\ req[q].pc = "repos"
        /\ Avance(q, [Oisif EXCEPT !.pc = IF Classe[u] = "immuable" THEN "local" ELSE "prepare",
                                   !.u = u, !.d = d, !.promis = Detenir(u, d)])
        /\ UNCHANGED <<magasin, monde, muet, prise>>

ServirLocal(q) ==
    LET u == req[q].u
        d == req[q].d
    IN  /\ req[q].pc = "local"
        /\ IF Detient(u, d)
           THEN Repond(q, "hit", magasin[u]["corps"]) /\ UNCHANGED prise
           ELSE /\ Va(q, "prepare")
                /\ prise' = IF d.plage /\ d.methode = "GET" /\ prise[u].pc = "aucune"
                            THEN [prise EXCEPT ![u].pc = "envoi"]
                            ELSE prise
        /\ UNCHANGED <<magasin, monde, muet>>

\* What the store holds is read here, once for the whole request.
Preparer(q) ==
    LET u == req[q].u
        d == req[q].d
    IN  /\ req[q].pc = "prepare"
        /\ Avance(q, [req[q] EXCEPT
              !.pc = "envoi",
              !.detient = Detient(u, d),
              !.variante = VarianteTenue(u, d),
              !.valide = Validateur(u, d),
              !.cle = CleRevalidee(u, d),
              !.repli = Cachable(u) /\ (Detient(u, d) \/ d.cond \/ Tenu(u, d.methode))])
        /\ UNCHANGED <<magasin, monde, muet, prise>>

-------------------------------------------------------------------------------
(* fetch: an upstream known not to answer is spared when there is a        *)
(* fallback; every other attempt dials.                                    *)

\* A slip: the dial is spared even without a fallback.
EpargneToujours(q) == muet

Epargne(q) == req[q].repli /\ muet

\* The rest of serve reads no more than these of its local variables.
HorsLigne(q, compose) ==
    Avance(q, [Oisif EXCEPT !.pc = IF req[q].variante THEN "horsVariante" ELSE "horsBase",
                            !.u = req[q].u, !.d = req[q].d,
                            !.promis = req[q].promis,
                            !.compose = compose])

Recoit(q, obj) ==
    Avance(q, [Oisif EXCEPT !.pc = "recu", !.u = req[q].u, !.d = req[q].d,
                            !.detient = req[q].detient, !.obj = obj])

EnvoiEpargne(q) ==
    /\ req[q].pc \in {"envoi", "renvoi"}
    /\ Epargne(q)
    /\ HorsLigne(q, req[q].compose)
    /\ UNCHANGED <<magasin, monde, muet, prise>>

EnvoiEchoue(q) ==
    /\ req[q].pc \in {"envoi", "renvoi"}
    /\ ~Epargne(q)
    /\ ~reseau
    /\ muet' = TRUE
    /\ HorsLigne(q, TRUE)
    /\ UNCHANGED <<magasin, monde, prise>>

\* The condition of the client leaves only with a body in store.
CondTransmise(q) == req[q].d.cond /\ (req[q].d.methode = "GET" => req[q].detient)

EnvoiAbouti(q) ==
    /\ req[q].pc \in {"envoi", "renvoi"}
    /\ ~Epargne(q)
    /\ reseau
    /\ muet' = FALSE
    /\ \/ \E r \in Reponses(req[q].u, req[q].d) :
             IF req[q].pc = "envoi" /\ req[q].valide = r /\ r.code = 200
             THEN Avance(q, [req[q] EXCEPT !.pc = "rejoue", !.compose = TRUE])
             ELSE Recoit(q, r)
       \/ /\ CondTransmise(q)
          /\ amont[req[q].u] # 0
          /\ Repond(q, "client", Rien)
    /\ UNCHANGED <<magasin, monde, prise>>

\* A slip: the base leaves when the validator was that of the variant.
RevaliderLaBase(q) ==
    /\ req[q].pc = "rejoue"
    /\ Essayer(q, "corps", "renvoi", "revalide")
    /\ UNCHANGED <<magasin, monde, muet, prise>>

\* 304 on our own validator: our copy leaves, or the request starts again.
Revalider(q) ==
    /\ req[q].pc = "rejoue"
    /\ Essayer(q, req[q].cle, "renvoi", "revalide")
    /\ UNCHANGED <<magasin, monde, muet, prise>>

-------------------------------------------------------------------------------
(* The response goes to the client, and to the store.                      *)

Gardable(q) ==
    /\ Cachable(req[q].u) /\ ~req[q].d.plage
    /\ req[q].d.methode = "GET" /\ req[q].obj.code = 200

\* A slip: a body that is kept is also kept as a status.
StatutAussi(q) ==
    /\ Classe[req[q].u] = "volatile" /\ ~req[q].d.plage
    /\ req[q].u \notin Portable
    /\ ~req[q].detient

StatutSeul(q) ==
    /\ ~Gardable(q)
    /\ Classe[req[q].u] = "volatile" /\ ~req[q].d.plage
    /\ req[q].u \notin Portable
    /\ ~req[q].detient

CommitCorps(q) ==
    LET u == req[q].u
        d == req[q].d
    IN  /\ req[q].pc = "recu"
        /\ Gardable(q)
        /\ magasin' = [magasin EXCEPT ![u]["corps"] = req[q].obj]
        /\ IF u \in Varie /\ CleVariante(u, d) # None THEN Va(q, "copie")
                                               ELSE Repond(q, "amont", req[q].obj)
        /\ UNCHANGED <<monde, muet, prise>>

CommitStatut(q) ==
    /\ req[q].pc = "recu"
    /\ StatutSeul(q)
    /\ magasin' = [magasin EXCEPT ![req[q].u][req[q].d.methode] = req[q].obj]
    /\ Repond(q, "amont", req[q].obj)
    /\ UNCHANGED <<monde, muet, prise>>

\* Nothing to keep, or a transfer that was cut.
Relayer(q) ==
    /\ req[q].pc = "recu"
    /\ Repond(q, "amont", req[q].obj)
    /\ UNCHANGED <<magasin, monde, muet, prise>>

\* Copier: the body under the base key is copied under the variant key.
Copier(q) ==
    LET u == req[q].u
    IN  /\ req[q].pc = "copie"
        /\ IF Tenu(u, "corps")
           THEN magasin' = [magasin EXCEPT ![u][CleVariante(u, req[q].d)] = magasin[u]["corps"]]
           ELSE UNCHANGED magasin
        /\ Repond(q, "amont", req[q].obj)
        /\ UNCHANGED <<monde, muet, prise>>

-------------------------------------------------------------------------------
(* The upstream did not answer.                                            *)

HorsVariante(q) ==
    LET u == req[q].u
    IN  /\ req[q].pc = "horsVariante"
        /\ IF ~Incoherent(u)
           THEN Essayer(q, CleVariante(u, req[q].d), "horsBase", "perime")
           ELSE Va(q, "horsBase")
        /\ UNCHANGED <<magasin, monde, muet, prise>>

HorsBase(q) ==
    LET u == req[q].u
    IN  /\ req[q].pc = "horsBase"
        /\ IF Cachable(u) /\ req[q].d.methode = "GET" /\ ~Incoherent(u)
           THEN Essayer(q, "corps", "horsStatut", "perime")
           ELSE Va(q, "horsStatut")
        /\ UNCHANGED <<magasin, monde, muet, prise>>

\* The last resort of a HEAD.
Tete(q) == IF Cachable(req[q].u) /\ req[q].d.methode = "HEAD" THEN "horsTete" ELSE "refus"

\* rejouerStatut: the status of the last time, when there is one.
RejouerStatut(q, sinon) ==
    LET statut == magasin[req[q].u][req[q].d.methode]
    IN  IF Cachable(req[q].u) /\ statut.code # 0 THEN Repond(q, "statut", statut)
                                                 ELSE Va(q, sinon)

\* The client keeps its copy, or is told a status.
HorsStatut(q) ==
    /\ req[q].pc = "horsStatut"
    /\ IF req[q].d.cond THEN Repond(q, "client", Rien) ELSE RejouerStatut(q, Tete(q))
    /\ UNCHANGED <<magasin, monde, muet, prise>>

\* A slip: a HEAD does not look for the body kept for GET.
HorsTeteSansCorps(q) ==
    /\ req[q].pc = "horsTete"
    /\ Va(q, "refus")
    /\ UNCHANGED <<magasin, monde, muet, prise>>

\* A HEAD leaves with the headers of the body kept for GET.
HorsTete(q) ==
    LET u == req[q].u
    IN  /\ req[q].pc = "horsTete"
        /\ IF ~Incoherent(u)
           THEN Essayer(q, "corps", "refus", "perime")
           ELSE Va(q, "refus")
        /\ UNCHANGED <<magasin, monde, muet, prise>>

\* offlineMiss.
Refuser(q) ==
    /\ req[q].pc = "refus"
    /\ Repond(q, "refus", Rien)
    /\ UNCHANGED <<magasin, monde, muet, prise>>

\* serveFromStore.
ServirTenu(q) ==
    LET u == req[q].u
        k == req[q].cle
    IN  /\ req[q].pc = "sert"
        /\ IF Tenu(u, k) THEN Repond(q, req[q].sorte, magasin[u][k])
                         ELSE Va(q, req[q].sinon)
        /\ UNCHANGED <<magasin, monde, muet, prise>>

Finir(q) ==
    /\ req[q].pc = "repondu"
    /\ Avance(q, Oisif)
    /\ UNCHANGED <<magasin, monde, muet, prise>>

-------------------------------------------------------------------------------
(* prendreEntier: the background fetch of a whole immutable file.          *)

Cesse(u) == prise' = [prise EXCEPT ![u] = [pc |-> "aucune", obj |-> Rien]]

PriseEnvoi(u) ==
    /\ prise[u].pc = "envoi"
    /\ \/ muet /\ Cesse(u) /\ UNCHANGED muet
       \/ ~muet /\ ~reseau /\ muet' = TRUE /\ Cesse(u)
       \/ /\ ~muet /\ reseau /\ muet' = FALSE
          /\ \E r \in Reponses(u, [accept |-> None]) :
                IF r.code = 200 /\ ~Tenu(u, "corps")
                THEN prise' = [prise EXCEPT ![u] = [pc |-> "recu", obj |-> r]]
                ELSE Cesse(u)
    /\ UNCHANGED <<magasin, monde, req>>

PriseCommit(u) ==
    /\ prise[u].pc = "recu"
    /\ magasin' = [magasin EXCEPT ![u]["corps"] = prise[u].obj]
    /\ Cesse(u)
    /\ UNCHANGED <<monde, muet, req>>

PriseCoupee(u) ==
    /\ prise[u].pc = "recu"
    /\ Cesse(u)
    /\ UNCHANGED <<magasin, monde, muet, req>>

-------------------------------------------------------------------------------
(* The operator and the environment.                                       *)

\* Oublier: the body and the status of a GET, both keys.
Oublier(u) ==
    /\ Effacements
    /\ Tenu(u, "corps") \/ Tenu(u, "GET")
    /\ magasin' = [magasin EXCEPT ![u]["corps"] = Rien, ![u]["GET"] = Rien]
    /\ UNCHANGED <<monde, muet, req, prise>>

\* A purge, by age or by size, takes any object.
Purger(u, k) ==
    /\ Effacements
    /\ Tenu(u, k)
    /\ magasin' = [magasin EXCEPT ![u][k] = Rien]
    /\ UNCHANGED <<monde, muet, req, prise>>

\* The upstream publishes u; a file that never changes is published once, and
\* a signature vouches at least for what is published.
Publier(u) ==
    LET v == IF Signature[u] = None THEN amont[u] + 1
             ELSE amont[Signature[u]] + 1
    IN  /\ v <= MaxVersion
        /\ Classe[u] = "immuable" => amont[u] = 0
        /\ amont' = [w \in Url |-> IF w = u \/ w = Signature[u] THEN v ELSE amont[w]]
        /\ UNCHANGED <<magasin, reseau, muet, req, prise>>

Reseau ==
    /\ Coupures
    /\ reseau' = ~reseau
    /\ UNCHANGED <<magasin, amont, muet, req, prise>>

\* The window of Muets ends.
MuetEchoit ==
    /\ muet
    /\ muet' = FALSE
    /\ UNCHANGED <<magasin, monde, req, prise>>

Avancer(q) ==
    \/ ServirLocal(q) \/ Preparer(q)
    \/ EnvoiEpargne(q) \/ EnvoiEchoue(q) \/ EnvoiAbouti(q) \/ Revalider(q)
    \/ CommitCorps(q) \/ CommitStatut(q) \/ Relayer(q) \/ Copier(q)
    \/ HorsVariante(q) \/ HorsBase(q) \/ HorsStatut(q) \/ HorsTete(q)
    \/ Refuser(q) \/ ServirTenu(q) \/ Finir(q)

Next ==
    \/ \E q \in Requete : Demander(q) \/ Avancer(q)
    \/ \E u \in Url : \/ PriseEnvoi(u) \/ PriseCommit(u) \/ PriseCoupee(u)
                      \/ Oublier(u) \/ Publier(u)
                      \/ \E k \in Cle : Purger(u, k)
    \/ Reseau
    \/ MuetEchoit

Spec == Init /\ [][Next]_vars

-------------------------------------------------------------------------------
(* Properties.                                                             *)

Repondu(q, sorte) == req[q].pc = "repondu" /\ req[q].sorte = sorte

\* detient.go:79: what --detient reports as kept is what the service serves.
\* A request for it is never told that nothing is in store.
DetentionTenue == \A q \in Requete : req[q].promis => ~Repondu(q, "refus")

\* proxy.go:343: only a request that has a fallback may be spared the dial, so
\* that nobody is told 504 without a dial.
CompositionTentee == \A q \in Requete : Repondu(q, "refus") => req[q].compose

\* Another request stores something else under key k of the file of q in this step.
Croise(q, k) ==
    \E p \in Requete \ {q} :
        /\ CommitCorps(p) \/ CommitStatut(p) \/ Copier(p)
        /\ req[p].u = req[q].u /\ magasin'[req[q].u][k] # magasin[req[q].u][k]

\* What the validator was taken from is unchanged, or gone.
Confirme(q) ==
    /\ Classe[req[q].u] = "volatile"
    /\ Tenu(req[q].u, req[q].cle) => magasin[req[q].u][req[q].cle] = req[q].valide

\* From the reading of the validator to the answer.
Confirmee(q) ==
    /\ \/ req[q].pc = "envoi" /\ req[q].valide # Rien
       \/ req[q].pc = "rejoue"
       \/ req[q].pc = "sert" /\ req[q].sorte = "revalide"
       => Confirme(q)
    /\ Repondu(q, "revalide") => req[q].obj = req[q].valide

\* proxy.go:304: while the upstream answers, a volatile file leaves the disk
\* only with its agreement: what a 304 lets out is what it confirmed.  The store
\* departs from that while the request is at work in one way, another request that
\* stores something else there.
RevalidePas == \A q \in Requete : Confirmee(q) => Confirmee(q)' \/ Croise(q, req[q].cle)

\* What Copier will read is what its request has stored, or gone.
Deposee(q) ==
    req[q].pc = "copie" => magasin[req[q].u]["corps"] \in {req[q].obj, Rien}

Propre(u, a) == Tenu(u, a) => magasin[u][a].rep = a

\* proxy.go:535: the copy under a variant key is the representation that the
\* client of that key accepts.  Another one gets there in one way, by the Copier
\* of a request whose body another request has replaced since it stored it.
VariantePas ==
    /\ \A q \in Requete : Deposee(q) => Deposee(q)' \/ Croise(q, "corps")
    /\ \A u \in Url, a \in Accept :
          Propre(u, a) =>
              \/ Propre(u, a)'
              \/ \E q \in Requete : /\ Copier(q) /\ ~Deposee(q)
                                    /\ u = req[q].u /\ a = CleVariante(u, req[q].d)

\* instantane.go:24: offline, an index that is later than the signature kept
\* for its suite is not served.
SuitePas ==
    \A q \in Requete :
        LET s == Signature[req[q].u]
        IN  /\ req[q].pc = "sert" /\ req[q].sorte = "perime" /\ req'[q].pc = "repondu"
            /\ s # None /\ Tenu(s, "corps")
            => req'[q].obj.version <= magasin[s]["corps"].version

SuiteCoherente == [][SuitePas]_vars
===============================================================================
