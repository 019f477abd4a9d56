----------------------------- MODULE Joignabilite -----------------------------
(***************************************************************************)
(* The memory of unreachable upstreams, script/qemu_cache/joignable.go, as *)
(* the relay (Proxy.fetch) and the git mirror (sonderAmont) use it: an     *)
(* address whose connection could not be established is not dialled again  *)
(* for one window, by a request that has something to fall back on.        *)
(*                                                                         *)
(* Time is a tick; ages are counted up to the bound from which they no     *)
(* longer matter.  A dial lasts at most Delai ticks and looks at the       *)
(* network while it lasts: it is not atomic with the note that ends it.    *)
(***************************************************************************)
EXTENDS Integers

CONSTANTS
    Adresse,   \* host:port
    Requete,   \* requests and probes in flight
    Fenetre,   \* the window, in ticks
    Delai,     \* DelaiEtablissement, in ticks
    None

ASSUME JoignabiliteAssumption ==
    /\ Fenetre \in Nat \ {0}
    /\ Delai \in Nat
    /\ None \notin Int

VARIABLES
    muet,    \* muet[a]: age of the failure kept for a, None when none is
    leve,    \* leve[a]: the sentinel is younger than that failure
    reseau,  \* reseau[a]: the network reaches a
    retour,  \* retour[a]: for how long it has
    levee,   \* levee[a]: the sentinel was touched since, the network being back,
             \* and no dial the cut had spoilt has failed after that
    req      \* req[q]: what became of a request

vars == <<muet, leve, reseau, retour, levee, req>>

\* From this age on, an upstream that is back must no longer be refused.
Borne == Fenetre + Delai

Repos == [pc |-> "repos"]

Composition == [pc : {"compose"}, a : Adresse, age : 0 .. Delai,
                vu : {"reseau", "coupure"}]

Refus == [pc : {"refusee"}, a : Adresse, retour : 0 .. Borne, levee : BOOLEAN]

TypeOK ==
    /\ muet \in [Adresse -> 0 .. Fenetre \cup {None}]
    /\ leve \in [Adresse -> BOOLEAN]
    /\ reseau \in [Adresse -> BOOLEAN]
    /\ retour \in [Adresse -> 0 .. Borne]
    /\ levee \in [Adresse -> BOOLEAN]
    /\ req \in [Requete -> {Repos} \cup Composition \cup Refus]

Init ==
    /\ muet = [a \in Adresse |-> None]
    /\ leve = [a \in Adresse |-> FALSE]
    /\ reseau = [a \in Adresse |-> TRUE]
    /\ retour = [a \in Adresse |-> Borne]
    /\ levee = [a \in Adresse |-> FALSE]
    /\ req = [q \in Requete |-> Repos]

-------------------------------------------------------------------------------
\* A slip: the window is not looked at.
ConnuMuetToujours(a) == muet[a] # None /\ ~leve[a]

\* A slip: the date of the sentinel is not compared with that of the failure.
ConnuMuetSansSentinelle(a) == muet[a] # None /\ muet[a] < Fenetre

\* ConnuMuet: a failure that is younger than the window and that no lift of
\* the cut has cancelled.
ConnuMuet(a) == muet[a] # None /\ muet[a] < Fenetre /\ ~leve[a]

\* What ConnuMuet leaves of the entry: a stale one is deleted.
Consulte(a) == IF ConnuMuet(a) THEN muet[a] ELSE None

\* A slip: a refusal is noted as one more failure.
RefuserEtNoter(q, a) ==
    /\ req[q] = Repos
    /\ ConnuMuet(a)
    /\ muet' = [muet EXCEPT ![a] = 0]
    /\ req' = [req EXCEPT ![q] = [pc |-> "refusee", a |-> a,
                                  retour |-> IF reseau[a] THEN retour[a] ELSE 0,
                                  levee |-> levee[a]]]
    /\ UNCHANGED <<leve, reseau, retour, levee>>

\* fetch, up to the dial.  Without a fallback the memory is not consulted.
Refuser(q, a) ==
    /\ req[q] = Repos
    /\ ConnuMuet(a)
    /\ req' = [req EXCEPT ![q] = [pc |-> "refusee", a |-> a,
                                  retour |-> IF reseau[a] THEN retour[a] ELSE 0,
                                  levee |-> levee[a]]]
    /\ UNCHANGED <<muet, leve, reseau, retour, levee>>

Composer(q, a, repli) ==
    /\ req[q] = Repos
    /\ repli => ~ConnuMuet(a)
    /\ muet' = IF repli THEN [muet EXCEPT ![a] = Consulte(a)] ELSE muet
    /\ req' = [req EXCEPT ![q] = [pc |-> "compose", a |-> a, age |-> 0,
                        vu |-> IF reseau[a] THEN "reseau" ELSE "coupure"]]
    /\ UNCHANGED <<leve, reseau, retour, levee>>

\* Reussite: the upstream answered.
Repondre(q) ==
    /\ req[q].pc = "compose"
    /\ reseau[req[q].a]
    /\ muet' = [muet EXCEPT ![req[q].a] = None]
    /\ req' = [req EXCEPT ![q] = Repos]
    /\ UNCHANGED <<leve, reseau, retour, levee>>

\* A slip: what is kept is the end of the window, not the time of the failure.
EchouerEnAvance(q) ==
    /\ req[q].pc = "compose"
    /\ req[q].vu = "coupure"
    /\ muet' = [muet EXCEPT ![req[q].a] = -Fenetre]
    /\ leve' = [leve EXCEPT ![req[q].a] = FALSE]
    /\ levee' = [levee EXCEPT ![req[q].a] = FALSE]
    /\ req' = [req EXCEPT ![q] = Repos]
    /\ UNCHANGED <<reseau, retour>>

\* Echec: the connection could not be established, the network having been
\* down during the dial.
Echouer(q) ==
    /\ req[q].pc = "compose"
    /\ req[q].vu = "coupure"
    /\ muet' = [muet EXCEPT ![req[q].a] = 0]
    /\ leve' = [leve EXCEPT ![req[q].a] = FALSE]
    /\ levee' = [levee EXCEPT ![req[q].a] = FALSE]
    /\ req' = [req EXCEPT ![q] = Repos]
    /\ UNCHANGED <<reseau, retour>>

\* Any other error says that the upstream is there: nothing is kept.
AutreErreur(q) ==
    /\ req[q].pc = "compose"
    /\ req' = [req EXCEPT ![q] = Repos]
    /\ UNCHANGED <<muet, leve, reseau, retour, levee>>

\* A refused request is answered from its fallback.
Replier(q) ==
    /\ req[q].pc = "refusee"
    /\ req' = [req EXCEPT ![q] = Repos]
    /\ UNCHANGED <<muet, leve, reseau, retour, levee>>

-------------------------------------------------------------------------------
(* The environment.                                                        *)

Couper(a) ==
    /\ reseau[a]
    /\ reseau' = [reseau EXCEPT ![a] = FALSE]
    /\ retour' = [retour EXCEPT ![a] = 0]
    /\ levee' = [levee EXCEPT ![a] = FALSE]
    /\ req' = [q \in Requete |-> IF req[q].pc = "compose" /\ req[q].a = a
                                 THEN [req[q] EXCEPT !.vu = "coupure"]
                                 ELSE req[q]]
    /\ UNCHANGED <<muet, leve>>

Retablir(a) ==
    /\ ~reseau[a]
    /\ reseau' = [reseau EXCEPT ![a] = TRUE]
    /\ UNCHANGED <<muet, leve, retour, levee, req>>

\* The lift of a cut touches the sentinel file; its date is that of a clock
\* with a granularity, so a failure of the same tick may look younger.
ToucherSentinelle ==
    /\ \E ex \in SUBSET {a \in Adresse : muet[a] = 0} :
          leve' = [a \in Adresse |-> a \notin ex]
    /\ levee' = [a \in Adresse |-> reseau[a] /\ leve'[a]]
    /\ UNCHANGED <<muet, reseau, retour, req>>

Vieillir(n, borne) == IF n < borne THEN n + 1 ELSE n

\* No dial outlives its delay.
Tick ==
    /\ \A q \in Requete : req[q].pc = "compose" => req[q].age < Delai
    /\ muet' = [a \in Adresse |->
                  IF muet[a] = None THEN None ELSE Vieillir(muet[a], Fenetre)]
    /\ retour' = [a \in Adresse |->
                  IF reseau[a] THEN Vieillir(retour[a], Borne) ELSE 0]
    /\ req' = [q \in Requete |-> IF req[q].pc = "compose"
                                 THEN [req[q] EXCEPT !.age = @ + 1]
                                 ELSE req[q]]
    /\ UNCHANGED <<leve, reseau, levee>>

Aboutir(q) == Repondre(q) \/ Echouer(q) \/ AutreErreur(q)

Next ==
    \/ \E q \in Requete, a \in Adresse :
          Refuser(q, a) \/ \E repli \in BOOLEAN : Composer(q, a, repli)
    \/ \E q \in Requete : Aboutir(q) \/ Replier(q)
    \/ \E a \in Adresse : Couper(a) \/ Retablir(a)
    \/ ToucherSentinelle
    \/ Tick

Spec == Init /\ [][Next]_vars

\* Time passes, a dial ends and a refused client is answered.
FairSpec ==
    /\ Spec
    /\ WF_vars(Tick)
    /\ \A q \in Requete : WF_vars(Aboutir(q)) /\ WF_vars(Replier(q))

-------------------------------------------------------------------------------
(* Properties.                                                             *)

\* joignable.go:29, the window "rend l'amont a sa premiere chance des qu'il
\* revient": an upstream the network has reached for a window and one dial is
\* never refused, even though a dial begun during the cut may fail after it.
RefusBorne ==
    \A q \in Requete : req[q].pc = "refusee" => req[q].retour < Borne

\* An upstream that is back for good is, in the end, never refused again,
\* however many requests keep asking for it meanwhile.
RetourServi ==
    \A a \in Adresse : <>[]reseau[a] =>
        <>[](\A q \in Requete : req[q].pc = "refusee" => req[q].a # a)

\* joignable.go:69: the sentinel "annule la memoire : tout echec anterieur est
\* oublie".  Once the cut is over and the sentinel touched, no request falls
\* back because of that cut, unless a dial of before the touch fails after it:
\* its failure is later than the sentinel.
LeveeImmediate ==
    \A q \in Requete : req[q].pc = "refusee" => ~req[q].levee
===============================================================================
