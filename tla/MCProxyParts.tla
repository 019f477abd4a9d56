----------------------------- MODULE MCProxyParts -----------------------------
(* Four small instances of ProxyServe, of which an initial state chooses   *)
(* one: two requests of any kind for a page that changes and a package     *)
(* read by ranges (the constants of the configuration); one request at a   *)
(* time for a page in two representations, beside erasures, purges and     *)
(* cuts; two requests at once for that page; one at a time for an apt      *)
(* suite, an index and the signature that vouches for it, beside erasures  *)
(* and purges.  The last three have variables of their own: the first      *)
(* rests in its initial state while one of them runs, and the other way    *)
(* round.                                                                  *)
EXTENDS MCProxyServe

CONSTANTS q3, q4, q5
VARIABLES partie, magasin3, amont3, reseau3, muet3, req3, prise3

vars3 == <<magasin3, amont3, reseau3, muet3, req3, prise3>>

V == INSTANCE ProxyServe WITH
        Url <- {page}, Classe <- [u \in {page} |-> "volatile"], Portable <- {},
        Signature <- [u \in {page} |-> None], Accept <- {complet, abrege},
        Varie <- {page}, Requete <- {q3}, Effacements <- TRUE, MaxVersion <- 3,
        Demande <- {Simple("GET", a) : a \in {complet, abrege, None}}
                   \cup {[Simple("GET", None) EXCEPT !.cond = TRUE]},
        magasin <- magasin3, amont <- amont3, reseau <- reseau3, muet <- muet3,
        req <- req3, prise <- prise3

C == INSTANCE ProxyServe WITH
        Url <- {page}, Classe <- [u \in {page} |-> "volatile"], Portable <- {},
        Signature <- [u \in {page} |-> None], Accept <- {complet, abrege},
        Varie <- {page}, Requete <- {q4, q5}, Effacements <- FALSE, MaxVersion <- 3,
        Coupures <- FALSE,
        Demande <- {Simple("GET", a) : a \in {complet, abrege}},
        magasin <- magasin3, amont <- amont3, reseau <- reseau3, muet <- muet3,
        req <- req3, prise <- prise3

S == INSTANCE ProxyServe WITH
        Url <- {inrelease, packages},
        Classe <- [u \in {inrelease, packages} |-> "volatile"],
        Portable <- {inrelease, packages},
        Signature <- [u \in {inrelease, packages} |->
                         IF u = packages THEN inrelease ELSE None],
        Accept <- {complet}, Varie <- {}, Requete <- {q3}, Effacements <- TRUE,
        MaxVersion <- 3,
        Demande <- {Simple("GET", None), [Simple("GET", None) EXCEPT !.cond = TRUE]},
        magasin <- magasin3, amont <- amont3, reseau <- reseau3, muet <- muet3,
        req <- req3, prise <- prise3

ToutInit ==
    /\ Init
    /\ \/ partie \in {"lectures", "variantes"} /\ V!Init
       \/ partie = "croisees" /\ C!Init
       \/ partie = "suite" /\ S!Init

ToutNext ==
    /\ UNCHANGED partie
    /\ \/ partie = "lectures" /\ Next /\ UNCHANGED vars3
       \/ partie = "variantes" /\ V!Next /\ UNCHANGED vars
       \/ partie = "croisees" /\ C!Next /\ UNCHANGED vars
       \/ partie = "suite" /\ S!Next /\ UNCHANGED vars

ToutSpec == ToutInit /\ [][ToutNext]_<<vars, vars3, partie>>

-----------------------------------------------------------------------------
SymetrieDesParts == Symetrie \cup Permutations({q4, q5})

\* proxy.go:304: what a 304 lets out of the store is what it confirmed, unless
\* another request has stored something else there meanwhile.
RevalideTenu ==
    [][/\ partie = "variantes" => V!RevalidePas
       /\ partie = "croisees" => C!RevalidePas]_vars3

\* proxy.go:535: a variant key holds its own representation, unless another
\* request has replaced the body between its commit and its copy.
VariantePropre ==
    [][/\ partie = "variantes" => V!VariantePas
       /\ partie = "croisees" => C!VariantePas]_vars3

\* instantane.go:24: offline, an index later than its signature is not served.
SuiteTenue == [][partie = "suite" => S!SuitePas]_vars3
===============================================================================
