----------------------------- MODULE MCProxyServe -----------------------------
(* Small instances of ProxyServe: a page in two representations, an apt    *)
(* suite, a package read by ranges.                                        *)
EXTENDS ProxyServe, TLC

CONSTANTS page, paquet, inrelease, packages, complet, abrege

TouteClasse == [u \in Url |-> IF u = paquet THEN "immuable" ELSE "volatile"]

SansSignature == [u \in Url |-> None]
Suite == [u \in Url |-> IF u = packages THEN inrelease ELSE None]

Simple(m, a) == [methode |-> m, accept |-> a, cond |-> FALSE, plage |-> FALSE]

Lectures == {Simple("GET", None), Simple("HEAD", None),
             [Simple("GET", None) EXCEPT !.plage = TRUE]}
GetSeul == {Simple("GET", None)}

Symetrie == Permutations(Requete)
===============================================================================
