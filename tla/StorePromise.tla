----------------------------- MODULE StorePromise -----------------------------
(***************************************************************************)
(* What the object store promises the proxy, whatever happens to its files *)
(* (script/qemu_cache/store.go, the comments of Store, Commit and Abort):  *)
(* a lookup may always miss, and a hit is made of a body and of metadata   *)
(* that were both handed over whole, for that very key, and that agree on  *)
(* the size.  It does not promise that the two came from one response.     *)
(***************************************************************************)
EXTENDS Integers

CONSTANTS Key, Resp, Reader, Taille, Annonce

VARIABLES
    accepte,   \* accepte[k]: what was handed over under k
    lu         \* lu[y]: the lookup of reader y

promesse == <<accepte, lu>>

Complet(f) == f.resp \in Annonce => f.taille = Taille[f.resp]

Rien == [pc |-> "libre"]

Init ==
    /\ accepte = [k \in Key |-> {}]
    /\ lu = [y \in Reader |-> Rien]

\* The n bytes received of p are everything the origin announced.
Accepter(k, p, n) ==
    LET f == [resp |-> p, taille |-> n] IN
    /\ Complet(f)
    /\ accepte' = [accepte EXCEPT ![k] = @ \cup {f}]
    /\ UNCHANGED lu

Demander(y, k) ==
    /\ lu[y].pc = "libre"
    /\ accepte[k] # {}
    /\ lu' = [lu EXCEPT ![y] = [pc |-> "demande", cle |-> k]]
    /\ UNCHANGED accepte

Rendre(y) ==
    /\ lu[y].pc = "demande"
    /\ \E m \in accepte[lu[y].cle], b \in accepte[lu[y].cle] :
          /\ m.taille = b.taille
          /\ lu' = [lu EXCEPT ![y] =
                [pc |-> "servi", cle |-> lu[y].cle, m |-> m, b |-> b]]
    /\ UNCHANGED accepte

\* A miss, or the end of the use of a hit.
Finir(y) ==
    /\ lu' = [lu EXCEPT ![y] = Rien]
    /\ UNCHANGED accepte

\* The service stops: every lookup is lost, nothing that was accepted is.
Arret ==
    /\ lu' = [y \in Reader |-> Rien]
    /\ UNCHANGED accepte

Next ==
    \/ \E k \in Key, p \in Resp : \E n \in 0 .. Taille[p] : Accepter(k, p, n)
    \/ \E y \in Reader, k \in Key : Demander(y, k)
    \/ \E y \in Reader : Rendre(y)
    \/ \E y \in Reader : Finir(y)
    \/ Arret

Spec == Init /\ [][Next]_promesse
===============================================================================
