------------------------------- MODULE MCRecler -------------------------------
(* Two old keys and the new key of one file with three copies of different *)
(* dates and sizes, an object that is its own key's, and a status alone.   *)
EXTENDS Recler, TLC

CONSTANTS a1, a2, n, t, o1, o2, o3, s

MCKey == {a1, a2, n, t}
MCObjet == {o1, o2, o3, s}
MCNouvelle == [o \in MCObjet |-> IF o = s THEN a1 ELSE n]
MCDate == o1 :> 1 @@ o2 :> 2 @@ o3 :> 2 @@ s :> 1
MCOctets == o1 :> 1 @@ o2 :> 2 @@ o3 :> 4 @@ s :> 0

\* Distinct objects; a status lies under a key no rule of today moves.
MCDebut == {d \in [MCKey -> MCObjet \cup {None}] :
              /\ \A j, k \in MCKey : j # k /\ d[j] # None => d[j] # d[k]
              /\ \A k \in MCKey : d[k] = s <=> k = t}
===============================================================================
