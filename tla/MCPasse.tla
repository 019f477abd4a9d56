------------------------------- MODULE MCPasse -------------------------------
(* Two clones and two upstream lines: the second version of the root takes *)
(* one clone to another line.                                              *)
EXTENDS Passe, TLC

CONSTANTS c1, c2, la, lb

MCLigneDe == (0 :> [c \in {c1, c2} |-> la]) @@ (1 :> (c1 :> lb @@ c2 :> la))
MCMaxPointe == [l \in Ligne |-> IF l = lb THEN 1 ELSE 0]
MCInstantane == [racine |-> 0, clones |-> [c \in Clone |-> [ligne |-> la, rang |-> 0]]]
===============================================================================
