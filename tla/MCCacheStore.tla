----------------------------- MODULE MCCacheStore -----------------------------
(* A small instance of CacheStore: one key and two responses of one byte,  *)
(* of which one announces its length.  The other may then be accepted      *)
(* empty, cut before its byte, or whole.                                   *)
EXTENDS CacheStore, TLC

CONSTANTS p1, p3

MCTaille == [p \in Resp |-> 1]
MCAnnonce == Resp \ {p3}
Symetrie == Permutations(Writer)
===============================================================================
