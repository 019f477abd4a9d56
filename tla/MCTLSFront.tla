------------------------------ MODULE MCTLSFront ------------------------------
(* A small instance of TLSFront: two connections to one host.              *)
EXTENDS TLSFront, TLC

Symetrie == Permutations(Connexion)
===============================================================================
