---------------------------- MODULE MCJoignabilite ----------------------------
(* A small instance of Joignabilite: a window of three ticks, dials of at  *)
(* most two, three requests for one address.                               *)
EXTENDS Joignabilite
===============================================================================
