----------------------------- MODULE MCGitMirror -----------------------------
(* A small instance of GitMirror: two requests of the service.             *)
EXTENDS GitMirror

CONSTANTS service, q1, q2

ServiceSeul == [q \in Requete |-> service]
===============================================================================
