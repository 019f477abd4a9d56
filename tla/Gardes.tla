-------------------------------- MODULE Gardes --------------------------------
(***************************************************************************)
(* Three parts of the cache that guard something of their own and share no *)
(* state: the re-keying pass, which keeps the latest copy of each file     *)
(* (Recler); the TLS front, which keeps what it has learnt of hosts        *)
(* (TLSFront); the exceptions to the diversion, kept in a file and in the  *)
(* kernel (Bypass).  Together they are the conjunction of their            *)
(* specifications: a step of one leaves the others where they were.        *)
(***************************************************************************)
EXTENDS Recler

CONSTANTS
    Hote, Declares, Connexion, Seuil, Rafale, Oubli, Alertes, MaxHeure,   \* TLSFront
    MAC, Commande, Absent                                                 \* Bypass

VARIABLES
    heure, apprises, echecs, dernier, amont, cnx, coupes, suite, alertes,
    fichier, part, noyau, service, regles, cmd, tient, trouble, ensemble

\* The TLS front, taken with what is proved of it.
T == INSTANCE TLSFrontProofs

B == INSTANCE Bypass

ASSUME Parties == T!TLSFrontAssumption /\ B!BypassAssumption

GardesSpec == Spec /\ T!Spec /\ B!Spec

-------------------------------------------------------------------------------
(* Properties, beside those of Recler.                                     *)

\* The type invariants of the three parts (recle.go, mitm.go, bypass.go).
TypesTenus == TypeOK /\ T!TypeOK /\ B!TypeOK

\* A tunnel rests on a declaration, an alert, or a recent cut (mitm.go:258).
TunnelJustifie == T!TunnelJustifie

\* A host is suspected only on cuts that no burst explains (mitm.go:360).
SoupconFonde == T!SoupconFonde

\* The list holds what the commands that succeeded ask for, while they ran one at a time
\* (bypass.go:149).
Durable == B!Durable

\* After a start the kernel spares the machines of the file (bypass.go:94).
Restauration == B!Restauration
===============================================================================
