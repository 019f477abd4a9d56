---------------------------- MODULE MirrorPromise ----------------------------
(***************************************************************************)
(* What the mirror of a repository promises whoever Assurer lets in        *)
(* (script/qemu_cache/gitmirror.go, the comments of GitMirror and of       *)
(* Assurer): there is a copy, it is replaced in one step by what the       *)
(* upstream has, and only a removal takes it away.  Git at work on the     *)
(* directory, its failures and what they leave are not seen.  A stop of    *)
(* the service may leave a cut copy, but only where there was none.        *)
(***************************************************************************)
EXTENDS Integers

CONSTANTS Requete, MaxVersion

VARIABLES
    copie,    \* what the mirror offers
    amont,    \* the version of the upstream
    client    \* client[q]: q, once it is let in

promesse == <<copie, amont, client>>

Aucune == -1
Coupe == -3
PasLu == -4

Libre == [pc |-> "libre", retire |-> FALSE, lu |-> PasLu]

Init ==
    /\ copie = Aucune
    /\ amont = 0
    /\ client = [q \in Requete |-> Libre]

Publier ==
    /\ amont < MaxVersion
    /\ amont' = amont + 1
    /\ UNCHANGED <<copie, client>>

\* A first clone or a refresh, whole.
Actualiser ==
    /\ copie' = amont
    /\ UNCHANGED <<amont, client>>

Admettre(q) ==
    /\ client[q].pc = "libre"
    /\ copie # Aucune
    /\ client' = [client EXCEPT ![q].pc = "admis"]
    /\ UNCHANGED <<copie, amont>>

\* What q is served is what the mirror offers then; with no copy any more, it
\* knows that the mirror was removed.
Lire(q) ==
    /\ client[q].pc = "admis"
    /\ client[q].lu = PasLu
    /\ copie = Aucune => client[q].retire
    /\ client' = [client EXCEPT ![q].lu = copie]
    /\ UNCHANGED <<copie, amont>>

Finir(q) ==
    /\ client[q].lu # PasLu
    /\ client' = [client EXCEPT ![q] = Libre]
    /\ UNCHANGED <<copie, amont>>

Retirer ==
    /\ copie' = Aucune
    /\ client' = [q \in Requete |->
                    IF client[q].pc = "admis"
                    THEN [pc |-> "admis", retire |-> TRUE, lu |-> client[q].lu]
                    ELSE client[q]]
    /\ UNCHANGED amont

Arret ==
    /\ client' = [q \in Requete |-> Libre]
    /\ copie' = copie \/ (copie = Aucune /\ copie' = Coupe)
    /\ UNCHANGED amont

Next ==
    \/ Publier
    \/ Actualiser
    \/ Retirer
    \/ Arret
    \/ \E q \in Requete : Admettre(q) \/ Lire(q) \/ Finir(q)

Spec == Init /\ [][Next]_promesse
===============================================================================
