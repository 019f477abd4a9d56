------------------------------ MODULE MCGardes ------------------------------
(* A small instance of Gardes.  The re-keying of the store: two old keys   *)
(* and the new key of one file with three copies of different dates and    *)
(* sizes, an object under its own key, and a status alone.  The TLS front: *)
(* two connections to one host.  The exceptions to the diversion: two      *)
(* commands over two machines.  The parts share no state, so one of them   *)
(* runs in a behaviour and the two others stay in an initial state.        *)
EXTENDS Gardes, TLC

CONSTANTS x, y, m1, m2, a1, a2, n, t, o1, o2, o3, s

VARIABLE partie

MCKey == {a1, a2, n, t}
MCObjet == {o1, o2, o3, s}
MCNouvelle == [o \in MCObjet |-> IF o = s THEN a1 ELSE n]
MCDate == o1 :> 1 @@ o2 :> 2 @@ o3 :> 2 @@ s :> 1
MCOctets == o1 :> 1 @@ o2 :> 2 @@ o3 :> 4 @@ s :> 0

\* Distinct objects; a status lies under a key no rule of today moves.
MCDebut == {d \in [MCKey -> MCObjet \cup {None}] :
              /\ \A j, k \in MCKey : j # k /\ d[j] # None => d[j] # d[k]
              /\ \A k \in MCKey : d[k] = s <=> k = t}

Symetrie == Permutations({x, y}) \cup Permutations({m1, m2})

tVars == <<heure, apprises, echecs, dernier, amont, cnx, coupes, suite, alertes>>
bVars == <<fichier, part, noyau, service, regles, cmd, tient, trouble, ensemble>>

MCInit ==
    /\ Init /\ T!Init /\ B!Init
    /\ partie \in {"reclassement", "tls", "exceptions"}
    /\ partie # "reclassement" => body = CHOOSE d \in MCDebut : TRUE
    /\ partie # "exceptions" => \A c, d \in Commande : cmd[c] = cmd[d]

MCNext ==
    /\ UNCHANGED partie
    /\ \/ partie = "reclassement" /\ Next /\ UNCHANGED <<tVars, bVars>>
       \/ partie = "tls" /\ T!Next /\ UNCHANGED <<vars, bVars>>
       \/ partie = "exceptions" /\ B!Next /\ UNCHANGED <<vars, tVars>>

MCSpec == MCInit /\ [][MCNext]_<<partie, vars, tVars, bVars>>
===============================================================================
