-------------------------------- MODULE Bypass --------------------------------
(***************************************************************************)
(* The machines that the diversion must spare, bypass.go: a durable list   *)
(* of MAC addresses, that each command reads, changes and rewrites whole   *)
(* with no lock, and a set of the kernel that the same command changes     *)
(* hot, while a start of the service lays it again from the file.          *)
(***************************************************************************)
CONSTANTS
    MAC,
    Commande,      \* commands that may run at the same time
    Pannes,        \* may a command be killed?
    Absent         \* there is no temporary file

BypassAssumption == Pannes \in BOOLEAN

VARIABLES
    fichier,       \* the durable list
    part,          \* the temporary file, whose name all commands share
    noyau,         \* the set of the kernel
    service,       \* "arrete", "lu": the rules are read, "actif": they are laid
    regles,        \* the addresses in the rules that a start has read
    cmd,           \* cmd[c]: the progress of a command
    tient,         \* history: what the commands that succeeded ask for
    trouble,       \* history: a command has run since the service was started
    ensemble       \* history: two commands were at work together

vars == <<fichier, part, noyau, service, regles, cmd, tient, trouble, ensemble>>

Etapes == {"repos", "charge", "ecrit", "renomme", "chaud"}

TypeOK ==
    /\ fichier \subseteq MAC
    /\ part \in (SUBSET MAC) \cup {Absent}
    /\ noyau \subseteq MAC
    /\ service \in {"arrete", "lu", "actif"}
    /\ regles \subseteq MAC
    /\ cmd \in [Commande -> [pc : Etapes, geste : {"add", "del"}, mac : MAC, lu : SUBSET MAC]]
    /\ tient \subseteq MAC
    /\ trouble \in BOOLEAN
    /\ ensemble \in BOOLEAN
    /\ service # "actif" => noyau = {}

Init ==
    /\ fichier = {}
    /\ part = Absent
    /\ noyau = {}
    /\ service = "arrete"
    /\ regles = {}
    /\ cmd \in [Commande -> {[pc |-> "repos", geste |-> "add", mac |-> m, lu |-> {}] : m \in MAC}]
    /\ tient = {}
    /\ trouble = FALSE
    /\ ensemble = FALSE

liste == <<fichier, part, tient>>
pose == <<noyau, service, regles, trouble, ensemble>>

Applique(c, S) == IF cmd[c].geste = "add" THEN S \cup {cmd[c].mac} ELSE S \ {cmd[c].mac}

Va(c, pc) == cmd' = [cmd EXCEPT ![c].pc = pc]

-------------------------------------------------------------------------------
Appeler(c) ==
    /\ cmd[c].pc = "repos"
    /\ \E g \in {"add", "del"}, m \in MAC :
          cmd' = [cmd EXCEPT ![c] = [pc |-> "charge", geste |-> g, mac |-> m, lu |-> {}]]
    /\ trouble' = TRUE
    /\ ensemble' = (ensemble \/ \E d \in Commande \ {c} : cmd[d].pc # "repos")
    /\ UNCHANGED <<liste, noyau, service, regles>>

\* Load.  An address that is not there is still to be taken out of the kernel.
Charger(c) ==
    /\ cmd[c].pc = "charge"
    /\ IF cmd[c].geste = "del" /\ cmd[c].mac \notin fichier
       THEN Va(c, "chaud") /\ tient' = tient \ {cmd[c].mac}
       ELSE /\ cmd' = [cmd EXCEPT ![c].pc = "ecrit", ![c].lu = Applique(c, fichier)]
            /\ UNCHANGED tient
    /\ UNCHANGED <<fichier, part, pose>>

\* A slip: the list is rewritten in place.
EcrireEnPlace(c) ==
    /\ cmd[c].pc = "ecrit"
    /\ part' = cmd[c].lu
    /\ fichier' = cmd[c].lu
    /\ Va(c, "renomme")
    /\ UNCHANGED <<tient, pose>>

\* Save.
EcrirePart(c) ==
    /\ cmd[c].pc = "ecrit"
    /\ part' = cmd[c].lu
    /\ Va(c, "renomme")
    /\ UNCHANGED <<fichier, tient, pose>>

Renommer(c) ==
    /\ cmd[c].pc = "renomme"
    /\ part # Absent
    /\ fichier' = part
    /\ part' = Absent
    /\ tient' = Applique(c, tient)
    /\ Va(c, "chaud")
    /\ UNCHANGED pose

\* Another command has renamed it: this one ends in error, and prints nothing.
RenommerEchoue(c) ==
    /\ cmd[c].pc = "renomme"
    /\ part = Absent
    /\ Va(c, "repos")
    /\ UNCHANGED <<liste, pose>>

\* What the command printed goes to nft, that refuses it when there is no table.
AChaud(c) ==
    /\ cmd[c].pc = "chaud"
    /\ noyau' = IF service = "actif" THEN Applique(c, noyau) ELSE noyau
    /\ Va(c, "repos")
    /\ UNCHANGED <<liste, service, regles, trouble, ensemble>>

Tuer(c) ==
    /\ Pannes
    /\ cmd[c].pc # "repos"
    /\ Va(c, "repos")
    /\ UNCHANGED <<liste, pose>>

\* A slip: the rules of the start before are laid again.
DemarrerSansRelire ==
    /\ service = "arrete"
    /\ service' = "lu"
    /\ trouble' = (\E c \in Commande : cmd[c].pc # "repos")
    /\ UNCHANGED <<liste, noyau, regles, cmd, ensemble>>

\* A start of the service: --print-nft reads the file, nft lays the table.
Demarrer ==
    /\ service = "arrete"
    /\ service' = "lu"
    /\ regles' = fichier
    /\ trouble' = (\E c \in Commande : cmd[c].pc # "repos")
    /\ UNCHANGED <<liste, noyau, cmd, ensemble>>

Poser ==
    /\ service = "lu"
    /\ service' = "actif"
    /\ noyau' = regles
    /\ UNCHANGED <<liste, regles, cmd, trouble, ensemble>>

\* A slip: the table outlives the service.
ArreterSansEffacer ==
    /\ service = "actif"
    /\ service' = "arrete"
    /\ UNCHANGED <<liste, noyau, regles, cmd, trouble, ensemble>>

Arreter ==
    /\ service = "actif"
    /\ service' = "arrete"
    /\ noyau' = {}
    /\ UNCHANGED <<liste, regles, cmd, trouble, ensemble>>

Next ==
    \/ \E c \in Commande :
          \/ Appeler(c) \/ Charger(c) \/ EcrirePart(c)
          \/ Renommer(c) \/ RenommerEchoue(c) \/ AChaud(c) \/ Tuer(c)
    \/ Demarrer
    \/ Poser
    \/ Arreter

Spec == Init /\ [][Next]_vars

-------------------------------------------------------------------------------
(* Properties.                                                             *)

\* deploy_qemu.py:3776: the file makes an exception survive a restart of the
\* service.  As long as commands ran one at a time, it lists what those that
\* reported success ask for, and nothing else, whichever was killed.
Durable == ~ensemble => fichier = tient

\* bypass.go:94: at each start the service lays the exceptions of the file
\* again, even after commands that ran together or were killed.
Restauration == service = "actif" /\ ~trouble => noyau = fichier
===============================================================================
