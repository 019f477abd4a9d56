------------------------------- MODULE TLSFront -------------------------------
(***************************************************************************)
(* The TLS front of the download cache, script/qemu_cache/mitm.go: each    *)
(* diverted connection is either decrypted, and then served from the       *)
(* cache, or relayed opaquely to its destination.  Refusals remembers      *)
(* which hosts are not to be decrypted, and why: DECLARED by the operator, *)
(* REFUSED by the client (a TLS alert), or SUSPECTED after a few cut       *)
(* handshakes, a suspicion that is forgotten after Oubli.                  *)
(***************************************************************************)
EXTENDS Integers, FiniteSets

CONSTANTS
    Hote,          \* host names, as the SNI carries them
    Declares,      \* the hosts the operator excludes
    Connexion,     \* connections: one goroutine each
    Seuil,         \* cuts before a host is suspected
    Rafale,        \* two cuts closer than this count as one
    Oubli,         \* the age at which a suspicion is forgotten
    Alertes,       \* do clients send TLS alerts?
    MaxHeure       \* bound on the clock

TLSFrontAssumption ==
    /\ Declares \subseteq Hote
    /\ Seuil \in Nat \ {0}
    /\ Rafale \in Nat
    /\ Oubli \in Nat \ {0}
    /\ Alertes \in BOOLEAN
    /\ MaxHeure \in Nat

Heure == 0 .. MaxHeure

VARIABLES
    heure,       \* the clock
    apprises,    \* apprises[h]: what was learnt of h, and when
    echecs,      \* echecs[h]: the failures counted against h, up to Seuil
    dernier,     \* dernier[h]: the last cut counted, -1 when there is none
    amont,       \* amont[h]: the destination accepts connections
    cnx,         \* cnx[c]: the progress of c, and when its tunnel was chosen
    coupes,      \* history: every cut of a handshake for h
    suite,       \* history: those since h last succeeded or was forgotten
    alertes      \* history: the hosts an alert refused since then

refus == <<apprises, echecs, dernier>>
histoire == <<suite, alertes>>
vars == <<heure, refus, amont, cnx, coupes, histoire>>

Etapes == {"repos", "tunnel", "relaye", "poignee", "servie"}

TypeOK ==
    /\ heure \in Heure
    /\ apprises \in [Hote -> [nature : {"rien", "soupcon", "alerte"}, quand : Heure]]
    /\ echecs \in [Hote -> 0 .. Seuil]
    /\ dernier \in [Hote -> Heure \cup {-1}]
    /\ amont \in [Hote -> BOOLEAN]
    /\ cnx \in [Connexion -> [pc : Etapes, hote : Hote, quand : Heure]]
    /\ coupes \in [Hote -> SUBSET Heure]
    /\ suite \in [Hote -> SUBSET Heure]
    /\ alertes \subseteq Hote
    /\ \A h \in Hote : dernier[h] <= heure /\ apprises[h].quand <= heure

Inconnu == [nature |-> "rien", quand |-> 0]

Init ==
    /\ heure = 0
    /\ apprises = [h \in Hote |-> Inconnu]
    /\ echecs = [h \in Hote |-> 0]
    /\ dernier = [h \in Hote |-> -1]
    /\ amont = [h \in Hote |-> TRUE]
    /\ cnx \in [Connexion -> {[pc |-> "repos", hote |-> h, quand |-> 0] : h \in Hote}]
    /\ coupes = [h \in Hote |-> {}]
    /\ suite = [h \in Hote |-> {}]
    /\ alertes = {}

Va(c, pc) == cnx' = [cnx EXCEPT ![c].pc = pc, ![c].quand = 0]

-------------------------------------------------------------------------------
(* Refusals.                                                               *)

\* A decision is final, a suspicion is not.
Echu(h) ==
    /\ apprises[h].nature = "soupcon"
    /\ heure - apprises[h].quand >= Oubli

\* A slip: a suspicion is as final as a decision.
HasSansOubli(h) == h \in Declares \/ apprises[h].nature # "rien"

Has(h) ==
    \/ h \in Declares
    \/ apprises[h].nature # "rien" /\ ~Echu(h)

\* oublier: the count goes with the suspicion.
Oublier(h) ==
    /\ apprises' = [apprises EXCEPT ![h] = Inconnu]
    /\ echecs' = [echecs EXCEPT ![h] = 0]
    /\ dernier' = [dernier EXCEPT ![h] = -1]
    /\ suite' = [suite EXCEPT ![h] = {}]
    /\ alertes' = alertes \ {h}

Rappeler(h) ==
    IF h \notin Declares /\ Echu(h) THEN Oublier(h) ELSE UNCHANGED <<refus, histoire>>

\* Beyond Seuil the count decides nothing more.
Compte(h) == IF echecs[h] < Seuil THEN echecs[h] + 1 ELSE Seuil

\* A slip: every cut counts.
EnRafaleJamais(h) == FALSE

EnRafale(h) == dernier[h] # -1 /\ heure - dernier[h] < Rafale

\* Echec on a cut: it counts unless it belongs to a burst already counted.
EchecCoupe(h) ==
    IF EnRafale(h) THEN UNCHANGED refus
    ELSE /\ dernier' = [dernier EXCEPT ![h] = heure]
         /\ echecs' = [echecs EXCEPT ![h] = Compte(h)]
         /\ apprises' = IF Compte(h) < Seuil THEN apprises
                        ELSE [apprises EXCEPT ![h] = [nature |-> "soupcon", quand |-> heure]]

\* Echec on an alert: decided at once.
EchecAlerte(h) ==
    /\ echecs' = [echecs EXCEPT ![h] = Compte(h)]
    /\ apprises' = [apprises EXCEPT ![h] = [nature |-> "alerte", quand |-> heure]]
    /\ UNCHANGED dernier

\* Reussite: the count restarts, what was learnt stays.
Reussite(h) ==
    /\ echecs' = [echecs EXCEPT ![h] = 0]
    /\ dernier' = [dernier EXCEPT ![h] = -1]
    /\ suite' = [suite EXCEPT ![h] = {}]
    /\ alertes' = alertes \ {h}
    /\ UNCHANGED apprises

-------------------------------------------------------------------------------
(* handle and tunnel.                                                      *)

\* The first record is read, and Has decides.
Aiguiller(c) ==
    LET h == cnx[c].hote
    IN  /\ cnx[c].pc = "repos"
        /\ IF Has(h) THEN cnx' = [cnx EXCEPT ![c].pc = "tunnel", ![c].quand = heure]
                     ELSE Va(c, "poignee")
        /\ Rappeler(h)
        /\ UNCHANGED <<heure, amont, coupes>>

\* The destination answers: bytes go both ways until one end closes.
TunnelOuvert(c) ==
    /\ cnx[c].pc = "tunnel"
    /\ amont[cnx[c].hote]
    /\ Va(c, "relaye")
    /\ UNCHANGED <<heure, refus, amont, coupes, histoire>>

\* It does not: nothing was written to the client, which is decrypted instead.
TunnelRefuse(c) ==
    /\ cnx[c].pc = "tunnel"
    /\ ~amont[cnx[c].hote]
    /\ Va(c, "poignee")
    /\ UNCHANGED <<heure, refus, amont, coupes, histoire>>

\* The destination is unknown, or is the front itself: the client is cut.
TunnelAbandonne(c) ==
    /\ cnx[c].pc = "tunnel"
    /\ Va(c, "repos")
    /\ UNCHANGED <<heure, refus, amont, coupes, histoire>>

PoigneeReussie(c) ==
    /\ cnx[c].pc = "poignee"
    /\ Va(c, "servie")
    /\ Reussite(cnx[c].hote)
    /\ UNCHANGED <<heure, amont, coupes>>

PoigneeCoupee(c) ==
    LET h == cnx[c].hote
    IN  /\ cnx[c].pc = "poignee"
        /\ Va(c, "repos")
        /\ EchecCoupe(h)
        /\ coupes' = [coupes EXCEPT ![h] = @ \cup {heure}]
        /\ suite' = [suite EXCEPT ![h] = @ \cup {heure}]
        /\ UNCHANGED <<heure, amont, alertes>>

PoigneeRefusee(c) ==
    /\ Alertes
    /\ cnx[c].pc = "poignee"
    /\ Va(c, "repos")
    /\ EchecAlerte(cnx[c].hote)
    /\ alertes' = alertes \cup {cnx[c].hote}
    /\ UNCHANGED <<heure, amont, coupes, suite>>

Clore(c) ==
    /\ cnx[c].pc \in {"relaye", "servie"}
    /\ Va(c, "repos")
    /\ UNCHANGED <<heure, refus, amont, coupes, histoire>>

\* List forgets as Has does.
Lister ==
    LET echus == {h \in Hote : Echu(h)}
    IN  /\ echus # {}
        /\ apprises' = [h \in Hote |-> IF h \in echus THEN Inconnu ELSE apprises[h]]
        /\ echecs' = [h \in Hote |-> IF h \in echus THEN 0 ELSE echecs[h]]
        /\ dernier' = [h \in Hote |-> IF h \in echus THEN -1 ELSE dernier[h]]
        /\ suite' = [h \in Hote |-> IF h \in echus THEN {} ELSE suite[h]]
        /\ alertes' = alertes \ echus
        /\ UNCHANGED <<heure, amont, cnx, coupes>>

\* The environment.
Attendre ==
    /\ heure < MaxHeure
    /\ heure' = heure + 1
    /\ UNCHANGED <<refus, amont, cnx, coupes, histoire>>

Amont(h) ==
    /\ amont' = [amont EXCEPT ![h] = ~@]
    /\ UNCHANGED <<heure, refus, cnx, coupes, histoire>>

Next ==
    \/ \E c \in Connexion :
          \/ Aiguiller(c)
          \/ TunnelOuvert(c) \/ TunnelRefuse(c) \/ TunnelAbandonne(c)
          \/ PoigneeReussie(c) \/ PoigneeCoupee(c) \/ PoigneeRefusee(c)
          \/ Clore(c)
    \/ Lister
    \/ Attendre
    \/ \E h \in Hote : Amont(h)

Spec == Init /\ [][Next]_vars

-------------------------------------------------------------------------------
(* Properties.                                                             *)

Espacees(T) == \A s, t \in T : s < t => t - s >= Rafale

\* A host is suspected only on Seuil cuts that no burst explains, all of them
\* after its last success and after it was last forgotten (mitm.go:258,
\* mitm.go:360): a client that opens connections side by side and closes the
\* useless ones does not lose the cache alone.  A host that an alert refused
\* meanwhile needs fewer: the alert counts as one.
Fonde(h) == \E T \in SUBSET suite'[h] : Cardinality(T) = Seuil /\ Espacees(T)

PasFonde ==
    \A h \in Hote :
        apprises'[h].nature = "soupcon" /\ apprises'[h] # apprises[h]
            => Fonde(h) \/ h \in alertes'

SoupconFonde == [][PasFonde]_vars

\* A connection goes to the tunnel because its host is declared, because a
\* client refused it, or because of a cut that is more recent than Oubli.
TunnelJustifie ==
    \A c \in Connexion :
        LET h == cnx[c].hote
        IN  cnx[c].pc = "tunnel" =>
               \/ h \in Declares
               \/ apprises[h].nature = "alerte"
               \/ \E t \in coupes[h] : cnx[c].quand - t < Oubli

\* mitm.go:268: an ALERT is never forgotten.
AlerteTenue ==
    [][\A h \in Hote : apprises[h].nature = "alerte" => apprises'[h].nature = "alerte"]_vars
===============================================================================
