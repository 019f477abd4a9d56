------------------------------- MODULE GitMirror -------------------------------
(***************************************************************************)
(* One bare mirror of the download cache, script/qemu_cache/gitmirror.go:  *)
(* Assurer makes it ready (clone, refresh, or serve it as it is) under a   *)
(* lock, Servir answers from it once the lock is released, Retirer erases  *)
(* it.  The lock and the memory of refreshes live in ONE process: the      *)
(* service and the command line (prefetch, removal) share only the disk.   *)
(*                                                                         *)
(* A mirror is abstracted to the version of the upstream that it holds.    *)
(***************************************************************************)
EXTENDS Integers

CONSTANTS
    Requete,       \* requests: a goroutine of the service, a job of the CLI
    Processus,     \* the processes at work
    Chez,          \* Chez[q]: the process that runs q
    Retraits,      \* may mirrors be removed?
    Annulations,   \* may a client give up, which cancels its context?
    Pannes,        \* may a process be killed?
    MaxVersion,    \* bound on the versions of the upstream
    None

ASSUME GitMirrorAssumption ==
    /\ Chez \in [Requete -> Processus]
    /\ Retraits \in BOOLEAN
    /\ Annulations \in BOOLEAN
    /\ Pannes \in BOOLEAN
    /\ MaxVersion \in Nat
    /\ None \notin Requete

Version == 0 .. MaxVersion

\* What a directory holds when it is not a version of the upstream, and what a
\* request has read before it reads.
Absent == -1
Partiel == -2   \* a clone is filling it
Coupe == -3     \* a clone that was killed left it, with a HEAD
Rien == -4

VARIABLES
    disque,    \* the directory of the mirror
    auteur,    \* the request whose "git clone" fills it, None when none does
    amont,     \* the version the upstream is at
    reseau,    \* the upstream accepts connections
    forge,     \* a connection that is accepted leads to a git that answers
    muet,      \* Muets: the address is known not to answer
    note,      \* note[p]: p remembers a refresh that is not older than Frais
    verrou,    \* verrou[p]: the request that holds the lock of p
    req        \* req[q]: the progress of q

vars == <<disque, auteur, amont, reseau, forge, muet, note, verrou, req>>

Etapes == {"repos", "attend", "examine", "clone", "efface", "sonde", "maj",
           "resonde", "libere", "sert", "retire"}

\* annule: its client gave up; vaut: what Assurer is about to answer; retire:
\* the mirror was removed since Assurer said it was ready; lu: what Servir read.
Progres == [pc : Etapes, annule : BOOLEAN, vaut : BOOLEAN, retire : BOOLEAN,
            lu : Version \cup {Rien, Absent, Partiel, Coupe}]

TypeOK ==
    /\ disque \in Version \cup {Absent, Partiel, Coupe}
    /\ auteur \in Requete \cup {None}
    /\ amont \in Version
    /\ reseau \in BOOLEAN
    /\ forge \in BOOLEAN
    /\ muet \in BOOLEAN
    /\ note \in [Processus -> BOOLEAN]
    /\ verrou \in [Processus -> Requete \cup {None}]
    /\ req \in [Requete -> Progres]
    /\ auteur # None => req[auteur].pc \in {"clone", "efface"}

Oisif == [pc |-> "repos", annule |-> FALSE, vaut |-> FALSE, retire |-> FALSE, lu |-> Rien]

Init ==
    /\ disque = Absent
    /\ auteur = None
    /\ amont = 0
    /\ reseau = TRUE
    /\ forge = TRUE
    /\ muet = FALSE
    /\ note = [p \in Processus |-> FALSE]
    /\ verrou = [p \in Processus |-> None]
    /\ req = [q \in Requete |-> Oisif]

miroir == <<disque, auteur>>
monde == <<amont, reseau, forge>>

Va(q, pc) == req' = [req EXCEPT ![q].pc = pc]

\* Assurer returns: the deferred Unlock runs on every path.
Rend(q, vaut) == req' = [req EXCEPT ![q].pc = "libere", ![q].vaut = vaut]

Existe == disque # Absent

-------------------------------------------------------------------------------
(* Assurer.                                                                *)

Demander(q) ==
    /\ req[q].pc = "repos"
    /\ req' = [req EXCEPT ![q] = [Oisif EXCEPT !.pc = "attend"]]
    /\ UNCHANGED <<miroir, monde, muet, note, verrou>>

\* A slip: the lock is taken without waiting.
VerrouillerSansAttendre(q) ==
    /\ req[q].pc = "attend"
    /\ verrou' = [verrou EXCEPT ![Chez[q]] = q]
    /\ Va(q, "examine")
    /\ UNCHANGED <<miroir, monde, muet, note>>

Verrouiller(q) ==
    /\ req[q].pc = "attend"
    /\ verrou[Chez[q]] = None
    /\ verrou' = [verrou EXCEPT ![Chez[q]] = q]
    /\ Va(q, "examine")
    /\ UNCHANGED <<miroir, monde, muet, note>>

\* A mirror is a directory with a HEAD; a recent one serves as it is.
Recent(q) == note[Chez[q]]

ExaminerTenu(q) ==
    /\ req[q].pc = "examine"
    /\ Existe
    /\ \/ Recent(q) /\ Rend(q, TRUE)
       \/ ~Recent(q) /\ muet /\ Rend(q, TRUE)
       \/ ~Recent(q) /\ ~muet /\ Va(q, "sonde")
    /\ UNCHANGED <<miroir, monde, muet, note, verrou>>

\* No new mirror below the floor of free space; "git clone" makes HEAD first.
ExaminerAbsent(q) ==
    /\ req[q].pc = "examine"
    /\ ~Existe
    /\ \/ /\ Rend(q, FALSE)
          /\ UNCHANGED miroir
       \/ /\ disque' = Partiel
          /\ auteur' = q
          /\ Va(q, "clone")
    /\ UNCHANGED <<monde, muet, note, verrou>>

\* A slip: the clone is over and its directory still belongs to it.
CloneFiniSansRendre(q) ==
    /\ req[q].pc = "clone"
    /\ auteur = q
    /\ reseau /\ forge /\ ~req[q].annule
    /\ disque' = amont
    /\ note' = [note EXCEPT ![Chez[q]] = TRUE]
    /\ Rend(q, TRUE)
    /\ UNCHANGED <<auteur, monde, muet, verrou>>

\* The clone ends well if nobody took its directory and its context lives.
CloneFini(q) ==
    /\ req[q].pc = "clone"
    /\ auteur = q
    /\ reseau /\ forge /\ ~req[q].annule
    /\ disque' = amont
    /\ auteur' = None
    /\ note' = [note EXCEPT ![Chez[q]] = TRUE]
    /\ Rend(q, TRUE)
    /\ UNCHANGED <<monde, muet, verrou>>

\* It fails for want of network, of forge, of a client or of a directory, or
\* by its own delay.
CloneEchoue(q) ==
    /\ req[q].pc = "clone"
    /\ Va(q, "efface")
    /\ UNCHANGED <<miroir, monde, muet, note, verrou>>

\* A slip: what a failed clone left is not removed.
EffacerRien(q) ==
    /\ req[q].pc = "efface"
    /\ auteur' = None
    /\ Rend(q, FALSE)
    /\ UNCHANGED <<disque, monde, muet, note, verrou>>

\* RemoveAll, whatever the directory now holds.
Effacer(q) ==
    /\ req[q].pc = "efface"
    /\ disque' = Absent
    /\ auteur' = None
    /\ Rend(q, FALSE)
    /\ UNCHANGED <<monde, muet, note, verrou>>

\* sonderAmont: a dial under the context of the request.  A cancelled dial
\* fails too, but only a failure to establish is kept in Muets.
SondeReussit(q) == reseau /\ ~req[q].annule

Muets(q) ==
    muet' = IF SondeReussit(q) THEN FALSE
            ELSE IF reseau THEN muet
            ELSE IF req[q].annule THEN muet ELSE TRUE

\* amontJoignable: refused, the mirror serves as it is.
Sonder(q) ==
    /\ req[q].pc = "sonde"
    /\ Muets(q)
    /\ IF SondeReussit(q) THEN Va(q, "maj") ELSE Rend(q, TRUE)
    /\ UNCHANGED <<miroir, monde, note, verrou>>

\* "git remote update --prune"; it also completes a clone that was cut.
MajReussit(q) ==
    /\ req[q].pc = "maj"
    /\ reseau /\ forge /\ ~req[q].annule
    /\ Existe
    /\ disque' = amont
    /\ note' = [note EXCEPT ![Chez[q]] = TRUE]
    /\ Rend(q, TRUE)
    /\ UNCHANGED <<auteur, monde, muet, verrou>>

\* A slip: a failed refresh is treated as a failed clone.
MajEchoueEtEfface(q) ==
    /\ req[q].pc = "maj"
    /\ Va(q, "efface")
    /\ UNCHANGED <<miroir, monde, muet, note, verrou>>

MajEchoue(q) ==
    /\ req[q].pc = "maj"
    /\ Va(q, "resonde")
    /\ UNCHANGED <<miroir, monde, muet, note, verrou>>

\* sondeRefusee: the attempt counts as a refresh if the probe now fails; a
\* probe whose client gave up fails too, whatever the upstream.
Resonder(q) ==
    /\ req[q].pc = "resonde"
    /\ Muets(q)
    /\ note' = IF SondeReussit(q) THEN note ELSE [note EXCEPT ![Chez[q]] = TRUE]
    /\ Rend(q, TRUE)
    /\ UNCHANGED <<miroir, monde, verrou>>

\* A slip: the lock is released only when the mirror serves.
LibererSiVaut(q) ==
    /\ req[q].pc = "libere"
    /\ verrou' = IF req[q].vaut THEN [verrou EXCEPT ![Chez[q]] = None] ELSE verrou
    /\ IF req[q].vaut THEN Va(q, "sert") ELSE req' = [req EXCEPT ![q] = Oisif]
    /\ UNCHANGED <<miroir, monde, muet, note>>

Liberer(q) ==
    /\ req[q].pc = "libere"
    /\ verrou' = [verrou EXCEPT ![Chez[q]] = None]
    /\ IF req[q].vaut THEN Va(q, "sert") ELSE req' = [req EXCEPT ![q] = Oisif]
    /\ UNCHANGED <<miroir, monde, muet, note>>

\* "git http-backend" reads the mirror, outside the lock.
Servir(q) ==
    /\ req[q].pc = "sert"
    /\ req[q].lu = Rien
    /\ req' = [req EXCEPT ![q].lu = disque]
    /\ UNCHANGED <<miroir, monde, muet, note, verrou>>

Repondu(q) ==
    /\ req[q].pc = "sert"
    /\ req[q].lu # Rien
    /\ req' = [req EXCEPT ![q] = Oisif]
    /\ UNCHANGED <<miroir, monde, muet, note, verrou>>

-------------------------------------------------------------------------------
(* Retirer, under the lock of its own process.                             *)

DemanderRetrait(q) ==
    /\ Retraits
    /\ req[q].pc = "repos"
    /\ verrou[Chez[q]] = None
    /\ verrou' = [verrou EXCEPT ![Chez[q]] = q]
    /\ req' = [req EXCEPT ![q] = [Oisif EXCEPT !.pc = "retire"]]
    /\ UNCHANGED <<miroir, monde, muet, note>>

Retirer(q) ==
    /\ req[q].pc = "retire"
    /\ disque' = Absent
    /\ auteur' = None
    /\ req' = [s \in Requete |->
                 CASE s = q -> [req[q] EXCEPT !.pc = "libere", !.vaut = FALSE]
                 []   s # q /\ req[s].pc = "sert" -> [req[s] EXCEPT !.retire = TRUE]
                 []   OTHER -> req[s]]
    /\ UNCHANGED <<monde, muet, note, verrou>>

-------------------------------------------------------------------------------
(* The environment.                                                        *)

\* The client of q gives up while its context is in use.
Annuler(q) ==
    /\ Annulations
    /\ req[q].pc \in {"attend", "examine", "clone", "sonde", "maj", "resonde"}
    /\ ~req[q].annule
    /\ req' = [req EXCEPT ![q].annule = TRUE]
    /\ UNCHANGED <<miroir, monde, muet, note, verrou>>

\* The refresh is older than Frais.
NoteEchoit(p) ==
    /\ note[p]
    /\ note' = [note EXCEPT ![p] = FALSE]
    /\ UNCHANGED <<miroir, monde, muet, verrou, req>>

\* The window of Muets ends.
MuetEchoit ==
    /\ muet
    /\ muet' = FALSE
    /\ UNCHANGED <<miroir, monde, note, verrou, req>>

Pousser ==
    /\ amont < MaxVersion
    /\ amont' = amont + 1
    /\ UNCHANGED <<miroir, reseau, forge, muet, note, verrou, req>>

Reseau ==
    /\ reseau' = ~reseau
    /\ UNCHANGED <<miroir, amont, forge, muet, note, verrou, req>>

Forge ==
    /\ forge' = ~forge
    /\ UNCHANGED <<miroir, amont, reseau, muet, note, verrou, req>>

\* p is killed, its git with it; it starts again with no memory.
Tuer(p) ==
    /\ Pannes
    /\ note' = [note EXCEPT ![p] = FALSE]
    /\ verrou' = [verrou EXCEPT ![p] = None]
    /\ LET coupe == auteur # None /\ Chez[auteur] = p IN
       /\ auteur' = IF coupe THEN None ELSE auteur
       /\ disque' = IF coupe THEN Coupe ELSE disque
    /\ req' = [q \in Requete |-> IF Chez[q] = p THEN Oisif ELSE req[q]]
    /\ UNCHANGED <<monde, muet>>

-------------------------------------------------------------------------------
Avancer(q) ==
    \/ ExaminerTenu(q) \/ ExaminerAbsent(q)
    \/ CloneFini(q) \/ CloneEchoue(q) \/ Effacer(q)
    \/ Sonder(q) \/ MajReussit(q) \/ MajEchoue(q) \/ Resonder(q)
    \/ Liberer(q) \/ Servir(q) \/ Repondu(q) \/ Retirer(q)

Next ==
    \/ \E q \in Requete : \/ Demander(q) \/ Verrouiller(q) \/ Avancer(q)
                          \/ DemanderRetrait(q) \/ Annuler(q)
    \/ \E p \in Processus : NoteEchoit(p) \/ Tuer(p)
    \/ MuetEchoit
    \/ Pousser
    \/ Reseau
    \/ Forge

Spec == Init /\ [][Next]_vars

\* Every call to git and every probe is bounded by a delay, and a Go mutex
\* hands itself to a goroutine that has waited for a millisecond.
FairSpec ==
    /\ Spec
    /\ \A q \in Requete : WF_vars(Avancer(q)) /\ SF_vars(Verrouiller(q))

-------------------------------------------------------------------------------
(* Properties.                                                             *)

\* gitmirror.go:239: a clone that failed must not be taken for a mirror.  What
\* git http-backend reads, outside the lock, is never a directory that a clone
\* is still filling or that is not there, unless the mirror was removed after
\* Assurer said it was ready.
ServiEntier ==
    \A q \in Requete : req[q].lu \in {Partiel, Absent} => req[q].retire

\* gitmirror.go:239: "Un clonage a moitie fait laisserait un repertoire que la
\* prochaine requete prendrait pour un miroir valide": none is, however the
\* clone ended.
MiroirValide == \A q \in Requete : req[q].lu # Coupe

\* A process never has two requests at work on the mirror.
Travaille(q) == req[q].pc \in {"examine", "clone", "efface", "sonde", "maj", "resonde",
                               "retire", "libere"}

UnSeulALaFois ==
    \A q, s \in Requete :
        Travaille(q) /\ Travaille(s) /\ Chez[q] = Chez[s] => q = s

\* Whoever asks for the mirror is answered, from it or by the relay, whatever
\* the network does and whoever gives up.
Repond == \A q \in Requete : req[q].pc = "attend" ~> req[q].pc = "repos"

\* A mirror that holds a version never goes back to an older one, nor to none,
\* whatever fails or is killed meanwhile: only a removal takes it away.
JamaisEnArriere ==
    [][(disque \in Version) =>
          \/ disque' \in Version /\ disque' >= disque
          \/ \E q \in Requete : req[q].pc = "retire" /\ req'[q].pc = "libere"]_vars

\* q as whoever is let in to the mirror.
Vue(q) ==
    [pc |-> IF req[q].pc = "sert" THEN "admis" ELSE "libre",
     retire |-> req[q].retire,
     lu |-> IF req[q].lu = Partiel THEN Absent ELSE req[q].lu]

Promesse == INSTANCE MirrorPromise
                WITH copie <- IF disque = Partiel THEN Absent ELSE disque,
                     client <- [q \in Requete |-> Vue(q)]

\* gitmirror.go:202: what Assurer lets in is served from a copy that git
\* replaces in one step (MirrorPromise), although a clone fills its directory
\* little by little, fails and is erased, and http-backend reads it once the
\* lock is released.
TientSaPromesse == Promesse!Spec
===============================================================================
