-------------------------------- MODULE Passe --------------------------------
(***************************************************************************)
(* A pass of script/git/repo_pull.py over the root and its clones: the     *)
(* dry run, the consent, the root, the manifest it regenerates, the        *)
(* clones on a pool of workers, passe.json written after each of them, the *)
(* deadline, a full disk, the kill.  A return to a snapshot takes the      *)
(* clones first and the root last.  What happens inside one clone is the   *)
(* module Depot.                                                           *)
(*                                                                         *)
(* Abstracted: a clone is the upstream line it rests on, how far along it  *)
(* is, and whether it has commits of its own; the strategy is the default, *)
(* rebase.  The user commits between passes.  A kill takes the group of    *)
(* processes (doc/GIT_REPO.fr.md:192), git included.                       *)
(***************************************************************************)
EXTENDS Naturals, FiniteSets

CONSTANTS
    Clone,       \* the clones
    Racine,      \* the path of the root
    Ligne,       \* the upstream lines a clone may rest on, each apart
    LigneDe,     \* [0..MaxVersion -> [Clone -> Ligne]]: a root's manifest
    Instantane,  \* [racine, clones]: what the targets of a return name
    Detaches,    \* the clones whose HEAD is detached, as repo sync leaves them
    Ouvriers,    \* the workers of the pool
    MaxVersion,  \* bound: versions of the root
    MaxPointe,   \* [Ligne -> Nat], bound: commits of a line after its first
    MaxPasse,    \* bound: passes
    MaxEchec,    \* bound: writes of passe.json that fail
    Aucun

ASSUME Parametres ==
    /\ Racine \notin Clone /\ Aucun \notin Clone \cup {Racine}
    /\ {MaxVersion, MaxPasse, MaxEchec} \subseteq Nat
    /\ MaxPointe \in [Ligne -> Nat]
    /\ Ouvriers \in Nat \ {0}
    /\ IsFiniteSet(Clone) /\ Detaches \subseteq Clone

Chemin == Clone \cup {Racine}
Version == 0 .. MaxVersion
Position == [ligne : Ligne, rang : Nat]
Depots == [pos : Position, locaux : BOOLEAN, detachee : BOOLEAN]

ASSUME Manifestes ==
    /\ LigneDe \in [Version -> [Clone -> Ligne]]
    /\ Instantane \in [racine : Version, clones : [Clone -> Position]]

\* A local manifest: the root it was merged from, and the live inputs.
Manifeste == [v : Version, e : BOOLEAN]
Mode == {"branche", "manifeste", "instantane"}

VARIABLES
    racine,    \* the version HEAD of the root is on
    amont,     \* the version its upstream is on
    entrees,   \* the live inputs of the merge of manifests
    pointe,    \* [Ligne -> Nat]: how long each line is upstream
    local,     \* the local manifest
    clone,     \* [Clone -> Depots]
    rejoues,   \* history: clones with upstream commits replayed as their own
    montre,    \* what the dry run showed, or Aucun
    p,         \* the pass, which holds the lock of the checkout
    tache,     \* [Chemin -> Etape]: where each repository of the plan is
    resultats, \* the results in memory
    ecriture,  \* the lock of the records: the task that holds it, or Aucun
    cliche,    \* [Chemin -> SUBSET Chemin]: what a task is writing
    registre,  \* [passes -> record]: the passe.json
    bouges,    \* history: the repositories the last pass moved
    rates      \* writes that failed

code == <<racine, local, clone, rejoues, bouges>>
monde == <<amont, entrees, pointe>>
memoire == <<tache, resultats, ecriture, cliche>>
trace == <<registre, rates>>
vars == <<racine, amont, entrees, pointe, local, clone, rejoues, montre, p,
          tache, resultats, ecriture, cliche, registre, bouges, rates>>

-----------------------------------------------------------------------------
Etape == {"hors", "attend", "geste", "resultat", "note", "ecrit", "faite", "levee"}
EnCours == {"geste", "resultat", "note", "ecrit"}

\* The dry run: targets, plan, prediction of the manifest.
Constat == [mode : Mode, plan : SUBSET Chemin, racine : Version,
            cible : [Clone -> Position], ancienne : [Clone -> Ligne],
            predit : Manifeste \cup {Aucun},
            teteRacine : Version, tetes : [Clone -> Depots]]

Passe == [pc : {"repos", "racine", "manifeste", "clones", "panne", "fin"},
          k : 0 .. MaxPasse, echue : BOOLEAN, constat : Constat \cup {Aucun}]
AuRepos == [pc |-> "repos", k |-> p.k, echue |-> FALSE, constat |-> Aucun]

Record == [termine : BOOLEAN, chemins : SUBSET Chemin]

TypeOK ==
    /\ racine \in Version /\ amont \in Version /\ entrees \in BOOLEAN
    /\ pointe \in [Ligne -> Nat]
    /\ local \in Manifeste
    /\ clone \in [Clone -> Depots] /\ rejoues \subseteq Clone
    /\ montre \in Constat \cup {Aucun}
    /\ p \in Passe /\ (p.pc # "repos" => p.constat \in Constat)
    /\ tache \in [Chemin -> Etape]
    /\ resultats \subseteq Chemin /\ bouges \subseteq Chemin
    /\ ecriture \in Chemin \cup {Aucun}
    /\ \A x \in Chemin : tache[x] = "ecrit" => ecriture = x
    /\ cliche \in [Chemin -> SUBSET Chemin]
    /\ registre \in [1 .. MaxPasse -> Record \cup {Aucun}]
    /\ rates \in 0 .. MaxEchec

Init ==
    /\ racine = 0 /\ amont = 0 /\ entrees = FALSE
    /\ pointe = [l \in Ligne |-> 0]
    /\ local = [v |-> 0, e |-> FALSE]
    /\ clone = [c \in Clone |-> [pos |-> [ligne |-> LigneDe[0][c], rang |-> 0],
                                 locaux |-> FALSE, detachee |-> c \in Detaches]]
    /\ rejoues = {} /\ montre = Aucun
    /\ p = [pc |-> "repos", k |-> 0, echue |-> FALSE, constat |-> Aucun]
    /\ tache = [x \in Chemin |-> "hors"] /\ resultats = {}
    /\ ecriture = Aucun /\ cliche = [x \in Chemin |-> {}]
    /\ registre = [k \in 1 .. MaxPasse |-> Aucun] /\ bouges = {} /\ rates = 0

-----------------------------------------------------------------------------
\* The dry run, without the lock, and under it when the pass starts.

\* `predire_manifeste`: the manifest of the root as the pass will leave it.
Predit(mode) == [v |-> IF mode = "manifeste" THEN amont ELSE racine, e |-> entrees]

CibleDe(mode, m, c) ==
    CASE mode = "instantane" -> Instantane.clones[c]
      [] mode = "branche" -> [clone[c].pos EXCEPT !.rang = pointe[clone[c].pos.ligne]]
      [] OTHER -> LET l == LigneDe[m.v][c] IN [ligne |-> l, rang |-> pointe[l]]

\* A clone is in the plan of a pull when its target has commits it lacks, of a
\* return when it is not exactly on its target; one that is detached is not pulled
\* along its branch.
APrendre(mode, c, cible) ==
    CASE mode = "instantane" -> clone[c].locaux \/ clone[c].pos # cible
      [] mode = "branche" -> ~clone[c].detachee /\ clone[c].pos # cible
      [] OTHER -> clone[c].pos # cible

\* `diagnostic`; m is the predicted manifest, Aucun when the merge failed, which
\* leaves the clones out.  `ancienne`: the entry of the local manifest.
Constater(mode, m) ==
    LET cible == [c \in Clone |-> IF m = Aucun THEN clone[c].pos
                                  ELSE CibleDe(mode, m, c)]
        r == IF mode = "instantane" THEN Instantane.racine ELSE amont
    IN  [mode |-> mode, racine |-> r, cible |-> cible, predit |-> m,
         ancienne |-> LigneDe[local.v], teteRacine |-> racine, tetes |-> clone,
         plan |-> {c \in Clone : m # Aucun /\ APrendre(mode, c, cible[c])}
                  \cup (IF r = racine THEN {} ELSE {Racine})]

EssaiASec(mode, m) ==
    /\ p.pc = "repos" /\ montre = Aucun /\ p.k < MaxPasse
    /\ m \in {Predit(mode)} \cup (IF mode = "manifeste" THEN {Aucun} ELSE {})
    /\ montre' = Constater(mode, m)
    /\ UNCHANGED <<code, monde, p, memoire, trace>>

\* A slip: the plan alone is compared with the one shown.
ConformePlanSeul(c) == c.plan = montre.plan

\* The consent: the plan is the one shown, and each of its repositories has the
\* target and the HEAD shown.
Conforme(c) ==
    /\ c.plan = montre.plan
    /\ Racine \in c.plan => c.racine = montre.racine /\ c.teteRacine = montre.teteRacine
    /\ \A x \in c.plan \ {Racine} : /\ c.cible[x] = montre.cible[x]
                                    /\ c.tetes[x] = montre.tetes[x]

\* The lock is taken, the dry run made again; the first record is written.
Lancer(m) ==
    LET c == Constater(montre.mode, m)
    IN  /\ p.pc = "repos" /\ montre # Aucun
        /\ m \in {Predit(montre.mode)} \cup
                 (IF montre.mode = "manifeste" THEN {Aucun} ELSE {})
        /\ Conforme(c)
        /\ c.plan # {} \/ (c.mode = "manifeste" /\ c.predit \notin {local, Aucun})
        /\ p' = [pc |-> IF c.mode = "instantane" THEN "clones" ELSE "racine",
                 k |-> p.k + 1, echue |-> FALSE, constat |-> c]
        /\ tache' = [x \in Chemin |-> IF x \in c.plan THEN "attend" ELSE "hors"]
        /\ resultats' = {} /\ bouges' = {}
        /\ registre' = [registre EXCEPT ![p.k + 1] = [termine |-> FALSE, chemins |-> {}]]
        /\ UNCHANGED <<racine, local, clone, rejoues, monde, montre, ecriture, cliche, rates>>

\* "plan_changed", or nothing to do.
Refuser ==
    /\ p.pc = "repos" /\ montre # Aucun
    /\ montre' = Aucun
    /\ UNCHANGED <<code, monde, p, memoire, trace>>

-----------------------------------------------------------------------------
\* A repository of the plan: `integrer_inscrit`, `retourner_inscrit`.

Retour == p.constat.mode = "instantane"

Avance(x, e) == tache' = [tache EXCEPT ![x] = e]

\* The main thread takes the root, the pool's workers the clones.  Nothing
\* begins after the deadline ("saute_delai").
Prendre(x) ==
    /\ tache[x] = "attend"
    /\ IF x = Racine THEN p.pc = "racine"
       ELSE /\ p.pc = "clones"
            /\ Cardinality({c \in Clone : tache[c] \in EnCours}) < Ouvriers
    /\ Avance(x, IF p.echue THEN "resultat" ELSE "geste")
    /\ UNCHANGED <<code, monde, montre, p, resultats, ecriture, cliche, trace>>

\* The root is on its target.
ReussirRacine ==
    /\ tache[Racine] = "geste"
    /\ racine' = p.constat.racine /\ bouges' = bouges \cup {Racine}
    /\ Avance(Racine, "resultat")
    /\ UNCHANGED <<local, clone, rejoues, monde, montre, p, resultats, ecriture, cliche, trace>>

\* A rebase takes the commits of HEAD that its target lacks: all those of the
\* line it leaves, unless `amont_de_depart` knew the line and `--onto` left them
\* out.  A detached clone without commits of its own goes over.
RejoueAmont(c) ==
    LET cible == p.constat.cible[c].ligne
    IN  /\ ~Retour /\ clone[c].pos.ligne # cible
        /\ ~(clone[c].detachee /\ ~clone[c].locaux)
        /\ p.constat.ancienne[c] # clone[c].pos.ligne

Reussir(c) ==
    /\ tache[c] = "geste"
    /\ clone' = [clone EXCEPT ![c].pos = p.constat.cible[c],
                              ![c].locaux = @ /\ ~Retour]
    /\ rejoues' = IF Retour THEN rejoues \ {c}
                  ELSE IF RejoueAmont(c) THEN rejoues \cup {c} ELSE rejoues
    /\ bouges' = bouges \cup {c}
    /\ Avance(c, "resultat")
    /\ UNCHANGED <<racine, local, monde, montre, p, resultats, ecriture, cliche, trace>>

\* A conflict, a refusal, a failure: the repository is put back on its start.
Rater(x) ==
    /\ tache[x] = "geste"
    /\ Avance(x, "resultat")
    /\ UNCHANGED <<code, monde, montre, p, resultats, ecriture, cliche, trace>>

\* A slip: the record is written inside the same lock, which is not reentrant.
NoterGarde(x) ==
    /\ tache[x] = "resultat" /\ ecriture = Aucun
    /\ resultats' = resultats \cup {x} /\ ecriture' = x
    /\ Avance(x, "note")
    /\ UNCHANGED <<code, monde, montre, p, cliche, trace>>

\* with ecriture: resultats.append(res)
Noter(x) ==
    /\ tache[x] = "resultat" /\ ecriture = Aucun
    /\ resultats' = resultats \cup {x}
    /\ Avance(x, "note")
    /\ UNCHANGED <<code, monde, montre, p, ecriture, cliche, trace>>

\* A slip: the list is copied before the lock is taken.
CopierSansVerrou(x) ==
    /\ tache[x] = "note"
    /\ cliche' = [cliche EXCEPT ![x] = resultats]
    /\ Avance(x, "ecrit")
    /\ UNCHANGED <<code, monde, montre, p, resultats, ecriture, trace>>

\* inscrire(): the list is copied under the lock, then passe.json replaced.
Copier(x) ==
    /\ tache[x] = "note" /\ ecriture = Aucun
    /\ ecriture' = x /\ cliche' = [cliche EXCEPT ![x] = resultats]
    /\ Avance(x, "ecrit")
    /\ UNCHANGED <<code, monde, montre, p, resultats, trace>>

\* A slip: passe.json is written at the end of the pass alone.
EcrireALaFin(x) ==
    /\ tache[x] = "ecrit"
    /\ ecriture' = Aucun /\ cliche' = [cliche EXCEPT ![x] = {}]
    /\ Avance(x, "faite")
    /\ UNCHANGED <<code, monde, montre, p, resultats, trace>>

Ecrire(x) ==
    /\ tache[x] = "ecrit"
    /\ registre' = [registre EXCEPT ![p.k].chemins = cliche[x]]
    /\ ecriture' = Aucun /\ cliche' = [cliche EXCEPT ![x] = {}]
    /\ Avance(x, "faite")
    /\ UNCHANGED <<code, monde, montre, p, resultats, rates>>

\* The disk is full: the exception leaves the task; main meets it when it comes
\* to that future.
EcrireRate(x) ==
    /\ tache[x] = "ecrit" /\ rates < MaxEchec
    /\ rates' = rates + 1
    /\ ecriture' = Aucun /\ cliche' = [cliche EXCEPT ![x] = {}]
    /\ Avance(x, "levee")
    /\ UNCHANGED <<code, monde, montre, p, resultats, registre>>

-----------------------------------------------------------------------------
\* The main thread.

Vers(e) == p' = [p EXCEPT !.pc = e]

\* The root is done, or was not in the plan.
ApresRacine ==
    /\ p.pc = "racine" /\ tache[Racine] \in {"hors", "faite"}
    /\ Vers(CASE p.constat.mode = "manifeste" -> "manifeste"
              [] Retour -> IF Racine \in bouges THEN "manifeste" ELSE "fin"
              [] OTHER -> "clones")
    /\ UNCHANGED <<code, monde, montre, memoire, trace>>

\* A slip: the merged manifest is not compared with the one predicted.
RegenererSansPredit(ok) ==
    /\ p.pc = "manifeste"
    /\ local' = IF ok THEN [v |-> racine, e |-> entrees] ELSE local
    /\ Vers(IF ok /\ ~Retour THEN "clones" ELSE "fin")
    /\ UNCHANGED <<racine, clone, rejoues, bouges, monde, montre, memoire, trace>>

\* `regenerer_manifeste`: written if it is the one predicted, else the clones are
\* left; a return writes it whatever it is.  ok: the merge succeeded.
Regenerer(ok) ==
    LET m == [v |-> racine, e |-> entrees]
        ecrit == ok /\ (Retour \/ m = p.constat.predit)
    IN  /\ p.pc = "manifeste"
        /\ local' = IF ecrit THEN m ELSE local
        /\ Vers(IF ecrit /\ ~Retour THEN "clones" ELSE "fin")
        /\ UNCHANGED <<racine, clone, rejoues, bouges, monde, montre, memoire, trace>>

\* Every future has a result.
ApresClones ==
    /\ p.pc = "clones" /\ \A c \in Clone : tache[c] \in {"hors", "faite"}
    /\ Vers(IF Retour THEN "racine" ELSE "fin")
    /\ UNCHANGED <<code, monde, montre, memoire, trace>>

\* Main meets the exception of a task: the futures not begun are cancelled, those
\* at work are waited for, and the pass ends there.
Lever ==
    /\ p.pc \in {"racine", "clones"} /\ \E x \in Chemin : tache[x] = "levee"
    /\ tache' = [x \in Chemin |-> IF tache[x] = "attend" THEN "hors" ELSE tache[x]]
    /\ Vers("panne")
    /\ UNCHANGED <<code, monde, montre, resultats, ecriture, cliche, trace>>

Finir ==
    /\ montre' = Aucun /\ p' = AuRepos
    /\ tache' = [x \in Chemin |-> "hors"] /\ resultats' = {}
    /\ ecriture' = Aucun /\ cliche' = [x \in Chemin |-> {}]
    /\ UNCHANGED <<code, monde, rates>>

Sortir ==
    /\ p.pc = "panne" /\ \A x \in Chemin : tache[x] \notin EnCours
    /\ Finir /\ UNCHANGED registre

\* The last record, marked finished.
Terminer ==
    /\ p.pc = "fin"
    /\ registre' = [registre EXCEPT ![p.k] = [termine |-> TRUE, chemins |-> resultats]]
    /\ Finir

\* SIGKILL at any point; the kernel gives the lock of the checkout back.
Tuer == p.pc # "repos" /\ Finir /\ UNCHANGED registre

-----------------------------------------------------------------------------
\* The deadline, the user between passes, upstream, the live inputs.

Echoir ==
    /\ p.pc # "repos" /\ ~p.echue
    /\ p' = [p EXCEPT !.echue = TRUE]
    /\ UNCHANGED <<code, monde, montre, memoire, trace>>

Valider(c) ==
    /\ p.pc = "repos" /\ ~clone[c].locaux
    /\ clone' = [clone EXCEPT ![c].locaux = TRUE]
    /\ UNCHANGED <<racine, local, rejoues, bouges, monde, montre, p, memoire, trace>>

PublierRacine ==
    /\ p.pc = "repos" /\ amont < MaxVersion
    /\ amont' = amont + 1
    /\ UNCHANGED <<code, entrees, pointe, montre, p, memoire, trace>>

PublierLigne(l) ==
    /\ p.pc = "repos" /\ pointe[l] < MaxPointe[l]
    /\ pointe' = [pointe EXCEPT ![l] = @ + 1]
    /\ UNCHANGED <<code, amont, entrees, montre, p, memoire, trace>>

ChangerEntrees ==
    /\ ~entrees /\ entrees' = TRUE
    /\ UNCHANGED <<code, amont, pointe, montre, p, memoire, trace>>

-----------------------------------------------------------------------------
Tache(x) == Prendre(x) \/ Rater(x) \/ Noter(x) \/ Copier(x) \/ Ecrire(x) \/ EcrireRate(x)

Fil == \/ ApresRacine \/ ApresClones \/ Lever \/ Sortir \/ Terminer
       \/ \E ok \in BOOLEAN : Regenerer(ok)

Next ==
    \/ \E mode \in Mode, m \in {Predit("manifeste"), Predit("branche"), Aucun} :
          EssaiASec(mode, m)
    \/ \E m \in {Predit("manifeste"), Predit("branche"), Aucun} : Lancer(m)
    \/ Refuser \/ Fil \/ Tuer \/ Echoir
    \/ \E x \in Chemin : Tache(x)
    \/ ReussirRacine \/ \E c \in Clone : Reussir(c) \/ Valider(c)
    \/ PublierRacine \/ ChangerEntrees \/ \E l \in Ligne : PublierLigne(l)

\* Python schedules every thread, and git ends: each command has its own time limit.
Equite ==
    /\ WF_vars(Fil) /\ WF_vars(Tache(Racine) \/ ReussirRacine)
    /\ \A c \in Clone : WF_vars(Tache(c) \/ Reussir(c))

Spec == Init /\ [][Next]_vars /\ Equite
-----------------------------------------------------------------------------
\* A process killed, or stopped by a full disk, leaves the trace of what it has done:
\* the repositories moved and missing from passe.json are those the workers had in
\* hand, and those whose writing failed.
TraceTenue ==
    p.k # 0 => Cardinality(bouges \ registre[p.k].chemins) <= Ouvriers + rates

\* Two tasks write passe.json: no write takes back what an earlier one recorded.
RegistreCroissant ==
    [][\A k \in 1 .. MaxPasse : registre[k] # Aucun =>
          registre[k].chemins \subseteq registre'[k].chemins]_vars

\* A pull never moves a clone to a target or a root to a version nobody was shown,
\* whatever upstream and the live inputs did since the dry run.
CibleConsentie ==
    [][/\ \A c \in Clone : clone'[c].pos # clone[c].pos => clone'[c].pos = montre.cible[c]
       /\ racine' # racine => racine' = montre.racine]_vars

\* In manifest mode a clone goes to the line that the local manifest on the disk
\* gives it, although its target was computed before the root moved.
ClonesSousManifeste ==
    [][\A c \in Clone : (clone'[c].pos # clone[c].pos /\ p.constat.mode = "manifeste")
            => clone'[c].pos.ligne = LigneDe[local.v][c]]_vars

\* A pass that starts ends, and gives the lock of the checkout back: no task waits
\* for ever for the lock of the records.
PasseFinit == p.pc # "repos" ~> p.pc = "repos"

\* doc/GIT_REPO.fr.md:157: a clone with commits of its own that the manifest takes
\* to another line has only those replayed.
RejeuPropre == [][\A c \in rejoues' \ rejoues : ~clone[c].locaux]_vars
=============================================================================
