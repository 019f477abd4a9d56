# A TLA+ verification project for ERPLibre

ERPLibre installs, runs and maintains Odoo. Most of its 1158 files are shell and
Python that call other programs in sequence. A few parts are concurrent programs, or
long transactions over data that belongs to the user. Two of them are specified here.

The **download cache of the virtual machines**, `script/qemu_cache/` (Go), is a process that
every VM of a host is diverted to, that serves hundreds of goroutines from files it does not lock,
that must keep working when the network goes, and that an operator may kill, purge or
re-key meanwhile. An order of steps nobody tested does harm there: a package cut in
half, an old index served as a new one, a deployment refused although
everything it needs is on the disk.

The **pull of the checkout**, `script/git/repo_pull.py` with `repo_apply.py` (Python), updates the
root and a hundred clones, in parallel, over work the user has not
published: it stashes, rebases, merges, goes back to a snapshot, undoes what failed and restores from
backups. It may be killed or fail at any of its git commands; what it must not do is lose a commit, a
modification or a file.

Paths are those of the repository; names in the modules are those of the code or
the words of its comments (French), so that the two can be read side by side.

## 1. Inventory

### The download cache (script/qemu_cache)

| Part | State | Operations | Hard because |
|---|---|---|---|
| Object store (`store.go`, `age.go`, `plafond.go`, `oublie.go`) | per key, a body file and a metadata file, a temporary name for each | NewWriter, Write, Commit, Abort, Get, Copier, Toucher; Purger, PurgerJusqua, Oublier, SweepPartials | no lock: writers, readers and, from another process, maintenance interleave between system calls; kills and full disks in the middle of a Commit |
| Re-keying (`recle.go`) | the same files, moved under the keys of today | Recler (dry or real), deplacer, renommerPaire, retirerPaire | four system calls per object, killed and run again; copies of one file merged in an order that the walk decides |
| Proxy (`proxy.go`, `instantane.go`, `detient.go`, `classify.go`, `boucle.go`) | one goroutine per request, the background fetches | serve, fetch, completer, serveFromStore, rejouerStatut, offlineMiss, Detenir | what the store holds is read before the upstream is asked and used after it answers |
| Memory of unreachable upstreams (`joignable.go`) | host:port -> time of the last failure; a sentinel file | ConnuMuet, Echec, Reussite | dials last, so a failure is noted after the network is back; dates of files against clocks |
| Git mirror (`gitmirror.go`) | one bare directory per repository, a mutex and a note of the last refresh per process | Assurer, Servir, Retirer, probes | a clone lasts minutes under a lock others wait for; the lock is not shared with the command line; clients give up |
| TLS front (`mitm.go`, `origdst_linux.go`) | hosts not to decrypt, and why; counts of failures; the authority | handle, tunnel, Has, Echec, Reussite, oublier | a decision on a host follows from the handshakes of many connections, in any order |
| Exceptions to the diversion (`bypass.go`, `rules.go`, `main.go`, `install_qemu_cache.sh`) | a list in a file, a set of the kernel | add, del, start, stop | no lock on the file, one temporary name, file and kernel changed by two programs |
| Command line, messages (`main.go`, `langue.go`, `catalogue_en.go`) | none | option parsing | sequential |

How they interact: `TLSFront` hands a decrypted request to `Proxy.serve`; a git
request goes to `GitMirror.Assurer` and `Servir`, any other reads and writes
`Store`; the proxy and the mirror share one `Joignabilite`, which the sentinel of
the offline simulation (`script/qemu/cache_offline.py`) clears. Maintenance runs as
another process on the same files. What should be true:

- store: what a lookup returns was accepted whole, for that key; a kill leaves nothing that is served;
- re-keying: no file is lost, the latest copy wins, the accounts balance, a dry pass tells the truth;
- proxy: what is reported as held is served; nobody is refused for lack of an attempt; a 304 serves what it confirmed and each representation is under its own key, but for a crossing of two requests; offline, no index later than its signature;
- upstream memory: an upstream that is back is asked again, soon and always;
- mirror: only whole versions are served, never older ones; the lock is always released;
- front: no host loses the cache to a burst of closed connections, or for longer than Oubli;
- exceptions: what a command reported is in the file, and the file is what a start lays.

### The pull of the checkout (script/git)

| Part | State | Operations | Hard because |
|---|---|---|---|
| One clone (`constater_depot`, `integrer`, `remettre_au_depart`, `_restaurer`, `supprimer_sauvegarde`) | branches, HEAD, the tracking references; the backup branches `erplibre-pull-*` and `erplibre-retour-*`; the work tree, the stash, ignored files and their copies; the record of the clone in each pass | the dry run; backup, stash, copy, rebase or merge or reset or checkout, undoing, stash pop; restoring a backup, deleting it, applying a stash entry | each step is a git command that may fail, stop half-way, or be the last before a kill; undoing is made of commands that may fail too; restoring goes by names and commits recorded long before |
| A pass (`passer`, `_passe`, `_passe_retour`, `inscrire`) | the root, the local manifest, the clones; the plan and its targets; `passe.json`; the lock of the checkout, the lock of the records | the dry run, the consent, the root, the manifest, the clones on a pool of threads, the record after each one, the deadline, the end | targets are computed before the root moves and used after; workers end in any order and rewrite one file; a kill or a full disk leaves a part done |

The user works in the clones before, between and after the passes, and upstream moves at any time.
What should be true:

- a clone is at its target with a backup of where it was, or where it was; a backup takes it back;
- no commit of the user's leaves every reference, no modification leaves tree and stash, no entry of the stash is taken but the pass's own, no ignored file is overwritten without a copy;
- a pass moves nothing to a target that its dry run did not show; clones go to the lines of the manifest that is on the disk;
- `passe.json` loses no record, and says what was done of all but what was in hand;
- a pass ends and gives its locks back.

### The rest of the repository

Listed in `PROJECT.json` with the reason each is left out. In short: the SIP and modem
bridge (`script/erplibre_sip_go`: call life cycle, modem lock, cancel against answer),
the mail client's synchronisation (`script/todo/mail`) and the parallel test runner
(`script/test`) have behaviour worth modelling and are in the plan
below; deployment (`script/qemu`, `script/proxmox`), installation, versions, containers,
databases, network services, menus, code analysis, statistics and data are sequences
of external commands, pure functions on text, or wording.

## 2. Modules

| Module | Models | Lines |
|---|---|---|
| `StorePromise` | abstract: what the store promises its callers (a lookup may miss; a hit is a pair of files that were each accepted whole for the key and agree on the size) | — |
| `CacheStore` | the store at the grain of its system calls; implements `StorePromise` | `store.go`, `age.go`, `oublie.go` |
| `CacheStoreProofs` | theorems about it | |
| `Recler` | the re-keying pass | `recle.go` |
| `ProxyServe`, `ProxyServeProofs` | a request from its arrival to its answer; the store at the grain of whole objects | `proxy.go`, `instantane.go`, `detient.go`, `oublie.go` |
| `Joignabilite`, `JoignabiliteProofs` | the memory of unreachable upstreams, its clock, the network | `joignable.go`, `proxy.go` (fetch), `cache_offline.py` (sentinel) |
| `MirrorPromise` | abstract: what the mirror promises whoever is let in (a copy, replaced in one step by what the upstream has; only a removal takes it away) | — |
| `GitMirror`, `GitMirrorProofs` | one mirror, its lock, its refreshes, kills; implements `MirrorPromise` | `gitmirror.go` |
| `TLSFront`, `TLSFrontProofs` | refusals and the fate of connections | `mitm.go` |
| `Bypass` | the list, the kernel's set, starts and stops | `bypass.go`, `main.go`, `install_qemu_cache.sh` |
| `Gardes`, `GardesProofs` | no code of its own: the conjunction of `Recler`, `TLSFront` and `Bypass`, which share no state, and theorems about the three (those of the front cite `TLSFrontProofs`) | |
| `Depot`, `DepotProofs` | one clone: dry run, pull, return, undoing, restoring; the user | `repo_pull.py`, `repo_apply.py` |
| `Passe`, `PasseProofs` | a pass over the root and the clones, its workers and records | `repo_pull.py`, `repo_apply.py` |
| `MC*` | the instances that TLC checks; `MCGardes` runs one part of `Gardes` per initial state, `MCProxyParts` puts side by side four instances of `ProxyServe` that share no state, one per initial state | |

Each operation of the code is one action, or one per system call when another
actor can see what lies between two calls. The definitions whose comment begins with *A slip*
are not part of the specification: each is a plausible mistake in the definition that
follows it, with which the property named in `PROJECT.json` (`mutants`) must fail. Variables marked
*history* record what happened for a property to speak of; no guard reads them.

**CacheStore.** `body`, `meta`, `part` are the files `<k>.body`, `<k>.meta`,
`<k>.meta.part` (the last is one name for all writers of a key: `store.go:400`). A file is
the response it comes from and the number of bytes it holds. Commit is four steps:
`CommitVerifie` (the length test), `CommitCorps` (rename), `CommitPart` (WriteFile, which may
fail, or leave an unreadable file when the service is killed in it), `CommitMeta` (rename).
Get is `GetMeta`, `GetOuvre`, `GetTaille`: between them anything may happen, and only the comparison of
sizes stands in between. `PurgerVoit` to `PurgerMeta` is one turn of the loop of
`age.go`; `EffacerCorps` is an erasure (`oublie.go`, `plafond.go`), which ends alike.

**Recler.** `Lancer` lists the metadata, `Visiter` is a turn of the loop with the decision of
deplacer, `OterCorps`/`OterMeta` and `PlacerCorps`/`PlacerMeta` the four system calls,
`Interrompre` a kill between any two. `avant` holds what the pass found, `prevu` what a dry pass announced.

**ProxyServe.** `req[q].pc` follows `Proxy.serve`: `local` (an immutable file from the
disk), `prepare` (everything read from the store once: detient, varianteTenue, repli, the validator),
`envoi` (fetch), `rejoue`/`renvoi` (304 on our own validator; sent again when our copy has
gone), `recu`/`copie` (commit, copy under the variant key), `horsVariante` to `refus` (the offline
branch, in the order of the code). A version stands for an ETag, a Last-Modified and a
body. Classes of URLs, which `classify.go` derives from names, are a constant.
Left out: redirections, the refusal of loops, headers, the dates that
Toucher refreshes. An unfinished transfer is `Relayer`.

**Joignabilite.** Ages, not dates: `muet[a]` is the age of the failure kept for `a`, in ticks up to the
window; `leve[a]` says that the sentinel is younger. A dial lasts up to `Delai` ticks and fails only
if the network was down at some time during it (`vu`). The sentinel's date has the granularity of a
file system, so a failure of the same tick may look younger or older.

**GitMirror.** `disque` is a version of the upstream, `Absent`, `Partiel` (a clone is filling it; git
makes HEAD first, and HEAD is all Assurer looks at) or `Coupe` (what a killed clone
left). `verrou` and `note` are per process. The clone, the refresh and both probes run under the
context of the request, so `Annuler` makes them fail.

**TLSFront.** One clock; `apprises`, `echecs`, `dernier` are the maps of `Refusals`;
`cnx` follows handle and tunnel. `Lister` is `Refusals.List`.

**Bypass.** A command is Load, WriteFile of the temporary, Rename, then the line that nft receives; the
write of the temporary, a few hundred bytes, is one step.

**Depot.** A reference is the set of the commits it reaches, so that "is an ancestor of" is
`\subseteq`; a commit is `<<content, pass>>`, the pass being the one that replayed or merged it, so that a rebase
makes new commits of the same content (`Rejoue`). `branches`, `tete`, `remotes`, `sauvegardes`,
`piles` are git's; `traces` the records of `passe.json`. The dry run is `EssaiASec` (a pull, a manifest's target)
or `EssaiRetour` (a snapshot); `Lancer` is the start of a pass, under the lock of the checkout, and `Conforme` the comparison with
what was shown. `p.pc` then follows `_integrer` and `_retourner`: `Sauvegarder` (the backup branches),
`Remiser` (stash), `Copier` (ignored files), `Integrer`/`Buter` or `Extraire`/`Ramener` (the gesture, done, stopped on a
conflict, or half-way through a checkout), `Abandonner` and `RemettreAuDepart` (undoing), `RendreEtRetirer` or
`Reappliquer` (the stash back), `Inscrire`. `Echouer`, `RemiseRefusee`, `CopierRate` and `RendreRate` are the commands that fail and are noticed, `Tuer` a kill
between any two. The queries whose failure reads as "nothing to keep" fail too: `git status` (the second disjunct of `Remiser`, after which
`p.mise` is FALSE), `git diff` and `check-ignore` (`Omettre`, which `p.omis` records), `ls-files` (`Restes`: the undoing removes what the target tracks and this survey lacks).
A rebase refuses the modified tree that then reaches it (`Permise`); a merge and a checkout take along what they do not touch. `Restaurer`, `RestaurerAMoitie`, `Supprimer`, `AppliquerRemise` are what a user asks of a backup; `Valider`, `Changer`, `Pousser`,
`MettreDeCote`, `Retoucher`, `Deposer`, `Denouer` what he does with git himself, and `Publier` what upstream does. One
ignored file, or link, stands for those a target begins to track; `Omettre` is also the link, which `copier_ecrases` skips. The user works before and after the pass, not
in the seconds during which it handles his clone.

**Passe.** A clone is the upstream line it rests on, how far along it is, and whether it has commits of its own;
what happens inside it is `Depot`. A task per repository goes through
`attend`, `geste`, `resultat`, `note`, `ecrit`, `faite`: `Prendre` (a worker takes it, unless the deadline passed), `Reussir`/`Rater`, `Noter`, `Copier`
(the records under their lock), `Ecrire`/`EcrireRate` (the file). `ApresRacine`, `Regenerer` (the manifest merged, compared with the
prediction, put in place) and `ApresClones` are the sequence of `_passe` and `_passe_retour`; `Lever`, `Sortir`, `Finir` and `Terminer` how an
exception, or the end, leaves it. `Echoir` is the deadline, `Tuer` the kill, between any two steps.
`PublierRacine`, `PublierLigne`, `ChangerEntrees` and `Valider` are the world. Left out: cloning of new
projects, dependencies, freezing.

## 3. What is checked

All runs finish in under five minutes with two workers. "States" are distinct.

| Run | Instance | Properties | What it shows |
|---|---|---|---|
| `CacheStore` (1.1 M states) | one key, two responses of a byte (one announces its length, so the other can be accepted short), two writers, one reader, purge and kills on | TypeOK, ServiEntier, CorpsDabord, TientSaPromesse | what Get hands out was accepted whole, whoever races; only an erasure leaves metadata without a body; the store implements `StorePromise` |
| `Joignabilite` (62 k) | three requests, one address, window 3, dials of at most 2 | TypeOK, RefusBorne, LeveeImmediate, RetourServi | an upstream back for a window and a dial is not refused, nor one whose cut was lifted; one that is back for good is, in the end, never refused |
| `GitMirror` (75 k) | two requests of one service, versions 0 to 2, removals, kills, clients that give up | TypeOK, ServiEntier, JamaisEnArriere, TientSaPromesse, Repond | nothing under construction is served; the mirror never goes back; it implements `MirrorPromise`; everyone is answered |
| `Gardes` (1.5 M) | three parts apart. *Recler*: every store of up to three copies of one file under two old keys and the new one, with different dates (two equal) and sizes, and a status; dry and real passes; kills. *TLSFront*: two connections to one host, two cuts to suspect, bursts of 2 ticks, forgotten after 2, clock to 6. *Bypass*: two commands, two machines, kills, starts and stops | TypesTenus, PlusRecentGarde, PaireCoherente, AnnonceTenue, TunnelJustifie, SoupconFonde, Durable, Restauration | the merge keeps the latest in every order of visit, a killed pass never pairs two objects, a dry pass announces what the real one counts; a tunnel is due to a declaration, an alert or a recent cut, a suspicion to cuts that no burst explains; a command that reported success is in the file and a start lays the file |
| `ProxyServe` (1.8 M) | four parts apart. Two requests of any kind (GET, HEAD, a range) for a page and a package, the background fetch, cuts of the network; one request at a time for a page in two representations, with erasures, purges and cuts; two at once for that page; one at a time for InRelease and Packages of a suite whose mirror may lag, with erasures and purges. The last three on variables of their own, with three versions | TypeOK, DetentionTenue, CompositionTentee, RevalideTenu, VariantePropre, SuiteTenue | what --detient promised is never refused; nobody is refused without a dial; a 304 serves what it confirmed and each variant key holds its representation, but for a crossing of two requests; offline no index later than its signature |
| `Depot` (1.29 M) | one clone, two branches, two lines of upstream that part after one commit, one commit and one modification of the user's, an ignored file, two passes by rebase or merge or to one of two snapshots, the later of which tracks the ignored file | TypeOK, RevenuOuArrive, RetouchesGardees, RemisesIntactes, CommitsGardes, EcraseCopie, AllerRetour | what a pass leaves when it ends; what no step ever takes from the user; restoring undoes the pass |
| `Passe` (0.4 M) | a root of two versions, the second of which takes one of two clones to another line, two workers, two passes in any mode, one failed write, kills, a deadline | TypeOK, TraceTenue, RegistreCroissant, CibleConsentie, ClonesSousManifeste, PasseFinit | the records keep up and lose nothing; nothing moves but as shown; the clones follow the manifest of the disk; a pass ends |
| `ReclerPerdu`, `GitMirrorTue`, `TLSFrontOubli`, `ProxyServeMuet`, `PasseRejeu` (violations) | smaller instances of the same modules; `PasseRejeu` that of `Passe` | CopieGardee, MiroirValide, AlerteTenue, CompositionTentee, RejeuPropre | see 6 |

**Bounds and why they are enough.** Two actors of each kind suffice for each hazard listed,
which are all races of two: a third writer, request or command would only
repeat one of the two roles. One key suffices in `CacheStore` because no operation relates two keys (Copier
reads and commits like any request); the theorems are for any number.
`Recler` needs three copies for a copy that is moved, merged into and removed in one pass.
`MaxVersion` of 2 or 3 lets a version be replaced by a later one and a mirror lag by one. The window of 3 and dials of 2
in `Joignabilite` make a dial both shorter and longer than what is left of a window. In `TLSFront`, `MaxHeure` 6 lets a host be suspected, forgotten after two ticks and
suspected again, and a burst end before it is forgotten. In `GitMirror` the network and forge toggle at will.
In `Depot` a second pass is what makes a backup old and lets a record be followed by another; three would repeat
the second. Two lines that part make every verdict reachable: fast-forward, divergence, a target behind. The state
space is that of independent possessions, so the constraint `Perimetre` explores the
second branch, a stash of the user's own and his ignored file one at a time, and the
second pass on a clean tree, by rebase or to a snapshot; everything else is combined.
In `Passe` two clones and two workers give every order of two ends; one failed write, a disk that fills once;
two passes, a pass after one that was killed. The theorems on `Depot` and `Passe` have none of these bounds.

**Conditions in the properties.** Some properties have an exception that a history variable makes exact:
`CorpsDabord` excludes keys whose body an erasure removed (`efface`); `PlusRecentGarde` is about passes none
of which was killed (`tuee`), `AnnonceTenue` also
about stores where no two copies of a file are to be moved; `LeveeImmediate` excludes a dial that spans the lift and fails
after it (`levee`); `ServiEntier` of the mirror excludes a request whose mirror was removed after it was told ready (`retire`);
`SoupconFonde` counts an alert as evidence (`alertes`); `Durable` is for commands that ran one at a time (`ensemble`), `Restauration` for starts during
which none ran (`trouble`). `CommitsGardes` excepts the deletion of a backup, a restoring that moves
a branch that is not checked out, and the restoring of the backup of a return that could not put the clone back on its start (`Inaboutie`), whose
recorded arrival is the place where it was stuck; `RetouchesGardees` the putting back of a return that pushed nothing to the stash, left its start branch and failed; `EcraseCopie` a file that git could
not list or that is a link, and the branch a return checks out on its way;
`RevalideTenu` and `VariantePropre` are action properties: what a request has confirmed, or stored and is about to copy, stays so at every step but that of *another* request which stores something else under that key (`Croise`),
and a variant key keeps its representation at every step but the `Copier` of a request so crossed (`~Deposee`);
`AllerRetour` is for a pass none of whose backups was deleted and after which nothing else moved the clone (`repere`). `RevenuOuArrive` says less of a clone
whose undoing failed (`restauration_echouee`: its backup is there) or that an exception interrupted (`interne`: HEAD, its branch and
the backup). Each exception is a
behaviour of the code that section 6 names, or that the code reports to the user.

**Deadlock** is checked except in `CacheStore`, `Gardes`, `ReclerPerdu`, `Depot`, `Passe` and `PasseRejeu`, whose systems may really
stop: a service that nobody calls or that was killed for good, a re-keying with nothing left, a clock or passes at their bound.

**Fairness.** Safety runs assume none. `Joignabilite!FairSpec`: time passes (WF of Tick), a dial ends
(`DelaiEtablissement` bounds it; WF of Aboutir) and a refused request is answered (a local read; WF of Replier). Nothing is
assumed of clients, of the network or of the sentinel. `GitMirror!FairSpec`: a request at work moves on (every git command and every probe has a deadline
in the code; WF of Avancer, which includes the failure of each), and a waiter gets the mutex if it is free again and again (SF of
Verrouiller: a `sync.Mutex` in starvation mode hands itself to the goroutine that has waited for a millisecond). Network, forge, clients, removals and kills are
not fair. `Passe!Equite`: the main thread, the task of the root and the task of each clone move on (WF: the
system schedules threads, and every git command runs under a time limit, after which it fails). Which outcome a command has is not
fair. Deadline, kills, user and upstream are not fair.

## 4. What is proved

TLAPS checks every proof to its leaves. Assumptions are those the modules state
(`CacheStoreAssumption`, `ReclerAssumption`, `Parties`, `Bornes`, `Marque`, `Parametres`...): types of the constants and the distinctness of
markers. A theorem that needs more says so after ASSUME: what it needs is a regime of the program (one process, one request per file, no
erasure of what is at work), and TLC shows in each case what happens outside it, or section 6 names it.

**CacheStoreProofs**, for any sets of keys, responses, writers and readers:

- `TypeCorrect`, `ServiEntierToujours`: ServiEntier is not inductive, since it speaks of readers that are done. `IInv`
  adds that every file, and every file a reader holds, is something a Commit *of the same key*
  accepted (`FichiersLivres`, `LecteursLivres`), that what was accepted is whole (`LivreEntier`), and that a writer past the length
  test has been accepted (`EcrivainsLivres`). The argument: names are shared between
  writers of a key but never between keys, so whatever a race puts under a name was accepted for that key; the
  last test of Get makes the sizes agree.
- `CorpsDabordToujours`: needs `IDabord`, that whoever is about to publish metadata for a key, in a writer or in the
  shared temporary, has put a body there which no erasure removed.
- `StoreTientSaPromesse`: refinement. `accepte` is mapped to the history `livre`, a lookup between its first and its last system call to a
  lookup that was asked for (`Vue`). CommitVerifie maps to Accepter, GetTaille to Rendre or to a
  miss, a crash to Arret; every other step stutters.

**JoignabiliteProofs**, for any window, delay, addresses and requests: `TypeCorrect`, `RefusBorneToujours`, `LeveeImmediateToujours`. The bound follows from two
facts: a dial that saw the cut began before the return (`DialDAvantLeRetour`), so the failure it notes is at most one dial younger than the return
(`EchecPresDeLaCoupe`); a refusal needs a failure younger than the window, hence a return of less than a window and a dial. For the lift,
`LeveeCouvre`: a sentinel that lifted the cut is later than the failure it found.

**GitMirrorProofs**: `TypeCorrect` and `UnSeulToujours` for any number of processes and requests (`Tient`: whoever works holds the lock of its process).
`ServiEntierToujours` and `JamaisEnArriereToujours` assume `Seul`, one process, and hold for any number of requests and
versions. `IInv` says that a directory under construction belongs to the clone under way and conversely (`CloneTient`, `Signe`), that past the examination the mirror is a mirror
(`AnnonceUtile`), that it stays one for readers until a removal (`SertUtile`) and is never ahead of the upstream
(`PasEnAvance`). `Seul` is necessary: with two processes both properties are false. `MiroirTientSaPromesse`, from the same invariant, is the refinement of
`MirrorPromise`: a directory under construction is mapped to no copy, a request to what it is once let in (`Vue`). CloneFini and MajReussit are
the one step Actualiser, Liberer is Admettre when Assurer said yes, Servir is Lire; a kill is Arret, which may leave a cut copy where there was none
(`GitMirrorTue` shows that it does); the examination, the probes, the clone that starts, fails and is erased, and those who gave up are stutters.

**PasseProofs**, for any root, clones, lines, manifests, snapshot, workers and passes: `TypesTenus`, `TracesTenues`,
`RegistresCroissants`, `CiblesConsenties`, `ClonesTenus`. None of these is true of a step taken alone: each rests on what the pass carries
from the dry run to its last clone. `Inv` says it: the record of the pass is within the results (`Registres`); a task
that is writing holds everything the file has and only results (`Ecritures`, from the exclusion of the lock of the records); only the plan shown
is at work, with the targets shown (`Consenti`); in manifest mode the targets are those of the predicted
manifest, and no clone is taken before that manifest is on the disk (`SelonManifeste`). `TracesTenues` adds a count: what
was moved and is not recorded is in the hands of a task, or of one whose writing failed (`Suivi`).

**ProxyServeProofs**, for any URLs, classes, representations, signatures, versions and requests. `TypesTenus` rests on `Inv`: a status never lies under
the key of a body, a representation is asked for by a client that accepts it (`Clefs`), a background fetch and a local read are of files
that never change (`Prises`).

- `Detention` and `Composition` assume that no index is compared with a signature, and `Menage`: erasures and purges spare the files that requests are
  at work on (those of other files go on). Neither property is true without: an erasure takes what was promised, and a body that `indexIncoherent` refuses counts as a fallback (`ProxyServeMuet`). `Refus` is what remains
  of both beside signed files: whoever asks for those, no request for a file that no signature vouches for is refused what was promised, or
  without a dial, under `Menage` alone. `Promesses` carries what a request was promised, or spared a dial for, through all steps of the offline branch: from each of
  them, one of the objects that are still to be tried is there. Requests, fetches and cuts are unbounded, since what others do to a file at work only replaces an object by another of the same key. The regime of the run, no erasure at all, is a case of `Menage` (lemma `SansEffacement`).
- `Revalidation` and `Variantes` assume nothing of who is at work on what. Two requests for one file may let a 304 serve another version and Copier store another representation (section 6), so neither holds as an
  invariant; each says at which step it can stop to hold. Whatever a request has confirmed is under its key as it saw it, or has gone (`Confirmee`): it is so of an idle request, and every step keeps it, the request's own, the other requests', the fetches', the erasures' and the purges',
  except that of another request which stores something else under that key of that file; so a 304 that lets out what it did not confirm comes after such a crossing, during the request. A variant key keeps its own representation (`Propre`) through every step
  except the copy by a request whose body was replaced since it stored it (`~Deposee`), which again takes a crossing. Their invariant is `Conformes`, a response at hand is in the representation asked for; the lemmas are `AvancerSien` (a request's own step), `AvancerAutrui` (another's) and `EffaceConfirmee` (everything else).
- `SuiteAccordee` assumes `SuitesSeparees`, no two requests at work on one file nor on an index and its signature, for any number of requests beside background fetches, erasures and purges. `Justesse` says that whatever a request has confirmed, is about to copy or has compared is under its key as it saw it, or has gone
  (`Confirme`, `Accorde`); erasures only make things go, and fetches touch only what never changes. `SuiteAccordee` also takes it
  that an index and its signature are not immutable and not kept in variants, as `classify.go` has it.

**GardesProofs**, of the re-keying pass, for any keys, objects, dates and sizes: `PairesTenues`, whatever was killed and run again. It is not inductive, since
in the middle of a move a body is already under the new key: `Mouvement` says what is removed and what is still to be placed at each of the four system calls.
`DerniereGardee` is about passes that were not killed; its invariant `RInv` says that bodies and metadata differ only by the step in
hand (`Accord`), that of each copy found the store has one as late (`Retenues`), and that what was visited is in place (`Rangees`), so that a
walk in any order ends in the same store. It assumes that a store has an object under one key (`SansDouble`), and under the key of a file only copies
of that file (`SansEtranger`): keys are hashes of canonical addresses, today's rule leaves those as they are, and statuses have keys of their own. Without the second a move would
merge two files. `AnnonceJuste` also takes it that the files of a store are finitely many. A dry pass and the real one after it walk in different orders, so the invariant
(`CInv`) ties the counts of each to the *set* of keys it has visited (`Comptes`), and says that no move has touched what is still to be visited or where it goes
(`Intactes`). Moves and merges are cardinalities; the bytes given back, a sum, are too: that of the set of pairs of a merged key and
one of its bytes (`Effaces`), so that one more merge is a disjoint union and no induction over the store is needed. Of the exceptions, for any commands and machines: `ListeTenue` and `NoyauTenu` (`UneALaFois`: a lone command
is about to publish the file with its own change; `SansTrouble`: rules read and not yet laid are those of the file). `TypesGardes` is about the three together.

**DepotProofs**, for any branches, histories, snapshots, modifications and passes, in four layers, each on the one before:

- `Inv`: `TypesDuDepot`, `RemisesTenues`, `EcrasementsCopies`. A pass that pushed the user's modifications works on a tree without them, and the entry it pushed is
  on top (`Remisees`), which is why nothing it checks out can take them away and why pop takes that entry; the ignored file lies where HEAD
  has none, and past the copy, if the target tracks it, the folder of the pass has it or git could not list it (`Ecrases`).
- `DInv`: `DepartOuCible`, `RetouchesSauves`. A pass that pushed nothing, because git status failed, keeps the modifications in its tree; of the steps of a pass only the
  `checkout -f` of `remettre_au_depart` could erase them (`Effacee`), and the invariant says where HEAD is at that point: on its start, where nothing is erased, or away from it, which only a return can be.
  Until its gesture is done a pass has moved no branch, and holds its start, and the branch of its target if that is
  another one, under backups (`Gages`); at each stage it is known on which branch HEAD is, and whether an operation of git's is open (`Etapes`). So each way of ending finds either the
  target reached with those backups, or a start that undoing can come back to.
- `AInv`: `RetourDeLAller`. What a pass holds under the names that its record will give (`Cours`) is what the record points at, until something else
  moves the clone or a backup is deleted (`Point`). Names carry the number of the pass, so no later pass takes them.
- `CInv`: `CommitsTenus`. A rebase and a merge keep the contents of the user's commits (`GardeIntegree`), an interrupted operation gives them back
  (`Interrompue`), what is integrated comes from the tracking references (`Amonts`), a backup goes only while a branch or HEAD holds what it holds (`Surveille`), and what
  a record calls its arrival has nothing that its backup and the tracking references lack (`Bilan`, `Arrivees`), so that restoring over it loses nothing. The attempt found
  an earlier form of `CommitsGardes` too strong: `_restaurer` compares HEAD with the recorded arrival, and after a return that failed and could not be undone that
  arrival is the branch checked out on the way, which may hold commits that the backup has not. The run's bounds did not reach it.

**TLSFrontProofs**, for any hosts, connections, threshold, delay and clock: `TunnelsJustifies` and `SoupconsFondes`. The second
speaks of a set of cuts, as many as the threshold, that no one sees whole: `Preuves` is the set
of such sets for the count reached so far, and `Comptes` says that it is not empty. They assume `Rafale # 0`
(the default is two seconds; only tests disable it).

**Only model-checked:** liveness (`RetourServi`, `Repond`, `PasseFinit`), whose proofs need ENABLED. Every safety property of a passing run is stated
by a theorem. `RevalideTenu`, `VariantePropre` and `SuiteTenue` are what the run calls the action properties `RevalidePas`,
`VariantePas` and `SuitePas` of its parts; the theorems state the latter for any constants.

## 5. Not modelled

`Store.Tranches` and Stat; the order and the accounts of the ceiling (`PurgerJusqua`); redirections, loops
and headers in the proxy; the authority (`LoadOrCreateCA`, `leafFor`) and the parsing of the SNI; the text of the
nft and iptables rules; option parsing and messages; in the pull, the cloning of new projects, shallow histories (deepened, or the clone is skipped), the
installation of dependencies and the freezing of manifests; and the components that section 1 and
`PROJECT.json` leave out.

Measured in lines these are most of the repository: of 188,531 lines of Python, the translation table of the menus alone is 21,130,
the five longest files of menus, mail and deployment 28,000 more. They are
prompts, wording and commands started one after the other, whose state is that of git, libvirt, PostgreSQL or a browser; a
model of them would be a model of those programs, invented. The cache is in Go and the installer in shell.
The mapped share of the Python is therefore small and stays so: what is modelled is where order and failure decide.

## 6. Where code and comments disagree

Five runs exhibit a disagreement; `PROJECT.json` (`findings`) quotes the lines.

- `ReclerPerdu`: a killed pass leaves metadata whose body has gone; a later pass takes them for the latest copy and
  removes the real one.
- `GitMirrorTue`: a clone that is killed with its process is taken for a mirror by the next one.
- `TLSFrontOubli`: an alert, which is never to be forgotten, becomes a suspicion when a later handshake is cut.
- `ProxyServeMuet`: a body that indexIncoherent will refuse counts as a fallback, and spares a dial to an upstream that may be back.
- `PasseRejeu`: a pass killed between the manifest and the clones makes the next one take the new entry for the old
  line, so that the rebase of a clone that changes line replays commits of upstream as the user's.

Others were met while modelling and are kept as hazards with a note: two writers of a key can leave the body of one beside the
metadata of the other (never served, but reported as held); an erasure between the two renamings of a Commit leaves metadata that no walk visits; a dry
re-keying announces moves where the real one merges; a dial that spans the lift of a cut is noted after it; a client that gives up makes a
late mirror pass for fresh; a prefetch in another process is not excluded by the lock; with two requests, a 304 may serve another version and Copier another
representation (the run reaches both, and the properties name the step); a status may be kept beside a body; Oublier leaves variants; two bypass commands together lose one exception; a command between the
reading and the laying of the rules is not in the kernel.

In the pull: restoring a backup after a return that changed branch compares HEAD only (`repo_pull.py:3279`), so that commits made since on the start
branch leave it, against `doc/GIT_REPO.fr.md:219-221`; after a checkout that stopped half-way and moved no reference, the files it
wrote stay (1573-1576), against the docstring of `integrer` (1631-1634); a commit made while the pass
handles other clones is integrated although it was not shown, against `doc/GIT_REPO.fr.md:177-178`; a return overwrites without a copy an ignored file that only the branch
checked out on the way tracks (2802), against `doc/GIT_REPO.fr.md:171`. Four queries of git answer a failure as they answer "nothing": after a `git status` that failed nothing is
stashed (430-431, 1764-1765, 2752-2753), and a return that then fails erases the modifications with `checkout -f` (1577-1587; a pull never does, as it does not leave its branch with them); after a `git diff` or a `check-ignore`
that failed (1008-1009, 1023-1024), and for a link (1691-1692), the ignored file is overwritten without a copy, against `doc/GIT_REPO.fr.md:171`; after an `ls-files` that failed the undoing may remove an ignored file that the
target tracks. The exceptions of `RetouchesGardees` and `EcraseCopie` are these steps and no more: without them TLC finds each of the losses. That `git branch -D` succeeds is taken for granted, and a `git rev-parse` that fails
right after a stash was pushed is not modelled (the entry stays in the stash). Restoring also moves, with `branch -f` and without a look at it, the branch of the
target (3316-3325), and takes for its arrival whatever a return that could not be undone left checked out (3336).

## 7. Plan

1. Proofs: `PlusRecentGarde` after killed passes that a later one completes; an abstract specification of a pull (arrived, or back) that `Depot` implements.
2. `Plafond`: PurgerJusqua, with the order by date of use while requests refresh dates, and the accounts; composed with `CacheStore`.
3. `Autorite`: LoadOrCreateCA and its two writes (`mitm.go:117`) with kills and full disks; leafFor.
4. `ProxyServe`: redirections and loops; `Joignabilite` in place of its flag `muet`, and a refinement of its store by `CacheStore`; an abstract specification of what a client may observe.
5. `Passe` over `Depot`: the composition, with the user at work in one clone while the pass handles another.
6. The watchdog of the offline simulation (`cache_offline.py`), composed with `Joignabilite`; the SIP bridge (life cycle of a call, modem lock and deadlines, cancel against answer).
7. Mail synchronisation, the parallel test runner.
