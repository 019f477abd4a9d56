------------------------------ MODULE CacheStore ------------------------------
(***************************************************************************)
(* The on-disk object store of the VM download cache,                      *)
(* script/qemu_cache/store.go.  An object is TWO files, the body and the   *)
(* metadata, and nothing locks them: the service's request goroutines      *)
(* write (Writer) and read (Get) the same key at the same time, while the  *)
(* maintenance modes of the command line (age.go, plafond.go, oublie.go)   *)
(* remove files from another process.                                      *)
(*                                                                         *)
(* Every system call that another actor can see the effect of is a step.   *)
(* A file's content is abstracted to the response it came from and the     *)
(* number of bytes of it that the file holds.                              *)
(***************************************************************************)
EXTENDS Integers

CONSTANTS
    Key,          \* keys of the store, all of which may be written and read
    Resp,         \* responses of the origin; any of them may be stored anew
    Writer,       \* request goroutines that hold a Writer
    Reader,       \* request goroutines inside Get
    Taille,       \* Taille[p]: bytes the origin means to send for p
    Annonce,      \* responses that carry a Content-Length
    None,         \* "there is no such file"
    Illisible,    \* a metadata file that does not parse
    Maintenance,  \* may the purge modes run beside the service?
    Pannes        \* may a process be killed, may the disk be full?

Fichier == [resp : Resp, taille : Nat]

ASSUME CacheStoreAssumption ==
    /\ Taille \in [Resp -> Nat]
    /\ Annonce \subseteq Resp
    /\ None \notin Fichier
    /\ Illisible \notin Fichier
    /\ None # Illisible
    /\ Maintenance \in BOOLEAN
    /\ Pannes \in BOOLEAN

VARIABLES
    body,    \* body[k]: the file <k>.body
    meta,    \* meta[k]: the file <k>.meta
    part,    \* part[k]: the file <k>.meta.part, ONE name for all writers of k
    vieux,   \* vieux[k]: the body's date precedes the limit of the purge
    actif,   \* the service runs
    w,       \* w[x]: the Writer held by goroutine x
    r,       \* r[y]: the progress of goroutine y inside Get
    purge,   \* the progress of the maintenance process
    livre,   \* history: livre[k], what Commit accepted to publish under k
    efface   \* history: the keys whose body maintenance has removed

vars == <<body, meta, part, vieux, actif, w, r, purge, livre, efface>>

Libre == [pc |-> "libre"]

Ecriture == [pc : {"flux", "corps", "part", "meta"}, cle : Key,
             resp : Resp, taille : Nat]

Lecture == [pc : {"ouvre"}, cle : Key, m : Fichier]
           \cup [pc : {"taille", "servi"}, cle : Key, m : Fichier, b : Fichier]

Purge == [pc : {"corps", "meta"}, cle : Key]

TypeOK ==
    /\ body \in [Key -> Fichier \cup {None}]
    /\ meta \in [Key -> Fichier \cup {None, Illisible}]
    /\ part \in [Key -> Fichier \cup {None, Illisible}]
    /\ vieux \in [Key -> BOOLEAN]
    /\ actif \in BOOLEAN
    /\ w \in [Writer -> {Libre} \cup Ecriture]
    /\ r \in [Reader -> {Libre} \cup Lecture]
    /\ purge \in {Libre} \cup Purge
    /\ livre \in [Key -> SUBSET Fichier]
    /\ efface \subseteq Key

Init ==
    /\ body = [k \in Key |-> None]
    /\ meta = [k \in Key |-> None]
    /\ part = [k \in Key |-> None]
    /\ vieux = [k \in Key |-> FALSE]
    /\ actif = TRUE
    /\ w = [x \in Writer |-> Libre]
    /\ r = [y \in Reader |-> Libre]
    /\ purge = Libre
    /\ livre = [k \in Key |-> {}]
    /\ efface = {}

-------------------------------------------------------------------------------
(* Writing: NewWriter, Write, Abort, Commit.                               *)

\* A slip: one byte less than what was received.
RecuMoinsUn(x) == [resp |-> w[x].resp, taille |-> w[x].taille - 1]

\* The bytes that Writer x has received so far.
Recu(x) == [resp |-> w[x].resp, taille |-> w[x].taille]

disque == <<body, meta, part, vieux>>

NewWriter(x, k, p) ==
    /\ actif
    /\ w[x].pc = "libre"
    /\ w' = [w EXCEPT ![x] = [pc |-> "flux", cle |-> k, resp |-> p, taille |-> 0]]
    /\ UNCHANGED <<disque, actif, r, purge, livre, efface>>

Write(x) ==
    /\ w[x].pc = "flux"
    /\ w[x].taille < Taille[w[x].resp]
    /\ w' = [w EXCEPT ![x].taille = @ + 1]
    /\ UNCHANGED <<disque, actif, r, purge, livre, efface>>

\* Abort, and every error of Commit up to the renaming of the body: cleanup
\* removes the temporary, which no other actor can see.
Abort(x) ==
    /\ w[x].pc \in {"flux", "corps"}
    /\ w' = [w EXCEPT ![x] = Libre]
    /\ UNCHANGED <<disque, actif, r, purge, livre, efface>>

\* A slip: the announced length is not compared.
TronqueJamais(f) == FALSE

\* The announced length, when there is one, must have been received.
Tronque(f) == f.resp \in Annonce /\ f.taille # Taille[f.resp]

\* Commit up to the closing of the temporary.  The stream may have ended
\* early; only an announced length can tell.
CommitVerifie(x) ==
    /\ w[x].pc = "flux"
    /\ \/ /\ Tronque(Recu(x))
          /\ w' = [w EXCEPT ![x] = Libre]
          /\ UNCHANGED livre
       \/ /\ ~Tronque(Recu(x))
          /\ w' = [w EXCEPT ![x].pc = "corps"]
          /\ livre' = [livre EXCEPT ![w[x].cle] = @ \cup {Recu(x)}]
    /\ UNCHANGED <<disque, actif, r, purge, efface>>

\* A slip: the renaming of the body fails and Commit goes on.
CommitCorpsManque(x) ==
    /\ w[x].pc = "corps"
    /\ w' = [w EXCEPT ![x].pc = "part"]
    /\ UNCHANGED <<disque, actif, r, purge, livre, efface>>

CommitCorps(x) ==
    /\ w[x].pc = "corps"
    /\ body' = [body EXCEPT ![w[x].cle] = Recu(x)]
    /\ vieux' = [vieux EXCEPT ![w[x].cle] = FALSE]
    /\ w' = [w EXCEPT ![x].pc = "part"]
    /\ UNCHANGED <<meta, part, actif, r, purge, livre, efface>>

CommitPart(x) ==
    /\ w[x].pc = "part"
    /\ part' = [part EXCEPT ![w[x].cle] = Recu(x)]
    /\ w' = [w EXCEPT ![x].pc = "meta"]
    /\ UNCHANGED <<body, meta, vieux, actif, r, purge, livre, efface>>

\* A full disk: WriteFile fails and leaves what it wrote.
CommitPartEchoue(x) ==
    /\ Pannes
    /\ w[x].pc = "part"
    /\ part' = [part EXCEPT ![w[x].cle] = Illisible]
    /\ w' = [w EXCEPT ![x] = Libre]
    /\ UNCHANGED <<body, meta, vieux, actif, r, purge, livre, efface>>

\* The renaming takes whatever is under the shared name, another writer's
\* metadata included; it fails when another writer renamed it first.
CommitMeta(x) ==
    /\ w[x].pc = "meta"
    /\ LET k == w[x].cle IN
       \/ /\ part[k] # None
          /\ meta' = [meta EXCEPT ![k] = part[k]]
          /\ part' = [part EXCEPT ![k] = None]
       \/ /\ part[k] = None
          /\ UNCHANGED <<meta, part>>
    /\ w' = [w EXCEPT ![x] = Libre]
    /\ UNCHANGED <<body, vieux, actif, r, purge, livre, efface>>

-------------------------------------------------------------------------------
(* Reading: Get reads the metadata, opens the body, refreshes the body's   *)
(* date by NAME, then compares the size of the file it holds open.         *)

GetMeta(y, k) ==
    /\ actif
    /\ r[y].pc = "libre"
    /\ meta[k] \in Fichier
    /\ r' = [r EXCEPT ![y] = [pc |-> "ouvre", cle |-> k, m |-> meta[k]]]
    /\ UNCHANGED <<disque, actif, w, purge, livre, efface>>

GetOuvre(y) ==
    /\ r[y].pc = "ouvre"
    /\ LET k == r[y].cle IN
       r' = [r EXCEPT ![y] =
              IF body[k] = None THEN Libre
              ELSE [pc |-> "taille", cle |-> k, m |-> r[y].m, b |-> body[k]]]
    /\ UNCHANGED <<disque, actif, w, purge, livre, efface>>

\* A slip: the size of the open file is not compared.
GetTailleAveugle(y) ==
    /\ r[y].pc = "taille"
    /\ vieux' = [vieux EXCEPT ![r[y].cle] = FALSE]
    /\ r' = [r EXCEPT ![y] = [r[y] EXCEPT !.pc = "servi"]]
    /\ UNCHANGED <<body, meta, part, actif, w, purge, livre, efface>>

GetTaille(y) ==
    /\ r[y].pc = "taille"
    /\ vieux' = [vieux EXCEPT ![r[y].cle] = FALSE]
    /\ r' = [r EXCEPT ![y] = IF r[y].b.taille = r[y].m.taille
                             THEN [r[y] EXCEPT !.pc = "servi"]
                             ELSE Libre]
    /\ UNCHANGED <<body, meta, part, actif, w, purge, livre, efface>>

\* The caller closes the reader.
Fermer(y) ==
    /\ r[y].pc = "servi"
    /\ r' = [r EXCEPT ![y] = Libre]
    /\ UNCHANGED <<disque, actif, w, purge, livre, efface>>

-------------------------------------------------------------------------------
(* Maintenance, in a process of its own.                                   *)

\* Time passes: the body of k has not been used for longer than the limit.
Vieillir(k) ==
    /\ body[k] # None
    /\ ~vieux[k]
    /\ vieux' = [vieux EXCEPT ![k] = TRUE]
    /\ UNCHANGED <<body, meta, part, actif, w, r, purge, livre, efface>>

\* Purger's walk meets an old body.
PurgerVoit(k) ==
    /\ Maintenance
    /\ purge.pc = "libre"
    /\ body[k] # None
    /\ vieux[k]
    /\ purge' = [pc |-> "corps", cle |-> k]
    /\ UNCHANGED <<disque, actif, w, r, livre, efface>>

\* Purger's removal of the body; the metadata stay when it fails.
PurgerCorps ==
    /\ purge.pc = "corps"
    /\ LET k == purge.cle IN
       /\ body' = [body EXCEPT ![k] = None]
       /\ purge' = IF body[k] = None THEN Libre ELSE [pc |-> "meta", cle |-> k]
       /\ efface' = IF body[k] = None THEN efface ELSE efface \cup {k}
    /\ UNCHANGED <<meta, part, vieux, actif, w, r, livre>>

\* Oublier's effacer removes the body whatever its date, if there is one.
EffacerCorps(k) ==
    /\ Maintenance
    /\ purge.pc = "libre"
    /\ body' = [body EXCEPT ![k] = None]
    /\ purge' = [pc |-> "meta", cle |-> k]
    /\ efface' = IF body[k] = None THEN efface ELSE efface \cup {k}
    /\ UNCHANGED <<meta, part, vieux, actif, w, r, livre>>

\* Both end by removing the metadata, if there are any.
PurgerMeta ==
    /\ purge.pc = "meta"
    /\ meta' = [meta EXCEPT ![purge.cle] = None]
    /\ purge' = Libre
    /\ UNCHANGED <<body, part, vieux, actif, w, r, livre, efface>>

PurgerInterrompu ==
    /\ Pannes
    /\ purge.pc # "libre"
    /\ purge' = Libre
    /\ UNCHANGED <<disque, actif, w, r, livre, efface>>

-------------------------------------------------------------------------------
(* The service is killed; its next start sweeps the temporaries.           *)

Crash ==
    /\ Pannes
    /\ actif
    /\ actif' = FALSE
    /\ w' = [x \in Writer |-> Libre]
    /\ r' = [y \in Reader |-> Libre]
    /\ UNCHANGED <<disque, purge, livre, efface>>

SweepPartials ==
    /\ ~actif
    /\ actif' = TRUE
    /\ part' = [k \in Key |-> None]
    /\ UNCHANGED <<body, meta, vieux, w, r, purge, livre, efface>>

-------------------------------------------------------------------------------
Ecrire(x) ==
    \/ \E k \in Key, p \in Resp : NewWriter(x, k, p)
    \/ Write(x)
    \/ Abort(x)
    \/ CommitVerifie(x)
    \/ CommitCorps(x)
    \/ CommitPart(x)
    \/ CommitPartEchoue(x)
    \/ CommitMeta(x)

Lire(y) ==
    \/ \E k \in Key : GetMeta(y, k)
    \/ GetOuvre(y)
    \/ GetTaille(y)
    \/ Fermer(y)

Maintenir ==
    \/ \E k \in Key : Vieillir(k) \/ PurgerVoit(k) \/ EffacerCorps(k)
    \/ PurgerCorps
    \/ PurgerMeta
    \/ PurgerInterrompu

Next ==
    \/ \E x \in Writer : Ecrire(x)
    \/ \E y \in Reader : Lire(y)
    \/ Maintenir
    \/ Crash
    \/ SweepPartials

Spec == Init /\ [][Next]_vars

-------------------------------------------------------------------------------
(* Properties.                                                             *)

Entier(f) == f.resp \in Annonce => f.taille = Taille[f.resp]

\* store.go, Store: whatever writers, purges and crashes do at the same
\* time, the body that Get hands out was accepted by a Commit of the SAME
\* key, it is whole when its length was announced, and it has the size that
\* the metadata sent with it announce.
ServiEntier ==
    \A y \in Reader : r[y].pc = "servi" =>
        /\ r[y].b \in livre[r[y].cle]
        /\ r[y].m \in livre[r[y].cle]
        /\ Entier(r[y].b)
        /\ r[y].b.taille = r[y].m.taille

\* store.go, Commit: the metadata come LAST.  Readable metadata whose body is
\* not there can only come from an erasure of that key: neither a kill of the
\* service, nor a full disk, nor a race of writers leaves such a pair.
CorpsDabord ==
    \A k \in Key \ efface : meta[k] \in Fichier => body[k] # None

\* The lookup of y as a caller of Get sees it.
Vue(y) ==
    IF r[y].pc \in {"ouvre", "taille"}
    THEN [pc |-> "demande", cle |-> r[y].cle]
    ELSE r[y]

Promesse == INSTANCE StorePromise
                WITH accepte <- livre, lu <- [y \in Reader |-> Vue(y)]

\* The store keeps its promise (StorePromise): the two-file, lock-free
\* implementation never lets a lookup return anything but a pair of files
\* that were each accepted whole for the key.
TientSaPromesse == Promesse!Spec
===============================================================================
