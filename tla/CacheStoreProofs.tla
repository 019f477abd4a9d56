--------------------------- MODULE CacheStoreProofs ---------------------------
(***************************************************************************)
(* Theorems about CacheStore, for any number of keys, responses, writers   *)
(* and readers, with and without maintenance and failures.                 *)
(***************************************************************************)
EXTENDS CacheStore, TLAPS

\* Every file, and every file a reader holds, is something a Commit of the
\* same key accepted.
FichiersLivres ==
    /\ \A k \in Key : body[k] \in livre[k] \cup {None}
    /\ \A k \in Key : meta[k] \in livre[k] \cup {None, Illisible}
    /\ \A k \in Key : part[k] \in livre[k] \cup {None, Illisible}

LivreEntier ==
    \A k \in Key : \A f \in livre[k] : Entier(f) /\ f.taille <= Taille[f.resp]

EcrivainsLivres ==
    \A x \in Writer : w[x].pc # "libre" =>
        /\ w[x].taille <= Taille[w[x].resp]
        /\ w[x].pc # "flux" => Recu(x) \in livre[w[x].cle]

LecteursLivres ==
    \A y \in Reader : r[y].pc # "libre" =>
        /\ r[y].m \in livre[r[y].cle]
        /\ r[y].pc # "ouvre" => r[y].b \in livre[r[y].cle]
        /\ r[y].pc = "servi" => r[y].b.taille = r[y].m.taille

IInv == TypeOK /\ FichiersLivres /\ LivreEntier /\ EcrivainsLivres /\ LecteursLivres

-------------------------------------------------------------------------------
\* Type correctness of every action of store.go and of the purge modes.
LEMMA TypeStep == TypeOK /\ [Next]_vars => TypeOK'
<1> SUFFICES ASSUME TypeOK, [Next]_vars PROVE TypeOK'
  OBVIOUS
<1> USE CacheStoreAssumption DEF TypeOK, Libre, Ecriture, Lecture, Purge, Fichier, disque
<1>1. ASSUME NEW x \in Writer, NEW k \in Key, NEW p \in Resp, NewWriter(x, k, p)
      PROVE  TypeOK'
  BY <1>1 DEF NewWriter
<1>2. ASSUME NEW x \in Writer, Write(x) PROVE TypeOK'
  BY <1>2 DEF Write
<1>3. ASSUME NEW x \in Writer, Abort(x) PROVE TypeOK'
  BY <1>3 DEF Abort
<1>4. ASSUME NEW x \in Writer, CommitVerifie(x) PROVE TypeOK'
  BY <1>4 DEF CommitVerifie, Recu
<1>5. ASSUME NEW x \in Writer, CommitCorps(x) PROVE TypeOK'
  BY <1>5 DEF CommitCorps, Recu
<1>6. ASSUME NEW x \in Writer, CommitPart(x) PROVE TypeOK'
  BY <1>6 DEF CommitPart, Recu
<1>7. ASSUME NEW x \in Writer, CommitPartEchoue(x) PROVE TypeOK'
  BY <1>7 DEF CommitPartEchoue
<1>8. ASSUME NEW x \in Writer, CommitMeta(x) PROVE TypeOK'
  BY <1>8, SMTT(30) DEF CommitMeta
<1>9. ASSUME NEW y \in Reader, Lire(y) PROVE TypeOK'
  <2>1. ASSUME NEW k \in Key, GetMeta(y, k) PROVE TypeOK'
    BY <2>1 DEF GetMeta
  <2>2. CASE GetOuvre(y)
    <3>1. r[y] \in Lecture
      BY <2>2 DEF GetOuvre
    <3> QED
      BY <2>2, <3>1 DEF GetOuvre
  <2>3. CASE GetTaille(y)
    <3>1. r[y] \in [pc : {"taille"}, cle : Key, m : Fichier, b : Fichier]
      BY <2>3 DEF GetTaille
    <3>2. [r[y] EXCEPT !.pc = "servi"] \in Lecture
      BY <3>1
    <3> QED
      BY <2>3, <3>1, <3>2 DEF GetTaille
  <2>4. CASE Fermer(y)
    BY <2>4 DEF Fermer
  <2> QED
    BY <1>9, <2>1, <2>2, <2>3, <2>4 DEF Lire
<1>10. CASE Maintenir
  <2>1. ASSUME NEW k \in Key, Vieillir(k) PROVE TypeOK'
    BY <2>1 DEF Vieillir
  <2>2. ASSUME NEW k \in Key, PurgerVoit(k) PROVE TypeOK'
    BY <2>2 DEF PurgerVoit
  <2>3. ASSUME NEW k \in Key, EffacerCorps(k) PROVE TypeOK'
    BY <2>3 DEF EffacerCorps
  <2>4. CASE PurgerCorps
    <3>1. purge.cle \in Key
      BY <2>4 DEF PurgerCorps
    <3> QED
      BY <2>4, <3>1 DEF PurgerCorps
  <2>5. CASE PurgerMeta
    BY <2>5 DEF PurgerMeta
  <2>6. CASE PurgerInterrompu
    BY <2>6 DEF PurgerInterrompu
  <2> QED
    BY <1>10, <2>1, <2>2, <2>3, <2>4, <2>5, <2>6 DEF Maintenir
<1>11. CASE Crash
  BY <1>11 DEF Crash
<1>12. CASE SweepPartials
  BY <1>12 DEF SweepPartials
<1>13. CASE UNCHANGED vars
  BY <1>13 DEF vars
<1> QED
  BY <1>1, <1>2, <1>3, <1>4, <1>5, <1>6, <1>7, <1>8, <1>9, <1>10, <1>11, <1>12,
     <1>13 DEF Next, Ecrire

-------------------------------------------------------------------------------
\* What was accepted stays accepted: the history only grows.
LEMMA LivreCroit ==
    TypeOK /\ [Next]_vars => \A k \in Key : livre[k] \subseteq livre'[k]
<1> SUFFICES ASSUME TypeOK, [Next]_vars, NEW k \in Key
             PROVE  livre[k] \subseteq livre'[k]
  OBVIOUS
<1> USE DEF TypeOK
<1>1. ASSUME NEW x \in Writer, CommitVerifie(x)
      PROVE  livre[k] \subseteq livre'[k]
  BY <1>1 DEF CommitVerifie
<1>2. CASE UNCHANGED livre
  BY <1>2
<1> QED
  BY <1>1, <1>2 DEF Next, vars, Ecrire, Lire, Maintenir, Crash, SweepPartials,
     NewWriter, Write, Abort, CommitCorps, CommitPart, CommitPartEchoue, CommitMeta,
     GetMeta, GetOuvre, GetTaille, Fermer, Vieillir, PurgerVoit, PurgerCorps,
     EffacerCorps, PurgerMeta, PurgerInterrompu

\* The files: only CommitCorps, CommitPart and CommitMeta put something new.
LEMMA FichiersStep == IInv /\ [Next]_vars => FichiersLivres'
<1> SUFFICES ASSUME IInv, [Next]_vars PROVE FichiersLivres'
  OBVIOUS
<1>0. \A k \in Key : livre[k] \subseteq livre'[k]
  BY LivreCroit DEF IInv
<1> USE CacheStoreAssumption DEF IInv, TypeOK, FichiersLivres
<1>1. ASSUME NEW x \in Writer, CommitCorps(x) PROVE FichiersLivres'
  <2>1. Recu(x) \in livre[w[x].cle] /\ w[x].cle \in Key
    BY <1>1 DEF CommitCorps, EcrivainsLivres, Ecriture, Libre
  <2> QED
    BY <1>0, <1>1, <2>1 DEF CommitCorps
<1>2. ASSUME NEW x \in Writer, CommitPart(x) PROVE FichiersLivres'
  <2>1. Recu(x) \in livre[w[x].cle] /\ w[x].cle \in Key
    BY <1>2 DEF CommitPart, EcrivainsLivres, Ecriture, Libre
  <2> QED
    BY <1>0, <1>2, <2>1 DEF CommitPart
<1>3. ASSUME NEW x \in Writer, CommitPartEchoue(x) PROVE FichiersLivres'
  BY <1>0, <1>3 DEF CommitPartEchoue
<1>4. ASSUME NEW x \in Writer, CommitMeta(x) PROVE FichiersLivres'
  BY <1>0, <1>4 DEF CommitMeta
<1>5. CASE PurgerCorps \/ \E k \in Key : EffacerCorps(k)
  BY <1>0, <1>5 DEF PurgerCorps, EffacerCorps
<1>6. CASE PurgerMeta
  BY <1>0, <1>6 DEF PurgerMeta
<1>7. CASE SweepPartials
  BY <1>0, <1>7 DEF SweepPartials
<1>8. CASE UNCHANGED <<body, meta, part>>
  BY <1>0, <1>8
<1> QED
  BY <1>1, <1>2, <1>3, <1>4, <1>5, <1>6, <1>7, <1>8
     DEF Next, vars, disque, Ecrire, Lire, Maintenir, Crash, NewWriter, Write, Abort,
     CommitVerifie, GetMeta, GetOuvre, GetTaille, Fermer, Vieillir, PurgerVoit,
     PurgerInterrompu

\* The writers: what is past the check of Commit has been accepted, and an
\* accepted object is whole when its length was announced.
LEMMA EcrivainsStep == IInv /\ [Next]_vars => EcrivainsLivres' /\ LivreEntier'
<1> SUFFICES ASSUME IInv, [Next]_vars PROVE EcrivainsLivres' /\ LivreEntier'
  OBVIOUS
<1>0. \A k \in Key : livre[k] \subseteq livre'[k]
  BY LivreCroit DEF IInv
<1> USE CacheStoreAssumption
    DEF IInv, TypeOK, EcrivainsLivres, LivreEntier, Ecriture, Libre, Recu, Entier
<1>1. ASSUME NEW x \in Writer, NEW k \in Key, NEW p \in Resp, NewWriter(x, k, p)
      PROVE  EcrivainsLivres' /\ LivreEntier'
  BY <1>1 DEF NewWriter
<1>2. ASSUME NEW x \in Writer, Write(x)
      PROVE  EcrivainsLivres' /\ LivreEntier'
  BY <1>2 DEF Write
<1>3. ASSUME NEW x \in Writer, Abort(x)
      PROVE  EcrivainsLivres' /\ LivreEntier'
  BY <1>3 DEF Abort
<1>4. ASSUME NEW x \in Writer, CommitVerifie(x)
      PROVE  EcrivainsLivres' /\ LivreEntier'
  <2>1. CASE Tronque(Recu(x))
    BY <1>0, <1>4, <2>1 DEF CommitVerifie
  <2>2. CASE ~Tronque(Recu(x))
    <3>1. /\ w' = [w EXCEPT ![x].pc = "corps"]
          /\ livre' = [livre EXCEPT ![w[x].cle] = @ \cup {Recu(x)}]
          /\ w[x] \in Ecriture
      BY <1>4, <2>2 DEF CommitVerifie
    <3>2. LivreEntier'
      BY <2>2, <3>1 DEF Tronque
    <3>3. EcrivainsLivres'
      BY <1>0, <3>1
    <3> QED
      BY <3>2, <3>3
  <2> QED
    BY <2>1, <2>2
<1>5. ASSUME NEW x \in Writer, CommitCorps(x) \/ CommitPart(x)
      PROVE  EcrivainsLivres' /\ LivreEntier'
  BY <1>5 DEF CommitCorps, CommitPart
<1>6. ASSUME NEW x \in Writer, CommitPartEchoue(x) \/ CommitMeta(x)
      PROVE  EcrivainsLivres' /\ LivreEntier'
  BY <1>6 DEF CommitPartEchoue, CommitMeta
<1>7. CASE Crash
  BY <1>7 DEF Crash
<1>8. CASE UNCHANGED <<w, livre>>
  BY <1>8
<1> QED
  BY <1>1, <1>2, <1>3, <1>4, <1>5, <1>6, <1>7, <1>8
     DEF Next, vars, Ecrire, Lire, Maintenir, SweepPartials, GetMeta, GetOuvre,
     GetTaille, Fermer, Vieillir, PurgerVoit, PurgerCorps, EffacerCorps, PurgerMeta,
     PurgerInterrompu

\* The readers: each file they hold was on disk when they took it.
LEMMA LecteursStep == IInv /\ [Next]_vars => LecteursLivres'
<1> SUFFICES ASSUME IInv, [Next]_vars PROVE LecteursLivres'
  OBVIOUS
<1>0. \A k \in Key : livre[k] \subseteq livre'[k]
  BY LivreCroit DEF IInv
<1> USE CacheStoreAssumption DEF IInv, TypeOK, FichiersLivres, LecteursLivres, Lecture, Libre
<1>1. ASSUME NEW y \in Reader, NEW k \in Key, GetMeta(y, k) PROVE LecteursLivres'
  BY <1>1 DEF GetMeta
<1>2. ASSUME NEW y \in Reader, GetOuvre(y) PROVE LecteursLivres'
  BY <1>2 DEF GetOuvre
<1>3. ASSUME NEW y \in Reader, GetTaille(y) PROVE LecteursLivres'
  BY <1>3 DEF GetTaille
<1>4. ASSUME NEW y \in Reader, Fermer(y) PROVE LecteursLivres'
  BY <1>4 DEF Fermer
<1>5. CASE Crash
  BY <1>5 DEF Crash
<1>6. CASE UNCHANGED r
  BY <1>0, <1>6
<1> QED
  BY <1>1, <1>2, <1>3, <1>4, <1>5, <1>6
     DEF Next, vars, Ecrire, Lire, Maintenir, SweepPartials, NewWriter, Write, Abort,
     CommitVerifie, CommitCorps, CommitPart, CommitPartEchoue, CommitMeta, Vieillir,
     PurgerVoit, PurgerCorps, EffacerCorps, PurgerMeta, PurgerInterrompu

-------------------------------------------------------------------------------
LEMMA InitIInv == Init => IInv
BY CacheStoreAssumption DEF Init, IInv, TypeOK, FichiersLivres, LivreEntier,
   EcrivainsLivres, LecteursLivres, Libre

LEMMA IInvStep == IInv /\ [Next]_vars => IInv'
BY TypeStep, FichiersStep, EcrivainsStep, LecteursStep DEF IInv

LEMMA Inductif == Spec => []IInv
BY InitIInv, IInvStep, PTL DEF Spec

\* store.go: every variable keeps its type under every interleaving.
THEOREM TypeCorrect == Spec => []TypeOK
BY Inductif, PTL DEF IInv

\* store.go, Get and Commit: what a lookup returns was accepted by Commit for
\* that very key, is whole, and agrees in size with its metadata, for any
\* number of writers, readers and keys, through purges and crashes.
THEOREM ServiEntierToujours == Spec => []ServiEntier
<1>1. IInv => ServiEntier
  BY DEF IInv, TypeOK, LecteursLivres, LivreEntier, ServiEntier, Lecture, Libre
<1> QED
  BY Inductif, <1>1, PTL

-------------------------------------------------------------------------------
(* Metadata never precede their body under a key that no erasure touched.  *)

IDabord ==
    \A k \in Key \ efface :
        /\ meta[k] \in Fichier => body[k] # None
        /\ part[k] \in Fichier => body[k] # None
        /\ \A x \in Writer : w[x].pc \in {"part", "meta"} /\ w[x].cle = k => body[k] # None

LEMMA DabordStep == TypeOK /\ IDabord /\ [Next]_vars => IDabord'
<1> SUFFICES ASSUME TypeOK, IDabord, [Next]_vars PROVE IDabord'
  OBVIOUS
<1> USE CacheStoreAssumption DEF IDabord, TypeOK, Libre, Ecriture, disque
<1>1. ASSUME NEW x \in Writer, CommitCorps(x) PROVE IDabord'
  <2>1. Recu(x) \in Fichier /\ w[x] \in Ecriture
    BY <1>1 DEF CommitCorps, Recu, Fichier
  <2> QED
    BY <1>1, <2>1 DEF CommitCorps
<1>2. ASSUME NEW x \in Writer, CommitPart(x) PROVE IDabord'
  BY <1>2 DEF CommitPart
<1>3. ASSUME NEW x \in Writer, CommitPartEchoue(x) PROVE IDabord'
  BY <1>3 DEF CommitPartEchoue
<1>4. ASSUME NEW x \in Writer, CommitMeta(x) PROVE IDabord'
  BY <1>4 DEF CommitMeta
<1>5. ASSUME NEW x \in Writer, NEW k \in Key, NEW p \in Resp, NewWriter(x, k, p)
      PROVE  IDabord'
  BY <1>5 DEF NewWriter
<1>6. ASSUME NEW x \in Writer, Write(x) \/ Abort(x) \/ CommitVerifie(x) PROVE IDabord'
  BY <1>6 DEF Write, Abort, CommitVerifie
<1>7. CASE Crash \/ SweepPartials
  BY <1>7 DEF Crash, SweepPartials
<1>8. CASE PurgerCorps \/ \E k \in Key : EffacerCorps(k)
  BY <1>8 DEF PurgerCorps, EffacerCorps
<1>9. CASE PurgerMeta
  BY <1>9 DEF PurgerMeta
<1>10. CASE UNCHANGED <<body, meta, part, w, efface>>
  BY <1>10
<1> QED
  BY <1>1, <1>2, <1>3, <1>4, <1>5, <1>6, <1>7, <1>8, <1>9, <1>10
     DEF Next, vars, Ecrire, Lire, Maintenir, GetMeta, GetOuvre, GetTaille, Fermer,
     Vieillir, PurgerVoit, PurgerInterrompu

\* store.go:400: the metadata come last.  However many writers of one key
\* interleave and wherever the service is killed, readable metadata have a
\* body, unless an erasure of that key took it.
THEOREM CorpsDabordToujours == Spec => []CorpsDabord
<1>1. ASSUME Init PROVE IDabord
  <2>1. \A k \in Key : meta[k] \notin Fichier /\ part[k] \notin Fichier
    BY <1>1, CacheStoreAssumption DEF Init
  <2>2. \A x \in Writer : w[x].pc = "libre"
    BY <1>1 DEF Init, Libre
  <2> QED
    BY <2>1, <2>2 DEF IDabord
<1>2. IDabord => CorpsDabord
  BY DEF IDabord, CorpsDabord
<1> QED
  BY TypeCorrect, <1>1, <1>2, DabordStep, PTL DEF Spec

-------------------------------------------------------------------------------
(* The store implements StorePromise.                                      *)

LEMMA PromesseInit == Init => Promesse!Init
BY DEF Init, Promesse!Init, Promesse!Rien, Vue, Libre

\* A step that leaves the history and the readers alone is a stutter.
LEMMA PromesseBegaie ==
    UNCHANGED <<livre, r>> => UNCHANGED Promesse!promesse
BY DEF Promesse!promesse, Vue

LEMMA PromesseStep == IInv /\ [Next]_vars => [Promesse!Next]_(Promesse!promesse)
<1> SUFFICES ASSUME IInv, [Next]_vars PROVE [Promesse!Next]_(Promesse!promesse)
  OBVIOUS
<1> DEFINE lu == [y \in Reader |-> Vue(y)]
<1> USE CacheStoreAssumption DEF IInv, TypeOK
<1>1. ASSUME NEW x \in Writer, CommitVerifie(x), ~Tronque(Recu(x))
      PROVE  Promesse!Next
  <2>1. /\ w[x].cle \in Key /\ w[x].resp \in Resp
        /\ w[x].taille \in 0 .. Taille[w[x].resp]
    BY <1>1 DEF CommitVerifie, EcrivainsLivres, Ecriture, Libre
  <2>2. Promesse!Accepter(w[x].cle, w[x].resp, w[x].taille)
    BY <1>1 DEF CommitVerifie, Tronque, Recu, Promesse!Accepter, Promesse!Complet, Vue
  <2> QED
    BY <2>1, <2>2 DEF Promesse!Next
<1>2. ASSUME NEW y \in Reader, NEW k \in Key, GetMeta(y, k)
      PROVE  Promesse!Next
  <2>1. livre[k] # {}
    BY <1>2 DEF GetMeta, FichiersLivres
  <2>2. Promesse!Demander(y, k)
    BY <1>2, <2>1 DEF GetMeta, Promesse!Demander, Vue
  <2> QED
    BY <2>2 DEF Promesse!Next
<1>3. ASSUME NEW y \in Reader, GetOuvre(y)
      PROVE  [Promesse!Next]_(Promesse!promesse)
  <2>1. CASE body[r[y].cle] = None
    <3>1. Promesse!Finir(y)
      BY <1>3, <2>1 DEF GetOuvre, Promesse!Finir, Promesse!Rien, Vue, Libre
    <3> QED
      BY <3>1 DEF Promesse!Next
  <2>2. CASE body[r[y].cle] # None
    <3>1. r[y] \in Lecture
      BY <1>3 DEF GetOuvre, Libre
    <3>2. lu' = lu /\ livre' = livre
      BY <1>3, <2>2, <3>1 DEF GetOuvre, Vue, Lecture
    <3> QED
      BY <3>2 DEF Promesse!promesse
  <2> QED
    BY <2>1, <2>2
<1>4. ASSUME NEW y \in Reader, GetTaille(y) PROVE Promesse!Next
  <2>1. r[y] \in [pc : {"taille"}, cle : Key, m : Fichier, b : Fichier]
    BY <1>4 DEF GetTaille, Lecture, Libre
  <2>2. CASE r[y].b.taille = r[y].m.taille
    <3>1. r[y].m \in livre[r[y].cle] /\ r[y].b \in livre[r[y].cle]
      BY <2>1 DEF LecteursLivres
    <3>2. [r[y] EXCEPT !.pc = "servi"]
            = [pc |-> "servi", cle |-> r[y].cle, m |-> r[y].m, b |-> r[y].b]
      BY <2>1
    <3>3. lu' = [lu EXCEPT ![y] =
                   [pc |-> "servi", cle |-> lu[y].cle, m |-> r[y].m, b |-> r[y].b]]
      BY <1>4, <2>1, <2>2, <3>2 DEF GetTaille, Vue
    <3>4. lu[y].pc = "demande" /\ lu[y].cle = r[y].cle
      BY <2>1 DEF Vue
    <3>5. Promesse!Rendre(y)
      BY <1>4, <2>2, <3>1, <3>3, <3>4, ZenonT(60) DEF GetTaille, Promesse!Rendre
    <3> QED
      BY <3>5 DEF Promesse!Next
  <2>3. CASE r[y].b.taille # r[y].m.taille
    <3>1. Promesse!Finir(y)
      BY <1>4, <2>3 DEF GetTaille, Promesse!Finir, Promesse!Rien, Vue, Libre
    <3> QED
      BY <3>1 DEF Promesse!Next
  <2> QED
    BY <2>2, <2>3
<1>5. ASSUME NEW y \in Reader, Fermer(y) PROVE Promesse!Next
  <2>1. Promesse!Finir(y)
    BY <1>5 DEF Fermer, Promesse!Finir, Promesse!Rien, Vue, Libre
  <2> QED
    BY <2>1 DEF Promesse!Next
<1>6. CASE Crash
  <2>1. Promesse!Arret
    BY <1>6 DEF Crash, Promesse!Arret, Promesse!Rien, Vue, Libre
  <2> QED
    BY <2>1 DEF Promesse!Next
<1>7. CASE UNCHANGED <<livre, r>>
  BY <1>7, PromesseBegaie
<1> QED
  BY <1>1, <1>2, <1>3, <1>4, <1>5, <1>6, <1>7
     DEF Next, vars, Ecrire, Lire, Maintenir, SweepPartials, NewWriter, Write, Abort,
     CommitVerifie, CommitCorps, CommitPart, CommitPartEchoue, CommitMeta, Vieillir,
     PurgerVoit, PurgerCorps, EffacerCorps, PurgerMeta, PurgerInterrompu

\* store.go: the lock-free two-file store implements the promise it makes to
\* the proxy, step by step.
THEOREM StoreTientSaPromesse == Spec => TientSaPromesse
BY Inductif, PromesseInit, PromesseStep, PTL DEF Spec, TientSaPromesse, Promesse!Spec
===============================================================================
