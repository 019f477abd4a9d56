------------------------------ MODULE PasseProofs ------------------------------
(***************************************************************************)
(* Theorems of the module Passe, for any root, clones, lines, manifests,   *)
(* snapshot, workers and number of passes: its types, the records that     *)
(* never lose what they hold, the consent, and the clones under the        *)
(* manifest of the disk.                                                   *)
(*                                                                         *)
(* No step property is true of every state: each rests on what the pass    *)
(* carries from the dry run to the clones, and on who may write passe.json *)
(* at a time.  Inv says it.                                                *)
(***************************************************************************)
EXTENDS Passe, FiniteSetTheorems, TLAPS

\* The records: the pass at work has one, with no more in it than the results;
\* the passes to come have none.
Registres ==
    /\ p.pc # "repos" => /\ p.k \in 1 .. MaxPasse
                         /\ registre[p.k] \in Record
                         /\ registre[p.k].chemins \subseteq resultats
    /\ p.pc = "repos" => (montre # Aucun => p.k < MaxPasse)
    /\ \A k \in 1 .. MaxPasse : k > p.k => registre[k] = Aucun

\* What a task is writing takes nothing back.
Ecritures ==
    \A x \in Chemin : tache[x] = "ecrit" =>
        /\ cliche[x] \subseteq resultats
        /\ registre[p.k].chemins \subseteq cliche[x]

\* Only the plan is at work, and during a pass; the plan is the one shown.
Consenti ==
    /\ \A x \in Chemin : tache[x] # "hors" => p.pc # "repos" /\ x \in p.constat.plan
    /\ p.pc # "repos" => montre \in Constat /\ p.constat.mode = montre.mode
    /\ (p.pc # "repos" /\ Racine \in p.constat.plan) => p.constat.racine = montre.racine
    /\ \A c \in Clone : (p.pc # "repos" /\ c \in p.constat.plan) =>
          p.constat.cible[c] = montre.cible[c]

\* In manifest mode the targets are those of the predicted manifest, no clone is
\* taken before that manifest is on the disk, and it stays there.
SelonManifeste ==
    (p.pc # "repos" /\ p.constat.mode = "manifeste") =>
        /\ \A c \in Clone : c \in p.constat.plan =>
              /\ p.constat.predit \in Manifeste
              /\ p.constat.cible[c].ligne = LigneDe[p.constat.predit.v][c]
        /\ p.pc \in {"racine", "manifeste"} =>
              \A c \in Clone : tache[c] \in {"hors", "attend"}
        /\ p.pc = "clones" => local = p.constat.predit
        /\ \A c \in Clone : tache[c] = "geste" =>
              p.constat.cible[c].ligne = LigneDe[local.v][c]

Inv == TypeOK /\ Registres /\ Ecritures /\ Consenti /\ SelonManifeste

-------------------------------------------------------------------------------
LEMMA ConstatType ==
    ASSUME TypeOK, NEW mode \in Mode, NEW m \in Manifeste \cup {Aucun}
    PROVE  Constater(mode, m) \in Constat
<1> DEFINE c == Constater(mode, m)
<1>1. /\ c.plan \subseteq Chemin
      /\ c.racine \in Version /\ c.predit \in Manifeste \cup {Aucun}
      /\ c.ancienne \in [Clone -> Ligne]
      /\ c.teteRacine \in Version /\ c.tetes \in [Clone -> Depots]
  BY Manifestes DEF Constater, TypeOK, Chemin, Manifeste
<1>2. c.cible \in [Clone -> Position]
  <2> SUFFICES ASSUME NEW x \in Clone PROVE c.cible[x] \in Position
    BY DEF Constater
  <2>1. clone[x].pos \in Position
    BY DEF TypeOK, Depots
  <2>2. m # Aucun => CibleDe(mode, m, x) \in Position
    <3>1. CASE mode = "instantane"
      BY <3>1, Manifestes DEF CibleDe
    <3>2. CASE mode = "branche"
      <4>1. clone[x].pos.ligne \in Ligne
        BY <2>1 DEF Position
      <4>2. pointe[clone[x].pos.ligne] \in Nat
        BY <4>1 DEF TypeOK
      <4> QED
        BY <2>1, <3>2, <4>2 DEF CibleDe, Position
    <3>3. CASE mode = "manifeste" /\ m # Aucun
      <4>1. LigneDe[m.v][x] \in Ligne
        BY <3>3, Manifestes DEF Manifeste
      <4> QED
        BY <3>3, <4>1 DEF CibleDe, Position, TypeOK
    <3> QED
      BY <3>1, <3>2, <3>3 DEF Mode
  <2> QED
    BY <2>1, <2>2 DEF Constater
<1> QED
  BY <1>1, <1>2 DEF Constater, Constat

LEMMA InitInv == Init => Inv
<1> SUFFICES ASSUME Init PROVE Inv
  OBVIOUS
<1> USE Parametres, Manifestes DEF Init
<1>1. clone \in [Clone -> Depots]
  BY DEF Depots, Position, Version
<1>2. 0 \in Version /\ 0 \in 0 .. MaxPasse /\ 0 \in 0 .. MaxEchec
  BY DEF Version
<1>3. local \in Manifeste /\ p \in Passe /\ pointe \in [Ligne -> Nat]
  BY <1>2 DEF Manifeste, Passe
<1>4. TypeOK
  BY <1>1, <1>2, <1>3 DEF TypeOK, Etape, Chemin
<1> QED
  BY <1>2, <1>3, <1>4 DEF Inv, Registres, Ecritures, Consenti, SelonManifeste

\* The steps between two passes that leave the pass, its memory and its trace.
LEMMA MondeInv ==
    ASSUME Inv, p' = p, tache' = tache, resultats' = resultats, ecriture' = ecriture,
           cliche' = cliche, registre' = registre, montre' = montre, local' = local,
           rates' = rates, TypeOK'
    PROVE  Inv'
BY DEF Inv, Registres, Ecritures, Consenti, SelonManifeste

LEMMA EssaiInv ==
    ASSUME Inv, NEW mode \in Mode, NEW m, EssaiASec(mode, m)
    PROVE  Inv'
<1> USE DEF EssaiASec, code, monde, memoire, trace
<1>1. m \in Manifeste \cup {Aucun}
  BY DEF Inv, TypeOK, Predit, Manifeste
<1>2. montre' \in Constat
  BY <1>1, ConstatType DEF Inv
<1>3. TypeOK'
  BY <1>2 DEF Inv, TypeOK
<1> QED
  BY <1>3 DEF Inv, Registres, Ecritures, Consenti, SelonManifeste

LEMMA LancerInv ==
    ASSUME Inv, NEW m, Lancer(m)
    PROVE  Inv'
<1> DEFINE c == Constater(montre.mode, m)
<1>1. /\ p.pc = "repos" /\ p.k < MaxPasse /\ montre \in Constat /\ p.k \in Nat
      /\ m \in Manifeste \cup {Aucun}
  BY DEF Lancer, Inv, TypeOK, Registres, Passe, Predit, Manifeste
<1>2. c \in Constat
  BY <1>1, ConstatType DEF Inv, Constat
<1>3. /\ p' = [pc |-> IF c.mode = "instantane" THEN "clones" ELSE "racine",
                k |-> p.k + 1, echue |-> FALSE, constat |-> c]
      /\ tache' = [x \in Chemin |-> IF x \in c.plan THEN "attend" ELSE "hors"]
      /\ resultats' = {} /\ bouges' = {}
      /\ registre' = [registre EXCEPT ![p.k + 1] = [termine |-> FALSE, chemins |-> {}]]
      /\ UNCHANGED <<racine, local, clone, rejoues, amont, entrees, pointe, montre,
                     ecriture, cliche, rates>>
      /\ Conforme(c)
  BY DEF Lancer, monde
<1>4. p.k + 1 \in 1 .. MaxPasse
  BY <1>1, Parametres
<1> HIDE DEF c
<1>5. p' \in Passe /\ p'.constat = c /\ p'.pc # "repos" /\ p'.k = p.k + 1
  BY <1>2, <1>3, <1>4 DEF Passe
<1>6. registre' \in [1 .. MaxPasse -> Record \cup {Aucun}]
  BY <1>3, <1>4 DEF Inv, TypeOK, Record
<1>7. TypeOK'
  BY <1>2, <1>3, <1>5, <1>6 DEF Inv, TypeOK, Etape
<1>8. Registres'
  <2>1. registre'[p.k + 1] = [termine |-> FALSE, chemins |-> {}]
    BY <1>3, <1>4 DEF Inv, TypeOK
  <2>2. \A k \in 1 .. MaxPasse : k > p.k + 1 => registre'[k] = Aucun
    BY <1>1, <1>3 DEF Inv, TypeOK, Registres
  <2>3. registre'[p'.k] = [termine |-> FALSE, chemins |-> {}] /\ p'.k \in 1 .. MaxPasse
    BY <1>4, <1>5, <2>1
  <2>4. registre'[p'.k] \in Record /\ registre'[p'.k].chemins \subseteq resultats'
    BY <2>3 DEF Record
  <2> QED
    BY <1>5, <2>2, <2>3, <2>4 DEF Registres
<1>9. Ecritures'
  BY <1>3 DEF Ecritures
<1>10. Consenti'
  <2>1. c.mode = montre.mode
    BY DEF c, Constater
  <2>2. /\ \A x \in Clone : x \in c.plan => c.cible[x] = montre.cible[x]
        /\ Racine \in c.plan => c.racine = montre.racine
    BY <1>3, Parametres DEF Conforme
  <2>3. \A x \in Chemin : tache'[x] # "hors" => x \in c.plan
    BY <1>3
  <2> QED
    BY <1>1, <1>3, <1>5, <2>1, <2>2, <2>3 DEF Consenti
<1>11. SelonManifeste'
  <2> SUFFICES ASSUME c.mode = "manifeste" PROVE SelonManifeste'
    BY <1>5 DEF SelonManifeste
  <2>1. ASSUME NEW x \in Clone, x \in c.plan
        PROVE  c.predit \in Manifeste /\ c.cible[x].ligne = LigneDe[c.predit.v][x]
    <3>1. m # Aucun
      BY <2>1, Parametres DEF c, Constater
    <3> QED
      BY <1>1, <2>1, <3>1 DEF c, Constater, CibleDe
  <2>2. p'.pc = "racine"
    BY <1>3
  <2> QED
    BY <1>3, <1>5, <2>1, <2>2 DEF SelonManifeste, Chemin
<1> QED
  BY <1>7, <1>8, <1>9, <1>10, <1>11 DEF Inv

-------------------------------------------------------------------------------
\* The tasks.

\* A task that goes one stage further, and does not write.
LEMMA AvanceInv ==
    ASSUME Inv, NEW x \in Chemin, NEW e \in Etape, e # "ecrit", tache[x] # "hors", Avance(x, e),
           (x \in Clone /\ tache[x] \in {"hors", "attend"}) => p.pc = "clones",
           e = "geste" => p.pc = "clones" \/ x \notin Clone,
           ecriture' = ecriture, cliche' = cliche, montre' = montre, registre' = registre,
           rates' = rates, local' = local, p' = p, resultats \subseteq resultats',
           TypeOK'
    PROVE  Inv'
<1>1. /\ tache' \in [Chemin -> Etape] /\ tache'[x] = e
      /\ \A y \in Chemin : y # x => tache'[y] = tache[y]
  BY DEF Avance, Inv, TypeOK
<1>2. Registres' /\ Ecritures'
  BY <1>1 DEF Inv, Registres, Ecritures
<1>3. Consenti'
  BY <1>1 DEF Inv, Consenti
<1>4. SelonManifeste'
  <2> SUFFICES ASSUME p.pc # "repos", p.constat.mode = "manifeste" PROVE SelonManifeste'
    BY DEF SelonManifeste
  <2>1. ASSUME p.pc \in {"racine", "manifeste"}, NEW c \in Clone
        PROVE  tache'[c] \in {"hors", "attend"}
    BY <1>1, <2>1 DEF Inv, SelonManifeste, Chemin
  <2>2. ASSUME NEW c \in Clone, tache'[c] = "geste"
        PROVE  p.constat.cible[c].ligne = LigneDe[local.v][c]
    <3>1. c \in p.constat.plan
      BY <1>1, <1>3, <2>2 DEF Consenti, Chemin
    <3> QED
      BY <1>1, <2>2, <3>1 DEF Inv, SelonManifeste, Chemin
  <2> QED
    BY <2>1, <2>2 DEF Inv, SelonManifeste
<1> QED
  BY <1>2, <1>3, <1>4 DEF Inv

LEMMA PrendreInv ==
    ASSUME Inv, NEW x \in Chemin, Prendre(x)
    PROVE  Inv'
<1>1. /\ tache[x] = "attend" /\ (x \in Clone => p.pc = "clones")
      /\ Avance(x, "resultat") \/ Avance(x, "geste")
      /\ UNCHANGED <<racine, local, clone, rejoues, bouges, amont, entrees, pointe, montre,
                     p, resultats, ecriture, cliche, registre, rates>>
  BY Parametres DEF Prendre, code, monde, trace
<1>2. TypeOK'
  BY <1>1 DEF Inv, TypeOK, Avance, Etape
<1> QED
  BY <1>1, <1>2, AvanceInv DEF Etape

LEMMA ReussirRacineInv ==
    ASSUME Inv, ReussirRacine
    PROVE  Inv'
<1>1. /\ tache[Racine] = "geste" /\ racine' = p.constat.racine
      /\ bouges' = bouges \cup {Racine} /\ Avance(Racine, "resultat")
      /\ UNCHANGED <<local, clone, rejoues, amont, entrees, pointe, montre,
                     p, resultats, ecriture, cliche, registre, rates>>
      /\ Racine \in Chemin /\ Racine \notin Clone
  BY Parametres DEF ReussirRacine, monde, trace, Chemin
<1>2. p.constat \in Constat
  BY <1>1 DEF Inv, Consenti, TypeOK
<1>3. TypeOK'
  BY <1>1, <1>2 DEF Inv, TypeOK, Avance, Etape, Constat
<1> QED
  BY <1>1, <1>3, AvanceInv DEF Etape

LEMMA ReussirInv ==
    ASSUME Inv, NEW c \in Clone, Reussir(c)
    PROVE  Inv'
<1>1. /\ tache[c] = "geste" /\ c \in Chemin
      /\ clone' = [clone EXCEPT ![c].pos = p.constat.cible[c], ![c].locaux = @ /\ ~Retour]
      /\ rejoues' \subseteq rejoues \cup {c}
      /\ bouges' = bouges \cup {c} /\ Avance(c, "resultat")
      /\ UNCHANGED <<racine, local, amont, entrees, pointe, montre,
                     p, resultats, ecriture, cliche, registre, rates>>
  BY DEF Reussir, monde, trace, Chemin
<1>2. p.constat \in Constat
  BY <1>1 DEF Inv, Consenti, TypeOK
<1>3. clone' \in [Clone -> Depots]
  <2>1. p.constat.cible[c] \in Position
    BY <1>2 DEF Constat
  <2>2. (clone[c].locaux /\ ~Retour) \in BOOLEAN
    OBVIOUS
  <2> QED
    BY <1>1, <2>1, <2>2, ZenonT(60) DEF Inv, TypeOK, Depots
<1>4. TypeOK'
  BY <1>1, <1>3 DEF Inv, TypeOK, Avance, Etape
<1> QED
  BY <1>1, <1>4, AvanceInv DEF Etape

LEMMA RaterInv ==
    ASSUME Inv, NEW x \in Chemin, Rater(x)
    PROVE  Inv'
<1>1. /\ tache[x] = "geste" /\ Avance(x, "resultat")
      /\ UNCHANGED <<racine, local, clone, rejoues, bouges, amont, entrees, pointe, montre,
                     p, resultats, ecriture, cliche, registre, rates>>
  BY DEF Rater, code, monde, trace
<1>2. TypeOK'
  BY <1>1 DEF Inv, TypeOK, Avance, Etape
<1> QED
  BY <1>1, <1>2, AvanceInv DEF Etape

LEMMA NoterInv ==
    ASSUME Inv, NEW x \in Chemin, Noter(x)
    PROVE  Inv'
<1>1. /\ tache[x] = "resultat" /\ Avance(x, "note") /\ resultats' = resultats \cup {x}
      /\ UNCHANGED <<racine, local, clone, rejoues, bouges, amont, entrees, pointe, montre,
                     p, ecriture, cliche, registre, rates>>
  BY DEF Noter, code, monde, trace
<1>2. TypeOK'
  BY <1>1 DEF Inv, TypeOK, Avance, Etape
<1> QED
  BY <1>1, <1>2, AvanceInv DEF Etape

\* A task that begins or ends its writing: the lock of the records is its own.
LEMMA EcritureInv ==
    ASSUME Inv, NEW x \in Chemin, NEW e \in {"ecrit", "faite", "levee"},
           tache[x] \in {"note", "ecrit"}, Avance(x, e),
           UNCHANGED <<p, resultats, montre, local>>,
           Registres', Ecritures', TypeOK'
    PROVE  Inv'
<1>1. /\ tache' \in [Chemin -> Etape] /\ tache'[x] = e
      /\ \A y \in Chemin : y # x => tache'[y] = tache[y]
  BY DEF Avance, Inv, TypeOK, Etape
<1>2. Consenti'
  BY <1>1 DEF Inv, Consenti
<1>3. SelonManifeste'
  BY <1>1 DEF Inv, SelonManifeste, Chemin
<1> QED
  BY <1>2, <1>3 DEF Inv

LEMMA CopierInv ==
    ASSUME Inv, NEW x \in Chemin, Copier(x)
    PROVE  Inv'
<1>1. /\ tache[x] = "note" /\ ecriture = Aucun /\ Avance(x, "ecrit")
      /\ ecriture' = x /\ cliche' = [cliche EXCEPT ![x] = resultats]
      /\ UNCHANGED <<racine, local, clone, rejoues, bouges, amont, entrees, pointe, montre,
                     p, resultats, registre, rates>>
  BY DEF Copier, code, monde, trace
<1>2. /\ tache' \in [Chemin -> Etape] /\ \A y \in Chemin : y # x => tache'[y] = tache[y]
      /\ Aucun \notin Chemin
  BY <1>1, Parametres DEF Avance, Inv, TypeOK, Etape, Chemin
<1>3. \A y \in Chemin : tache[y] # "ecrit"
  BY <1>1, <1>2 DEF Inv, TypeOK
<1>4. TypeOK'
  BY <1>1, <1>2, <1>3 DEF Inv, TypeOK
<1>5. Registres'
  BY <1>1 DEF Inv, Registres
<1>6. p.pc # "repos"
  BY <1>1 DEF Inv, Consenti
<1>7. Ecritures'
  <2> SUFFICES ASSUME NEW y \in Chemin, tache'[y] = "ecrit"
               PROVE  cliche'[y] \subseteq resultats /\ registre[p.k].chemins \subseteq cliche'[y]
    BY <1>1 DEF Ecritures
  <2>1. y = x
    BY <1>2, <1>3
  <2>2. cliche'[x] = resultats
    BY <1>1 DEF Inv, TypeOK
  <2> QED
    BY <1>6, <2>1, <2>2 DEF Inv, Registres
<1> QED
  BY <1>1, <1>4, <1>5, <1>7, EcritureInv

LEMMA EcrireInv ==
    ASSUME Inv, NEW x \in Chemin, Ecrire(x)
    PROVE  Inv'
<1>1. /\ tache[x] = "ecrit" /\ Avance(x, "faite")
      /\ registre' = [registre EXCEPT ![p.k].chemins = cliche[x]]
      /\ ecriture' = Aucun /\ cliche' = [cliche EXCEPT ![x] = {}]
      /\ UNCHANGED <<racine, local, clone, rejoues, bouges, amont, entrees, pointe, montre,
                     p, resultats, rates>>
  BY DEF Ecrire, code, monde
<1>2. /\ p.pc # "repos" /\ p.k \in 1 .. MaxPasse /\ registre[p.k] \in Record
      /\ cliche[x] \subseteq resultats /\ cliche[x] \subseteq Chemin
  BY <1>1 DEF Inv, Registres, Ecritures, Consenti, TypeOK
<1>3. /\ \A y \in Chemin : tache'[y] # "ecrit"
      /\ tache' \in [Chemin -> Etape]
  BY <1>1 DEF Avance, Inv, TypeOK, Etape
<1>4. /\ registre'[p.k] = [termine |-> registre[p.k].termine, chemins |-> cliche[x]]
      /\ registre'[p.k] \in Record
      /\ \A k \in 1 .. MaxPasse : k # p.k => registre'[k] = registre[k]
      /\ registre' \in [1 .. MaxPasse -> Record \cup {Aucun}]
  BY <1>1, <1>2 DEF Inv, TypeOK, Record
<1>5. TypeOK'
  BY <1>1, <1>3, <1>4 DEF Inv, TypeOK
<1>6. Registres'
  <2>1. \A k \in 1 .. MaxPasse : k > p.k => registre'[k] = Aucun
    BY <1>2, <1>4 DEF Inv, Registres
  <2> QED
    BY <1>1, <1>2, <1>4, <2>1 DEF Registres
<1>7. Ecritures'
  BY <1>3 DEF Ecritures
<1> QED
  BY <1>1, <1>5, <1>6, <1>7, EcritureInv

LEMMA EcrireRateInv ==
    ASSUME Inv, NEW x \in Chemin, EcrireRate(x)
    PROVE  Inv'
<1>1. /\ tache[x] = "ecrit" /\ Avance(x, "levee")
      /\ rates < MaxEchec /\ rates' = rates + 1
      /\ ecriture' = Aucun /\ cliche' = [cliche EXCEPT ![x] = {}]
      /\ UNCHANGED <<racine, local, clone, rejoues, bouges, amont, entrees, pointe, montre,
                     p, resultats, registre>>
  BY DEF EcrireRate, code, monde
<1>2. /\ \A y \in Chemin : tache'[y] # "ecrit"
      /\ tache' \in [Chemin -> Etape]
  BY <1>1 DEF Avance, Inv, TypeOK, Etape
<1>3. rates' \in 0 .. MaxEchec
  BY <1>1, Parametres DEF Inv, TypeOK
<1>4. TypeOK'
  BY <1>1, <1>2, <1>3 DEF Inv, TypeOK
<1>5. Registres' /\ Ecritures'
  BY <1>1, <1>2 DEF Inv, Registres, Ecritures
<1> QED
  BY <1>1, <1>4, <1>5, EcritureInv

-------------------------------------------------------------------------------
\* The main thread, the end of a pass, and the world.

LEMMA VersInv ==
    ASSUME Inv, p.pc # "repos",
           NEW e \in {"manifeste", "clones", "racine", "fin"}, Vers(e),
           e \in {"racine", "manifeste"} =>
               (p.constat.mode = "manifeste" =>
                    \A c \in Clone : tache[c] \in {"hors", "attend"}),
           e = "clones" => (p.constat.mode = "manifeste" => local' = p.constat.predit),
           local' # local => \A c \in Clone : tache[c] # "geste" \/ p.constat.mode # "manifeste",
           local' \in Manifeste,
           UNCHANGED <<racine, clone, rejoues, bouges, amont, entrees, pointe, montre,
                       tache, resultats, ecriture, cliche, registre, rates>>
    PROVE  Inv'
<1>1. /\ p' \in Passe /\ p'.pc = e /\ p'.k = p.k /\ p'.constat = p.constat
      /\ p'.pc # "repos"
  BY DEF Vers, Inv, TypeOK, Passe
<1>2. TypeOK'
  BY <1>1 DEF Inv, TypeOK
<1>3. Registres' /\ Ecritures' /\ Consenti'
  BY <1>1 DEF Inv, Registres, Ecritures, Consenti
<1>4. SelonManifeste'
  BY <1>1 DEF Inv, SelonManifeste, Consenti, Chemin
<1> QED
  BY <1>2, <1>3, <1>4 DEF Inv

LEMMA ApresRacineInv ==
    ASSUME Inv, ApresRacine
    PROVE  Inv'
<1> DEFINE e == CASE p.constat.mode = "manifeste" -> "manifeste"
                  [] Retour -> IF Racine \in bouges THEN "manifeste" ELSE "fin"
                  [] OTHER -> "clones"
<1>1. /\ p.pc = "racine" /\ Vers(e)
      /\ UNCHANGED <<racine, local, clone, rejoues, bouges, amont, entrees, pointe, montre,
                     tache, resultats, ecriture, cliche, registre, rates>>
  BY DEF ApresRacine, code, monde, memoire, trace
<1>2. /\ e \in {"manifeste", "clones", "racine", "fin"}
      /\ e = "clones" => p.constat.mode # "manifeste"
  OBVIOUS
<1>3. p.constat.mode = "manifeste" => \A c \in Clone : tache[c] \in {"hors", "attend"}
  BY <1>1 DEF Inv, SelonManifeste
<1>4. local' = local /\ local' \in Manifeste
  BY <1>1 DEF Inv, TypeOK
<1> HIDE DEF e
<1> QED
  BY <1>1, <1>2, <1>3, <1>4, VersInv

LEMMA RegenererInv ==
    ASSUME Inv, NEW ok \in BOOLEAN, Regenerer(ok)
    PROVE  Inv'
<1> DEFINE m == [v |-> racine, e |-> entrees]
           ecrit == ok /\ (Retour \/ m = p.constat.predit)
           e == IF ecrit /\ ~Retour THEN "clones" ELSE "fin"
<1>1. /\ p.pc = "manifeste" /\ Vers(e)
      /\ local' = IF ecrit THEN m ELSE local
      /\ UNCHANGED <<racine, clone, rejoues, bouges, amont, entrees, pointe, montre,
                     tache, resultats, ecriture, cliche, registre, rates>>
  BY DEF Regenerer, monde, memoire, trace
<1>2. local' \in Manifeste
  BY <1>1 DEF Inv, TypeOK, Manifeste
<1>3. e \in {"clones", "fin"} /\ (e = "clones" => local' = p.constat.predit)
  BY <1>1
<1>4. p.constat.mode = "manifeste" => \A c \in Clone : tache[c] \in {"hors", "attend"}
  BY <1>1 DEF Inv, SelonManifeste
<1> HIDE DEF e
<1> QED
  BY <1>1, <1>2, <1>3, <1>4, VersInv

LEMMA ApresClonesInv ==
    ASSUME Inv, ApresClones
    PROVE  Inv'
<1>1. /\ p.pc = "clones" /\ Vers(IF Retour THEN "racine" ELSE "fin")
      /\ \A c \in Clone : tache[c] \in {"hors", "faite"}
      /\ UNCHANGED <<racine, local, clone, rejoues, bouges, amont, entrees, pointe, montre,
                     tache, resultats, ecriture, cliche, registre, rates>>
  BY DEF ApresClones, code, monde, memoire, trace
<1>2. local' = local /\ local' \in Manifeste
  BY <1>1 DEF Inv, TypeOK
<1>3. CASE Retour
  BY <1>1, <1>2, <1>3, VersInv DEF Retour
<1>4. CASE ~Retour
  BY <1>1, <1>2, <1>4, VersInv
<1> QED
  BY <1>3, <1>4

LEMMA LeverInv ==
    ASSUME Inv, Lever
    PROVE  Inv'
<1>1. /\ p.pc \in {"racine", "clones"} /\ p' = [p EXCEPT !.pc = "panne"]
      /\ tache' = [x \in Chemin |-> IF tache[x] = "attend" THEN "hors" ELSE tache[x]]
      /\ UNCHANGED <<racine, local, clone, rejoues, bouges, amont, entrees, pointe, montre,
                     resultats, ecriture, cliche, registre, rates>>
  BY DEF Lever, Vers, code, monde, trace
<1>2. /\ p' \in Passe /\ p'.pc = "panne" /\ p'.k = p.k /\ p'.constat = p.constat
  BY <1>1 DEF Inv, TypeOK, Passe
<1>3. TypeOK'
  BY <1>1, <1>2 DEF Inv, TypeOK, Etape
<1>4. Registres' /\ Ecritures' /\ Consenti'
  BY <1>1, <1>2 DEF Inv, Registres, Ecritures, Consenti
<1>5. SelonManifeste'
  BY <1>1, <1>2 DEF Inv, SelonManifeste, Chemin
<1> QED
  BY <1>3, <1>4, <1>5 DEF Inv

LEMMA FinirInv ==
    ASSUME Inv, Finir, UNCHANGED <<racine, local, clone, rejoues, bouges>>,
           registre' \in [1 .. MaxPasse -> Record \cup {Aucun}],
           \A k \in 1 .. MaxPasse : k > p.k => registre'[k] = registre[k]
    PROVE  Inv'
<1>1. /\ p' = [pc |-> "repos", k |-> p.k, echue |-> FALSE, constat |-> Aucun]
      /\ montre' = Aucun /\ ecriture' = Aucun /\ resultats' = {}
      /\ tache' = [x \in Chemin |-> "hors"] /\ cliche' = [x \in Chemin |-> {}]
      /\ UNCHANGED <<amont, entrees, pointe, rates>>
  BY DEF Finir, AuRepos, monde
<1>2. /\ p' \in Passe /\ p'.pc = "repos" /\ p'.k = p.k
  BY <1>1 DEF Inv, TypeOK, Passe
<1>3. TypeOK'
  BY <1>1, <1>2 DEF Inv, TypeOK, Etape
<1> QED
  BY <1>1, <1>2, <1>3 DEF Inv, Registres, Ecritures, Consenti, SelonManifeste

LEMMA TerminerInv ==
    ASSUME Inv, Terminer
    PROVE  Inv'
<1>1. /\ p.pc = "fin" /\ Finir
      /\ registre' = [registre EXCEPT ![p.k] = [termine |-> TRUE, chemins |-> resultats]]
  BY DEF Terminer
<1>2. UNCHANGED <<racine, local, clone, rejoues, bouges>>
  BY <1>1 DEF Terminer, Finir, code
<1>3. registre' \in [1 .. MaxPasse -> Record \cup {Aucun}]
  BY <1>1 DEF Inv, TypeOK, Record
<1>4. \A k \in 1 .. MaxPasse : k > p.k => registre'[k] = registre[k]
  BY <1>1 DEF Inv, TypeOK, Passe
<1> QED
  BY <1>1, <1>2, <1>3, <1>4, FinirInv

LEMMA EchoirInv ==
    ASSUME Inv, Echoir
    PROVE  Inv'
<1>1. /\ p.pc # "repos" /\ p' = [p EXCEPT !.echue = TRUE]
      /\ UNCHANGED <<racine, local, clone, rejoues, bouges, amont, entrees, pointe, montre,
                     tache, resultats, ecriture, cliche, registre, rates>>
  BY DEF Echoir, code, monde, memoire, trace
<1>2. /\ p' \in Passe /\ p'.pc = p.pc /\ p'.k = p.k /\ p'.constat = p.constat
  BY <1>1 DEF Inv, TypeOK, Passe
<1>3. TypeOK'
  BY <1>1, <1>2 DEF Inv, TypeOK
<1> QED
  BY <1>1, <1>2, <1>3 DEF Inv, Registres, Ecritures, Consenti, SelonManifeste

LEMMA ValiderInv ==
    ASSUME Inv, NEW c \in Clone, Valider(c)
    PROVE  Inv'
<1>1. /\ clone' = [clone EXCEPT ![c].locaux = TRUE]
      /\ UNCHANGED <<racine, local, rejoues, bouges, amont, entrees, pointe, montre, p,
                     tache, resultats, ecriture, cliche, registre, rates>>
  BY DEF Valider, monde, memoire, trace
<1>2. clone' \in [Clone -> Depots]
  BY <1>1 DEF Inv, TypeOK, Depots
<1>3. TypeOK'
  BY <1>1, <1>2 DEF Inv, TypeOK
<1> QED
  BY <1>1, <1>3, MondeInv

\* Upstream and the live inputs.
LEMMA DehorsInv ==
    ASSUME Inv, PublierRacine \/ ChangerEntrees \/ \E l \in Ligne : PublierLigne(l)
    PROVE  Inv'
<1>1. UNCHANGED <<racine, local, clone, rejoues, bouges, montre, p,
                  tache, resultats, ecriture, cliche, registre, rates>>
  BY DEF PublierRacine, ChangerEntrees, PublierLigne, code, memoire, trace
<1>2. /\ amont' \in Version /\ entrees' \in BOOLEAN /\ pointe' \in [Ligne -> Nat]
  <2>1. CASE PublierRacine
    BY <2>1, Parametres DEF PublierRacine, Inv, TypeOK, Version
  <2>2. CASE ChangerEntrees
    BY <2>2 DEF ChangerEntrees, Inv, TypeOK
  <2>3. ASSUME NEW l \in Ligne, PublierLigne(l)
        PROVE  amont' = amont /\ entrees' = entrees /\ pointe' \in [Ligne -> Nat]
    <3>1. pointe[l] + 1 \in Nat
      BY DEF Inv, TypeOK
    <3> QED
      BY <2>3, <3>1 DEF PublierLigne, Inv, TypeOK
  <2> QED
    BY <2>1, <2>2, <2>3 DEF Inv, TypeOK
<1>3. TypeOK'
  BY <1>1, <1>2 DEF Inv, TypeOK
<1> QED
  BY <1>1, <1>3, MondeInv

LEMMA RefuserInv ==
    ASSUME Inv, Refuser
    PROVE  Inv'
<1>1. /\ p.pc = "repos" /\ montre' = Aucun
      /\ UNCHANGED <<racine, local, clone, rejoues, bouges, amont, entrees, pointe, p,
                     tache, resultats, ecriture, cliche, registre, rates>>
  BY DEF Refuser, code, monde, memoire, trace
<1>2. TypeOK'
  BY <1>1 DEF Inv, TypeOK
<1> QED
  BY <1>1, <1>2 DEF Inv, Registres, Ecritures, Consenti, SelonManifeste

-------------------------------------------------------------------------------
LEMMA Suite ==
    ASSUME Inv, [Next]_vars
    PROVE  Inv'
<1>1. CASE UNCHANGED vars
  BY <1>1, MondeInv DEF vars, Inv, TypeOK
<1>2. ASSUME NEW mode \in Mode, NEW m, EssaiASec(mode, m) PROVE Inv'
  BY <1>2, EssaiInv
<1>3. ASSUME NEW m, Lancer(m) PROVE Inv'
  BY <1>3, LancerInv
<1>4. CASE Fil
  <2>1. CASE Sortir
    BY <2>1, FinirInv DEF Sortir, Finir, code, Inv, TypeOK
  <2> QED
    BY <1>4, <2>1, ApresRacineInv, ApresClonesInv, LeverInv, TerminerInv, RegenererInv DEF Fil
<1>5. CASE Tuer
  BY <1>5, FinirInv DEF Tuer, Finir, code, Inv, TypeOK
<1>6. ASSUME NEW x \in Chemin, Tache(x) PROVE Inv'
  BY <1>6, PrendreInv, RaterInv, NoterInv, CopierInv, EcrireInv, EcrireRateInv DEF Tache
<1>7. ASSUME NEW c \in Clone, Reussir(c) \/ Valider(c) PROVE Inv'
  BY <1>7, ReussirInv, ValiderInv
<1> QED
  BY <1>1, <1>2, <1>3, <1>4, <1>5, <1>6, <1>7, RefuserInv, EchoirInv, ReussirRacineInv,
     DehorsInv DEF Next

\* What the pass carries from the dry run to its records holds throughout.
THEOREM Porte == Spec => []Inv
<1>1. Init => Inv
  BY InitInv
<1>2. Inv /\ [Next]_vars => Inv'
  BY Suite
<1> QED
  BY <1>1, <1>2, PTL DEF Spec

\* The types, and a single task that writes passe.json at a time.
THEOREM TypesTenus == Spec => []TypeOK
<1>1. Inv => TypeOK
  BY DEF Inv
<1> QED
  BY <1>1, Porte, PTL

-------------------------------------------------------------------------------
\* Who writes what.
LEMMA Auteurs ==
    ASSUME Next
    PROVE  /\ \/ registre' = registre \/ Terminer
              \/ \E m : Lancer(m) \/ \E x \in Chemin : Ecrire(x)
           /\ \/ clone' = clone \/ \E c \in Clone : Reussir(c) \/ Valider(c)
           /\ racine' = racine \/ ReussirRacine
<1>1. ASSUME NEW mode \in Mode, NEW m, EssaiASec(mode, m)
      PROVE  UNCHANGED <<registre, clone, racine>>
  BY <1>1 DEF EssaiASec, code, trace
<1>2. ASSUME NEW m, Lancer(m) PROVE UNCHANGED <<clone, racine>>
  BY <1>2 DEF Lancer
<1>3. CASE Refuser \/ Tuer \/ Echoir \/ Sortir \/ PublierRacine \/ ChangerEntrees
  BY <1>3 DEF Refuser, Tuer, Echoir, Sortir, PublierRacine, ChangerEntrees, Finir, code, trace
<1>4. Terminer => UNCHANGED <<clone, racine>>
  BY DEF Terminer, Finir, code
<1>5. CASE ApresRacine \/ ApresClones \/ Lever \/ \E ok \in BOOLEAN : Regenerer(ok)
  BY <1>5 DEF ApresRacine, ApresClones, Lever, Regenerer, code, trace
<1>6. CASE Fil
  BY <1>3, <1>4, <1>5, <1>6 DEF Fil
<1>7. ASSUME NEW x \in Chemin, Prendre(x) \/ Rater(x) \/ Noter(x) \/ Copier(x) \/ EcrireRate(x)
      PROVE  UNCHANGED <<registre, clone, racine>>
  BY <1>7 DEF Prendre, Rater, Noter, Copier, EcrireRate, code, trace
<1>8. ASSUME NEW x \in Chemin, Ecrire(x) PROVE UNCHANGED <<clone, racine>>
  BY <1>8 DEF Ecrire, code
<1>9. ASSUME NEW x \in Chemin, Tache(x)
      PROVE  /\ registre' = registre \/ \E y \in Chemin : Ecrire(y)
             /\ UNCHANGED <<clone, racine>>
  BY <1>7, <1>8, <1>9 DEF Tache
<1>10. ReussirRacine => UNCHANGED <<registre, clone>>
  BY DEF ReussirRacine, trace
<1>11. ASSUME NEW c \in Clone, Reussir(c) \/ Valider(c) PROVE UNCHANGED <<registre, racine>>
  BY <1>11 DEF Reussir, Valider, trace
<1>12. ASSUME NEW l \in Ligne, PublierLigne(l) PROVE UNCHANGED <<registre, clone, racine>>
  BY <1>12 DEF PublierLigne, code, trace
<1> QED
  BY <1>1, <1>2, <1>3, <1>4, <1>6, <1>9, <1>10, <1>11, <1>12 DEF Next

LEMMA RegistreCroissantPas ==
    ASSUME Inv, Next, NEW k \in 1 .. MaxPasse, registre[k] # Aucun
    PROVE  registre[k].chemins \subseteq registre'[k].chemins
<1>1. CASE Terminer
  <2>1. /\ p.pc = "fin"
        /\ registre' = [registre EXCEPT ![p.k] = [termine |-> TRUE, chemins |-> resultats]]
    BY <1>1 DEF Terminer
  <2>2. p.k \in 1 .. MaxPasse /\ registre[p.k].chemins \subseteq resultats
    BY <2>1 DEF Inv, Registres
  <2>3. registre'[p.k].chemins = resultats
    BY <2>1, <2>2 DEF Inv, TypeOK
  <2>4. k # p.k => registre'[k] = registre[k]
    BY <2>1 DEF Inv, TypeOK
  <2> QED
    BY <2>2, <2>3, <2>4
<1>2. ASSUME NEW m, Lancer(m) PROVE registre'[k] = registre[k]
  <2>1. /\ p.pc = "repos" /\ p.k \in Nat
        /\ registre' = [registre EXCEPT ![p.k + 1] = [termine |-> FALSE, chemins |-> {}]]
    BY <1>2 DEF Lancer, Inv, TypeOK, Passe
  <2>2. k # p.k + 1
    BY <2>1 DEF Inv, Registres
  <2> QED
    BY <2>1, <2>2 DEF Inv, TypeOK
<1>3. ASSUME NEW x \in Chemin, Ecrire(x)
      PROVE  registre[k].chemins \subseteq registre'[k].chemins
  <2>1. tache[x] = "ecrit" /\ registre' = [registre EXCEPT ![p.k].chemins = cliche[x]]
    BY <1>3 DEF Ecrire
  <2>2. /\ p.k \in 1 .. MaxPasse /\ registre[p.k] \in Record
        /\ registre[p.k].chemins \subseteq cliche[x]
    BY <2>1 DEF Inv, Registres, Ecritures, Consenti
  <2>3. registre'[p.k].chemins = cliche[x]
    BY <2>1, <2>2 DEF Inv, TypeOK, Record
  <2>4. k # p.k => registre'[k] = registre[k]
    BY <2>1 DEF Inv, TypeOK
  <2> QED
    BY <2>2, <2>3, <2>4
<1> QED
  BY <1>1, <1>2, <1>3, Auteurs

\* passe.json, which every worker writes again from a list they share, never loses
\* a repository it recorded: `inscrire` copies the list under the lock, and the list
\* only grows.
THEOREM RegistresCroissants == Spec => RegistreCroissant
<1>1. Inv /\ [Next]_vars =>
        [\A k \in 1 .. MaxPasse : registre[k] # Aucun =>
            registre[k].chemins \subseteq registre'[k].chemins]_vars
  BY RegistreCroissantPas
<1> QED
  BY <1>1, Porte, PTL DEF Spec, RegistreCroissant

\* A repository at work is moved to the target the dry run showed.
LEMMA ClonePas ==
    ASSUME Inv, Next, NEW c \in Clone, clone'[c].pos # clone[c].pos
    PROVE  /\ tache[c] = "geste" /\ p.pc # "repos" /\ c \in p.constat.plan
           /\ clone'[c].pos = p.constat.cible[c]
<1>1. ASSUME NEW d \in Clone, Valider(d) PROVE clone'[c].pos = clone[c].pos
  BY <1>1 DEF Valider, Inv, TypeOK, Depots
<1>2. PICK d \in Clone : Reussir(d)
  BY <1>1, Auteurs
<1>3. /\ tache[d] = "geste"
      /\ clone' = [clone EXCEPT ![d].pos = p.constat.cible[d], ![d].locaux = @ /\ ~Retour]
  BY <1>2 DEF Reussir
<1>4. d = c
  BY <1>3 DEF Inv, TypeOK
<1>5. clone'[c].pos = p.constat.cible[c]
  BY <1>3, <1>4 DEF Inv, TypeOK, Depots
<1> QED
  BY <1>3, <1>4, <1>5 DEF Inv, Consenti, Chemin

\* Nothing moves but to what the dry run showed and the user agreed to: `derives`
\* compared it, and the pass carries it unchanged to the workers.
THEOREM CiblesConsenties == Spec => CibleConsentie
<1>1. ASSUME Inv, Next
      PROVE  /\ \A c \in Clone : clone'[c].pos # clone[c].pos =>
                    clone'[c].pos = montre.cible[c]
             /\ racine' # racine => racine' = montre.racine
  <2>1. ASSUME NEW c \in Clone, clone'[c].pos # clone[c].pos
        PROVE  clone'[c].pos = montre.cible[c]
    BY <1>1, <2>1, ClonePas DEF Inv, Consenti
  <2>2. ASSUME racine' # racine PROVE racine' = montre.racine
    BY <1>1, <2>2, Auteurs DEF ReussirRacine, Inv, Consenti, Chemin
  <2> QED
    BY <2>1, <2>2
<1>2. Inv /\ [Next]_vars =>
        [/\ \A c \in Clone : clone'[c].pos # clone[c].pos => clone'[c].pos = montre.cible[c]
         /\ racine' # racine => racine' = montre.racine]_vars
  BY <1>1
<1> QED
  BY <1>2, Porte, PTL DEF Spec, CibleConsentie

\* In manifest mode a clone goes to a line of the manifest on the disk, however the
\* pass ended between the dry run and that clone.
THEOREM ClonesTenus == Spec => ClonesSousManifeste
<1>1. ASSUME Inv, Next, NEW c \in Clone, clone'[c].pos # clone[c].pos,
             p.constat.mode = "manifeste"
      PROVE  clone'[c].pos.ligne = LigneDe[local.v][c]
  BY <1>1, ClonePas DEF Inv, SelonManifeste
<1>2. Inv /\ [Next]_vars =>
        [\A c \in Clone : (clone'[c].pos # clone[c].pos /\ p.constat.mode = "manifeste")
            => clone'[c].pos.ligne = LigneDe[local.v][c]]_vars
  BY <1>1
<1> QED
  BY <1>2, Porte, PTL DEF Spec, ClonesSousManifeste

-------------------------------------------------------------------------------
\* The trace: what was moved and is not in passe.json is in the hands of a task, or
\* of one whose writing failed, and they are few.

EnMain == {x \in Chemin : tache[x] \in EnCours}
Levees == {x \in Chemin : tache[x] = "levee"}

Faits ==
    p.pc # "repos" => \A x \in Chemin :
        /\ x \in bouges => tache[x] \in {"resultat", "note", "ecrit", "faite", "levee"}
        /\ tache[x] \in {"note", "ecrit", "faite", "levee"} => x \in resultats
        /\ tache[x] = "ecrit" => x \in cliche[x]
        /\ tache[x] = "faite" => x \in registre[p.k].chemins

Comptes == Cardinality(EnMain) <= Ouvriers /\ Cardinality(Levees) <= rates

\* The root and the clones take turns.
Tours ==
    /\ p.pc \in {"clones", "manifeste"} => Racine \notin EnMain
    /\ p.pc \in {"racine", "manifeste"} => EnMain \subseteq {Racine}

Manquent == bouges \ registre[p.k].chemins

\* After the pass, nothing is at work, and the bound stays.
Reste == (p.pc = "repos" /\ p.k # 0) => Cardinality(Manquent) <= Ouvriers + rates

Suivi == Inv /\ Faits /\ Comptes /\ Tours /\ Reste

LEMMA Finis ==
    /\ IsFiniteSet(Chemin)
    /\ \A S \in SUBSET Chemin : IsFiniteSet(S) /\ Cardinality(S) \in Nat
<1>1. IsFiniteSet(Chemin)
  BY Parametres, FS_AddElement DEF Chemin
<1> QED
  BY <1>1, FS_Subset, FS_CardinalityType

LEMMA Ordre ==
    ASSUME NEW T \in SUBSET Chemin, NEW S \in SUBSET T
    PROVE  Cardinality(S) <= Cardinality(T)
BY Finis, FS_Subset

LEMMA Manque ==
    ASSUME Inv, Faits, Comptes, p.pc # "repos"
    PROVE  Cardinality(Manquent) <= Ouvriers + rates
<1>1. Manquent \in SUBSET (EnMain \cup Levees)
  BY DEF Manquent, EnMain, Levees, EnCours, Faits, Inv, TypeOK
<1>2. EnMain \in SUBSET Chemin /\ Levees \in SUBSET Chemin /\ EnMain \cup Levees \in SUBSET Chemin
  BY DEF EnMain, Levees
<1>3. Cardinality(EnMain \cup Levees) <= Cardinality(EnMain) + Cardinality(Levees)
  <2>1. /\ IsFiniteSet(EnMain) /\ IsFiniteSet(Levees)
        /\ Cardinality(EnMain) \in Nat /\ Cardinality(Levees) \in Nat
    BY <1>2, Finis
  <2>2. Cardinality(EnMain \cap Levees) \in Nat
    BY <1>2, Finis
  <2>3. Cardinality(EnMain \cup Levees)
          = Cardinality(EnMain) + Cardinality(Levees) - Cardinality(EnMain \cap Levees)
    BY <2>1, FS_Union
  <2> QED
    BY <2>1, <2>2, <2>3
<1>4. Cardinality(Manquent) <= Cardinality(EnMain \cup Levees)
  BY <1>1, <1>2, Ordre
<1>5. /\ Cardinality(Manquent) \in Nat /\ Cardinality(EnMain \cup Levees) \in Nat
      /\ Cardinality(EnMain) \in Nat /\ Cardinality(Levees) \in Nat
      /\ Ouvriers \in Nat /\ rates \in Nat
  BY <1>1, <1>2, Finis, Parametres DEF Inv, TypeOK
<1> QED
  BY <1>3, <1>4, <1>5 DEF Comptes

LEMMA InitSuivi == Init => Suivi
<1> SUFFICES ASSUME Init PROVE Suivi
  OBVIOUS
<1>1. EnMain = {} /\ Levees = {}
  BY DEF Init, EnMain, Levees, EnCours
<1>2. Comptes
  BY <1>1, FS_EmptySet, Parametres DEF Comptes, Init
<1> QED
  BY <1>1, <1>2, InitInv DEF Suivi, Faits, Tours, Reste, Init

\* A pass that ends.
LEMMA FinSuivi ==
    ASSUME Suivi, Inv', Finir, p.pc # "repos", bouges' = bouges,
           registre[p.k].chemins \subseteq registre'[p.k].chemins
    PROVE  Suivi'
<1>1. /\ p'.pc = "repos" /\ p'.k = p.k /\ rates' = rates
      /\ tache' = [x \in Chemin |-> "hors"]
  BY DEF Finir, AuRepos
<1>2. EnMain' = {} /\ Levees' = {}
  BY <1>1 DEF EnMain, Levees, EnCours
<1>3. Comptes'
  BY <1>1, <1>2, FS_EmptySet, Parametres DEF Comptes, Suivi, Inv, TypeOK
<1>4. Reste'
  <2>1. Manquent' \in SUBSET Manquent /\ Manquent \in SUBSET Chemin
    BY <1>1 DEF Manquent, Suivi, Inv, TypeOK
  <2>2. Cardinality(Manquent') <= Cardinality(Manquent)
    BY <2>1, Ordre
  <2>3. Cardinality(Manquent) <= Ouvriers + rates
    BY Manque DEF Suivi
  <2>4. Cardinality(Manquent') \in Nat /\ Cardinality(Manquent) \in Nat
        /\ Ouvriers \in Nat /\ rates \in Nat
    BY <2>1, Finis, Parametres DEF Suivi, Inv, TypeOK
  <2> QED
    BY <1>1, <2>2, <2>3, <2>4 DEF Reste
<1> QED
  BY <1>1, <1>2, <1>3, <1>4 DEF Suivi, Faits, Tours

\* A step of a task that is at work, and remains so or is done.
LEMMA TravailSuivi ==
    ASSUME Suivi, Inv', Faits', NEW x \in Chemin, NEW e \in Etape, Avance(x, e),
           tache[x] \in EnCours, e # "levee", p' = p, rates' = rates
    PROVE  Suivi'
<1>1. /\ EnMain' \in SUBSET EnMain /\ EnMain \in SUBSET Chemin
      /\ Levees' = Levees
  BY DEF Avance, EnMain, Levees, EnCours, Suivi, Inv, TypeOK
<1>2. p.pc # "repos"
  BY DEF Suivi, Inv, Consenti, EnCours
<1>3. Cardinality(EnMain') <= Cardinality(EnMain)
  BY <1>1, Ordre
<1>4. Cardinality(EnMain') \in Nat /\ Cardinality(EnMain) \in Nat /\ Ouvriers \in Nat
  BY <1>1, Finis, Parametres
<1>5. Comptes'
  BY <1>1, <1>3, <1>4 DEF Comptes, Suivi
<1>6. Tours' /\ Reste'
  BY <1>1, <1>2 DEF Suivi, Tours, Reste
<1> QED
  BY <1>5, <1>6 DEF Suivi

LEMMA PrendreSuivi ==
    ASSUME Suivi, Inv', NEW x \in Chemin, Prendre(x)
    PROVE  Suivi'
<1>1. /\ tache[x] = "attend" /\ \E e \in {"geste", "resultat"} : Avance(x, e)
      /\ x = Racine => p.pc = "racine"
      /\ x # Racine => /\ x \in Clone /\ p.pc = "clones"
                       /\ Cardinality({c \in Clone : tache[c] \in EnCours}) < Ouvriers
      /\ UNCHANGED <<bouges, p, resultats, cliche, registre, rates>>
  BY DEF Prendre, code, trace, Chemin
<1>2. /\ EnMain' = EnMain \cup {x} /\ Levees' = Levees /\ x \notin EnMain
      /\ EnMain \in SUBSET Chemin
      /\ \A y \in Chemin : y # x => tache'[y] = tache[y]
      /\ tache'[x] \in {"geste", "resultat"}
  BY <1>1 DEF Avance, EnMain, Levees, EnCours, Suivi, Inv, TypeOK
<1>3. Faits'
  BY <1>1, <1>2 DEF Faits, Suivi
<1>4. Cardinality(EnMain \cup {x}) <= Ouvriers
  <2>1. CASE x = Racine
    <3>1. EnMain = {}
      BY <1>1, <1>2, <2>1 DEF Suivi, Tours
    <3>2. EnMain \cup {x} = {x}
      BY <3>1
    <3>3. Cardinality({x}) = 1
      BY FS_Singleton
    <3> QED
      BY <3>2, <3>3, Parametres
  <2>2. CASE x # Racine
    <3>1. EnMain = {c \in Clone : tache[c] \in EnCours}
      BY <1>1, <2>2 DEF Suivi, Tours, EnMain, Chemin
    <3>2. Cardinality(EnMain) < Ouvriers
      BY <1>1, <2>2, <3>1
    <3>3. IsFiniteSet(EnMain) /\ Cardinality(EnMain) \in Nat
      BY <1>2, Finis
    <3>4. Cardinality(EnMain \cup {x}) = Cardinality(EnMain) + 1
      BY <1>2, <3>3, FS_AddElement
    <3> QED
      BY <3>2, <3>3, <3>4, Parametres
  <2> QED
    BY <2>1, <2>2
<1>5. Comptes' /\ Tours' /\ Reste'
  BY <1>1, <1>2, <1>4, Parametres DEF Suivi, Comptes, Tours, Reste
<1> QED
  BY <1>3, <1>5 DEF Suivi

LEMMA EcrireRateSuivi ==
    ASSUME Suivi, Inv', NEW x \in Chemin, EcrireRate(x)
    PROVE  Suivi'
<1>1. /\ tache[x] = "ecrit" /\ Avance(x, "levee") /\ rates' = rates + 1
      /\ cliche' = [cliche EXCEPT ![x] = {}]
      /\ UNCHANGED <<bouges, p, resultats, registre>>
  BY DEF EcrireRate, code
<1>2. /\ EnMain' \in SUBSET EnMain /\ EnMain \in SUBSET Chemin
      /\ Levees' = Levees \cup {x} /\ Levees \in SUBSET Chemin
      /\ \A y \in Chemin : y # x => tache'[y] = tache[y] /\ cliche'[y] = cliche[y]
      /\ tache'[x] = "levee"
  BY <1>1 DEF Avance, EnMain, Levees, EnCours, Suivi, Inv, TypeOK
<1>3. p.pc # "repos"
  BY <1>1 DEF Suivi, Inv, Consenti
<1>4. Faits'
  BY <1>1, <1>2 DEF Faits, Suivi
<1>5. Comptes'
  <2>1. Cardinality(EnMain') <= Cardinality(EnMain)
    BY <1>2, Ordre
  <2>2. IsFiniteSet(Levees) /\ Cardinality(Levees) \in Nat
        /\ Cardinality(EnMain') \in Nat /\ Cardinality(EnMain) \in Nat
    BY <1>2, Finis
  <2>3. Cardinality(Levees \cup {x}) <= Cardinality(Levees) + 1
    BY <2>2, FS_AddElement
  <2>4. Cardinality(Levees \cup {x}) \in Nat /\ rates \in Nat /\ Ouvriers \in Nat
    <3>1. Levees \cup {x} \in SUBSET Chemin
      BY <1>2
    <3> QED
      BY <3>1, Finis, Parametres DEF Suivi, Inv, TypeOK
  <2> QED
    BY <1>1, <1>2, <2>1, <2>2, <2>3, <2>4 DEF Suivi, Comptes
<1>6. Tours' /\ Reste'
  BY <1>1, <1>2, <1>3 DEF Suivi, Tours, Reste
<1> QED
  BY <1>4, <1>5, <1>6 DEF Suivi

LEMMA TacheSuivi ==
    ASSUME Suivi, Inv', NEW x \in Chemin, Tache(x)
    PROVE  Suivi'
<1>1. CASE Rater(x)
  <2>1. /\ tache[x] = "geste" /\ Avance(x, "resultat")
        /\ UNCHANGED <<bouges, p, resultats, cliche, registre, rates>>
    BY <1>1 DEF Rater, code, trace
  <2>2. Faits'
    BY <2>1 DEF Faits, Suivi, Avance, Inv, TypeOK
  <2> QED
    BY <2>1, <2>2, TravailSuivi DEF EnCours, Etape
<1>2. CASE Noter(x)
  <2>1. /\ tache[x] = "resultat" /\ Avance(x, "note") /\ resultats' = resultats \cup {x}
        /\ UNCHANGED <<bouges, p, cliche, registre, rates>>
    BY <1>2 DEF Noter, code, trace
  <2>2. Faits'
    BY <2>1 DEF Faits, Suivi, Avance, Inv, TypeOK
  <2> QED
    BY <2>1, <2>2, TravailSuivi DEF EnCours, Etape
<1>3. CASE Copier(x)
  <2>1. /\ tache[x] = "note" /\ Avance(x, "ecrit")
        /\ cliche' = [cliche EXCEPT ![x] = resultats]
        /\ UNCHANGED <<bouges, p, resultats, registre, rates>>
    BY <1>3 DEF Copier, code, trace
  <2>2. Faits'
    BY <2>1 DEF Faits, Suivi, Avance, Inv, TypeOK
  <2> QED
    BY <2>1, <2>2, TravailSuivi DEF EnCours, Etape
<1>4. CASE Ecrire(x)
  <2>1. /\ tache[x] = "ecrit" /\ Avance(x, "faite") /\ cliche' = [cliche EXCEPT ![x] = {}]
        /\ registre' = [registre EXCEPT ![p.k].chemins = cliche[x]]
        /\ UNCHANGED <<bouges, p, resultats, rates>>
    BY <1>4 DEF Ecrire, code
  <2>2. /\ p.pc # "repos" /\ p.k \in 1 .. MaxPasse /\ registre[p.k] \in Record
        /\ registre[p.k].chemins \subseteq cliche[x] /\ x \in cliche[x]
    BY <2>1 DEF Suivi, Faits, Inv, Registres, Ecritures, Consenti
  <2>3. registre'[p.k].chemins = cliche[x]
    BY <2>1, <2>2 DEF Suivi, Inv, TypeOK, Record
  <2>4. \A y \in Chemin : y # x => tache'[y] = tache[y] /\ cliche'[y] = cliche[y]
    BY <2>1 DEF Suivi, Avance, Inv, TypeOK
  <2>5. tache'[x] = "faite"
    BY <2>1 DEF Suivi, Avance, Inv, TypeOK
  <2>6. Faits'
    BY <2>1, <2>2, <2>3, <2>4, <2>5 DEF Faits, Suivi
  <2> QED
    BY <2>1, <2>6, TravailSuivi DEF EnCours, Etape
<1> QED
  BY <1>1, <1>2, <1>3, <1>4, PrendreSuivi, EcrireRateSuivi DEF Tache

LEMMA GesteSuivi ==
    ASSUME Suivi, Inv', ReussirRacine \/ \E c \in Clone : Reussir(c)
    PROVE  Suivi'
<1>1. PICK x \in Chemin :
            /\ tache[x] = "geste" /\ Avance(x, "resultat") /\ bouges' = bouges \cup {x}
            /\ UNCHANGED <<p, resultats, cliche, registre, rates>>
  BY DEF ReussirRacine, Reussir, trace, Chemin
<1>2. Faits'
  BY <1>1 DEF Faits, Suivi, Avance, Inv, TypeOK
<1> QED
  BY <1>1, <1>2, TravailSuivi DEF EnCours, Etape

LEMMA LancerSuivi ==
    ASSUME Suivi, Inv', NEW m, Lancer(m)
    PROVE  Suivi'
<1>1. /\ bouges' = {} /\ rates' = rates /\ p'.pc # "repos"
      /\ \A x \in Chemin : tache'[x] \in {"attend", "hors"}
  BY DEF Lancer
<1>2. EnMain' = {} /\ Levees' = {}
  BY <1>1 DEF EnMain, Levees, EnCours
<1>3. Comptes'
  BY <1>1, <1>2, FS_EmptySet, Parametres DEF Comptes, Suivi, Inv, TypeOK
<1> QED
  BY <1>1, <1>2, <1>3 DEF Suivi, Faits, Tours, Reste

LEMMA VersSuivi ==
    ASSUME Suivi, Inv', ApresRacine \/ ApresClones \/ \E ok \in BOOLEAN : Regenerer(ok)
    PROVE  Suivi'
<1>1. /\ UNCHANGED <<bouges, tache, resultats, cliche, registre, rates>>
      /\ p.pc # "repos" /\ p'.pc # "repos" /\ p'.k = p.k
  BY DEF ApresRacine, ApresClones, Regenerer, Vers, code, memoire, trace, Suivi, Inv, TypeOK, Passe
<1>2. Tours'
  <2>1. CASE ApresRacine
    <3>1. p.pc = "racine" /\ tache[Racine] \in {"hors", "faite"}
      BY <2>1 DEF ApresRacine
    <3>2. Racine \notin EnMain /\ EnMain \subseteq {Racine}
      BY <3>1 DEF Suivi, Tours, EnMain, EnCours
    <3> QED
      BY <1>1, <3>2 DEF Tours, EnMain
  <2>2. CASE ApresClones
    <3>1. p'.pc \in {"racine", "fin"} /\ \A c \in Clone : tache[c] \in {"hors", "faite"}
      <4>1. p \in Passe /\ p' = [p EXCEPT !.pc = IF Retour THEN "racine" ELSE "fin"]
        BY <2>2 DEF ApresClones, Vers, Suivi, Inv, TypeOK
      <4>2. p'.pc = IF Retour THEN "racine" ELSE "fin"
        BY <4>1 DEF Passe
      <4> QED
        BY <2>2, <4>2 DEF ApresClones
    <3>2. EnMain \subseteq {Racine}
      BY <3>1 DEF EnMain, EnCours, Chemin
    <3> QED
      BY <1>1, <3>1, <3>2 DEF Tours, EnMain
  <2>3. ASSUME NEW ok \in BOOLEAN, Regenerer(ok) PROVE Tours'
    <3>1. p.pc = "manifeste" /\ p'.pc \in {"clones", "fin"}
      BY <2>3 DEF Regenerer, Vers, Suivi, Inv, TypeOK, Passe
    <3> QED
      BY <1>1, <3>1 DEF Suivi, Tours, EnMain
  <2> QED
    BY <2>1, <2>2, <2>3
<1>3. Faits' /\ Comptes' /\ Reste'
  BY <1>1 DEF Suivi, Faits, Comptes, Reste, EnMain, Levees
<1> QED
  BY <1>2, <1>3 DEF Suivi

LEMMA LeverSuivi ==
    ASSUME Suivi, Inv', Lever
    PROVE  Suivi'
<1>1. /\ UNCHANGED <<bouges, resultats, cliche, registre, rates>>
      /\ p.pc # "repos" /\ p'.pc = "panne" /\ p'.k = p.k
      /\ tache' = [x \in Chemin |-> IF tache[x] = "attend" THEN "hors" ELSE tache[x]]
  BY DEF Lever, Vers, code, trace, Suivi, Inv, TypeOK, Passe
<1>2. EnMain' = EnMain /\ Levees' = Levees
  BY <1>1 DEF EnMain, Levees, EnCours
<1>3. Faits'
  BY <1>1 DEF Suivi, Faits
<1> QED
  BY <1>1, <1>2, <1>3 DEF Suivi, Comptes, Tours, Reste

\* Steps that leave the pass and its trace alone, or only its deadline.
LEMMA AilleursSuivi ==
    ASSUME Suivi, Inv', p'.pc = p.pc, p'.k = p.k,
           UNCHANGED <<bouges, tache, resultats, cliche, registre, rates>>
    PROVE  Suivi'
BY DEF Suivi, Faits, Comptes, Tours, Reste, EnMain, Levees, Manquent

LEMMA SuiviPas ==
    ASSUME Suivi, [Next]_vars
    PROVE  Suivi'
<1> Inv'
  BY Suite DEF Suivi
<1>1. CASE UNCHANGED vars
  BY <1>1, AilleursSuivi DEF vars
<1>2. ASSUME NEW mode \in Mode, NEW m, EssaiASec(mode, m) PROVE Suivi'
  BY <1>2, AilleursSuivi DEF EssaiASec, code, memoire, trace
<1>3. CASE Refuser \/ PublierRacine \/ ChangerEntrees
  BY <1>3, AilleursSuivi DEF Refuser, PublierRacine, ChangerEntrees, code, memoire, trace
<1>4. CASE Echoir
  BY <1>4, AilleursSuivi DEF Echoir, code, memoire, trace, Suivi, Inv, TypeOK, Passe
<1>5. ASSUME NEW c \in Clone, Valider(c) PROVE Suivi'
  BY <1>5, AilleursSuivi DEF Valider, memoire, trace
<1>6. ASSUME NEW l \in Ligne, PublierLigne(l) PROVE Suivi'
  BY <1>6, AilleursSuivi DEF PublierLigne, code, memoire, trace
<1>7. CASE Tuer
  BY <1>7, FinSuivi DEF Tuer, Finir, code
<1>8. CASE Sortir
  BY <1>8, FinSuivi DEF Sortir, Finir, code
<1>9. CASE Terminer
  <2>1. /\ p.pc = "fin" /\ Finir /\ bouges' = bouges
        /\ registre' = [registre EXCEPT ![p.k] = [termine |-> TRUE, chemins |-> resultats]]
    BY <1>9 DEF Terminer, Finir, code
  <2>2. p.k \in 1 .. MaxPasse /\ registre[p.k].chemins \subseteq resultats
    BY <2>1 DEF Suivi, Inv, Registres
  <2>3. registre'[p.k].chemins = resultats
    BY <2>1, <2>2 DEF Suivi, Inv, TypeOK
  <2> QED
    BY <2>1, <2>2, <2>3, FinSuivi
<1>10. CASE Fil
  BY <1>8, <1>9, <1>10, VersSuivi, LeverSuivi DEF Fil
<1> QED
  BY <1>1, <1>2, <1>3, <1>4, <1>5, <1>6, <1>7, <1>10, LancerSuivi, GesteSuivi, TacheSuivi
  DEF Next

\* Whatever stops the process, at most as many repositories as it has workers, and
\* those whose writing the disk refused, were moved without passe.json saying so.
THEOREM TracesTenues == Spec => []TraceTenue
<1>1. Init => Suivi
  BY InitSuivi
<1>2. Suivi /\ [Next]_vars => Suivi'
  BY SuiviPas
<1>3. Suivi => TraceTenue
  BY Manque DEF Suivi, TraceTenue, Reste, Manquent
<1> QED
  BY <1>1, <1>2, <1>3, PTL DEF Spec
================================================================================
