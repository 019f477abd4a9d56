---------------------------- MODULE GitMirrorProofs ----------------------------
(***************************************************************************)
(* The lock of GitMirror excludes, in every process and for any number of  *)
(* requests; in a single process, it is what keeps a clone under way from  *)
(* being served and a mirror from going back.                              *)
(***************************************************************************)
EXTENDS GitMirror, TLAPS

\* Whoever is at work holds the lock of its process.
Tient == \A q \in Requete : Travaille(q) => verrou[Chez[q]] = q

Exclusion == TypeOK /\ Tient

-------------------------------------------------------------------------------
\* What a step of q alone makes of req.
Change(q, e) ==
    /\ req' \in [Requete -> Progres]
    /\ req'[q].pc = e
    /\ \A s \in Requete \ {q} : req'[s] = req[s]

LEMMA VaChange ==
    ASSUME TypeOK, NEW q \in Requete, NEW e \in Etapes, Va(q, e)
    PROVE  /\ Change(q, e)
           /\ req'[q].retire = req[q].retire
           /\ req'[q].lu = req[q].lu
BY DEF TypeOK, Progres, Va, Change

LEMMA RendChange ==
    ASSUME TypeOK, NEW q \in Requete, NEW v \in BOOLEAN, Rend(q, v)
    PROVE  /\ Change(q, "libere")
           /\ req'[q].vaut = v
           /\ req'[q].retire = req[q].retire
           /\ req'[q].lu = req[q].lu
BY ZenonT(60) DEF TypeOK, Progres, Etapes, Rend, Change

LEMMA OisifProgres == Oisif \in Progres
BY DEF Oisif, Progres, Etapes, Version, Rien

LEMMA OisifChange ==
    ASSUME TypeOK, NEW q \in Requete, NEW e \in Etapes,
           req' = [req EXCEPT ![q] = [Oisif EXCEPT !.pc = e]]
    PROVE  /\ Change(q, e)
           /\ req'[q].retire = FALSE
           /\ req'[q].lu = Rien
<1>1. [Oisif EXCEPT !.pc = e] \in Progres
  BY OisifProgres DEF Progres
<1> QED
  BY <1>1 DEF TypeOK, Change, Oisif

LEMMA RetourChange ==
    ASSUME TypeOK, NEW q \in Requete, req' = [req EXCEPT ![q] = Oisif]
    PROVE  Change(q, "repos")
BY OisifProgres DEF TypeOK, Change, Oisif

-------------------------------------------------------------------------------
LEMMA InitExclusion == Init => Exclusion
<1> SUFFICES ASSUME Init PROVE Exclusion
  OBVIOUS
<1> USE DEF Init
<1>1. req \in [Requete -> Progres] /\ \A q \in Requete : req[q].pc = "repos"
  BY OisifProgres DEF Oisif
<1>2. TypeOK
  <2>1. amont \in Version
    BY GitMirrorAssumption DEF Version
  <2>2. /\ disque \in Version \cup {Absent, Partiel, Coupe}
        /\ auteur \in Requete \cup {None}
        /\ {reseau, forge, muet} \subseteq BOOLEAN
        /\ auteur = None
    OBVIOUS
  <2>3. /\ note \in [Processus -> BOOLEAN]
        /\ verrou \in [Processus -> Requete \cup {None}]
    OBVIOUS
  <2> QED
    BY <1>1, <2>1, <2>2, <2>3 DEF TypeOK
<1>3. Tient
  BY <1>1 DEF Tient, Travaille
<1> QED
  BY <1>2, <1>3 DEF Exclusion

LEMMA ExclusionStep == Exclusion /\ [Next]_vars => Exclusion'
<1> SUFFICES ASSUME Exclusion, [Next]_vars PROVE Exclusion'
  OBVIOUS
<1> USE GitMirrorAssumption DEF Exclusion, Tient, Travaille, miroir, monde
<1>1. ASSUME NEW q \in Requete, Demander(q) PROVE Exclusion'
  <2>1. Change(q, "attend")
    BY <1>1, OisifChange DEF Demander, Etapes
  <2> QED
    BY <1>1, <2>1 DEF Demander, Change, TypeOK
<1>2. ASSUME NEW q \in Requete, Verrouiller(q) PROVE Exclusion'
  <2>1. Change(q, "examine")
    BY <1>2, VaChange DEF Verrouiller, Etapes
  <2> QED
    BY <1>2, <2>1 DEF Verrouiller, Change, TypeOK
<1>3. ASSUME NEW q \in Requete, ExaminerTenu(q) PROVE Exclusion'
  <2>1. Change(q, "libere") \/ Change(q, "sonde")
    BY <1>3, VaChange, RendChange DEF ExaminerTenu, Etapes
  <2> QED
    BY <1>3, <2>1 DEF ExaminerTenu, Change, TypeOK
<1>4. ASSUME NEW q \in Requete, ExaminerAbsent(q) PROVE Exclusion'
  <2>1. \/ Change(q, "libere") /\ UNCHANGED miroir
        \/ Change(q, "clone") /\ disque' = Partiel /\ auteur' = q
    BY <1>4, VaChange, RendChange DEF ExaminerAbsent, Etapes
  <2> QED
    BY <1>4, <2>1 DEF ExaminerAbsent, Change, TypeOK
<1>5. ASSUME NEW q \in Requete, CloneFini(q) PROVE Exclusion'
  <2>1. Change(q, "libere")
    BY <1>5, RendChange DEF CloneFini
  <2> QED
    BY <1>5, <2>1 DEF CloneFini, Change, TypeOK
<1>6. ASSUME NEW q \in Requete, CloneEchoue(q) PROVE Exclusion'
  <2>1. Change(q, "efface")
    BY <1>6, VaChange DEF CloneEchoue, Etapes
  <2> QED
    BY <1>6, <2>1 DEF CloneEchoue, Change, TypeOK
<1>7. ASSUME NEW q \in Requete, Effacer(q) PROVE Exclusion'
  <2>1. Change(q, "libere")
    BY <1>7, RendChange DEF Effacer
  <2> QED
    BY <1>7, <2>1 DEF Effacer, Change, TypeOK
<1>8. ASSUME NEW q \in Requete, Sonder(q) \/ Resonder(q) PROVE Exclusion'
  <2>1. Change(q, "libere") \/ Change(q, "maj")
    BY <1>8, VaChange, RendChange DEF Sonder, Resonder, Etapes
  <2>2. muet' \in BOOLEAN
    BY <1>8 DEF Sonder, Resonder, Muets, TypeOK
  <2>3. note' \in [Processus -> BOOLEAN]
    BY <1>8 DEF Sonder, Resonder, TypeOK
  <2>4. /\ UNCHANGED <<disque, auteur, amont, reseau, forge, verrou>>
        /\ req[q].pc \in {"sonde", "resonde"}
    BY <1>8 DEF Sonder, Resonder
  <2> QED
    BY <2>1, <2>2, <2>3, <2>4 DEF Change, TypeOK
<1>9. ASSUME NEW q \in Requete, MajReussit(q) PROVE Exclusion'
  <2>1. Change(q, "libere")
    BY <1>9, RendChange DEF MajReussit
  <2> QED
    BY <1>9, <2>1 DEF MajReussit, Change, TypeOK
<1>10. ASSUME NEW q \in Requete, MajEchoue(q) PROVE Exclusion'
  <2>1. Change(q, "resonde")
    BY <1>10, VaChange DEF MajEchoue, Etapes
  <2> QED
    BY <1>10, <2>1 DEF MajEchoue, Change, TypeOK
<1>11. ASSUME NEW q \in Requete, Liberer(q) PROVE Exclusion'
  <2>1. Change(q, "sert") \/ Change(q, "repos")
    BY <1>11, VaChange, RetourChange DEF Liberer, Etapes
  <2>2. \A s \in Requete \ {q} : Travaille(s) => Chez[s] # Chez[q]
    BY <1>11 DEF Liberer
  <2> QED
    BY <1>11, <2>1, <2>2 DEF Liberer, Change, TypeOK
<1>12. ASSUME NEW q \in Requete, Servir(q) PROVE Exclusion'
  <2>1. disque \in Version \cup {Rien, Absent, Partiel, Coupe}
    BY DEF TypeOK
  <2>2. Change(q, "sert")
    BY <1>12, <2>1 DEF Servir, Change, TypeOK, Progres
  <2> QED
    BY <1>12, <2>2 DEF Servir, Change, TypeOK
<1>13. ASSUME NEW q \in Requete, Repondu(q) PROVE Exclusion'
  <2>1. Change(q, "repos")
    BY <1>13, RetourChange DEF Repondu
  <2> QED
    BY <1>13, <2>1 DEF Repondu, Change, TypeOK
<1>14. ASSUME NEW q \in Requete, DemanderRetrait(q) PROVE Exclusion'
  <2>1. Change(q, "retire")
    BY <1>14, OisifChange DEF DemanderRetrait, Etapes
  <2> QED
    BY <1>14, <2>1 DEF DemanderRetrait, Change, TypeOK
<1>15. ASSUME NEW q \in Requete, Retirer(q) PROVE Exclusion'
  <2>1. ASSUME NEW s \in Requete
        PROVE  /\ s = q => req'[s] = [req[s] EXCEPT !.pc = "libere", !.vaut = FALSE]
               /\ s # q => req'[s] = [req[s] EXCEPT !.retire = TRUE] \/ req'[s] = req[s]
    BY <1>15 DEF Retirer
  <2>2. ASSUME NEW s \in Requete
        PROVE  /\ req'[s] \in Progres
               /\ req'[s].pc = IF s = q THEN "libere" ELSE req[s].pc
    <3>1. req[s] \in Progres /\ "libere" \in Etapes
      BY DEF TypeOK, Etapes
    <3>2. CASE s = q
      BY <2>1, <3>1, <3>2 DEF Progres
    <3>3. CASE s # q /\ req'[s] = [req[s] EXCEPT !.retire = TRUE]
      BY <3>1, <3>3 DEF Progres
    <3>4. CASE s # q /\ req'[s] = req[s]
      BY <3>1, <3>4
    <3> QED
      BY <2>1, <3>2, <3>3, <3>4
  <2>3. req' \in [Requete -> Progres]
    BY <1>15, <2>2 DEF Retirer
  <2> QED
    BY <1>15, <2>2, <2>3 DEF Retirer, TypeOK
<1>16. ASSUME NEW q \in Requete, Annuler(q) PROVE Exclusion'
  <2>1. /\ req' \in [Requete -> Progres]
        /\ \A s \in Requete : req'[s].pc = req[s].pc
    BY <1>16, ZenonT(60) DEF Annuler, TypeOK, Progres
  <2> QED
    BY <1>16, <2>1 DEF Annuler, TypeOK
<1>17. ASSUME NEW p \in Processus, NoteEchoit(p) PROVE Exclusion'
  BY <1>17 DEF NoteEchoit, TypeOK
<1>18. ASSUME NEW p \in Processus, Tuer(p) PROVE Exclusion'
  <2>1. req' \in [Requete -> Progres]
    BY <1>18, OisifProgres DEF Tuer, TypeOK
  <2>2. \A q \in Requete : IF Chez[q] = p THEN req'[q].pc = "repos" ELSE req'[q] = req[q]
    BY <1>18 DEF Tuer, Oisif
  <2>3. /\ disque' \in Version \cup {Absent, Partiel, Coupe}
        /\ auteur' \in Requete \cup {None}
        /\ auteur' # None => auteur' = auteur /\ Chez[auteur] # p
    BY <1>18 DEF Tuer, TypeOK
  <2>4. TypeOK'
    BY <1>18, <2>1, <2>2, <2>3 DEF Tuer, TypeOK
  <2>5. Tient'
    BY <1>18, <2>2 DEF Tuer, TypeOK
  <2> QED
    BY <2>4, <2>5
<1>19. CASE MuetEchoit \/ Reseau \/ Forge
  BY <1>19 DEF MuetEchoit, Reseau, Forge, TypeOK
<1>20. CASE Pousser
  <2>1. amont' \in Version
    BY <1>20 DEF Pousser, TypeOK, Version
  <2> QED
    BY <1>20, <2>1 DEF Pousser, TypeOK
<1>21. CASE UNCHANGED vars
  BY <1>21 DEF vars, TypeOK
<1> QED
  BY <1>1, <1>2, <1>3, <1>4, <1>5, <1>6, <1>7, <1>8, <1>9, <1>10, <1>11, <1>12, <1>13,
     <1>14, <1>15, <1>16, <1>17, <1>18, <1>19, <1>20, <1>21 DEF Next, Avancer

LEMMA Exclusive == Spec => []Exclusion
BY InitExclusion, ExclusionStep, PTL DEF Spec

\* gitmirror.go: the mirror, its lock and its requests stay well formed,
\* whatever is removed, given up or killed, in any number of processes.
THEOREM TypeCorrect == Spec => []TypeOK
BY Exclusive, PTL DEF Exclusion

\* gitmirror.go:190: in every process, one request at a time is at work on
\* the mirror.
THEOREM UnSeulToujours == Spec => []UnSeulALaFois
<1>1. Exclusion => UnSeulALaFois
  BY DEF Exclusion, Tient, UnSeulALaFois
<1> QED
  BY <1>1, Exclusive, PTL

-------------------------------------------------------------------------------
(* One process: its lock is the only one.                                  *)

Seul == \A q, s \in Requete : Chez[q] = Chez[s]

Utile == Version \cup {Coupe}

\* A directory under construction is that of the clone under way, and back.
CloneTient ==
    \A q \in Requete :
        req[q].pc \in {"clone", "efface"} => auteur = q /\ disque = Partiel

Signe == disque = Partiel => auteur # None

\* Past the examination, Assurer deals with a mirror.
Annonce(q) ==
    req[q].pc \in {"sonde", "maj", "resonde"} \/ (req[q].pc = "libere" /\ req[q].vaut)

AnnonceUtile == \A q \in Requete : Annonce(q) => disque \in Utile

\* Past the lock, the mirror stays one until it is removed.
SertUtile ==
    \A q \in Requete :
        req[q].pc = "sert" /\ ~req[q].retire =>
            req[q].lu \in Utile \/ (req[q].lu = Rien /\ disque \in Utile)

\* Nothing is left in a request of its time past the lock.
LitEnService ==
    \A q \in Requete : req[q].pc # "sert" => req[q].lu = Rien /\ ~req[q].retire

PasEnAvance == disque \in Version => disque <= amont

IInv ==
    /\ Exclusion /\ CloneTient /\ Signe /\ AnnonceUtile /\ SertUtile /\ LitEnService
    /\ PasEnAvance

LEMMA InitIInv == Init => IInv
<1> SUFFICES ASSUME Init PROVE IInv
  OBVIOUS
<1>1. \A q \in Requete : req[q].pc = "repos" /\ req[q].lu = Rien /\ ~req[q].retire
  BY DEF Init, Oisif
<1>2. Exclusion
  BY InitExclusion
<1>3. disque = -1 /\ amont = 0
  BY DEF Init, Absent
<1> QED
  BY <1>1, <1>2, <1>3 DEF IInv, CloneTient, Signe, AnnonceUtile, Annonce, SertUtile,
     LitEnService, PasEnAvance, Version, Partiel

\* Nobody else works while q does.
LEMMA SeulAuTravail ==
    ASSUME Seul, Exclusion, NEW q \in Requete, Travaille(q)
    PROVE  \A s \in Requete \ {q} : ~Travaille(s)
BY DEF Seul, Exclusion, Tient

\* At the examination, what exists is a mirror.
LEMMA ExamenUtile ==
    ASSUME Seul, IInv, NEW q \in Requete, req[q].pc = "examine", Existe
    PROVE  disque \in Utile
<1>1. disque # Partiel
  BY SeulAuTravail DEF IInv, Signe, Exclusion, TypeOK, Travaille
<1> QED
  BY <1>1 DEF IInv, Exclusion, TypeOK, Existe, Utile

LEMMA IInvStep == ASSUME Seul PROVE IInv /\ [Next]_vars => IInv'
<1> SUFFICES ASSUME IInv, [Next]_vars PROVE IInv'
  OBVIOUS
<1>0. Exclusion' /\ Exclusion /\ TypeOK /\ TypeOK'
  BY ExclusionStep DEF IInv, Exclusion
<1> DEFINE Reste == /\ CloneTient /\ Signe /\ AnnonceUtile /\ SertUtile /\ LitEnService
                    /\ PasEnAvance
<1> SUFFICES Reste'
  BY <1>0 DEF IInv
<1> USE DEF IInv, CloneTient, Signe, AnnonceUtile, Annonce, SertUtile, LitEnService,
    PasEnAvance, miroir, monde
<1>1. ASSUME NEW q \in Requete, Demander(q) PROVE Reste'
  <2>1. Change(q, "attend") /\ req'[q].lu = Rien /\ ~req'[q].retire
    BY <1>1, <1>0, OisifChange DEF Demander, Etapes
  <2> QED
    BY <1>1, <2>1 DEF Demander, Change
<1>2. ASSUME NEW q \in Requete, Verrouiller(q) PROVE Reste'
  <2>1. Change(q, "examine") /\ req'[q].lu = req[q].lu /\ req'[q].retire = req[q].retire
    BY <1>2, <1>0, VaChange DEF Verrouiller, Etapes
  <2> QED
    BY <1>2, <2>1 DEF Verrouiller, Change
<1>3. ASSUME NEW q \in Requete, ExaminerTenu(q) PROVE Reste'
  <2>1. /\ Change(q, "libere") \/ Change(q, "sonde")
        /\ req'[q].lu = req[q].lu /\ req'[q].retire = req[q].retire
    BY <1>3, <1>0, VaChange, RendChange DEF ExaminerTenu, Etapes
  <2>2. disque \in Utile
    BY <1>3, ExamenUtile DEF ExaminerTenu
  <2> QED
    BY <1>3, <2>1, <2>2 DEF ExaminerTenu, Change
<1>4. ASSUME NEW q \in Requete, ExaminerAbsent(q) PROVE Reste'
  <2>1. \A s \in Requete \ {q} : ~Travaille(s)
    BY <1>4, <1>0, SeulAuTravail DEF ExaminerAbsent, Travaille
  <2>2. disque = Absent /\ Absent \notin Utile /\ Partiel \notin Version /\ Absent \notin Version
    BY <1>4, GitMirrorAssumption DEF ExaminerAbsent, Existe, Absent, Partiel, Coupe, Utile, Version
  <2>3. CASE Rend(q, FALSE) /\ UNCHANGED miroir
    <3>1. /\ Change(q, "libere") /\ req'[q].vaut = FALSE
          /\ req'[q].lu = req[q].lu /\ req'[q].retire = req[q].retire
      BY <2>3, <1>0, RendChange
    <3> QED
      BY <1>4, <2>1, <2>2, <2>3, <3>1 DEF ExaminerAbsent, Change
  <2>4. CASE disque' = Partiel /\ auteur' = q /\ Va(q, "clone")
    <3>1. Change(q, "clone") /\ req'[q].lu = req[q].lu /\ req'[q].retire = req[q].retire
      BY <2>4, <1>0, VaChange DEF Etapes
    <3>2. q # None
      BY GitMirrorAssumption
    <3> QED
      BY <1>4, <2>1, <2>2, <2>4, <3>1, <3>2 DEF ExaminerAbsent, Change, Travaille
  <2> QED
    BY <1>4, <2>3, <2>4 DEF ExaminerAbsent
<1>5. ASSUME NEW q \in Requete, CloneFini(q) \/ MajReussit(q) PROVE Reste'
  <2>1. /\ Change(q, "libere")
        /\ req'[q].lu = req[q].lu
        /\ req'[q].retire = req[q].retire
        /\ req[q].pc \in {"clone", "maj"}
        /\ disque' = amont
        /\ amont' = amont
    BY <1>5, <1>0, RendChange DEF CloneFini, MajReussit
  <2>2. \A s \in Requete \ {q} : ~Travaille(s)
    BY <2>1, <1>0, SeulAuTravail DEF Travaille
  <2>3. amont \in Version /\ amont \in Utile /\ amont # Partiel /\ amont <= amont
    BY <1>0, GitMirrorAssumption DEF TypeOK, Utile, Version, Partiel
  <2> QED
    BY <2>1, <2>2, <2>3 DEF Change, Travaille
<1>6. ASSUME NEW q \in Requete, CloneEchoue(q) PROVE Reste'
  <2>1. Change(q, "efface") /\ req'[q].lu = req[q].lu /\ req'[q].retire = req[q].retire
    BY <1>6, <1>0, VaChange DEF CloneEchoue, Etapes
  <2> QED
    BY <1>6, <2>1 DEF CloneEchoue, Change
<1>7. ASSUME NEW q \in Requete, Effacer(q) PROVE Reste'
  <2>1. /\ Change(q, "libere") /\ req'[q].vaut = FALSE
        /\ req'[q].lu = req[q].lu /\ req'[q].retire = req[q].retire
    BY <1>7, <1>0, RendChange DEF Effacer
  <2>2. \A s \in Requete \ {q} : ~Travaille(s)
    BY <1>7, <1>0, SeulAuTravail DEF Effacer, Travaille
  <2>3. /\ disque = Partiel /\ disque' = Absent
        /\ Partiel \notin Utile /\ Absent # Partiel /\ Absent \notin Version
    BY <1>7, GitMirrorAssumption DEF Effacer, Utile, Version, Absent, Partiel, Coupe
  <2> QED
    BY <1>7, <2>1, <2>2, <2>3 DEF Effacer, Change, Travaille
<1>8. ASSUME NEW q \in Requete, Sonder(q) \/ Resonder(q) PROVE Reste'
  <2>1. /\ Change(q, "libere") \/ Change(q, "maj")
        /\ req'[q].lu = req[q].lu
        /\ req'[q].retire = req[q].retire
        /\ req[q].pc \in {"sonde", "resonde"}
        /\ UNCHANGED <<disque, auteur, amont>>
    BY <1>8, <1>0, VaChange, RendChange DEF Sonder, Resonder, Etapes
  <2> QED
    BY <2>1 DEF Change
<1>9. ASSUME NEW q \in Requete, MajEchoue(q) PROVE Reste'
  <2>1. Change(q, "resonde") /\ req'[q].lu = req[q].lu /\ req'[q].retire = req[q].retire
    BY <1>9, <1>0, VaChange DEF MajEchoue, Etapes
  <2> QED
    BY <1>9, <2>1 DEF MajEchoue, Change
<1>10. ASSUME NEW q \in Requete, Liberer(q) PROVE Reste'
  <2>1. \/ /\ req[q].vaut /\ Change(q, "sert")
           /\ req'[q].lu = req[q].lu /\ req'[q].retire = req[q].retire
        \/ Change(q, "repos") /\ req'[q].lu = Rien /\ ~req'[q].retire
    BY <1>10, <1>0, VaChange, RetourChange, OisifProgres DEF Liberer, Etapes, TypeOK, Oisif
  <2> QED
    BY <1>10, <2>1 DEF Liberer, Change
<1>11. ASSUME NEW q \in Requete, Servir(q) PROVE Reste'
  <2>1. /\ req' = [req EXCEPT ![q].lu = disque]
        /\ req[q].pc = "sert" /\ req[q].lu = Rien
        /\ UNCHANGED <<disque, auteur, amont>>
    BY <1>11 DEF Servir
  <2>2. /\ req'[q].pc = "sert" /\ req'[q].lu = disque /\ req'[q].retire = req[q].retire
        /\ \A s \in Requete \ {q} : req'[s] = req[s]
    BY <2>1, <1>0 DEF TypeOK, Progres
  <2>3. Rien \notin Utile
    BY GitMirrorAssumption DEF Utile, Version, Rien, Coupe
  <2> QED
    BY <2>1, <2>2, <2>3
<1>12. ASSUME NEW q \in Requete, Repondu(q) PROVE Reste'
  <2>1. Change(q, "repos") /\ req'[q].lu = Rien /\ ~req'[q].retire
    BY <1>12, <1>0, RetourChange DEF Repondu, TypeOK, Oisif
  <2> QED
    BY <1>12, <2>1 DEF Repondu, Change
<1>13. ASSUME NEW q \in Requete, DemanderRetrait(q) PROVE Reste'
  <2>1. Change(q, "retire") /\ req'[q].lu = Rien /\ ~req'[q].retire
    BY <1>13, <1>0, OisifChange DEF DemanderRetrait, Etapes
  <2> QED
    BY <1>13, <2>1 DEF DemanderRetrait, Change
<1>14. ASSUME NEW q \in Requete, Retirer(q) PROVE Reste'
  <2>1. \A s \in Requete \ {q} : ~Travaille(s)
    BY <1>14, <1>0, SeulAuTravail DEF Retirer, Travaille
  <2>2. /\ req'[q].pc = "libere" /\ req'[q].vaut = FALSE
        /\ req'[q].lu = req[q].lu /\ req'[q].retire = req[q].retire
    BY <1>14, <1>0, ZenonT(60) DEF Retirer, TypeOK, Progres
  <2>3. ASSUME NEW s \in Requete \ {q}
        PROVE  /\ req'[s].pc = req[s].pc
               /\ req'[s].lu = req[s].lu
               /\ IF req[s].pc = "sert" THEN req'[s].retire
                                        ELSE req'[s].retire = req[s].retire
    BY <1>14, <1>0 DEF Retirer, TypeOK, Progres
  <2> QED
    BY <1>14, <2>1, <2>2, <2>3 DEF Retirer, Travaille, Absent, Partiel, Version
<1>15. ASSUME NEW q \in Requete, Annuler(q) PROVE Reste'
  <2>1. \A s \in Requete : /\ req'[s].pc = req[s].pc
                           /\ req'[s].lu = req[s].lu
                           /\ req'[s].vaut = req[s].vaut
                           /\ req'[s].retire = req[s].retire
    BY <1>15, <1>0 DEF Annuler, TypeOK, Progres
  <2> QED
    BY <1>15, <2>1 DEF Annuler
<1>16. ASSUME NEW p \in Processus, Tuer(p) PROVE Reste'
  <2>1. CASE \E q \in Requete : Chez[q] = p
    <3>1. \A s \in Requete : req'[s].pc = "repos" /\ req'[s].lu = Rien /\ ~req'[s].retire
      BY <1>16, <2>1 DEF Tuer, Seul, Oisif
    <3>2. disque' = IF auteur # None THEN Coupe ELSE disque
      BY <1>16, <2>1, <1>0 DEF Tuer, Seul, TypeOK
    <3>3. Coupe # Partiel /\ Coupe \notin Version
      BY GitMirrorAssumption DEF Coupe, Partiel, Version
    <3> QED
      BY <1>16, <3>1, <3>2, <3>3 DEF Tuer
  <2>2. CASE \A q \in Requete : Chez[q] # p
    <3>1. \A s \in Requete : req'[s] = req[s]
      BY <1>16, <2>2 DEF Tuer
    <3>2. auteur' = auteur /\ disque' = disque
      BY <1>16, <2>2, <1>0 DEF Tuer, TypeOK
    <3> QED
      BY <1>16, <3>1, <3>2 DEF Tuer
  <2> QED
    BY <2>1, <2>2
<1>17. CASE Pousser
  <2>1. amont' = amont + 1 /\ UNCHANGED <<disque, auteur, req>>
    BY <1>17 DEF Pousser
  <2>2. disque \in Version => disque <= amont'
    BY <2>1, <1>0, GitMirrorAssumption DEF TypeOK, Version
  <2> QED
    BY <2>1, <2>2
<1>18. CASE \/ \E p \in Processus : NoteEchoit(p)
            \/ MuetEchoit \/ Reseau \/ Forge \/ UNCHANGED vars
  <2>1. UNCHANGED <<disque, auteur, amont, req>>
    BY <1>18 DEF NoteEchoit, MuetEchoit, Reseau, Forge, vars
  <2> QED
    BY <2>1
<1> QED
  BY <1>1, <1>2, <1>3, <1>4, <1>5, <1>6, <1>7, <1>8, <1>9, <1>10, <1>11, <1>12, <1>13,
     <1>14, <1>15, <1>16, <1>17, <1>18 DEF Next, Avancer

LEMMA Inductif == ASSUME Seul PROVE Spec => []IInv
BY InitIInv, IInvStep, PTL DEF Spec

\* gitmirror.go:239: with one process, whatever fails, is given up or killed,
\* no directory under construction is served, nor one that is not there unless
\* the mirror was removed meanwhile.
THEOREM ServiEntierToujours == ASSUME Seul PROVE Spec => []ServiEntier
<1>1. IInv => ServiEntier
  <2> SUFFICES ASSUME IInv, NEW q \in Requete, req[q].lu \in {Partiel, Absent}
               PROVE  req[q].retire
    BY DEF ServiEntier
  <2>1. Partiel \notin Utile /\ Absent \notin Utile /\ Rien # Partiel /\ Rien # Absent
    BY GitMirrorAssumption DEF Utile, Version, Partiel, Absent, Coupe, Rien
  <2> QED
    BY <2>1 DEF IInv, SertUtile, LitEnService
<1> QED
  BY <1>1, Inductif, PTL

\* gitmirror.go: with one process, a mirror that holds a version never goes
\* back to an older one, and only a removal takes it away.
THEOREM JamaisEnArriereToujours == ASSUME Seul PROVE Spec => JamaisEnArriere
<1> DEFINE Pas == (disque \in Version) =>
                     \/ disque' \in Version /\ disque' >= disque
                     \/ \E q \in Requete : req[q].pc = "retire" /\ req'[q].pc = "libere"
<1>1. IInv /\ [Next]_vars => [Pas]_vars
  <2> SUFFICES ASSUME IInv, Next, disque \in Version PROVE Pas
    BY DEF vars
  <2>1. disque \in Nat /\ disque <= amont /\ amont \in Version /\ disque # Partiel
    BY GitMirrorAssumption DEF IInv, PasEnAvance, Exclusion, TypeOK, Version, Partiel
  <2>2. \A q \in Requete : req[q].pc \notin {"clone", "efface"}
    BY <2>1 DEF IInv, CloneTient
  <2>3. auteur = None
    BY <2>2 DEF IInv, Exclusion, TypeOK
  <2>4. ASSUME disque' = disque PROVE Pas
    BY <2>1, <2>4
  <2>5. ASSUME disque' = amont PROVE Pas
    BY <2>1, <2>5
  <2>6. ASSUME NEW q \in Requete, Retirer(q) PROVE Pas
    <3>1. req[q].pc = "retire" /\ req'[q].pc = "libere"
      BY <2>6 DEF Retirer, IInv, Exclusion, TypeOK, Progres
    <3> QED
      BY <3>1
  <2>7. \/ disque' = disque
        \/ disque' = amont
        \/ \E q \in Requete : Retirer(q) \/ ExaminerAbsent(q)
    BY <2>2, <2>3 DEF Next, Avancer, Demander, Verrouiller, ExaminerTenu, CloneFini, CloneEchoue,
       Effacer, Sonder, MajReussit, MajEchoue, Resonder, Liberer, Servir, Repondu,
       DemanderRetrait, Annuler, NoteEchoit, Tuer, MuetEchoit, Pousser, Reseau, Forge, miroir
  <2>8. ASSUME NEW q \in Requete, ExaminerAbsent(q) PROVE Pas
    BY <2>1, <2>8 DEF ExaminerAbsent, Existe, Absent
  <2> QED
    BY <2>4, <2>5, <2>6, <2>7, <2>8
<1> QED
  BY <1>1, Inductif, PTL DEF Spec, JamaisEnArriere

-------------------------------------------------------------------------------
(* The mirror implements MirrorPromise.                                    *)

LEMMA PromesseInit == Init => Promesse!Init
BY DEF Init, Promesse!Init, Promesse!Libre, Promesse!Aucune, Promesse!PasLu, Vue, Oisif, Absent,
   Partiel, Rien

\* Who has not been let in is nobody for the promise.
LEMMA HorsService ==
    ASSUME IInv, NEW q \in Requete, req[q].pc # "sert"
    PROVE  Vue(q) = Promesse!Libre
<1>1. req[q].lu = Rien /\ req[q].retire = FALSE
  BY DEF IInv, LitEnService, Exclusion, TypeOK, Progres
<1>2. (IF req[q].pc = "sert" THEN "admis" ELSE "libre") = "libre"
  OBVIOUS
<1>3. (IF req[q].lu = Partiel THEN Absent ELSE req[q].lu) = Promesse!PasLu
  BY <1>1 DEF Promesse!PasLu, Rien, Partiel
<1> QED
  BY <1>1, <1>2, <1>3, Zenon DEF Vue, Promesse!Libre

LEMMA HorsServiceApres ==
    ASSUME IInv', NEW q \in Requete, req'[q].pc # "sert"
    PROVE  Vue(q)' = Promesse!Libre
<1>1. req'[q].lu = Rien /\ req'[q].retire = FALSE
  BY DEF IInv, LitEnService, Exclusion, TypeOK, Progres
<1>2. (IF req'[q].pc = "sert" THEN "admis" ELSE "libre") = "libre"
  OBVIOUS
<1>3. (IF req'[q].lu = Partiel THEN Absent ELSE req'[q].lu) = Promesse!PasLu
  BY <1>1 DEF Promesse!PasLu, Rien, Partiel
<1> QED
  BY <1>1, <1>2, <1>3, Zenon DEF Vue, Promesse!Libre

\* What a step of Assurer or of Retirer does is not seen, unless it touches the mirror.
LEMMA Begaie ==
    ASSUME IInv, IInv', NEW q \in Requete, NEW e \in Etapes \ {"sert"}, Change(q, e),
           req[q].pc # "sert"
    PROVE  \A s \in Requete : Vue(s)' = Vue(s)
<1> TAKE s \in Requete
<1>1. CASE s = q
  BY <1>1, HorsService, HorsServiceApres DEF Change
<1>2. CASE s # q
  BY <1>2 DEF Change, Vue
<1> QED
  BY <1>1, <1>2

LEMMA PromesseStep ==
    ASSUME Seul, IInv, IInv', [Next]_vars
    PROVE  [Promesse!Next]_(Promesse!promesse)
<1> DEFINE copie == IF disque = Partiel THEN Absent ELSE disque
           client == [s \in Requete |-> Vue(s)]
           Pas == [Promesse!Next]_(Promesse!promesse)
<1>0. TypeOK /\ TypeOK' /\ Exclusion
  BY DEF IInv, Exclusion
<1>a. ASSUME copie' = copie, amont' = amont, \A s \in Requete : Vue(s)' = Vue(s) PROVE Pas
  <2>1. client' = client
    BY <1>a
  <2> QED
    BY <1>a, <2>1 DEF Promesse!promesse
<1> USE DEF miroir, monde
<1>1. ASSUME NEW q \in Requete, Demander(q) \/ DemanderRetrait(q) PROVE Pas
  <2>1. /\ Change(q, "attend") \/ Change(q, "retire")
        /\ req[q].pc = "repos"
        /\ UNCHANGED <<disque, amont>>
    BY <1>0, <1>1, OisifChange DEF Demander, DemanderRetrait, Etapes
  <2> QED
    BY <2>1, Begaie, <1>a DEF Etapes
<1>2. ASSUME NEW q \in Requete, Verrouiller(q) \/ ExaminerTenu(q) PROVE Pas
  <2>1. /\ Change(q, "examine") \/ Change(q, "libere") \/ Change(q, "sonde")
        /\ req[q].pc \in {"attend", "examine"}
        /\ UNCHANGED <<disque, amont>>
    BY <1>0, <1>2, VaChange, RendChange DEF Verrouiller, ExaminerTenu, Etapes
  <2> QED
    BY <2>1, Begaie, <1>a DEF Etapes
<1>3. ASSUME NEW q \in Requete, ExaminerAbsent(q) PROVE Pas
  <2>1. /\ Change(q, "libere") \/ Change(q, "clone")
        /\ req[q].pc = "examine"
        /\ amont' = amont
    BY <1>0, <1>3, VaChange, RendChange DEF ExaminerAbsent, Etapes
  <2>2. disque = Absent /\ disque' \in {Absent, Partiel}
    BY <1>3 DEF ExaminerAbsent, Existe
  <2> QED
    BY <2>1, <2>2, Begaie, <1>a DEF Etapes, Absent, Partiel
<1>4. ASSUME NEW q \in Requete, CloneFini(q) \/ MajReussit(q) PROVE Pas
  <2>1. /\ Change(q, "libere")
        /\ req[q].pc \in {"clone", "maj"}
        /\ disque' = amont /\ amont' = amont
    BY <1>0, <1>4, RendChange DEF CloneFini, MajReussit
  <2>2. client' = client
    BY <2>1, Begaie DEF Etapes
  <2>3. copie' = amont
    BY <2>1, <1>0, GitMirrorAssumption DEF TypeOK, Version, Partiel
  <2>4. Promesse!Actualiser
    BY <2>1, <2>2, <2>3 DEF Promesse!Actualiser
  <2> QED
    BY <2>4 DEF Promesse!Next
<1>5. ASSUME NEW q \in Requete, CloneEchoue(q) \/ MajEchoue(q) PROVE Pas
  <2>1. /\ Change(q, "efface") \/ Change(q, "resonde")
        /\ req[q].pc \in {"clone", "maj"}
        /\ UNCHANGED <<disque, amont>>
    BY <1>0, <1>5, VaChange DEF CloneEchoue, MajEchoue, Etapes
  <2> QED
    BY <2>1, Begaie, <1>a DEF Etapes
<1>6. ASSUME NEW q \in Requete, Effacer(q) PROVE Pas
  <2>1. /\ Change(q, "libere")
        /\ req[q].pc = "efface"
        /\ disque' = Absent /\ amont' = amont
    BY <1>0, <1>6, RendChange DEF Effacer
  <2>2. disque = Partiel
    BY <2>1 DEF IInv, CloneTient
  <2> QED
    BY <2>1, <2>2, Begaie, <1>a DEF Etapes, Absent, Partiel
<1>7. ASSUME NEW q \in Requete, Sonder(q) \/ Resonder(q) PROVE Pas
  <2>1. /\ Change(q, "libere") \/ Change(q, "maj")
        /\ req[q].pc \in {"sonde", "resonde"}
        /\ UNCHANGED <<disque, amont>>
    BY <1>0, <1>7, VaChange, RendChange DEF Sonder, Resonder, Etapes
  <2> QED
    BY <2>1, Begaie, <1>a DEF Etapes
<1>8. ASSUME NEW q \in Requete, Liberer(q) PROVE Pas
  <2>1. CASE ~req[q].vaut
    <3>1. Change(q, "repos") /\ req[q].pc = "libere" /\ UNCHANGED <<disque, amont>>
      BY <1>0, <1>8, <2>1, RetourChange DEF Liberer
    <3> QED
      BY <3>1, Begaie, <1>a DEF Etapes
  <2>2. CASE req[q].vaut
    <3>1. /\ req' = [req EXCEPT ![q].pc = "sert"]
          /\ req[q].pc = "libere"
          /\ UNCHANGED <<disque, amont>>
      BY <1>8, <2>2 DEF Liberer, Va
    <3>2. copie # Absent
      BY <2>2, <3>1, GitMirrorAssumption
         DEF IInv, AnnonceUtile, Annonce, Utile, Version, Coupe, Absent, Partiel
    <3>3. Vue(q) = Promesse!Libre
      BY <3>1, HorsService
    <3>4. Vue(q)' = [Vue(q) EXCEPT !.pc = "admis"]
      BY <3>1, <1>0 DEF Vue, TypeOK, Progres
    <3>5. \A s \in Requete \ {q} : Vue(s)' = Vue(s)
      BY <3>1, <1>0 DEF Vue, TypeOK
    <3>6. client' = [client EXCEPT ![q].pc = "admis"]
      BY <3>4, <3>5
    <3>7. Promesse!Admettre(q)
      BY <3>1, <3>2, <3>3, <3>6 DEF Promesse!Admettre, Promesse!Libre, Promesse!Aucune, Absent
    <3> QED
      BY <3>7 DEF Promesse!Next
  <2> QED
    BY <2>1, <2>2
<1>9. ASSUME NEW q \in Requete, Servir(q) PROVE Pas
  <2>1. /\ req' = [req EXCEPT ![q].lu = disque]
        /\ req[q].pc = "sert" /\ req[q].lu = Rien
        /\ UNCHANGED <<disque, amont>>
    BY <1>9 DEF Servir
  <2>2. copie = Absent => req[q].retire
    BY <2>1, GitMirrorAssumption
       DEF IInv, SertUtile, Utile, Version, Coupe, Absent, Partiel, Rien
  <2>3. Vue(q).pc = "admis" /\ Vue(q).lu = Rien /\ Vue(q).retire = req[q].retire
    BY <2>1 DEF Vue, Rien, Partiel
  <2>4. Vue(q)' = [Vue(q) EXCEPT !.lu = copie]
    BY <2>1, <1>0 DEF Vue, TypeOK, Progres
  <2>5. \A s \in Requete \ {q} : Vue(s)' = Vue(s)
    BY <2>1, <1>0 DEF Vue, TypeOK
  <2>6. client' = [client EXCEPT ![q].lu = copie]
    BY <2>4, <2>5
  <2>7. Promesse!Lire(q)
    BY <2>1, <2>2, <2>3, <2>6
       DEF Promesse!Lire, Promesse!PasLu, Promesse!Aucune, Rien, Absent
  <2> QED
    BY <2>7 DEF Promesse!Next
<1>10. ASSUME NEW q \in Requete, Repondu(q) PROVE Pas
  <2>1. /\ req[q].lu # Rien
        /\ Change(q, "repos")
        /\ UNCHANGED <<disque, amont>>
    BY <1>0, <1>10, RetourChange DEF Repondu
  <2>2. Vue(q).lu # Promesse!PasLu
    BY <2>1 DEF Vue, Promesse!PasLu, Rien, Absent
  <2>3. Vue(q)' = Promesse!Libre /\ \A s \in Requete \ {q} : Vue(s)' = Vue(s)
    BY <2>1, HorsServiceApres DEF Change, Vue
  <2>4. client' = [client EXCEPT ![q] = Promesse!Libre]
    BY <2>3
  <2>5. Promesse!Finir(q)
    BY <2>1, <2>2, <2>4 DEF Promesse!Finir
  <2> QED
    BY <2>5 DEF Promesse!Next
<1>11. ASSUME NEW q \in Requete, Retirer(q) PROVE Pas
  <2>1. req[q].pc = "retire" /\ disque' = Absent /\ amont' = amont
    BY <1>11 DEF Retirer
  <2>2. ASSUME NEW s \in Requete
        PROVE  Vue(s)' = IF Vue(s).pc = "admis"
                         THEN [pc |-> "admis", retire |-> TRUE, lu |-> Vue(s).lu]
                         ELSE Vue(s)
    <3>1. CASE s = q
      <4>1. req'[q] = [req[q] EXCEPT !.pc = "libere", !.vaut = FALSE]
        BY <1>11 DEF Retirer
      <4>2. req'[q].pc = "libere"
        BY <4>1, <1>0 DEF TypeOK, Progres
      <4>3. Vue(q)' = Promesse!Libre /\ Vue(q) = Promesse!Libre
        BY <2>1, <4>2, HorsService, HorsServiceApres
      <4> QED
        BY <3>1, <4>3 DEF Promesse!Libre
    <3>2. CASE s # q /\ req[s].pc = "sert"
      <4>1. req'[s] = [req[s] EXCEPT !.retire = TRUE]
        BY <1>11, <3>2 DEF Retirer
      <4>2. /\ req'[s].pc = "sert" /\ req'[s].retire = TRUE
            /\ req'[s].lu = req[s].lu
        BY <3>2, <4>1, <1>0 DEF TypeOK, Progres
      <4> DEFINE lu == IF req[s].lu = Partiel THEN Absent ELSE req[s].lu
      <4>3. Vue(s) = [pc |-> "admis", retire |-> req[s].retire, lu |-> lu]
        BY <3>2, Zenon DEF Vue
      <4>4. Vue(s)' = [pc |-> "admis", retire |-> TRUE, lu |-> lu]
        BY <4>2, Zenon DEF Vue
      <4> HIDE DEF lu
      <4>5. Vue(s).pc = "admis" /\ Vue(s).lu = lu
        BY <4>3
      <4> QED
        BY <4>4, <4>5
    <3>3. CASE s # q /\ req[s].pc # "sert"
      <4>1. req'[s] = req[s]
        BY <1>11, <3>3 DEF Retirer
      <4>2. Vue(s)' = Vue(s) /\ Vue(s) = Promesse!Libre
        BY <3>3, <4>1, HorsService DEF Vue
      <4> QED
        BY <4>2 DEF Promesse!Libre
    <3> QED
      BY <3>1, <3>2, <3>3
  <2>3. client' = [s \in Requete |->
                     IF client[s].pc = "admis"
                     THEN [pc |-> "admis", retire |-> TRUE, lu |-> client[s].lu]
                     ELSE client[s]]
    BY <2>2
  <2>4. Promesse!Retirer
    BY <2>1, <2>3 DEF Promesse!Retirer, Promesse!Aucune, Absent, Partiel
  <2> QED
    BY <2>4 DEF Promesse!Next
<1>12. ASSUME NEW q \in Requete, Annuler(q) PROVE Pas
  <2>1. /\ \A s \in Requete : /\ req'[s].pc = req[s].pc
                               /\ req'[s].lu = req[s].lu
                               /\ req'[s].retire = req[s].retire
        /\ UNCHANGED <<disque, amont>>
    BY <1>12, <1>0 DEF Annuler, TypeOK, Progres
  <2>2. \A s \in Requete : Vue(s)' = Vue(s)
    BY <2>1 DEF Vue
  <2> QED
    BY <2>1, <2>2, <1>a
<1>13. ASSUME NEW p \in Processus, Tuer(p) PROVE Pas
  <2>1. CASE \A q \in Requete : Chez[q] # p
    <3>1. \A s \in Requete : req'[s] = req[s]
      BY <1>13, <2>1 DEF Tuer
    <3>2. disque' = disque /\ amont' = amont
      BY <1>13, <2>1, <1>0 DEF Tuer, TypeOK
    <3> QED
      BY <3>1, <3>2, <1>a DEF Vue
  <2>2. CASE \E q \in Requete : Chez[q] = p
    <3>1. \A s \in Requete : Vue(s)' = Promesse!Libre
      BY <1>13, <2>2, HorsServiceApres DEF Tuer, Seul, Oisif
    <3>2. /\ disque' = IF auteur # None THEN Coupe ELSE disque
          /\ amont' = amont
      BY <1>13, <2>2, <1>0 DEF Tuer, Seul, TypeOK
    <3>3. auteur # None => disque = Partiel
      BY <1>0 DEF TypeOK, IInv, CloneTient
    <3>4. copie' = copie \/ (copie = Absent /\ copie' = Coupe)
      BY <3>2, <3>3 DEF Coupe, Partiel
    <3>5. client' = [s \in Requete |-> Promesse!Libre]
      BY <3>1
    <3>6. Promesse!Arret
      BY <3>2, <3>4, <3>5 DEF Promesse!Arret, Promesse!Aucune, Promesse!Coupe, Absent, Coupe
    <3> QED
      BY <3>6 DEF Promesse!Next
  <2> QED
    BY <2>1, <2>2
<1>14. CASE Pousser
  <2>1. client' = client /\ copie' = copie
    BY <1>14 DEF Pousser, Vue
  <2>2. Promesse!Publier
    BY <1>14, <2>1 DEF Pousser, Promesse!Publier
  <2> QED
    BY <2>2 DEF Promesse!Next
<1>15. CASE \/ \E p \in Processus : NoteEchoit(p)
            \/ MuetEchoit \/ Reseau \/ Forge \/ UNCHANGED vars
  <2>1. UNCHANGED <<disque, amont, req>>
    BY <1>15 DEF NoteEchoit, MuetEchoit, Reseau, Forge, vars
  <2> QED
    BY <2>1, <1>a DEF Vue
<1> QED
  BY <1>1, <1>2, <1>3, <1>4, <1>5, <1>6, <1>7, <1>8, <1>9, <1>10, <1>11, <1>12, <1>13, <1>14,
     <1>15 DEF Next, Avancer

\* gitmirror.go:202: with one process, whatever fails, is given up or killed,
\* a mirror that git fills, completes, refreshes and erases under the lock,
\* and reads outside it, is for those who are let in a copy replaced in one
\* step.
THEOREM MiroirTientSaPromesse == ASSUME Seul PROVE Spec => TientSaPromesse
<1>1. IInv /\ IInv' /\ [Next]_vars => [Promesse!Next]_(Promesse!promesse)
  BY PromesseStep
<1> QED
  BY Inductif, PromesseInit, <1>1, PTL DEF Spec, TientSaPromesse, Promesse!Spec
===============================================================================
