SPECIFICATION Spec
CONSTANTS
    u1 = u1
    u2 = u2
    v2 = v2
    m = m
    l1 = l1
    b1 = b1
    b2 = b2
    e1 = e1
    Aucun = Aucun
    Branche = {b1, b2}
    BrancheDuManifeste = b1
    Publies <- MCPublies
    Fusion = m
    Locaux = {l1}
    Lignes <- MCLignes
    Instantanes <- MCInstantanes
    Suiveurs <- MCSuiveurs
    Retouches = {e1}
    Strategie = {"rebase", "merge"}
    MaxPasse = 2
    MaxPile = 1
INVARIANTS TypeOK RevenuOuArrive
PROPERTY RetouchesGardees RemisesIntactes CommitsGardes EcraseCopie AllerRetour
CONSTRAINT Perimetre
CHECK_DEADLOCK FALSE
