SPECIFICATION Spec
CONSTANTS
    c1 = c1
    c2 = c2
    la = la
    lb = lb
    Aucun = Aucun
    Clone = {c1, c2}
    Racine = Racine
    Ligne = {la, lb}
    LigneDe <- MCLigneDe
    Instantane <- MCInstantane
    Detaches = {c2}
    Ouvriers = 2
    MaxVersion = 1
    MaxPointe <- MCMaxPointe
    MaxPasse = 2
    MaxEchec = 1
INVARIANTS TypeOK TraceTenue
PROPERTIES RegistreCroissant CibleConsentie ClonesSousManifeste PasseFinit
CHECK_DEADLOCK FALSE
