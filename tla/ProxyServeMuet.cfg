SPECIFICATION Spec
CONSTANTS
    page = page
    paquet = paquet
    inrelease = inrelease
    packages = packages
    complet = complet
    abrege = abrege
    None = None
    Url = {inrelease, packages}
    Classe <- TouteClasse
    Portable = {inrelease, packages}
    Signature <- Suite
    Accept = {complet}
    Defaut = complet
    Varie = {}
    Demande <- GetSeul
    Requete = {q1}
    Effacements = FALSE
    Coupures = TRUE
    MaxVersion = 2
SYMMETRY Symetrie
INVARIANT CompositionTentee
