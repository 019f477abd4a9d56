SPECIFICATION ToutSpec
CONSTANTS
    page = page
    paquet = paquet
    inrelease = inrelease
    packages = packages
    complet = complet
    abrege = abrege
    None = None
    q3 = q3
    q4 = q4
    q5 = q5
    Url = {page, paquet}
    Classe <- TouteClasse
    Portable = {}
    Signature <- SansSignature
    Accept = {complet}
    Defaut = complet
    Varie = {}
    Demande <- Lectures
    Requete = {q1, q2}
    Effacements = FALSE
    Coupures = TRUE
    MaxVersion = 1
SYMMETRY SymetrieDesParts
INVARIANTS TypeOK DetentionTenue CompositionTentee
PROPERTIES RevalideTenu VariantePropre SuiteTenue
