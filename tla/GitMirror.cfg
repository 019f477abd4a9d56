SPECIFICATION FairSpec
CONSTANTS
    service = service
    q1 = q1
    q2 = q2
    Requete = {q1, q2}
    Processus = {service}
    Chez <- ServiceSeul
    Retraits = TRUE
    Annulations = TRUE
    Pannes = TRUE
    MaxVersion = 2
    None = None
INVARIANTS TypeOK ServiEntier
PROPERTIES JamaisEnArriere TientSaPromesse Repond
