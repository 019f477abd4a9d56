SPECIFICATION Spec
CONSTANTS
    service = service
    q1 = q1
    q2 = q2
    Requete = {q1, q2}
    Processus = {service}
    Chez <- ServiceSeul
    Retraits = FALSE
    Annulations = FALSE
    Pannes = TRUE
    MaxVersion = 1
    None = None
INVARIANT MiroirValide
