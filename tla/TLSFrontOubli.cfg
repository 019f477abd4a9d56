SPECIFICATION Spec
CONSTANTS
    Hote = {h1}
    Declares = {}
    Connexion = {c1, c2}
    Seuil = 2
    Rafale = 2
    Oubli = 4
    Alertes = TRUE
    MaxHeure = 5
SYMMETRY Symetrie
PROPERTY AlerteTenue
