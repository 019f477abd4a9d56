SPECIFICATION FairSpec
CONSTANTS
    Adresse = {a1}
    Requete = {q1, q2, q3}
    Fenetre = 3
    Delai = 2
    None = None
INVARIANTS TypeOK RefusBorne LeveeImmediate
PROPERTY RetourServi
