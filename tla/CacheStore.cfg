SPECIFICATION Spec
CONSTANTS
    p1 = p1
    p3 = p3
    Key = {k1}
    Resp = {p1, p3}
    Writer = {x1, x2}
    Reader = {y1}
    None = None
    Illisible = Illisible
    Maintenance = TRUE
    Pannes = TRUE
    Taille <- MCTaille
    Annonce <- MCAnnonce
SYMMETRY Symetrie
INVARIANTS TypeOK ServiEntier CorpsDabord
PROPERTY TientSaPromesse
CHECK_DEADLOCK FALSE
