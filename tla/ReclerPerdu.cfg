SPECIFICATION Spec
CONSTANTS
    a1 = a1
    a2 = a2
    n = n
    t = t
    o1 = o1
    o2 = o2
    o3 = o3
    s = s
    None = None
    Key <- MCKey
    Objet <- MCObjet
    Nouvelle <- MCNouvelle
    Date <- MCDate
    Octets <- MCOctets
    Statuts = {s}
    Debut <- MCDebut
    Pannes = TRUE
INVARIANT CopieGardee
CHECK_DEADLOCK FALSE
