SPECIFICATION MCSpec
CONSTANTS
    None = None
    x = x
    y = y
    m1 = m1
    m2 = m2
    a1 = a1
    a2 = a2
    n = n
    t = t
    o1 = o1
    o2 = o2
    o3 = o3
    s = s
    Key <- MCKey
    Objet <- MCObjet
    Nouvelle <- MCNouvelle
    Date <- MCDate
    Octets <- MCOctets
    Statuts = {s}
    Debut <- MCDebut
    Pannes = TRUE
    Hote = {h1}
    Declares = {}
    Connexion = {x, y}
    Seuil = 2
    Rafale = 2
    Oubli = 2
    Alertes = TRUE
    MaxHeure = 6
    MAC = {m1, m2}
    Commande = {cmd1, cmd2}
    Absent = Absent
SYMMETRY Symetrie
INVARIANTS TypesTenus PlusRecentGarde PaireCoherente AnnonceTenue TunnelJustifie Durable Restauration
PROPERTY SoupconFonde
CHECK_DEADLOCK FALSE
