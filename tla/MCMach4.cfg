SPECIFICATION MCSpec
CONSTANTS
    Ports = {p1, p2}
    NoPort = NoPort
    Served = {p1}
    PortNames = {n1}
    Growers = {g1, g2}
    DnSizes <- MCDnSizes
    MaxNaked = 1
    MaxMade = 1
    QDefault = 1
    QLimits = {2}
    SpaceThreads = {t1, t2}
    NoThread = NoThread
    SpaceNames = {1, 3, 4}
    Objects = {1, 2, 5}
    NoObject = NoObject
    TableSizes <- MCSizes
    PageEntries = 100
    TreeWeight = 2
    NamedTypes = {"send"}
INVARIANTS
    PortConsistent
    SpaceConsistent
PROPERTY
    NamesKept
SYMMETRY MCSymmetry
CHECK_DEADLOCK FALSE
