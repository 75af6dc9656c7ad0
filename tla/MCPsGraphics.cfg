SPECIFICATION MCSpec
CONSTANTS
    Size = 7
    Operators = 5
    Levels = 2
    Longest = 4
    Coords = {0, 1}
    Grid = {0, 4, 8}
    Edges <- MCEdges
    FedMax = 5
    TidyGlyphs = TRUE
    PlainReverse = TRUE
    NIL = NIL
    Names = {"roman"}
    Chars = {x, y}
    Strings <- MCStrings
    Matrices = {0}
    Fids = 2
    CacheSize = 2
    MTSize = 2
    BMSize = 6
    Widths = {2, 3}
    Limits <- MCLimits
    ShowLevels = 2
    SettledPurges = TRUE
    KShow = FALSE
    Orderly = TRUE
    ArgKept = TRUE
    NilItem = NilItem
INVARIANTS
    PathsConsistent
    FontsConsistent
SYMMETRY MCSymmetry
CHECK_DEADLOCK FALSE
