SPECIFICATION MCSpec
CONSTANTS
    TIMEOUT = 3
    MaxSent = 3
    MaxNow = 3
    PortReused = TRUE
    Waiters = {t1, t2}
    Wakers = {w1}
    Existing = FALSE
    Chained = {p1, p2, p3}
    NoChain = NoChain
    Senders = {t1, t2}
    NoSender = NoSender
    Names = {1, 2, 3, 4}
    Handles = {1, 2, 3, 4}
    MAX_DRIVERS = 2
    Modes = {"640x480", "800x600"}
    DefaultMode = "640x480"
    HaveX11 = FALSE
    MixedInit = FALSE
    NoDriver = 0
    Failures = {"x11 record", "null record", "memory"}
    ScreenModes <- MCScreenModes
    StartMode <- MCStart
    Rects <- MCRects
    Moves <- MCMoves
    Colors = {0, 1}
    Modulus = 64
    RbKeys = {1, 2, 3, 4, 5, 6, 7, 8}
    DeepErase = FALSE
    ListHeads = {"a", "b", "q"}
    Queue = "q"
    ListNodes = {"x", "y", "z"}
    Buckets = 2
    HashValues = {4, 5, 6}
    Texts <- MCTexts
    BufferSize = 4
    WordBits = 4
    Words = 2
INVARIANTS
    MessagingConsistent
    DeviceKitConsistent
    StructuresConsistent
PROPERTIES
    ImplementsAbstract
    StepsKeepOthers
    MCCallsReturn
CHECK_DEADLOCK FALSE
