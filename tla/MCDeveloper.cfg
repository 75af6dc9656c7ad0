SPECIFICATION MCSpec
CONSTANTS
    BSD_MAX_PROCESSES = 2
    BSD_MAX_FD = 2
    NStd = 1
    HostMax = 3
    Pids = {1, 2}
    ServerPid = 1
    Paths = {"a"}
    PidReuse = FALSE
    Dup2Unused = FALSE
    Owners = {1, 2}
    Kernel = 1
    Ids = {0}
    Dirs = {"/"}
    Home = "/"
    SbrkIncrs <- MCIncrements
    Top = 3
    Word = 6
    ClassNames = {"A", "B"}
    Methods <- MCMethods
    Headers = {"h1"}
    NestMax = 2
    MAX_METHODS = 2
    MAX_CLASSES = 2
    MAX_INCLUDES = 2
    CLASS_HASH_SIZE = 6
    HashOf <- MCHashOf
    Addrs = {1, 4}
    RC_HASH_SIZE = 3
    AUTORELEASE_POOL_SIZE = 3
    CountMax = 3
    ScopeMax = 2
    DeallocFrees = FALSE
    Protocols = {"p", "q"}
    ClassMax = 2
    AddMax = 4
    AlignMax = 1
    ListMax = 2
    Names = {"x", "y", "z"}
    NameHash <- MCNameHash
    SEL_HASH_SIZE = 4
    PROTOCOL_HASH_SIZE = 4
    Values = {1, 2}
    ItemMax = 3
    Encodings <- MCEncodings
INVARIANTS
    ServerConsistent
    ProgramsRun
    ObjectsCounted
    MetadataConsistent
PROPERTIES
    MCLoopsEnd
CHECK_DEADLOCK FALSE
