SPECIFICATION MCSpec
CONSTANTS
    Alphabets <- MCAlphabets
    Longest = 4
    TokenRoom = 3
    NumeralRoom = 2
    MAXinteger = 200
    MAXoctal = 3
    StringTag = "exec"
    Newlines = TRUE
    Chars = {1, 2}
    Values = {1, 2}
    CharSpace = 2
    CellSpace = 3
    Held = 2
    NSArray = 3
    MAXnameLength = 1
    MAXnumeralString = 4
    Word = 6
    MAXnStreams = 5
    Contents <- MCContents
    NL = 9
    MaxObjects = 4
    MaxWritten = 2
    Versions = 2
    Releases = 2
    ExecMax = 7
    FrameMax = 3
    BodyMax = 1
    CountMax = 2
    Files = {1}
    KShow = FALSE
    NoAccessProcs = FALSE
    Size = 4
    Ints <- MCInts
    NIL = NIL
INVARIANTS
    ScannerConsistent
    StringsConsistent
    FilesConsistent
    DiskConsistent
    StacksConsistent
PROPERTIES
    StackIsSequence
    StepsProtect
    MCProgramsEnd
CHECK_DEADLOCK FALSE
