SPECIFICATION MCSpec
CONSTANTS
    MAXlevel = 2
    VMlast = 6
    OpMax = 2
    DictIds = {"sys", "user", "d"}
    SysDict = "sys"
    UserDict = "user"
    NameIds = {1, 4}
    MaxLength = 2
    BitOf <- MCBitOf
    MAXcardinal = 4
    StampWraps = FALSE
    DputOnStack = FALSE
    DictStackMax = 3
    Sealed = {"d"}
    NilSlot = NilSlot
INVARIANTS
    MemoryConsistent
    DictionariesConsistent
PROPERTY
    RestoresSnapshots
