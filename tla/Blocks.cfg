SPECIFICATION Spec
CONSTANTS
    NBLOCKS = 14
    NINODES = 2
    BPB = 4
    Contents <- MCContents
INVARIANTS
    TypeOK
    FreeBlocksZero
    OnlyDataMarked
PROPERTY
    ImplementsPool
