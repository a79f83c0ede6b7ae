SPECIFICATION Spec
CONSTANTS
    BLOCK_SIZE = 3
    NDIRECT = 2
    NDATA = 12
    INODE_NUM = 7
    Types <- FileType
    Payloads <- Depths
    Sizes <- ToZero
    MaxCalls = 7
INVARIANTS
    TypeOK
    BlocksExclusive
    SubInodesPrivate
    AttrSizeIsLength
PROPERTY
    ImplementsStore
CHECK_DEADLOCK FALSE
