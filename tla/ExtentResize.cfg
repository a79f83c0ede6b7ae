SPECIFICATION Spec
CONSTANTS
    BLOCK_SIZE = 3
    NDIRECT = 2
    NDATA = 12
    INODE_NUM = 7
    Types <- FileType
    Payloads <- Shallow
    Sizes <- AllSizes
    MaxCalls = 6
INVARIANTS
    BlocksExclusive
PROPERTY
    OthersUntouched
CHECK_DEADLOCK FALSE
