SPECIFICATION Spec
CONSTANTS
    BLOCK_SIZE = 3
    NDIRECT = 2
    NDATA = 12
    INODE_NUM = 7
    Types <- FileType
    Payloads <- TableAndBlock
    Sizes <- ShrinkAndGrow
    MaxCalls = 7
PROPERTY
    OthersUntouched
CHECK_DEADLOCK FALSE
