SPECIFICATION GrowTreeSpec
CONSTANTS
    BLOCK_SIZE = 2
    NDIRECT = 1
    NDATA = 10
    INODE_NUM = 7
    Names <- TwoNames
    Targets <- Nothing
    Data <- Nothing
    Offsets <- Nothing
    Sizes <- Nothing
    MaxCalls = 6
INVARIANTS
    ListedInOneDirectory
CHECK_DEADLOCK FALSE
