SPECIFICATION ListingSpec
CONSTANTS
    BLOCK_SIZE = 3
    NDIRECT = 2
    NDATA = 10
    INODE_NUM = 7
    Names <- FiveNames
    Targets <- Nothing
    Data <- Nothing
    Offsets <- Nothing
    Sizes <- Nothing
    MaxCalls = 5
    MaxReply = 7
INVARIANTS
    EntriesUnique
    ListingComplete
PROPERTY
    ImplementsTree
CHECK_DEADLOCK FALSE
