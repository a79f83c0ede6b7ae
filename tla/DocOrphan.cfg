SPECIFICATION Spec
CONSTANTS
    BLOCK_SIZE = 3
    NDIRECT = 2
    NDATA = 11
    INODE_NUM = 4
    Names <- TwoNames
    Targets <- Nothing
    Data <- OneText
    Offsets <- NearAndFar
    Sizes <- ToZero
    MaxCalls = 6
PROPERTY
    WritesOnlyItsFile
CHECK_DEADLOCK FALSE
