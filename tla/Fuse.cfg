SPECIFICATION Spec
CONSTANTS
    BLOCK_SIZE = 3
    NDIRECT = 2
    NDATA = 11
    INODE_NUM = 4
    Names <- TwoNames
    Targets <- OneTarget
    Data <- OneText
    Offsets <- NearAndFar
    Sizes <- ToZero
    MaxCalls = 6
INVARIANTS
    TypeOK
    EntriesUnique
    AnswersAgree

    
CHECK_DEADLOCK FALSE
