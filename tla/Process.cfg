SPECIFICATION Spec
CONSTANTS
    Threads = {t1, t2}
    INODE_NUM = 2
    NDIRECT = 2
    NDATA = 4
    Payloads <- MCPayloads
    MaxCalls = 3
INVARIANTS
    TypeOK
    RaceFreeTakes
    RaceFreeReads
CHECK_DEADLOCK FALSE
