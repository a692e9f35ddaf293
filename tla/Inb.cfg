CONSTANTS
    N = 3
    NULL = NULL
    MaxMsgs = 5
    Buf <- MCBuf
    AllocFails = TRUE
    MaxWorks = 3
    MaxOpens = 2
SPECIFICATION FairSpec
CHECK_DEADLOCK FALSE
INVARIANTS
    InboundInOrder
    BuffersMatched
PROPERTIES
    MessagesFetched
