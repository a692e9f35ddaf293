CONSTANTS
    NULL = NULL
    Dev = {d1, d2}
    Skb = {k1, k2}
    SIZE = 3
    DoneVec = v1
    ErrVec = v1
    MaxOpens = 1
    MaxNact = 3
    MaxLeft = 3
SPECIFICATION FairSpec
CHECK_DEADLOCK FALSE
INVARIANTS
    NactCovers
    SkbRefs
PROPERTIES
    QueueResumes
