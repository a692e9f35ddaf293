CONSTANTS
    NoMsg = NoMsg
    Msg = {m1, m2}
    Sender = {s1}
    SIZE = 2
    CntMod = 5
    DoneVec = {"irq"}
    ErrVec = {"irq"}
    Rejects = FALSE
    MaxReqs = 2
SPECIFICATION FairSpec
INVARIANTS
    RingsInStep
    TxCountTracks
PROPERTIES
    OutbRefined
    FullRingReported
