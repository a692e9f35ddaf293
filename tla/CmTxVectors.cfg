CONSTANTS
    NoMsg = NoMsg
    Msg = {m1}
    Sender = {s1}
    SIZE = 2
    CntMod = 5
    DoneVec = {"done"}
    ErrVec = {"int"}
    Rejects = TRUE
    MaxReqs = 1
SPECIFICATION Spec
INVARIANTS
    CmRingConsistent
