CONSTANTS
    Chan = {c1, c2}
    Id = {i1, i2}
    Thread = {t1, t2}
    File = {"f1"}
    FileOf <- MCFileOf
    Nil = Nil
    RxSize = 1
    Ops = {"create", "connect", "receive", "send", "release", "timeout", "remove_mport", "shutdown"}
    Faults = TRUE
    Impatient = TRUE
    MaxPkt = 3
SPECIFICATION Spec
SYMMETRY Symmetry
INVARIANTS
    RefSafety
PROPERTIES
    MarkKept
CHECK_DEADLOCK FALSE
