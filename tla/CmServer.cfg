CONSTANTS
    Chan = {c1, c2, c3}
    Id = {i1, i2}
    Thread = {t1, t2}
    File = {"f1"}
    FileOf <- MCFileOf
    Nil = Nil
    RxSize = 1
    Ops = {"create", "bind", "listen", "accept", "receive", "remove_dev", "remove_mport"}
    Faults = TRUE
    Impatient = FALSE
    MaxPkt = 2
SPECIFICATION Spec
SYMMETRY Symmetry
INVARIANTS
    RefSafety
    AcceptNonEmpty
    ReceiveValid
CHECK_DEADLOCK FALSE
