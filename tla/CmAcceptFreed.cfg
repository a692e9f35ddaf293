CONSTANTS
    Chan = {c1, c2}
    Id = {i1, i2}
    Thread = {t1, t2}
    File = {"f1"}
    FileOf <- MCFileOf
    Nil = Nil
    RxSize = 1
    Ops = {"create", "bind", "listen", "accept"}
    Faults = FALSE
    Impatient = FALSE
    MaxPkt = 2
SPECIFICATION Spec
INVARIANTS
    AcceptedLive
CHECK_DEADLOCK FALSE
