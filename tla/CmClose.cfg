CONSTANTS
    Chan = {c1}
    Id = {i1}
    Thread = {t1, t2}
    File = {"f1"}
    FileOf <- MCFileOf
    Nil = Nil
    RxSize = 1
    Ops = {"create", "bind", "listen", "accept", "receive", "remove_mport", "connect", "close"}
    Faults = FALSE
    Impatient = FALSE
    MaxPkt = 3
SPECIFICATION FairSpec
PROPERTIES
    CloseFinishes
CHECK_DEADLOCK FALSE
