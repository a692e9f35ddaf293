CONSTANTS
    Desc = {d1, d2}
    NoDesc = NoDesc
    BdNum = 2
    CntMod = 6
    MaxSg = 3
    Oversized = TRUE
    Callback = {"none", "status"}
    Faults = TRUE
SPECIFICATION Spec
SYMMETRY Symmetry
INVARIANTS
    OnePlace
    HwInOrder
    CompletedWhole
    TaskletContained
    QuietIsEmpty
CHECK_DEADLOCK FALSE
