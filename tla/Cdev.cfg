SPECIFICATION Spec
CONSTANTS
    File = {f1, f2}
    Map = {m1, m2}
    Area = {a1, a2}
    Req = {r1, r2}
    Chan = {c1, c2}
    NULL = NULL
    Win <- MCWin
    HwWin <- MCHwWin
    Dest = {d1}
    MaxHeld = 3
SYMMETRY Symmetric
INVARIANTS
    MapRefsExact
    NothingLeftBehind
    DmaCounts
    WindowsDisjoint
CHECK_DEADLOCK FALSE
