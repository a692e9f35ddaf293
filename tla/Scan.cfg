CONSTANTS
    Host = {"a", "b"}
    Agent = {"p"}
    Leaf = {"e"}
    Switch = {"s1", "s2"}
    NPort = 3
    Hdid <- MCHdid
    Any = 7
    Fabrics <- MCFabrics
SPECIFICATION FairSpec
INVARIANTS
    AnyToAny
    PictureRight
    PathLocked
    LocksReleased
    DiscoveryMatches
PROPERTIES
    WalksEnd
CHECK_DEADLOCK FALSE
