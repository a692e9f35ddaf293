SPECIFICATION FairSpec
CONSTANTS
    File = {f1, f2}
    Depth = 1
    QSIZE = 3
    MaxInfo = 1
    MaxDb = 3
    NSwitch = 3
    PwFilter = {2}
    PwFifo = 2
    MaxChange = 5
    MaxHandler = 2
    MaxChangeFiles = 2
INVARIANTS
    IdbInOrder
    DeliveredOnce
    PortPicture
    PwArmed
PROPERTIES
    EventsServed
CHECK_DEADLOCK FALSE
