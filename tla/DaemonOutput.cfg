SPECIFICATION FairSpec
CONSTANTS
    Clients = {c1}
    QueueCap = 2
    ChunkUnits = 1
    Budget = 1
    History = 1
    MaxUnits = 3
    MaxFaults = 1
INVARIANTS StreamIsWhole ScreenIsTrue
PROPERTIES EveryoneCatchesUp
CHECK_DEADLOCK FALSE
