SPECIFICATION MCSpec
CONSTANTS
    i1 = i1
    p1 = p1
    p2 = p2
    Old = Old
    None = None
    Apps = {"a", "b"}
    MaxWrites = 2
    MaxCrashes = 2
    MaxOutput = 2
    AltUnits = {2}
    GenModulus = 2
    MaxText = 2
    HighWater = 1
    AltLogFrames = 1
    MaxLogFrames = 1
    MaxSessions = 1
    MaxFaults = 1
    RollbackMayFail = TRUE
    RespawnDuringWrite = TRUE
    Insts = {i1}
    Panels = {p1, p2}
    MaxRev = 1
    MaxOut = 1
    Overlap = FALSE
    MaxLeases = 1
    MaxResizes = 1
    MaxLosses = 1
    QueueCapacity = 1
    Repos = {1}
    Settings = 9
    MaxEdits = 1
    MaxReviews = 1
    MaxFailures = 1
    MaxUnread = 0
INVARIANTS CutoverIsSafe
PROPERTIES SavedIsKept WorkIsSaved 
CHECK_DEADLOCK FALSE
