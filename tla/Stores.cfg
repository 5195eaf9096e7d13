SPECIFICATION MCSpec
CONSTANTS
    i1 = i1
    i2 = i2
    p1 = p1
    Old = Old
    None = None
    Insts = {i1, i2}
    Panels = {p1}
    MaxRev = 1
    MaxOut = 1
    Overlap = FALSE
    Projects = {"a", "b"}
    Actors = {"human", "agent"}
    Texts = {"x", "y"}
    MaxReqs = 2
    MaxRows = 3
    memoryMaxRev = 3
    MaxHandoffs = 1
    LooseKinds = {"esc", "9"}
    MaxWrites = 2
    MaxReports = 1
    MaxTitles = 1
    MaxTime = 1
    MaxAttaches = 1
    MAX_PAYLOAD = 2
    MAX_CODE_DIGITS = 1
    TTL = 0
    Ops = {1, 2}
    Capacity = 1
    MaxJobs = 1
INVARIANTS  SavedMeansSettled
PROPERTIES AgentsOnlyPropose ProfileHasOneOwner
SYMMETRY Interchangeable
CONSTRAINT Explored
CHECK_DEADLOCK FALSE
