SPECIFICATION MCSpec
CONSTANTS
    k1 = k1
    r1 = r1
    r2 = r2
    g1 = g1
    g2 = g2
    o1 = o1
    p1 = p1
    t1 = t1
    None = None
    Keys = {k1}
    Panels = {p1}
    PanelOf <- OnePanel
    Runtimes = {r1, r2}
    Generations = {g1, g2}
    Owners = {o1}
    MaxEpoch = 6
    MaxGenerations = 2
    Me = o1
    Local = {r1, r2}
    AdoptBound = 2
    MaxErrors = 2
    MaxAsks = 2
    MaxHelpers = 2
    MaxRuns = 1
    Ops = {1}
    Capacity = 1
    MaxJobs = 1
    MaxExports = 3
    Repos = {1, 2}
    MaxSwitches = 2
    MaxExpiries = 1
    Paths = {1, 2}
    MaxOpens = 2
    MaxEdits = 0
    MaxDeaths = 1
    MaxShares = 2
    MaxFrames = 1
    MaxLinks = 2
    MaxReads = 1
    CommandCap = 2
    OutboundCap = 1
    EventCap = 1
    CGuests = {g1}
    CTerms = {t1}
    MaxStops = 1
    MaxRekeys = 0
INVARIANTS ProofsAreTrue 
PROPERTIES AnswersArrive
CHECK_DEADLOCK FALSE
