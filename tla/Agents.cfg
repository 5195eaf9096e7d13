SPECIFICATION MCSpec
CONSTANTS
    k1 = k1
    r1 = r1
    g1 = g1
    o1 = o1
    o2 = o2
    p1 = p1
    None = None
    Keys = {k1}
    Panels = {p1}
    PanelOf <- OnePanel
    Runtimes = {r1}
    Generations = {g1}
    Owners = {o1, o2}
    MaxEpoch = 5
    MaxGenerations = 1
    Me = o1
    Local = {}
    AdoptBound = 4
    MaxAsks = 2
    MaxHelpers = 2
    MaxRuns = 2
    OPanels = {1}
    HookStates = {"WaitingApproval"}
    MaxBirths = 2
    MaxRecords = 2
    Apps = {1, 2}
    Ports = {1}
    Kinds = {"Stop", "SessionEnd", "Other"}
    MaxInputs = 2
    HOOK_EVENT_QUEUE_CAPACITY = 1
    DESIGN_CAPTURE_QUEUE_CAPACITY = 1
    promptsPanels = {1}
    MaxTexts = 2
    MaxReplaced = 1
    MAX_INPUT_BYTES = 1
INVARIANTS HookServerIsSound 
 
VIEW AgentsView
CHECK_DEADLOCK FALSE
