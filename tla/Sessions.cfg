SPECIFICATION MCSpec
CONSTANTS
    s1 = s1
    c1 = c1
    c2 = c2
    a = a
    b = b
    g1 = g1
    g2 = g2
    t1 = t1
    None = None
    Ids = {s1}
    Clients = {c1, c2}
    Managed = {s1}
    Capacity = 2
    MaxConns = 2
    MaxWire = 2
    MaxGens = 2
    Chats = {a, b}
    MaxOps = 2
    MaxChanges = 1
    MAX_PENDING_TRANSFERS = 2
    MAX_DELEGATION_DEPTH = 2
    MAX_ROOT_TRANSFERS = 2
    MaxShares = 2
    MaxFrames = 2
    MaxLinks = 2
    MaxReads = 2
    CommandCap = 3
    OutboundCap = 2
    EventCap = 2
    CGuests = {g1}
    CTerms = {t1}
    MaxStops = 2
    MaxRekeys = 1
    MaxJobs = 1
    BrokerGuests = {g1, g2}
    brokerMaxConns = 1
    MaxGuests = 1
    MaxVerifications = 1
    MaxRotations = 1
    MaxLeases = 2
    MaxResizes = 1
    MaxLosses = 1
    QueueCapacity = 2
INVARIANTS TransfersAreSound  
 
SYMMETRY ClientSymmetry
CHECK_DEADLOCK FALSE
