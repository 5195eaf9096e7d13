SPECIFICATION Spec
CONSTANTS
    None = None
    MaxOutput = 3
    AltUnits = {2}
    GenModulus = 2
    MaxText = 2
    HighWater = 2
    AltLogFrames = 1
    MaxLogFrames = 1
    MaxSessions = 2
    MaxFaults = 2
    RollbackMayFail = FALSE
    RespawnDuringWrite = FALSE
INVARIANTS RestoredOnceInOrder PromisedIsRecoverable NothingFallsBetweenQueues
PROPERTIES TerminationAfterDurablePrefix
