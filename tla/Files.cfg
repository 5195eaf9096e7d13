SPECIFICATION MCSpec
CONSTANTS
    a = a
    b = b
    Torn = Torn
    None = None
    Values = {a, b}
    Slots = 3
    MaxUnsynced = 1
    MaxDamage = 1
    MaxRuns = 2
    MaxReads = 2
    MaxFaults = 1
    MaxTrees = 3
    MaxJobs = 3
    MaxFailures = 1
    MaxCrashes = 1
    MaxOps = 2
    MaxReviews = 2
    MaxEdits = 1
    MaxNotes = 1
    Systems = {"macos", "windows", "linux"}
    MaxDownloads = 2
    Columns = 4
    Lines = 3
    MaxHistory = 2
    snapshotMaxOps = 3
    MaxExports = 3
    Repos = {1}
    Settings = 9
    notesMaxEdits = 2
    MaxUnread = 0
INVARIANTS BackupSurvives WorkIsKept UpdatesAreSafe CopiesAreExact
PROPERTIES IsAtomicFile
CHECK_DEADLOCK FALSE
