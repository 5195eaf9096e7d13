SPECIFICATION MCSpec
CONSTANTS
    MAX_VISIBLE_PANELS = 2
    MAX_Z = 3
    MaxBirths = 3
    MaxLeaves = 2
    MaxEdits = 1
    Offered = {1}
    Folders = {1, 2}
    projectsMaxBirths = 5
    MaxViews = 2
    MaxKeys = 1
    MaxLength = 3
    FRAGMENT_BYTE_CAP = 3
    Paths = {1, 2}
    MaxOpens = 2
    MaxDeaths = 1
    Repos = {1, 2}
    MaxSwitches = 3
    MaxExpiries = 1
INVARIANTS LayoutIsSound ViewIsExact TasksAreOfTheRepo
PROPERTIES EditsAreLocal
CHECK_DEADLOCK FALSE
