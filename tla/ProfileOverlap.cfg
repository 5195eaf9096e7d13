SPECIFICATION Spec
CONSTANTS
    Old = Old
    None = None
    Insts = {i1, i2}
    Panels = {p1}
    MaxRev = 1
    MaxOut = 0
    Overlap = TRUE
PROPERTY ProjectsNeverVanish
CHECK_DEADLOCK FALSE
