CONSTANTS
    MaxPid = 2
    MaxDirs = 2
    NumFrames = 9
    PerTable = 3
    BufPages = 3
    MaxShm = 3
    Guids = {g1, g2}
SPECIFICATION Spec
INVARIANTS
    TempMapFree
CHECK_DEADLOCK FALSE
