CONSTANTS
    MaxPid = 2
    MaxDirs = 2
    NumFrames = 11
    PerTable = 2
    BufPages = 2
    MaxShm = 2
    Guids = {g1, g2}
CONSTRAINT NoRaceYet
SPECIFICATION Spec
INVARIANTS
    FramesUsedOnce
    MemoryAssertionsHold
CHECK_DEADLOCK FALSE
SYMMETRY Symmetry
