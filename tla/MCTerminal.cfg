CONSTANTS
    Scripts <- MCScripts
    FatDirs <- MCDirs
    FatFiles <- MCFiles
    NumFds = 4
    InitCapacity = 1
    ReadMax = 2
SPECIFICATION Spec
INVARIANTS
    ScreenIsSession
PROPERTIES
    ScreenCatchesUp
CHECK_DEADLOCK FALSE
