CONSTANTS
    Procs = {p1, p2}
    MaxCluster = 6
    SaneCluster = 5
    SlotsPerSector = 4
    Users = {p1}
    Creatable <- MCCreatable
    Paths <- MCPaths
    Image <- MCImage
    Counts = {1, 5}
    MaxCalls = 3
    MaxCrashes = 1
SPECIFICATION Spec
INVARIANTS
    NoCrossLink
    NamesAsked
    OwnData
CHECK_DEADLOCK FALSE
