CONSTANTS
    Clients = {gui}
    Mortal = {gui}
    MaxWindows = 2
    MaxDraws = 1
    MaxEvents = 3
    DragIds = 65536
SPECIFICATION FairSpec
INVARIANTS
    ServerAssertionsHold
    ClientAssertionsHold
    OneFocused
PROPERTIES
    WindowIsCreated
CHECK_DEADLOCK FALSE
