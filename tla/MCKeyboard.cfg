CONSTANTS
    MaxPid = 2
    NumBoot = 2
    TIME_SLICE_MS = 0
    Readers = {1}
    Keys = {"l_shift", "r_shift", "caps"}
    KEYCODES_BUFFER_LEN = 2
    MaxKeys = 3
SPECIFICATION FairKeyboardSpec
INVARIANTS
    NoKeyLost
    ConsumeFindsEvent
    LockFreeInScheduler
PROPERTIES
    KeyIsRead
