CONSTANTS
    MaxPid = 3
    NumBoot = 3
    TIME_SLICE_MS = 0
    Receivers = {1}
    MaxMessages = 2
SPECIFICATION FairMessagesSpec
INVARIANTS
    MessageStillThere
    NothingLost
PROPERTIES
    LockIsReleased
