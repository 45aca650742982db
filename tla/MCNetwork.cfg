CONSTANTS
    MaxPid = 2
    NumBoot = 2
    TIME_SLICE_MS = 0
    NUM_PINGS = 2
    MaxFrames = 3
    MaxNoise = 1
    NUM_SEND_BUFFERS = 2
SPECIFICATION FairNetworkSpec
INVARIANTS
    RepliesInOrder
    NetAssertionsHold
PROPERTIES
    CallsReturn
    FramesAreHandled
