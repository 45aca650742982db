CONSTANTS
    MaxPid = 5
    NumBoot = 2
    TIME_SLICE_MS = 1
    Roots = {1}
    ForkAfterChild = TRUE
SPECIFICATION FairForkSpec
INVARIANTS
    LoaderDataFree
    ChildRunsItsProgram
PROPERTIES
    LoaderIsReleased
