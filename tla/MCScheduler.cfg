CONSTANTS
    MaxPid = 3
    NumBoot = 2
    TIME_SLICE_MS = 2
SPECIFICATION FairSpec
INVARIANTS
    TypeInv
    ListsMatchStates
    TCBOfCurrent
    SchedulerAssertionsHold
    WaitersAreWaiting
PROPERTIES
    DeletedForGood
    ImplementsMultitasking
    RunnableEventuallyRuns
    WakeupsAreSeen
