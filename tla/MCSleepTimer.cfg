CONSTANTS
    MaxPid = 3
    NumBoot = 2
    TIME_SLICE_MS = 1
    TICKS_PER_SECOND = 6
    SleepTimes = {2, 7}
    MaxSeconds = 2
    MaxLateness = 5
SPECIFICATION TimerSpec
INVARIANTS
    NeverLate
    NoSecondSkipped
PROPERTIES
    NeverEarly
