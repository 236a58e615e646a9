CONSTANTS
    Addr = {a1, a2}
    MaxTimers = 2
    MaxTime = 3
    Delays = {0, 1}
    Intervals = {0, 1}
SPECIFICATION Spec
INVARIANTS
    HeapConsistent
    NoTimerLost
    NoUseAfterFree
    CancelIsFinal
PROPERTIES
    DueTimerRuns
CHECK_DEADLOCK FALSE
