CONSTANTS
    Addr = {a1, a2}
    MaxTimers = 2
    MaxTime = 3
    Delays = {1, 2}
    Intervals = {0, 1}
SPECIFICATION Spec
INVARIANTS
    ArmedForEarliest
CHECK_DEADLOCK FALSE
