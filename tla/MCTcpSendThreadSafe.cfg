CONSTANTS
    MaxCalls = 2
    MaxIn = 1
    Cap = 1
    HighWaterMark = 2
    Sizes = {1, 2}
    Ignored = {}
SPECIFICATION Spec
INVARIANTS
    SendIsThreadSafe
CHECK_DEADLOCK FALSE
