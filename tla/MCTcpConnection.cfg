CONSTANTS
    MaxCalls = 2
    MaxIn = 1
    Cap = 1
    HighWaterMark = 2
    Sizes = {1, 2}
    Ignored = {"SIGPIPE"}
SPECIFICATION Spec
INVARIANTS
    StreamIntact
    RegisteredIsHeld
    OneLoopAssertsHold
    UpThenDown
PROPERTIES
    DestroyedIsQuiet
    PeerCloseDestroys
CHECK_DEADLOCK FALSE
