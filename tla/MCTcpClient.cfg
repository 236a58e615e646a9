CONSTANTS
    MaxFd = 3
    MaxConns = 2
    MaxCalls = 3
    Again = FALSE
SPECIFICATION Spec
INVARIANTS
    SocketsAccountedFor
    AssertsHold
    LoopDtorIsSafe
PROPERTIES
    StopIsFinal
    KeepsTrying
CHECK_DEADLOCK FALSE
