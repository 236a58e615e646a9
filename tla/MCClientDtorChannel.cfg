CONSTANTS
    MaxFd = 3
    MaxConns = 2
    MaxCalls = 3
    Again = FALSE
SPECIFICATION Spec
INVARIANTS
    ConnectorHasNoChannel
CHECK_DEADLOCK FALSE
