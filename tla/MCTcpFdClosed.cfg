CONSTANTS
    MaxThreads = 2
    MaxClients = 2
    MaxFd = 2
    MaxTaken = 1
SPECIFICATION Spec
INVARIANTS
    DtorClosesFd
CHECK_DEADLOCK FALSE
