CONSTANTS
    MaxThreads = 2
    MaxClients = 2
    MaxFd = 2
    MaxTaken = 1
SPECIFICATION Spec
INVARIANTS
    NoConnectionForgotten
    
    NoThreadOutlivesServer
PROPERTIES
    WaitingIsAnswered
    ClosedIsDestroyed
CHECK_DEADLOCK FALSE
