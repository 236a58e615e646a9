CONSTANTS
    Main = main
    Threads = {main, t1}
    Tasks = {f1, f2, f3}
SPECIFICATION ThreadSpec
INVARIANTS
    TypeOK
    NoLostWakeup
    NoLostQuit
    NoLostNotify
PROPERTIES
    IsTaskQueue
    QueuedRuns
    StartReturns
    JoinReturns
CHECK_DEADLOCK FALSE
