CONSTANTS
    kCells = 3
    Limit = 8
    NumThreads = 2
    Streams <- MCStreams
    BoxSide = 2
    Boards <- MCBoards
    Grids <- Grids4
    Workers = {w1, w2}
    Producers = {p1, p2}
    Tasks = {f1, f2, f3}
    MaxQueue = 1
SPECIFICATION SpecOne
INVARIANTS
    LinksConsistent
    SolvesRight
    RepliesMatchLines
    NoMissedNotify
    TakenOnce
PROPERTIES
    QueuedTaskRuns
    RunReturns
    StopReturns
CHECK_DEADLOCK FALSE
