CONSTANTS
    Bytes = {"r", "n", "a"}
    CR = "r"
    LF = "n"
    Zero = "a"
    kCheapPrepend = 1
    kInitialSize = 2
    ExtraBuf = 1
    MaxSize = 5
    MaxData = 2
    Timers = {1, 2, 3, 4, 5, 6}
    Expirations = {1, 2, 3}
SPECIFICATION SpecOne
INVARIANTS
    MakesSpace
    HeapOrdered
PROPERTIES
    ImplementsByteQueue
