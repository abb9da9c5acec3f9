CONSTANTS
    a = a
    aDotted = aDotted
    b = b
    c = c
    d = d
    empty = empty
    pathA = pathA
    pathB = pathB
    pathC = pathC
    pathD = pathD
    NoPath = NoPath
    Names = {a, aDotted, b, c, d, empty}
    Paths = {pathA, pathB, pathC, pathD}
    Lexical <- MCLexical
    ImageSizes = {1, 3}
    MaximumQueuedRequestCount = 2
    MaximumCompletedResultCount = 2
    MaxAccepted = 5
    MaxCounted = 1
SPECIFICATION Spec
INVARIANTS TypeOK OutstandingInOrder PendingExact DecodedMemoryAccounted
    NoLostWakeup StoppedClean
PROPERTIES ImplementsContract
