CONSTANTS
    a = a
    aDotted = aDotted
    b = b
    c = c
    pathA = pathA
    pathB = pathB
    pathC = pathC
    NoPath = NoPath
    Names = {a, aDotted, b, c}
    Paths = {pathA, pathB, pathC}
    Lexical <- MCLexical
    ImageSizes = {1}
    MaximumQueuedRequestCount = 2
    MaximumCompletedResultCount = 1
    MaxAccepted = 4
    MaxCounted = 1
SPECIFICATION ManagerFairSpec
INVARIANTS QueuedIsOwed StatisticsReconcile
PROPERTIES ReadyIsKept QueuedIsResolved
