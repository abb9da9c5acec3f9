CONSTANTS
    a = a
    aDotted = aDotted
    b = b
    c = c
    d = d
    empty = empty
    pathA = pathA
    pathB = pathB
    pathC = pathC
    pathD = pathD
    NoPath = NoPath
    Names = {a, b, c}
    Paths = {pathA, pathB, pathC}
    Lexical <- MCLexical
    ImageSizes = {1}
    MaximumQueuedRequestCount = 1
    MaximumCompletedResultCount = 1
    MaxAccepted = 3
    MaxCounted = 1
SPECIFICATION FairSpec
PROPERTIES StopReturns AcceptedIsServed
