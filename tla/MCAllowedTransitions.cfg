CONSTANTS
    a = a
    aDotted = aDotted
    b = b
    c = c
    pathA = pathA
    pathB = pathB
    pathC = pathC
    NoPath = NoPath
    Names = {a, b}
    Paths = {pathA, pathB, pathC}
    Lexical <- MCLexical
    ImageSizes = {1}
    MaximumQueuedRequestCount = 1
    MaximumCompletedResultCount = 1
    MaxAccepted = 3
    MaxCounted = 1
SPECIFICATION ManagerSpec
PROPERTIES AllowedTransitions
