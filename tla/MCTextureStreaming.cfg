CONSTANTS
    a = a
    b = b
    pathA = pathA
    pathB = pathB
    NoPath = NoPath
    Names = {a, b}
    Paths = {pathA, pathB}
    Lexical <- MCLexical
    TextureSet <- MCTextureSet
    GroundName = b
    ImageSizes = {1}
    MaximumQueuedRequestCount = 2
    MaximumCompletedResultCount = 1
    MaxAccepted = 4
    MaxCounted = 1
SPECIFICATION StreamFairSpec
INVARIANTS StreamTypeOK StreamedGroundIsCached
PROPERTIES ResetIsNotUndone StreamedGroundIsShown
