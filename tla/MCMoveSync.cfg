CONSTANTS
    World = 2
    AllowedDistances = {1}
    SnapDistance = 1
    BufferSize = 1
    MaxSequence = 5
SPECIFICATION FairSpec
INVARIANTS TypeOK NewestAnswerIsCurrent
PROPERTIES CorrectionAgrees SendReturns
