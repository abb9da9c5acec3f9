SPECIFICATION FairSpec
INVARIANTS UsesOnlyAlive EndsClean
PROPERTIES ClosingEnds
