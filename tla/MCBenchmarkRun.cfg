CONSTANTS
    Scenarios <- MCScenarios
    StressCounts = {3}
    MaximumInstanceCount = 2
    SampleCapacity = 2
    QuerySets = 2
    SceneItems = 1
    InitialCapacity = 1
    MinimumTime = 1
SPECIFICATION FairSpec
INVARIANTS SessionOwnsConditions
PROPERTIES ResultIsPure SessionEnds
