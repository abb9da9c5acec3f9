CONSTANTS
    SlotCount = 2
    Points <- MCPoints
    Layouts <- MCLayouts
    MaxHealth = 2
    CellSize = 2
    KeyBits = 2
    Ranges = {0, 1, 2, 3}
    Directions <- MCDirections
    SampleCapacity = 4
    MaxMilliseconds = 4
    Percents = {30, 50, 75}
    Limits = {2, 3}
    SizeBits = 6
    UIntBits = 5
    InitialInstanceCapacity = 2
    InstanceBytes = 3
SPECIFICATION MCSpec
INVARIANTS GridMissesNothing SnapshotIsOfLastSamples BufferHoldsWhatIsWritten
