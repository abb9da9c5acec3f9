CONSTANTS
    WorldPositions = {258}
    PipeSize = 6
    MaxPackets = 4
SPECIFICATION FairSpec
INVARIANTS TypeOK NothingRejected
PROPERTIES ImplementsLine PacketsArrive
