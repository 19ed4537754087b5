SPECIFICATION FairSpec
CONSTANTS
    MaxAttempts = 2
    MaxTurns = 1
    MaxDeltas = 1
    MaxTexts = 2
    MaxVisible = 1
    Capacity = 1
    FlushAt = 2
    MaxFaults = 1
PROPERTIES
    Settles
