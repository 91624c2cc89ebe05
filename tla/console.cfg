SPECIFICATION FairSpec
CONSTANTS
    None = None
    LastChunk = 1
    MaxParallel = 2
    Chunks <- ChunkIndices
    Streams <- Slots
    MaxAttempts = 2
    MaxClicks = 2
    MaxFaults = 1
INVARIANTS
    DoneIsStored
    InflightIsMoved
    LandedIsPublished
PROPERTIES
    UploadingEnds
CHECK_DEADLOCK FALSE
