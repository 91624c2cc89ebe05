SPECIFICATION FairSpec
CONSTANTS
    None = None
    w1 = w1
    w2 = w2
    Events = {1, 2}
    Workers = {w1, w2}
    LastMonth = 2
    Sizes = {1, 2, 3}
    Seconds = {1}
    StorageBytes = 3
    EncodeSeconds = 1
    Tier <- Plan
    MaxFaults = 3
INVARIANTS
    UsageIsExact
    NothingDropped
    StorageOvershootBound
PROPERTIES
    EventsAreCounted
CHECK_DEADLOCK FALSE
