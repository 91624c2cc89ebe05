SPECIFICATION Spec
CONSTANTS
    None = None
    Chunks = {c1, c2}
    Contents = {a, b}
    Calls = {i1, i2, i3}
    Ceiling = 2
    MaxFaults = 1
SYMMETRY Symmetry
INVARIANTS
    LandedIsStored
    CompletedIsAnnounced
    CancelledIsCollected
    InflightIsExact
PROPERTIES
    DoneIsKept
CHECK_DEADLOCK FALSE
