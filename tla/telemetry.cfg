SPECIFICATION Spec
CONSTANTS
    None = None
    Conns = {c1}
    Publishers <- Goroutines
    Events <- AllEvents
    Tags = {t1, t2}
    BufSize = 2
    Jobs = {j1}
    Readings = {"ok", "error"}
    MaxMessages = 5
SYMMETRY Symmetry
INVARIANTS
    LossIsAccounted
    NoStalledEvents
    FarmIsCounted
    SampleAgreesWithStatus
CHECK_DEADLOCK FALSE
