SPECIFICATION Spec
CONSTANTS
    None = None
    Jobs = {j1, j2, j3}
    Runners = {r1, r2}
    Requests = {q1, q2}
    Slots = 1
    MaxActive = 1
    AutoCreateJobs = FALSE
    MaxRungs = 1
    MaxQueueings = 3
    MaxFaults = 0
    MaxRestarts = 0
SYMMETRY Symmetry
INVARIANTS
    TypeOK
    SlotsRespected
    NoLostWakeup
    QuotaOvershootBound
