SPECIFICATION Spec
CONSTANTS
    None = None
    Jobs = {j1}
    Runners = {r1, r2, r3}
    Requests = {q1}
    Slots = 2
    MaxActive <- Unlimited
    AutoCreateJobs = TRUE
    MaxRungs = 2
    MaxQueueings = 2
    MaxFaults = 1
    MaxRestarts = 1
SYMMETRY Symmetry
INVARIANTS
    ExclusiveExecution
    WorkingOwnsRow
    CompletionIsReal
    CompletedOutputsStored
    QueuedIsClean
    CancelHitsOwnJob
PROPERTIES
    ImplementsLifecycle
