SPECIFICATION Spec
CONSTANTS
    None = None
    Jobs = {j1}
    Runners = {r1}
    Requests = {q1}
    Slots = 1
    MaxActive <- Unlimited
    AutoCreateJobs = TRUE
    MaxRungs = 1
    MaxQueueings = 2
    MaxFaults = 0
    MaxRestarts = 1
INVARIANT FailFinalizes
