SPECIFICATION FairSpec
CONSTANTS
    None = None
    Jobs = {j1, j2}
    Runners = {r1}
    Requests = {q1}
    Slots = 1
    MaxActive <- Unlimited
    AutoCreateJobs = FALSE
    MaxRungs = 1
    MaxQueueings = 3
    MaxFaults = 0
    MaxRestarts = 0
PROPERTIES
    JobsProgress
    CancelFreesSlot
