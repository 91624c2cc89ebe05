SPECIFICATION FairSpec
CONSTANTS
    None = None
    m1 = m1
    m2 = m2
    m3 = m3
    s1 = s1
    s2 = s2
    Messages = {m1, m2, m3}
    Sources = {s1, s2}
    About <- TwiceAnnounced
    Rejected = {m3}
    Jobs = {j1, j2, u1}
    UserJobs = {u1}
    AutoCreateJobs = TRUE
    MaxDeliver = 2
    MaxFaults = 1
    MaxJobFailures = 1
INVARIANTS
    NoDuplicateJobs
    AckedIsDone
PROPERTIES
    LandedIsHandled
CHECK_DEADLOCK FALSE
