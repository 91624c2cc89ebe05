SPECIFICATION WorkspaceSpec
CONSTANTS
    u1 = u1
    u2 = u2
    w1 = w1
    w2 = w2
    w3 = w3
    None = None
    Users = {u1, u2}
    Spaces = {w1, w2, w3}
    Keys = {k1}
    Requests = {q1, q2}
    Grants = {"owner", "admin", "member"}
    MaxCalls = 4
    Home <- BothHome
SYMMETRY Symmetry
INVARIANTS
    ScopeIsMembership
PROPERTIES
    LastOwnerNeedsRace
    RevokedKeyIsDead
CHECK_DEADLOCK FALSE
