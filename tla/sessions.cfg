SPECIFICATION Spec
CONSTANTS
    u1 = u1
    u2 = u2
    w1 = w1
    w2 = w2
    None = None
    Users = {u1, u2}
    Spaces = {w1, w2}
    Keys = {}
    Requests = {q1}
    Grants = {"owner"}
    MaxCalls = 2
    Home <- OneHome
    Arriving = {u1}
    States = {s1, s2}
    Tokens = {t1, t2}
    Kids = {1, 2}
    Visits = {v1, v2}
SYMMETRY Symmetry
INVARIANTS
    OneTokenPerFamily
    LoginStateIsSingleUse
PROPERTIES
    FamilyStaysDead
    KeyIsFound
CHECK_DEADLOCK FALSE
