SPECIFICATION Spec
CONSTANTS
    None = None
    Chunks = {c1}
    Contents = {a}
    Calls = {i1, i2}
    Ceiling = 1
    MaxFaults = 1
INVARIANT AssemblyCanBeRetried
CHECK_DEADLOCK FALSE
