SPECIFICATION DeviceWritesSpec
CONSTANTS
    u1 = u1
    d1 = d1
    Users = {u1, u2}
    Collections = {c1}
    Items = {i1}
    Folders = {}
    None = None
    MaxRevision = 3
    MaxBatch = 1
    Devices = {d1}
    UserOf <- MCUserOf
    MaxCalls = 1
CONSTRAINT NoGrantPending
INVARIANT ReadableByAudience
CHECK_DEADLOCK FALSE
