SPECIFICATION FairSyncSpec
CONSTANTS
    u1 = u1
    d1 = d1
    Users = {u1, u2}
    Collections = {c1}
    Items = {i1}
    Folders = {f1}
    None = None
    MaxRevision = 3
    MaxBatch = 1
    Devices = {d1}
    UserOf <- MCUserOf
    MaxCalls = 2
CONSTRAINTS NoGrantPending BoundedOverlap
CHECK_DEADLOCK FALSE
INVARIANT CursorSound
PROPERTIES UpdatesActOnTheRowChecked Converges
