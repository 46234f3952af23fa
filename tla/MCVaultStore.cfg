SPECIFICATION Spec
CONSTANTS
    Users = {u1, u2}
    Collections = {c1}
    Items = {i1, i2}
    Folders = {f1}
    None = None
    MaxRevision = 4
    MaxBatch = 2
SYMMETRY Symmetry
INVARIANTS TypeOK OwnRevision ReferencesResolve
PROPERTIES ChangesAreNumbered DeletesAreFinal
CHECK_DEADLOCK FALSE
