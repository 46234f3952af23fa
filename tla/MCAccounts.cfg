SPECIFICATION Spec
CONSTANTS
    None = None
    Users = {u1, u2}
    Invites = {i1, i2}
    Sessions = {s1}
    RecoveryTokens = {t1}
    MaxSecret = 2
    MaxPair = 2
    Requests = {r1, r2}
SYMMETRY Symmetry
INVARIANTS TypeOK PendingIsBlank
PROPERTIES KeyPairNeverReplaced SingleUse LastAdminStays
CHECK_DEADLOCK FALSE
