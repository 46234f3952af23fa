SPECIFICATION Spec
CONSTANTS
    None = None
    Users = {u1}
    Invites = {i1, i2}
    Sessions = {s1, s2}
    RecoveryTokens = {t1}
    MaxSecret = 2
    MaxPair = 1
    Requests = {r1, r2}
INVARIANT SessionsKnowPassword
CHECK_DEADLOCK FALSE
