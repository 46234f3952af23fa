SPECIFICATION Spec
CONSTANTS
    None = None
    Users = {u1}
    Invites = {i1, i2}
    Sessions = {s1}
    RecoveryTokens = {t1}
    MaxSecret = 3
    MaxPair = 1
    Requests = {r1}
INVARIANT KeysAgree
CHECK_DEADLOCK FALSE
