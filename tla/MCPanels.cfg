CONSTANTS
    u1 = u1
    c1 = c1
    c2 = c2
    Users = {u1, u2}
    Enrolled = {u1}
    Collections = {c1, c2}
    Held = {c1}
    Requested <- MCRequested
    NoUser = NoUser
    NoColl = NoColl
    AuditLog <- MCAuditLog
    AuditPageSize = 1
    MaxOps = 4
    MaxInvites = 2
SPECIFICATION Spec
INVARIANTS StrandedAccountsStayListed SharingInv
PROPERTY InviteIsShown
CHECK_DEADLOCK FALSE
