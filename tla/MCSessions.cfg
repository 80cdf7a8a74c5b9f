CONSTANTS
    u1 = u1
    u2 = u2
    s1 = s1
    s2 = s2
    r1 = r1
    r2 = r2
    Users = {u1}
    Admins = {}
    Sessions = {s1, s2}
    Requests = {r1, r2}
    Nobody = Nobody
    NoSession = NoSession
    Apps = 2
    MaxGen = 3
    MaxIssued = 3
    MaxBirths = 2
    MaxGone = 2
SPECIFICATION Spec
INVARIANTS
    TypeOK
    OneTokenPerSession
    HeldIsStored
    LogoutEnds
    SessionsEndWithAccount
    SingleUse
SYMMETRY Symmetric
