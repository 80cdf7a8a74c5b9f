CONSTANTS
    Users = {u1, adm}
    Admins = {adm}
    Socks = {s1, s2}
    MaxVersion = 3
    NoUser = NoUser
SYMMETRY Symmetry
SPECIFICATION Spec
INVARIANTS
    EveryUpdateBroadcast
CHECK_DEADLOCK TRUE
