CONSTANTS
    Users = {u1, adm}
    Admins = {adm}
    Socks = {s1, s2}
    MaxVersion = 3
    NoUser = NoUser
SPECIFICATION FairSpec
INVARIANTS
    TypeOK
    RegistrySound
    ViewsCurrent
PROPERTIES
    ViewsSettle
CHECK_DEADLOCK TRUE
