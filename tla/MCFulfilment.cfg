\* Two operators, two orders; one open or closed scan at a time.
CONSTANTS
    Users = {u1, u2}
    Skus = {s1}
    Orders = {o1, o2}
    LabelOf <- MCLabelOf
    Noise = {}
    PieIds = {p1, p2, p3}
    ScanIds = {x1}
    MaxInt = 3
    OwnOrdersOnly = TRUE
    NoUser = NoUser
    NoOrder = NoOrder
    NoLabel = NoLabel
SYMMETRY Symmetry
SPECIFICATION Spec
INVARIANTS
    TypeOK
    EntriesMerged
    OneOperatorPerOrder
    NothingDangles
PROPERTIES
    ClaimsHold
    MovesConserve
CHECK_DEADLOCK TRUE
