CONSTANTS
    Users = {u1, u2}
    Skus = {}
    Orders = {o1}
    LabelOf <- MCLabelOf
    Noise = {}
    PieIds = {}
    ScanIds = {x1, x2}
    MaxInt = 1
    OwnOrdersOnly = FALSE
    NoUser = NoUser
    NoOrder = NoOrder
    NoLabel = NoLabel
SYMMETRY Symmetry
SPECIFICATION Spec
PROPERTIES
    UnknownNotNegative
CHECK_DEADLOCK TRUE
