CONSTANTS
    Skus = {s1, s2}
    Shelves = {a, b}
    RowIds = {r1, r2, r3}
    MaxInt = 3
SYMMETRY Symmetry
SPECIFICATION Spec
INVARIANTS
    TypeOK
    RowsSound
PROPERTIES
    TransferConserves
    PickDeductsExactly
    BypassConsolidates
CHECK_DEADLOCK TRUE
