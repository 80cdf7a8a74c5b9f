CONSTANTS
    Skus = {s1}
    Shelves = {a, b}
    RowIds = {r1, r2}
    MaxInt = 2
SYMMETRY Symmetry
SPECIFICATION Spec
INVARIANT OneRowPerLocation
CHECK_DEADLOCK TRUE
