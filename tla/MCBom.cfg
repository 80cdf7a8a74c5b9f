\* Three rows make a sub-assembly used twice, a chain or any small cycle.
CONSTANTS
    a = a
    b = b
    c = c
    m = m
    Skus = {a, b, c}
    Products = {m}
    Rows = 3
    Offers = 1
    Lines = 2
    Qtys = {2}
    SoldQtys = {0, 3}
SYMMETRY Symmetry
SPECIFICATION Spec
INVARIANTS
    TotalsRight
    RecursionBounded
