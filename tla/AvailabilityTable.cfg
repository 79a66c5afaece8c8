SPECIFICATION Spec
CONSTANTS
    Goroutines = {g1, g2, g3}
    Addresses = {a, b, d}
    PoolAddresses = {a, b}
    NoOne = NoOne
SYMMETRY Symmetry
INVARIANTS
    TypeOK
    TableIsExact
