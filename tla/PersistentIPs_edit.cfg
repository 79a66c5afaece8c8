SPECIFICATION Spec
CONSTANTS
    s1 = s1
    s2 = s2
    a = a
    b = b
    p = p
    q = q
    g1 = g1
    g2 = g2
    Services = {s1, s2}
    Addresses = {a, b}
    Pools = {p}
    PoolAddresses <- PoolAB
    Allowed <- Open
    CloudPools = {p}
    ExternalIPs <- Moving
    Goroutines = {g1, g2}
    Informer = Informer
    NoObject = NoObject
    TypeChanges = FALSE
    Faults = FALSE
    PoolUpdates = FALSE
    MaxChanges = 3
    MaxRestarts = 0
SYMMETRY Symmetry
INVARIANTS
    BoundToSingleService
CHECK_DEADLOCK FALSE
