SPECIFICATION Spec
CONSTANTS
    s1 = s1
    s2 = s2
    a = a
    b = b
    p = p
    q = q
    g1 = g1
    g2 = g2
    Services = {s1}
    Addresses = {a, b}
    Pools = {p, q}
    PoolAddresses <- PoolsAandB
    Allowed <- OnlyP
    CloudPools = {p}
    ExternalIPs <- AthenB
    Goroutines = {g1}
    Informer = Informer
    NoObject = NoObject
    TypeChanges = TRUE
    Faults = FALSE
    PoolUpdates = TRUE
    MaxChanges = 2
    MaxRestarts = 1
SYMMETRY Symmetry
INVARIANTS
    OnlyAllowedPools
    NoLeakedLock
    NoStuckErrorEntry
CHECK_DEADLOCK FALSE
