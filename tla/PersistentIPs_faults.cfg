SPECIFICATION Spec
CONSTANTS
    s1 = s1
    s2 = s2
    a = a
    b = b
    p = p
    q = q
    g1 = g1
    g2 = g2
    Services = {s1}
    Addresses = {a}
    Pools = {p}
    PoolAddresses <- PoolA
    Allowed <- Open
    CloudPools = {p}
    ExternalIPs <- WantsA
    Goroutines = {g1, g2}
    Informer = Informer
    NoObject = NoObject
    TypeChanges = FALSE
    Faults = TRUE
    PoolUpdates = FALSE
    MaxChanges = 2
    MaxRestarts = 0
SYMMETRY Symmetry
INVARIANTS
    
    NoLeakedLock
    NoStuckErrorEntry
CHECK_DEADLOCK FALSE
