SPECIFICATION FairSpec
CONSTANTS
    g1 = g1
    g2 = g2
    g3 = g3
    a1 = a1
    Goroutines <- MCGoroutines3
    Allocations <- MCAllocations
    LockSteps = 2
    ErrorSteps = 2
INVARIANTS
    TypeOK
    NoLeakedLock
    NoStuckErrorEntry
PROPERTIES
    GoroutinesEnd
