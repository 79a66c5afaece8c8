SPECIFICATION Spec
CONSTANTS
    g1 = g1
    g2 = g2
    g3 = g3
    a1 = a1
    Goroutines <- MCGoroutines2
    Allocations <- MCAllocations
    LockSteps = 2
    ErrorSteps = 2
SYMMETRY Symmetry
INVARIANTS
    MutualExclusion
