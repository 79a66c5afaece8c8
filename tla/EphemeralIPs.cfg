SPECIFICATION Spec
CONSTANTS
    Services = {s1}
    Addresses = {a1, a2}
    Goroutines = {g1, g2}
    NoObject = NoObject
    MaxChanges = 2
    MaxFaults = 1
    MaxRestarts = 1
SYMMETRY Symmetry
INVARIANTS
    TypeOK
    
    AllocationOwnsAddress
CHECK_DEADLOCK FALSE
