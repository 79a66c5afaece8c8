SPECIFICATION FairSpec
CONSTANTS
    Allocations = {a1}
    Nodes = {n1, n2}
    NoNode = NoNode
    FirstNode = n1
    MaxPodChanges = 2
    MaxFaults = 1
INVARIANTS
    TypeOK
    
    

    
CHECK_DEADLOCK FALSE
