SPECIFICATION FairSpec
CONSTANTS
    NumNodes = 2
    ChanCapacity = 2
    MaxChanges = 3
    MaxFaults = 1
INVARIANTS
    TypeOK
    RequiredIsDeployed
    UnneededIsDeleted
PROPERTIES
    OperatorsArrive
CHECK_DEADLOCK FALSE
