SPECIFICATION FairSpec
CONSTANTS
    Infos = {i1, i2}
    MaxCalls = 4
    MaxEvents = 2
    MaxCrashes = 1
INVARIANTS
    TypeOK
    MissingIsNoticed
    RemovedStaysRemoved
PROPERTIES
    Restored
CHECK_DEADLOCK FALSE
