SPECIFICATION FairSpec
CONSTANTS
    MaxLag = 2
    BackoffLimit = 2
    MaxAge = 2
    MaxFaults = 2
    MaxStale = 2
INVARIANTS
    TypeOK
    FailedOnlyAfterLimit
    FailedWithinLimit
    StartsBounded
    DirRemovedWithObject
PROPERTIES
    ImplementsLifecycle
    Settles
    DeletionCompletes
CHECK_DEADLOCK FALSE
