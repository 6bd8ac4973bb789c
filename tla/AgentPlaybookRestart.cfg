SPECIFICATION FairSpec
CONSTANTS
    MaxLag = 1
    BackoffLimit = 2
    MaxAge = 2
    MaxFaults = 1
    MaxStale = 1
PROPERTY SucceededIsNotRestarted
CHECK_DEADLOCK FALSE
