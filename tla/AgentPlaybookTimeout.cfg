SPECIFICATION Spec
CONSTANTS
    MaxLag = 0
    BackoffLimit = 2
    MaxAge = 2
    MaxFaults = 0
    MaxStale = 0
INVARIANT SucceededMeansExitZero
CHECK_DEADLOCK FALSE
