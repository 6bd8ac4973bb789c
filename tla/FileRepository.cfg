SPECIFICATION Spec
CONSTANTS
    Workers = {w1}
    NoWorker = NoWorker
    MaxEvents = 1
INVARIANT CachesRemoved
CHECK_DEADLOCK FALSE
