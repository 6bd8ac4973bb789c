SPECIFICATION FairSpec
CONSTANTS
    MaxLag = 1
    SuccessThreshold = 2
    FailureThreshold = 2
    Capacity = 1
    MaxFlips = 1
    MaxTrouble = 1
INVARIANTS
    TypeOK
    QuiescentHealthIsTrue
PROPERTIES
    ThresholdRespected
    HealthConverges
    ProbeStops
CHECK_DEADLOCK FALSE
