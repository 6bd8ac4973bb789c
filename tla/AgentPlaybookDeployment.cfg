SPECIFICATION FairSpec
CONSTANTS
    MaxLag = 1
    Templates = {t1, t2}
    FirstTemplate = t1
    MaxPlaybooks = 3
    MaxChanges = 1
    MaxFaults = 1
    MaxAnomalies = 1
INVARIANTS
    OneActivePlaybook
    NoRepeatedExecution
    QuiescentPhaseIsTrue
    NoOrphanPlaybook
PROPERTY
    Converges
CHECK_DEADLOCK FALSE
