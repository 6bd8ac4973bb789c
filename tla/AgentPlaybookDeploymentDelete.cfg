SPECIFICATION FairSpec
CONSTANTS
    MaxLag = 1
    Templates = {t1, t2}
    FirstTemplate = t1
    MaxPlaybooks = 2
    MaxChanges = 1
    MaxFaults = 0
    MaxAnomalies = 0
PROPERTY
    WaitsForPlaybooks
CHECK_DEADLOCK FALSE
