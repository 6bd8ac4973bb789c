SPECIFICATION FairSpec
CONSTANTS
    MaxLag = 1
    Machines = {m1, m2}
    Agents = {a1}
    None = None
    MaxTrouble = 1
INVARIANT
    LabelNamesUser
CHECK_DEADLOCK FALSE
