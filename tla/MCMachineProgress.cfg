SPECIFICATION Spec
CONSTANTS
    MaxLag = 1
    Machines = {m1, m2}
    Agents = {a1, a2}
    None = None
    MaxTrouble = 1
    LoneMachine = m1
    LoneTrouble = 3
PROPERTIES
    NoStarvation
    DeletionCompletes
CHECK_DEADLOCK FALSE
