SPECIFICATION Spec
CONSTANTS
    MaxLag = 1
    Machines = {m1, m2}
    Agents = {a1, a2}
    None = None
    MaxTrouble = 3
SYMMETRY Interchangeable
INVARIANTS
    TypeOK
    LabelHeld
    OneAgentPerMachine
    NoLeakedClaim
    VacatedBeforeReuse
PROPERTIES
    NoTakeover
    AgentRefImmutable
CHECK_DEADLOCK FALSE
