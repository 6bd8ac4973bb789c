SPECIFICATION Spec
CONSTANTS
    MaxLag = 1
    MaxTrouble = 1
    MoreTrouble = 2
    Machines = {m1}
INVARIANTS
    TypeOK
    ExecutedOnce
    NothingLeftBehind
    PipelineOrder
PROPERTIES
    Settles
    DeletionCompletes
\* Nothing is left to do once the object has gone.
CHECK_DEADLOCK FALSE
