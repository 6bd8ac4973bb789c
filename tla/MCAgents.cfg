SPECIFICATION Spec
CONSTANTS
    MaxLag = 1
    MaxTrouble = 1
    KeysTrouble = 2
    MaxVersion = 2
    Names = {a, b}
    Workers = {w1, w2}
    Replicas = {p1, p2}
    Nobody = Nobody
    MaxEvents = 3
INVARIANTS
    TypeOK
    NeverLockedOut
    Whole
    UninstalledClean
    FirstAndLast
PROPERTIES
    Settles
    DeletionCompletes
\* Nothing is left to do once an object has gone or the process has stopped.
CHECK_DEADLOCK FALSE
