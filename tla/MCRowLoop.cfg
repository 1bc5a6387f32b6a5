CONSTANTS
    Mains <- EveryMain
    MaxRows = 3
    MaxParts = 3
    BufSize = 2
    Faults = {"read", "write", "pipe"}
SPECIFICATION Spec
INVARIANTS
    TypeOK
    OutputInOrder
    SuccessIsComplete
PROPERTIES
    ServesRows
    Terminates
CHECK_DEADLOCK FALSE
