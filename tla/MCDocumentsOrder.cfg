CONSTANTS
    Machines = {"drop"}
    MaxRows = 1
SPECIFICATION DocumentSpec
INVARIANT
    NamedKeysAreGone
CHECK_DEADLOCK FALSE
