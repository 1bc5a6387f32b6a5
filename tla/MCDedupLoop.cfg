CONSTANTS
    Keys = {a, b}
    MaxLen = 4
SPECIFICATION Spec
INVARIANTS
    TypeOK
    UnreadIntact
    RecycledOnce
    KeysOnceAndNotLost
PROPERTIES
    RemovesDuplicatesAtOnce
