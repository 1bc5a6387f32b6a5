CONSTANTS
    Levels = {"documents"}
    Themes <- DottedDropped
    Documents = {}
    CellThemes = {}
    CellDocuments = {}
    FeatureName <- Features
    BigNumbers <- Bigs
    Fragments <- Begun
    MaxRows = 1
SPECIFICATION CleanSpec
INVARIANT
    DroppedKeysAreGone
CHECK_DEADLOCK FALSE
