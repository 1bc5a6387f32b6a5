CONSTANTS
    Levels = {"documents"}
    Themes <- DottedMarker
    Documents = {}
    CellThemes = {}
    CellDocuments = {}
    FeatureName <- Features
    BigNumbers <- Bigs
    Fragments <- Begun
    MaxRows = 1
SPECIFICATION CleanSpec
INVARIANT
    NothingRejectedIsLost
CHECK_DEADLOCK FALSE
