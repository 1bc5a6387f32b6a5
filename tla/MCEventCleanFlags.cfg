CONSTANTS
    Levels = {"documents"}
    Themes <- DottedFlags
    Documents = {}
    CellThemes = {}
    CellDocuments = {}
    FeatureName <- Features
    BigNumbers <- Bigs
    Fragments <- Begun
    MaxRows = 1
SPECIFICATION CleanSpec
INVARIANT
    EveryFeatureGrouped
CHECK_DEADLOCK FALSE
