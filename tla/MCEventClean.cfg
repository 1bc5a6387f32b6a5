CONSTANTS
    Levels = {"documents", "cells"}
    Themes <- EveryTheme
    Documents <- OtherDocuments
    CellThemes <- EveryCellTheme
    CellDocuments <- OtherCellDocuments
    FeatureName <- Features
    BigNumbers <- Bigs
    Fragments <- Begun
    MaxRows = 2
SPECIFICATION CleanSpec
INVARIANTS
    RawIsFixedPoint
    AnswerIsClean
    RuleKeysAreTyped
    RejectedAreRecordedUnlessDotted
    EveryFeatureGroupedUnlessDotted
    DroppedKeysAreGoneUnlessDotted
    NoPropertyLost
    SecondPassChangesNothing
    EveryCellInOnePlace
PROPERTY
    AnswersAsIfFresh
CHECK_DEADLOCK FALSE
