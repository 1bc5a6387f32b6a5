CONSTANTS
    Machines = {"dedup", "drop", "empty", "nodes"}
    MaxRows = 2
SPECIFICATION DocumentSpec
INVARIANTS
    AnswerIsUnique
    NothingMoves
    FirstNonEmptyWins
    OthersStay
    AnswerIsTheData
    OnlyEmptyStringsBecomeNull
    NodeAnswersAsIfFresh
    NoNodeShared
CHECK_DEADLOCK FALSE
