CONSTANTS
    MaxChunks = 2
    MaxRows = 3
    PipeSize = 2
    BufSize = 2
SPECIFICATION Spec
INVARIANTS
    AnswersBelongToChunk
    InStep
    OutcomesFitTheRows
PROPERTIES
    ChunksAreSettled
    ClosedWorkerExits
