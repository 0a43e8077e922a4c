SPECIFICATION Spec
CONSTANTS
    Kinds = {"structured", "live", "silent"}
    MaxLines = 2
    MaxAttempts = 2
    MaxLives = 2
    MaxExecutions = 2
    ChunkLines = 2
    FileChunkLines = 1
    MaxFaults = 2
CHECK_DEADLOCK FALSE
INVARIANTS
    StepLogKept
PROPERTIES
    LinesLeave
