SPECIFICATION Spec
CONSTANTS
    s1 = s1
    s2 = s2
    Saves = {s1, s2}
    MaxAttempts = 2
    MaxCancels = 1
    MaxSteps = 1
    OwnRunId = TRUE
SYMMETRY SaveSymmetry
CHECK_DEADLOCK FALSE
INVARIANTS
    EndIsKnown
    OneExecutor
