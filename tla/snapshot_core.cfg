SPECIFICATION FairSpec
CONSTANTS
    NoRun = NoRun
    Runs = {r1}
    MaxWork = 2
    MaxLost = 1
    MaxFaults = 2
    PollsInTime = TRUE
INVARIANTS
    TakenDownInOrder
    LiveRunKeepsHost
PROPERTIES
    EverythingTakenDown
