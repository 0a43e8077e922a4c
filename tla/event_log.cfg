SPECIFICATION Spec
CONSTANTS
    MaxEvents = 3
    Targets = {"run", "global"}
    MaxFaults = 2
CHECK_DEADLOCK FALSE
INVARIANTS
    LogKept
PROPERTIES
    KeepsLedger
