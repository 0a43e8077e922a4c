CONSTANTS
  Runs = {r1, r2}
  Steps = {s1, s2}
  MaxFaults = 3
SPECIFICATION Spec
SYMMETRY MCSymmetry
INVARIANTS CompletedIsPushed RunsOwnBranches EnvironmentAccounted
CHECK_DEADLOCK FALSE
