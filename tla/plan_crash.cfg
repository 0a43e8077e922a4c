CONSTANTS
  Plans <- AllPlans
  LlmReworkPlans <- Reworks
  ReworkBase = 900
  MaxRework = 1
  CostLimit = 4
  Uses = {1}
  MostUsed = 1
  ConfirmAt = 2
  SubWorktrees = TRUE
  MayThrow = TRUE
  OperatorSteps = TRUE
  MaxCrashes = 1
  MaxResumes = 1
SPECIFICATION Spec
INVARIANT PrAccountsForEveryStep
INVARIANT NoOrphanExecution
