CONSTANTS
  Plans <- AllPlans
  LlmReworkPlans <- Reworks
  ReworkBase = 900
  MaxRework = 2
  CostLimit = 4
  Uses <- UsesOneOrThree
  MostUsed = 3
  ConfirmAt = 2
  SubWorktrees = TRUE
  MayThrow = TRUE
  OperatorSteps = FALSE
  MaxCrashes = 0
  MaxResumes = 0
SPECIFICATION FairSpec
INVARIANTS
  WorksOnSettled
  DeliversReviewedWork
  RetriesWithinLimit
  SpendWithinOneRound
PROPERTIES
  KeepsContract
  Terminates
