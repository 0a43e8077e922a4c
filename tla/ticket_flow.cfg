CONSTANTS
  Titles = {"t1", "t2"}
  Slots = 2
  MaxActs = 2
  MaxRuns = 5
  MaxHooks = 6
  MaxFaults = 1
SPECIFICATION Spec
INVARIANTS WorkWasAsked DoneMeansMerged
PROPERTIES PullRequestsChecked ReachesDone
CHECK_DEADLOCK FALSE
