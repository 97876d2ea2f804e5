CONSTANTS
  Execs = {1, 2}
  TaskIds = {1, 2}
  Key <- OneKeyEach
  MaxRetries = 1
  MaxExecutions = 1
  MaxTasks = 1
  RescueLimit = 1
  MaxAssignments = 1
  Agents = {"codeur", "default"}
  Comptes = {"codeur"}
  Default = "default"
  Criteria <- DefaultOrReview
  LedgerFails = TRUE
SPECIFICATION FairSpec
INVARIANTS LedgerIsTrue AttemptsBounded AgentsAreCounted
PROPERTIES CancelHolds NodeReturns
CHECK_DEADLOCK FALSE
