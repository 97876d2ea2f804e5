CONSTANTS
  Execs = {1}
  TaskIds = {1}
  Key <- OneKeyEach
  MaxRetries = 1
  MaxExecutions = 1
  MaxTasks = 1
  RescueLimit = 1
  MaxAssignments = 1
  Agents = {"codeur", "default"}
  Comptes = {"codeur"}
  Default = "default"
  Criteria <- DefaultOrReview
  LedgerFails = FALSE
SPECIFICATION Spec
INVARIANTS ReviewFreesAgent
CHECK_DEADLOCK FALSE
