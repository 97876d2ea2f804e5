CONSTANTS
  Nodes = {1, 2, 3}
  Graphs <- OnlyChain
  HttpTasks = {}
  AutoTasks = {a}
  Limits = {1}
  MaxAttempts = 2
  MaxPasses = 3
  Verdicts = {"allow"}
  StoreFails = FALSE
SPECIFICATION Spec
PROPERTIES
  CancelIsFinal
CHECK_DEADLOCK FALSE
