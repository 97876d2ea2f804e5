CONSTANTS
  Nodes = {1, 2, 3}
  Graphs <- OnlyChain
  HttpTasks = {h}
  AutoTasks = {a}
  Limits = {1}
  MaxAttempts = 2
  MaxPasses = 3
  Verdicts = {"allow"}
  StoreFails = FALSE
SPECIFICATION Spec
INVARIANT OneWriter
CHECK_DEADLOCK FALSE
