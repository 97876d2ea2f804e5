CONSTANTS
  Nodes = {1, 2, 3}
  Graphs <- AllGraphs
  HttpTasks = {}
  AutoTasks = {a}
  Limits = {1, 2}
  MaxAttempts = 2
  MaxPasses = 3
  Verdicts = {"allow"}
  StoreFails = TRUE
SPECIFICATION FairSpec
PROPERTIES
  WalkEnds
CHECK_DEADLOCK FALSE
