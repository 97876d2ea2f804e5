CONSTANTS
  Nodes = {1, 2, 3}
  Graphs <- SomeGraphs
  HttpTasks = {h1, h2}
  AutoTasks = {}
  Limits = {1, 2}
  MaxAttempts = 2
  MaxPasses = 2
  Verdicts = {"allow", "deny", "human"}
  StoreFails = TRUE
SPECIFICATION FairSpec
INVARIANTS
  DependencyOrder
  OneExecution
  CompletedIsTrue
  RetryBounded
  NoRedo
  PauseStops
PROPERTIES
  CancelIsDurable
  WalkEnds
CHECK_DEADLOCK FALSE
