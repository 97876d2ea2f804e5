CONSTANTS
  Nodes = {1, 2, 3}
  Workflows <- Graphs
  MaxCalls = 3
  MaxParallel = 2
SPECIFICATION Spec
INVARIANT ApprovalsAreCumulative
CHECK_DEADLOCK FALSE
