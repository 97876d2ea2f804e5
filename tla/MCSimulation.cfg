CONSTANTS
  Nodes = {1, 2, 3, 4, 5}
  Workflows <- Forked
  MaxCalls = 2
  MaxParallel = 3
SPECIFICATION Spec
INVARIANT SimulationBounds
CHECK_DEADLOCK FALSE
