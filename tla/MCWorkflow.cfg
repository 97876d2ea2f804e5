CONSTANTS
  Nodes = {1, 2, 3}
  Workflows <- Graphs
  MaxCalls = 3
  MaxParallel = 2
SPECIFICATION Spec
INVARIANTS RecordIsOneRun GateHolds OnceUnlessDisturbed FreshWavesAsSimulated
PROPERTY StoredStays
CHECK_DEADLOCK FALSE
