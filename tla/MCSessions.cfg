CONSTANTS
  Callers = {1, 2}
  Keys = {"projet", "mission"}
  MissionKeys = {"mission"}
  Plafond = 1
  PlafondTours = 1
  MaxAgents = 2
  MaxCalls = 3
  MaxRoots = 2
SPECIFICATION FairSpec
INVARIANTS CapHolds NoStrayAgent SameExperimentBounded
PROPERTIES CallEnds
CHECK_DEADLOCK FALSE
