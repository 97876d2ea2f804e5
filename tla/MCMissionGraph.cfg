CONSTANTS
  Ids = {n1, n2, n3}
  EdgeLists <- MCEdgeLists
  MaxEdges = 4
SPECIFICATION GraphSpec
INVARIANTS
  ValidateIsExact
  TopologicalSortIsSound
  GroupsAreParallel
CHECK_DEADLOCK FALSE
