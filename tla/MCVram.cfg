CONSTANTS
  Tasks = {1, 2}
  Models = {"code", "raison"}
  Size <- Sizes
  Cap = 3
  Configurations <- Both
SPECIFICATION VramFairSpec
INVARIANTS FitsUnlessBlind
PROPERTIES TaskEnds
