CONSTANTS
  Tasks = {1, 2}
  Models = {"code", "raison"}
  Size <- Sizes
  Cap = 3
  Configurations <- OnlyReadings
SPECIFICATION VramSpec
INVARIANTS CarteIllisibleRefuse
