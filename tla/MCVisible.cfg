CONSTANTS
  Missions = {"a", "b"}
  Threads = {1, 2}
  Maximum = 1
  Anciennes <- Vierge
  Pannes = TRUE
  MaxObjets = 4
  MaxRestarts = 0
SPECIFICATION Spec
INVARIANTS VisibleIsStored
CHECK_DEADLOCK FALSE
