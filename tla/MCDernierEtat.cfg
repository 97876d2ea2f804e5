CONSTANTS
  Missions = {"a"}
  Threads = {1, 2}
  Maximum = 1
  Anciennes <- UneMission
  Pannes = FALSE
  MaxObjets = 4
  MaxRestarts = 0
SPECIFICATION Spec
INVARIANTS LastStateIsServed
CHECK_DEADLOCK FALSE
