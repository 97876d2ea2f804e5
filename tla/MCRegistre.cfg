CONSTANTS
  Missions = {"a", "b"}
  Threads = {t1, t2}
  Maximum = 1
  Anciennes <- Vierge
  Pannes = TRUE
  MaxObjets = 4
  MaxRestarts = 1
SYMMETRY ThreadSymmetry
SPECIFICATION Spec
PROPERTIES ActiveStays BoundedUnlessActive NothingDurableIsLost
CHECK_DEADLOCK FALSE
