CONSTANTS
  Actions = {"x", "y"}
  Couvertes = {"x"}
  Callers = {c1, c2}
  Humans = {h1, h2}
  Usages = {2}
  MaxRows = 2
SYMMETRY Interchangeable
SPECIFICATION Spec
INVARIANTS WithinGrant OneRequest
PROPERTIES DecisionStands
CHECK_DEADLOCK FALSE
