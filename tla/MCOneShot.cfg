CONSTANTS
  Actions = {"x"}
  Couvertes = {"x"}
  Callers = {c1, c2}
  Humans = {h1, h2}
  Usages = {2}
  MaxRows = 2
SYMMETRY Interchangeable
SPECIFICATION Spec
INVARIANT OneShot
CHECK_DEADLOCK FALSE
