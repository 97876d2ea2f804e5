CONSTANTS
  Racines = {r1, r2}
  Dossiers = {d1, d2}
  MaxVersion = 2
  Gardees = 1
  MaxEssais = 2
SYMMETRY Interchangeable
SPECIFICATION Spec
INVARIANT NoOldStateUnderNewCode
CHECK_DEADLOCK FALSE
