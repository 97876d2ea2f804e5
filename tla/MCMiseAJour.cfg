CONSTANTS
  Racines = {r1, r2}
  Dossiers = {d1, d2}
  MaxVersion = 2
  Gardees = 1
  MaxEssais = 2
SYMMETRY Interchangeable
SPECIFICATION Spec
INVARIANTS OutcomeIsTrue MarkIsHonest CodeFirst
CHECK_DEADLOCK FALSE
