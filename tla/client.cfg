SPECIFICATION Spec
CONSTANTS
  Client = {c1, c2}
  None = None
  MaxEra = 1
  MaxAttempts = 1
  MaxRuns = 3
SYMMETRY ClientSymmetry
INVARIANTS NoRepeatBilling WritesOnce
CHECK_DEADLOCK FALSE
