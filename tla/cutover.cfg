SPECIFICATION QuestionsSpec
CONSTANTS
  Original = {o1, o2}
  None = None
  Damaged = Damaged
  MaxPackages = 2
  MaxChanges = 1
  MaxGen = 2
  MaxReceipts = 2
  User = {u1, u2}
  Tester = {u2}
  Operator = {p1, p2}
  Selected = p1
  MaxTouches = 2
SYMMETRY OriginalSymmetry
INVARIANTS CheckpointKept MigratedRecoverable CloneRevoked
CHECK_DEADLOCK FALSE
