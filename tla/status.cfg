SPECIFICATION Spec
CONSTANTS
  MaxCopies = 2
  MaxAnswers = 3
INVARIANTS GenerationForward
CHECK_DEADLOCK FALSE
