SPECIFICATION FairSpec
CONSTANTS
  Original = {o1, o2}
  Config = {c1, c2}
  None = None
  MaxInits = 2
  MaxFaults = 4
INVARIANTS ServedSafely
PROPERTIES ReplicaKept FrozenUntouched ServesAgain
CHECK_DEADLOCK FALSE
