SPECIFICATION Spec
CONSTANTS
  x1 = x1
  x2 = x2
  Process = {x1, x2}
  Task <- Tasks
  Revision = {1, 2}
  None = None
  Damaged = Damaged
  BatchSize = 2
  SearchLimit = 1
  MaxPublications = 2
  MaxIndexes = 2
  MaxEvents = 2
  User = {u1, u2}
  Space = {s1, s2}
  Slot = {l1, l2}
  NoSpace = NoSpace
  Nobody = Nobody
  Unknown = Unknown
  MaxEntries = 1
  MaxRequests = 2
  MaxChanges = 2
SYMMETRY Symmetry
INVARIANTS OneWholeCorpus SearchContinues NothingKept NoLoadStranded
CHECK_DEADLOCK FALSE
