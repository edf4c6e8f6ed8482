SPECIFICATION CorpusSpec
CONSTANTS
  x1 = x1
  Process = {x1}
  Task <- Tasks
  Revision = {1, 2}
  None = None
  Damaged = Damaged
  BatchSize = 2
  SearchLimit = 1
  MaxPublications = 2
  MaxIndexes = 1
  MaxEvents = 0
INVARIANTS PreparedIsSearched
CHECK_DEADLOCK FALSE
