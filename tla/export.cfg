SPECIFICATION FairSpec
CONSTANTS
  old = old
  new = new
  other = other
  company = company
  group = group
  server = server
  page1 = page1
  page2 = page2
  page3 = page3
  revised = revised
  None = None
  Exporter = {e1, e2}
  Files = 3
  Publication = {old, new, other}
  Rendered <- MCRendered
  Origin <- MCOrigin
  CompanySpace = company
  EditContent = {edited}
  MaxExports = 4
  MaxCrashes = 3
  MaxEdits = 2
INVARIANTS NoStrayFiles
PROPERTIES EditsSurvive ExportsAtomic ExportsEnd RetryRepairs
CHECK_DEADLOCK FALSE
