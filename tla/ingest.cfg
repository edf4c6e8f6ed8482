SPECIFICATION FairSpec
CONSTANTS
  page = page
  newer = newer
  older = older
  audio = audio
  files = files
  bundle = bundle
  text = text
  transcript = transcript
  link = link
  a = a
  b = b
  None = None
  Client = {c1, c2}
  Source = {page, audio, files}
  Rendition = {text, transcript, link}
  MaxPassages = 2
  Body = {a, b}
  Import = {older, newer, bundle}
  Plan <- MCPlan
  Document <- MCDocument
  Imports <- MCImports
  MaxFailures = 1
INVARIANTS UnmixedRenditions StoredInOrder HonestOutcomes
PROPERTIES RetriesSucceed
CHECK_DEADLOCK FALSE
