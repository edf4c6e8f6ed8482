SPECIFICATION QuestionsSpec
CONSTANTS
  p1 = p1
  p2 = p2
  p3 = p3
  r1 = r1
  r2 = r2
  s1 = s1
  s2 = s2
  m1 = m1
  clean = clean
  warned = warned
  b1 = b1
  claim1 = claim1
  a1 = a1
  a2 = a2
  None = None
  Space = {s1, s2}
  Page = {p1, p2}
  Run = {r1, r2}
  Agent = {a1, a2}
  Marker = {m1}
  Passage = {clean, warned}
  PassageSpace <- PatchesSpace
  PassageBundle <- PatchesBundle
  Bundle = {}
  Catalog = {}
  Claim = {}
  Content <- AnyContent
  Choice <- AnyChoice
  MaxRevision = 3
  MaxDrafts = 4
  MaxLinks = 1
  PageBudget = 2
SYMMETRY RunSymmetry
INVARIANTS NoBrokenLinks HomeIsLive SpaceIsolation
PROPERTIES ImplementsHistory PatchedAsRead
CHECK_DEADLOCK FALSE
