SPECIFICATION Spec
CONSTANTS
  p1 = p1
  p2 = p2
  p3 = p3
  r1 = r1
  r2 = r2
  s1 = s1
  s2 = s2
  m1 = m1
  clean = clean
  warned = warned
  b1 = b1
  claim1 = claim1
  None = None
  Space = {s1}
  Page = {p1, p2}
  Run = {r1, r2, r3}
  Agent = {a1}
  Marker = {m1}
  Passage = {clean, warned}
  PassageSpace <- EvidenceSpace
  PassageBundle <- EvidenceBundle
  Bundle = {b1}
  Catalog = {"audio_recording"}
  Claim = {}
  Content <- EvidenceContent
  Choice <- KeepOnly
  MaxRevision = 2
  MaxDrafts = 3
  MaxLinks = 0
  PageBudget = 2
SYMMETRY RunSymmetry
INVARIANTS TypeOK LinearLineage WarningsReviewed EvidenceComplete
CHECK_DEADLOCK FALSE
