SPECIFICATION CatalogSpec
CONSTANTS
  p1 = p1
  p2 = p2
  p3 = p3
  r1 = r1
  r2 = r2
  s1 = s1
  s2 = s2
  m1 = m1
  clean = clean
  warned = warned
  b1 = b1
  claim1 = claim1
  None = None
  Space = {s1}
  Page = {p1, p2, p3}
  Run = {r1, r2, r3}
  Agent = {a1}
  Marker = {}
  Passage = {}
  PassageSpace <- NoPassages
  PassageBundle <- NoPassages
  Bundle = {}
  Catalog <- Catalogs
  Claim = {claim1}
  Content <- CatalogContent
  Choice <- KeepOnly
  MaxRevision = 2
  MaxDrafts = 5
  MaxLinks = 1
  PageBudget = 3
INVARIANTS NoDuplicateClaims RelationTargetsTyped SyncNamesEarlier
CHECK_DEADLOCK FALSE
