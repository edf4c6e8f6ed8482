SPECIFICATION QuestionsSpec
CONSTANTS
  s1 = s1
  s2 = s2
  Account = {ann, bob}
  Company = company
  Space = {company, s1, s2}
  Operator = operator
  Operation = {"personal", "group", "member", "write"}
  Asked = {"owner", "editor", "reader"}
  Managed = {company, s1}
  MaxKey = 3
  MaxChanges = 6
  MaxWrites = 2
  MaxPending = 2
  None = None
INVARIANTS GroupsKeepAnOwner AuditComplete PersonalSpacesFixed WritesAuthorised
PROPERTIES MembershipsChangedAsSeen RevokedSessionsStayRevoked
SYMMETRY Symmetry
CHECK_DEADLOCK FALSE
