----------------------------- MODULE AccessProofs -----------------------------
(***************************************************************************)
(* What Access promises, proved for any number of accounts, spaces and     *)
(* operators' requests.                                                    *)
(*                                                                         *)
(* The audit log carries the argument: its rows for a membership are       *)
(* numbered 1..n without a gap or a repetition (AuditComplete), so two     *)
(* rows with the same number are one (AuditUnique).  A request remembers a *)
(* record that was once current, hence one of the rows (RequestsAudited);  *)
(* the transaction compares numbers only, and equal numbers make the       *)
(* remembered record the current one.  Sessions rest on SessionsSound:     *)
(* keys only grow, and a sign-in in progress that knows the current key    *)
(* knows the current account.                                              *)
(***************************************************************************)
EXTENDS Access, FiniteSetTheorems, TLAPS

RowType == [space: Space, account: Account, record: MemberType]

Rows(s, a) == {row \in audit : row.space = s /\ row.account = a}

\* A space that does not exist has no memberships; the company is a group.
UnbornEmpty ==
  /\ \A s \in Space : spaces[s] = None => \A a \in Account : members[s][a] = None
  /\ spaces[Company] = [kind |-> "group", creator |-> Operator]

AuditUnique ==
  \A row1, row2 \in audit :
    row1.space = row2.space /\ row1.account = row2.account /\
    row1.record.revision = row2.record.revision => row1 = row2

\* The record a request's sender had read is in the audit log.
RequestsAudited ==
  \A x \in Actor : requests[x] # None /\ requests[x].seen # None =>
    [space |-> requests[x].space, account |-> requests[x].account, record |-> requests[x].seen]
      \in audit

\* What the operator asks for is a group or a membership.
OperatorAsks ==
  requests[Operator] # None => requests[Operator].kind \in {"group", "member"}

\* No session or sign-in knows a key that the account did not have yet; a sign-in that
\* knows the current key knows the current account.
SessionsSound ==
  /\ \A t \in tokens : users[t.account] # None /\ t.key <= users[t.account].key
  /\ \A a \in Account : logins[a] # None =>
       /\ users[a] # None /\ logins[a].key <= users[a].key
       /\ logins[a].key = users[a].key => logins[a] = users[a]

AInv ==
  /\ TypeOK /\ IsFiniteSet(audit) /\ UnbornEmpty /\ GroupsKeepAnOwner /\ PersonalSpacesFixed
  /\ AuditComplete /\ AuditUnique /\ WritesAuthorised /\ RequestsAudited /\ OperatorAsks
  /\ SessionsSound

-----------------------------------------------------------------------------
(* Memberships are changed by Save alone: on joining the company, on founding *)
(* a space, or on a request that names the membership.                        *)

Joins(a) ==
  /\ members[Company][a] = None /\ users[a] = None
  /\ Save(Company, a, "editor", TRUE)
  /\ UNCHANGED spaces

Founds(s, a, kind) ==
  /\ spaces[s] = None
  /\ spaces' = [spaces EXCEPT ![s] = [kind |-> kind, creator |-> a]]
  /\ kind = "personal" => \A t \in Space : spaces[t] # [kind |-> "personal", creator |-> a]
  /\ Save(s, a, "owner", TRUE)

FoundsEmpty(s) ==
  /\ spaces[s] = None
  /\ spaces' = [spaces EXCEPT ![s] = [kind |-> "group", creator |-> Operator]]
  /\ UNCHANGED <<members, audit>>

Changes(x, r) ==
  /\ r = requests[x] /\ r # None /\ r.kind = "member"
  /\ spaces[r.space] # None
  /\ PutMembership(x, r.space, r.account, r.role, r.active, r.seen)
  /\ UNCHANGED spaces

LEMMA MembershipSteps ==
  ASSUME AInv, [Next]_vars
  PROVE  \/ UNCHANGED <<spaces, members, audit>>
         \/ \E a \in Account : Joins(a)
         \/ \E s \in Space, a \in Account, kind \in {"personal", "group"} : Founds(s, a, kind)
         \/ \E s \in Space : FoundsEmpty(s)
         \/ \E x \in Actor, r \in RequestType : Changes(x, r)
<1> DEFINE Goal == \/ UNCHANGED <<spaces, members, audit>>
                   \/ \E a \in Account : Joins(a)
                   \/ \E s \in Space, a \in Account, kind \in {"personal", "group"} : Founds(s, a, kind)
                   \/ \E s \in Space : FoundsEmpty(s)
                   \/ \E x \in Actor, r \in RequestType : Changes(x, r)
<1>1. ASSUME NEW a \in Account, NEW d \in BOOLEAN, CreateUser(a, d)
      PROVE  Goal
  BY <1>1 DEF CreateUser, Joins
<1>2. ASSUME NEW x \in Actor, Handle(x)
      PROVE  Goal
  <2> PICK r : r = requests[x]
    OBVIOUS
  <2>1. r \in RequestType /\ r # None /\ (x = Operator => r.kind \in {"group", "member"})
    BY <1>2 DEF Handle, AInv, TypeOK, OperatorAsks
  <2>2. CASE r.kind = "personal"
    BY <1>2, <2>1, <2>2 DEF Handle, EnsurePersonal, Founds, Actor
  <2>3. CASE r.kind = "group"
    BY <1>2, <2>1, <2>3 DEF Handle, CreateGroup, Founds, FoundsEmpty, Actor
  <2>4. CASE r.kind = "member"
    BY <1>2, <2>1, <2>4 DEF Handle, SetMembership, Changes
  <2>5. CASE r.kind = "write"
    BY <1>2, <2>1, <2>5 DEF Handle
  <2> QED BY <2>1, <2>2, <2>3, <2>4, <2>5 DEF RequestType, Kind
<1>3. \/ \E a \in Account, d \in BOOLEAN : CreateUser(a, d)
      \/ \E x \in Actor : Handle(x)
      \/ UNCHANGED <<spaces, members, audit>>
  <2>1. ASSUME NEW x, NEW request, LetIn(x, request)
        PROVE  UNCHANGED <<spaces, members, audit>>
    BY <2>1 DEF LetIn
  <2>2. ASSUME NEW a \in Account, \/ \E d \in BOOLEAN : SetDisabled(a, d)
                                 \/ BeginLogin(a) \/ EndLogin(a)
        PROVE  UNCHANGED <<spaces, members, audit>>
    BY <2>2 DEF SetDisabled, BeginLogin, EndLogin
  <2>3. ASSUME NEW x \in Actor, Decline(x)
        PROVE  UNCHANGED <<spaces, members, audit>>
    BY <2>3 DEF Decline
  <2>4. CASE vars' = vars
    BY <2>4 DEF vars
  <2> HIDE DEF Goal
  <2> QED BY <2>1, <2>2, <2>3, <2>4 DEF Next, UserRequest, OperatorRequest
<1> HIDE DEF Goal
<1> QED BY <1>1, <1>2, <1>3 DEF Goal

\* The rows of a membership are numbered from 1 to its revision.
LEMMA RowsNumbered ==
  ASSUME AuditComplete, NEW s \in Space, NEW a \in Account
  PROVE  /\ members[s][a] = None => Rows(s, a) = {}
         /\ members[s][a] # None =>
              /\ {row.record.revision : row \in Rows(s, a)} = 1..members[s][a].revision
              /\ \A row \in Rows(s, a) : row.record.revision \in 1..members[s][a].revision
              /\ Cardinality(Rows(s, a)) = members[s][a].revision
              /\ [space |-> s, account |-> a, record |-> members[s][a]] \in audit
<1>1. IF members[s][a] = None THEN Rows(s, a) = {}
      ELSE /\ {row.record.revision : row \in Rows(s, a)} = 1..members[s][a].revision
           /\ Cardinality(Rows(s, a)) = members[s][a].revision
           /\ [space |-> s, account |-> a, record |-> members[s][a]] \in Rows(s, a)
  BY Zenon DEF AuditComplete, Rows
<1>2. Rows(s, a) \subseteq audit
  BY DEF Rows
<1> QED BY <1>1, <1>2

\* Save gives the membership the next number, and logs it in a row of its own.
LEMMA SaveEffect ==
  ASSUME TypeOK, IsFiniteSet(audit), AuditComplete, NEW s \in Space, NEW a \in Account,
         NEW role \in Role, NEW active \in BOOLEAN, Save(s, a, role, active)
  PROVE  \E rec \in MemberType :
           /\ rec.role = role /\ rec.active = active
           /\ rec.revision = IF members[s][a] = None THEN 1 ELSE members[s][a].revision + 1
           /\ members' = [members EXCEPT ![s][a] = rec]
           /\ audit' = audit \union {[space |-> s, account |-> a, record |-> rec]}
           /\ \A row \in Rows(s, a) : row.record.revision < rec.revision
<1>1. PICK n : n = IF members[s][a] = None THEN 0 ELSE members[s][a].revision
  OBVIOUS
<1>2. n \in Nat /\ n < MaxChanges /\ \A row \in Rows(s, a) : row.record.revision \in 1..n
  <2>1. CASE members[s][a] = None
    <3>1. Rows(s, a) = {} /\ n = 0
      BY <1>1, <2>1, RowsNumbered
    <3>2. MaxChanges \in Nat \ {0}
      BY ConstantsAssumption
    <3> QED BY <3>1, <3>2
  <2>2. CASE members[s][a] # None
    <3>1. members[s][a] \in MemberType
      BY <2>2 DEF TypeOK
    <3>2. /\ n \in Nat /\ Cardinality(Rows(s, a)) = n
          /\ \A row \in Rows(s, a) : row.record.revision \in 1..n
      <4>1. n = members[s][a].revision /\ n \in Nat
        BY <1>1, <2>2, <3>1 DEF MemberType
      <4> QED BY <2>2, <4>1, RowsNumbered
    <3>3. Cardinality(Rows(s, a)) <= Cardinality(audit) /\ Cardinality(audit) \in Nat
      BY FS_Subset, FS_CardinalityType DEF Rows
    <3>4. Cardinality(audit) < MaxChanges
      BY DEF Save
    <3> QED BY <3>2, <3>3, <3>4, ConstantsAssumption
  <2> QED BY <2>1, <2>2
<1>3. PICK rec : rec = [role |-> role, active |-> active, revision |-> n + 1]
  OBVIOUS
<1>4. rec \in MemberType
  BY <1>2, <1>3, ConstantsAssumption DEF MemberType
<1>5. rec = [role |-> role, active |-> active,
             revision |-> IF members[s][a] = None THEN 1 ELSE members[s][a].revision + 1]
  BY <1>1, <1>3
<1>6. members' = [members EXCEPT ![s][a] = rec]
      /\ audit' = audit \union {[space |-> s, account |-> a, record |-> rec]}
  BY <1>5 DEF Save, Audited
<1>7. /\ rec.role = role /\ rec.active = active
      /\ rec.revision = IF members[s][a] = None THEN 1 ELSE members[s][a].revision + 1
  BY <1>5
<1>8. \A row \in Rows(s, a) : row.record.revision < rec.revision
  BY <1>2, <1>3
<1> QED BY <1>4, <1>6, <1>7, <1>8

\* The log stays gapless and unambiguous.
LEMMA SaveKeepsAudit ==
  ASSUME TypeOK, IsFiniteSet(audit), AuditComplete, AuditUnique, NEW s \in Space, NEW a \in Account,
         NEW role \in Role, NEW active \in BOOLEAN, Save(s, a, role, active)
  PROVE  /\ members' \in [Space -> [Account -> MemberType \union {None}]]
         /\ audit' \subseteq RowType /\ audit \subseteq audit' /\ IsFiniteSet(audit')
         /\ AuditComplete' /\ AuditUnique'
<1>1. PICK rec \in MemberType :
        /\ rec.revision = IF members[s][a] = None THEN 1 ELSE members[s][a].revision + 1
        /\ members' = [members EXCEPT ![s][a] = rec]
        /\ audit' = audit \union {[space |-> s, account |-> a, record |-> rec]}
        /\ \A row \in Rows(s, a) : row.record.revision < rec.revision
  BY SaveEffect
<1> PICK new : new = [space |-> s, account |-> a, record |-> rec]
  OBVIOUS
<1>2. new \in RowType /\ new.space = s /\ new.account = a /\ new.record = rec
      /\ audit' = audit \union {new}
  BY <1>1 DEF RowType
<1>3. new \notin audit
  <2>1. rec.revision \in Nat
    BY DEF MemberType
  <2> QED BY <1>1, <1>2, <2>1 DEF Rows
<1>4. /\ members' \in [Space -> [Account -> MemberType \union {None}]]
      /\ \A t \in Space, b \in Account :
           members'[t][b] = IF t = s /\ b = a THEN rec ELSE members[t][b]
  BY <1>1 DEF TypeOK
<1>5. IsFiniteSet(audit') /\ audit' \subseteq RowType
  BY <1>2, FS_AddElement DEF TypeOK, RowType
<1>6. AuditUnique'
  <2> SUFFICES ASSUME NEW row1 \in audit', NEW row2 \in audit',
                      row1.space = row2.space, row1.account = row2.account,
                      row1.record.revision = row2.record.revision
               PROVE  row1 = row2
    BY DEF AuditUnique
  <2>1. rec.revision \in Nat
    BY DEF MemberType
  <2> QED BY <1>1, <1>2, <2>1 DEF AuditUnique, Rows
<1>7. AuditComplete'
  <2> SUFFICES ASSUME NEW t \in Space, NEW b \in Account, NEW rows, rows = Rows(t, b)'
               PROVE  IF members'[t][b] = None THEN rows = {}
                      ELSE /\ {row.record.revision : row \in rows} = 1..members'[t][b].revision
                           /\ Cardinality(rows) = members'[t][b].revision
                           /\ [space |-> t, account |-> b, record |-> members'[t][b]] \in rows
    BY DEF AuditComplete, Rows
  <2>1. CASE <<t, b>> # <<s, a>>
    <3>1. rows = Rows(t, b) /\ members'[t][b] = members[t][b]
      BY <1>2, <1>4, <2>1 DEF Rows
    <3> QED BY <3>1 DEF AuditComplete, Rows
  <2>2. CASE t = s /\ b = a
    <3>1. rows = Rows(s, a) \union {new} /\ members'[t][b] = rec
      BY <1>2, <1>4, <2>2 DEF Rows
    <3>2. PICK n : n = IF members[s][a] = None THEN 0 ELSE members[s][a].revision
      OBVIOUS
    <3>3. /\ n \in Nat /\ rec.revision = n + 1 /\ rec # None
          /\ {row.record.revision : row \in Rows(s, a)} = 1..n
          /\ Cardinality(Rows(s, a)) = n
      <4>1. rec # None
        BY ConstantsAssumption
      <4>2. CASE members[s][a] = None
        <5>1. Rows(s, a) = {}
          BY <4>2, RowsNumbered
        <5>2. {row.record.revision : row \in Rows(s, a)} = 1..0
          BY <5>1
        <5> QED BY <1>1, <3>2, <4>1, <4>2, <5>1, <5>2, FS_EmptySet
      <4>3. CASE members[s][a] # None
        <5>1. members[s][a].revision \in Nat
          BY <4>3 DEF TypeOK, MemberType
        <5> QED BY <1>1, <3>2, <4>1, <4>3, <5>1, RowsNumbered
      <4> QED BY <4>2, <4>3
    <3>4. Cardinality(rows) = n + 1
      <4>1. IsFiniteSet(Rows(s, a)) /\ new \notin Rows(s, a)
        BY <1>3, FS_Subset DEF Rows
      <4> QED BY <3>1, <3>3, <4>1, FS_AddElement
    <3>5. {row.record.revision : row \in rows} = 1..(n + 1)
      <4>1. {row.record.revision : row \in rows}
              = {row.record.revision : row \in Rows(s, a)} \union {rec.revision}
        BY <1>2, <3>1
      <4> QED BY <3>3, <4>1
    <3> QED BY <1>2, <2>2, <3>1, <3>3, <3>4, <3>5
  <2> QED BY <2>1, <2>2
<1> QED BY <1>2, <1>4, <1>5, <1>6, <1>7


-----------------------------------------------------------------------------
(* Each part of AInv survives each kind of membership step.                   *)

LEMMA AuditKept ==
  ASSUME AInv, [Next]_vars
  PROVE  /\ members' \in [Space -> [Account -> MemberType \union {None}]]
         /\ audit' \subseteq RowType /\ audit \subseteq audit' /\ IsFiniteSet(audit')
         /\ AuditComplete' /\ AuditUnique'
<1> DEFINE Goal == /\ members' \in [Space -> [Account -> MemberType \union {None}]]
                   /\ audit' \subseteq RowType /\ audit \subseteq audit' /\ IsFiniteSet(audit')
                   /\ AuditComplete' /\ AuditUnique'
<1>0. TypeOK /\ IsFiniteSet(audit) /\ AuditComplete /\ AuditUnique
  BY DEF AInv
<1>1. ASSUME NEW s \in Space, NEW a \in Account, NEW role \in Role, NEW active \in BOOLEAN,
             Save(s, a, role, active)
      PROVE  Goal
  BY <1>0, <1>1, SaveKeepsAudit
<1>2. ASSUME UNCHANGED <<members, audit>>
      PROVE  Goal
  <2>1. AuditComplete'
    <3> SUFFICES ASSUME NEW t \in Space, NEW b \in Account, NEW rows, rows = Rows(t, b)'
                 PROVE  IF members'[t][b] = None THEN rows = {}
                        ELSE /\ {row.record.revision : row \in rows} = 1..members'[t][b].revision
                             /\ Cardinality(rows) = members'[t][b].revision
                             /\ [space |-> t, account |-> b, record |-> members'[t][b]] \in rows
      BY DEF AuditComplete, Rows
    <3>1. rows = Rows(t, b) /\ members'[t][b] = members[t][b]
      BY <1>2 DEF Rows
    <3> QED BY <1>0, <3>1 DEF AuditComplete, Rows
  <2>2. AuditUnique'
    BY <1>0, <1>2 DEF AuditUnique
  <2> QED BY <1>0, <1>2, <2>1, <2>2 DEF TypeOK, RowType
<1> HIDE DEF Goal
<1>3. ASSUME NEW a \in Account, Joins(a)
      PROVE  Goal
  <2>1. Save(Company, a, "editor", TRUE) /\ Company \in Space /\ "editor" \in Role
    BY <1>3, ConstantsAssumption DEF Joins, Role
  <2> QED BY <1>1, <2>1
<1>4. ASSUME NEW s \in Space, NEW a \in Account, NEW kind \in {"personal", "group"},
             Founds(s, a, kind)
      PROVE  Goal
  <2>1. Save(s, a, "owner", TRUE) /\ "owner" \in Role
    BY <1>4 DEF Founds, Role
  <2> QED BY <1>1, <2>1
<1>5. ASSUME NEW x \in Actor, NEW r \in RequestType, Changes(x, r)
      PROVE  Goal
  <2>1. Save(r.space, r.account, r.role, r.active)
    BY <1>5 DEF Changes, PutMembership
  <2>2. r.space \in Space /\ r.account \in Account /\ r.role \in Role /\ r.active \in BOOLEAN
    BY DEF RequestType
  <2> QED BY <1>1, <2>1, <2>2
<1>6. Goal
  <2>1. ASSUME NEW s \in Space, FoundsEmpty(s)
        PROVE  UNCHANGED <<members, audit>>
    BY <2>1 DEF FoundsEmpty
  <2>2. ASSUME UNCHANGED <<spaces, members, audit>>
        PROVE  Goal
    BY <1>2, <2>2
  <2>3. ASSUME NEW s \in Space, FoundsEmpty(s)
        PROVE  Goal
    BY <1>2, <2>1, <2>3
  <2> QED BY <1>3, <1>4, <1>5, <2>2, <2>3, MembershipSteps
<1> QED BY <1>6 DEF Goal

\* Save writes one membership, with the role and activity asked for.
Saved(s, a, role, active) ==
  /\ \A t \in Space, b \in Account : members'[t][b] # members[t][b] => t = s /\ b = a
  /\ members'[s][a] # None
  /\ members'[s][a].role = role /\ members'[s][a].active = active
  /\ members[s][a] = None =>
       members'[s][a] = [role |-> role, active |-> active, revision |-> 1]

LEMMA SavedCell ==
  ASSUME AInv, NEW s \in Space, NEW a \in Account, NEW role \in Role, NEW active \in BOOLEAN,
         Save(s, a, role, active)
  PROVE  Saved(s, a, role, active)
<1>1. PICK rec \in MemberType :
        /\ rec.role = role /\ rec.active = active
        /\ rec.revision = IF members[s][a] = None THEN 1 ELSE members[s][a].revision + 1
        /\ members' = [members EXCEPT ![s][a] = rec]
  BY SaveEffect DEF AInv
<1>2. members[s][a] = None => rec = [role |-> role, active |-> active, revision |-> 1]
  BY <1>1 DEF MemberType
<1>3. rec # None
  BY ConstantsAssumption
<1>4. \A t \in Space, b \in Account :
        members'[t][b] = IF t = s /\ b = a THEN rec ELSE members[t][b]
  BY <1>1 DEF AInv, TypeOK
<1> QED BY <1>1, <1>2, <1>3, <1>4 DEF Saved

LEMMA SpacesKept ==
  ASSUME AInv, [Next]_vars
  PROVE  /\ spaces' \in [Space -> SpaceType \union {None}]
         /\ UnbornEmpty' /\ GroupsKeepAnOwner' /\ PersonalSpacesFixed'
<1> DEFINE Goal == /\ spaces' \in [Space -> SpaceType \union {None}]
                   /\ UnbornEmpty' /\ GroupsKeepAnOwner' /\ PersonalSpacesFixed'
<1>0. /\ spaces \in [Space -> SpaceType \union {None}]
      /\ UnbornEmpty /\ GroupsKeepAnOwner /\ PersonalSpacesFixed
  BY DEF AInv, TypeOK
<1>c. /\ Company \in Space /\ spaces[Company] # None /\ spaces[Company].kind = "group"
      /\ None \notin SpaceType
  BY <1>0, ConstantsAssumption DEF UnbornEmpty, SpaceType, Actor
<1>1. CASE UNCHANGED <<spaces, members, audit>>
  BY <1>0, <1>1 DEF UnbornEmpty, GroupsKeepAnOwner, PersonalSpacesFixed, Member
<1>2. ASSUME NEW a \in Account, Joins(a)
      PROVE  Goal
  <2>1. /\ spaces' = spaces
        /\ \A t \in Space \ {Company}, b \in Account : members'[t][b] = members[t][b]
    <3>1. Save(Company, a, "editor", TRUE) /\ "editor" \in Role /\ spaces' = spaces
      BY <1>2 DEF Joins, Role
    <3>2. Saved(Company, a, "editor", TRUE)
      BY <1>c, <3>1, SavedCell
    <3> QED BY <3>1, <3>2 DEF Saved
  <2> QED BY <1>0, <1>c, <2>1 DEF UnbornEmpty, GroupsKeepAnOwner, PersonalSpacesFixed, Member
<1>3. ASSUME NEW s \in Space, NEW a \in Account, NEW kind \in {"personal", "group"},
             Founds(s, a, kind)
      PROVE  Goal
  <2>1. /\ spaces[s] = None /\ s # Company
        /\ \A b \in Account : members[s][b] = None
    BY <1>0, <1>3, <1>c DEF Founds, UnbornEmpty
  <2>2. PICK new \in SpaceType : new = [kind |-> kind, creator |-> a]
    BY DEF SpaceType, Actor
  <2>3. \A t \in Space : spaces'[t] = IF t = s THEN new ELSE spaces[t]
    BY <1>0, <1>3, <2>2 DEF Founds
  <2>s. Save(s, a, "owner", TRUE) /\ "owner" \in Role
    BY <1>3 DEF Founds, Role
  <2>w. Saved(s, a, "owner", TRUE)
    BY <2>s, SavedCell
  <2>4. \A t \in Space, b \in Account :
          members'[t][b] = IF t = s /\ b = a THEN [role |-> "owner", active |-> TRUE, revision |-> 1]
                           ELSE members[t][b]
    BY <2>1, <2>w DEF Saved
  <2>5. members'[s][a] # None /\ members'[s][a].role = "owner" /\ members'[s][a].active
    BY <2>w DEF Saved
  <2>6. spaces' \in [Space -> SpaceType \union {None}]
    BY <1>0, <1>3, <2>2 DEF Founds
  <2>7. UnbornEmpty'
    BY <1>0, <1>c, <2>1, <2>3, <2>4 DEF UnbornEmpty
  <2>8. GroupsKeepAnOwner'
    BY <1>0, <2>3, <2>4, <2>5 DEF GroupsKeepAnOwner, Member
  <2>9. PersonalSpacesFixed'
    <3>1. kind = "personal" => \A t \in Space : spaces[t] # new
      BY <1>3, <2>2 DEF Founds
    <3>2. new.kind = kind /\ new.creator = a
      BY <2>2
    <3>3. ASSUME NEW t \in Space, NEW u \in Space, spaces'[t] # None,
                 spaces'[t].kind = "personal", spaces'[u] = spaces'[t]
          PROVE  t = u
      BY <1>0, <2>3, <3>1, <3>2, <3>3 DEF PersonalSpacesFixed
    <3>4. ASSUME NEW t \in Space, spaces'[t] # None, spaces'[t].kind = "personal",
                 NEW b \in Account
          PROVE  members'[t][b] = IF b = spaces'[t].creator
                                  THEN [role |-> "owner", active |-> TRUE, revision |-> 1] ELSE None
      <4>1. CASE t = s
        BY <2>1, <2>3, <2>4, <3>2, <4>1
      <4>2. CASE t # s
        BY <1>0, <2>3, <2>4, <3>4, <4>2 DEF PersonalSpacesFixed
      <4> QED BY <4>1, <4>2
    <3> QED BY <3>3, <3>4 DEF PersonalSpacesFixed
  <2> QED BY <2>6, <2>7, <2>8, <2>9
<1>4. ASSUME NEW s \in Space, FoundsEmpty(s)
      PROVE  Goal
  <2>1. /\ spaces[s] = None /\ s # Company /\ members' = members
        /\ \A b \in Account : members[s][b] = None
    BY <1>0, <1>4, <1>c DEF FoundsEmpty, UnbornEmpty
  <2>2. PICK new \in SpaceType : new = [kind |-> "group", creator |-> Operator]
    BY DEF SpaceType, Actor
  <2>3. /\ spaces' \in [Space -> SpaceType \union {None}]
        /\ \A t \in Space : spaces'[t] = IF t = s THEN new ELSE spaces[t]
    BY <1>0, <1>4, <2>2 DEF FoundsEmpty
  <2>4. new.kind = "group"
    BY <2>2
  <2>5. UnbornEmpty'
    BY <1>0, <1>c, <2>1, <2>3 DEF UnbornEmpty
  <2>6. GroupsKeepAnOwner'
    BY <1>0, <2>1, <2>3 DEF GroupsKeepAnOwner, Member
  <2>7. PersonalSpacesFixed'
    BY <1>0, <2>1, <2>3, <2>4 DEF PersonalSpacesFixed
  <2> QED BY <2>3, <2>5, <2>6, <2>7
<1>5. ASSUME NEW x \in Actor, NEW r \in RequestType, Changes(x, r)
      PROVE  Goal
  <2>1. /\ r.space \in Space /\ r.account \in Account /\ r.role \in Role /\ r.active \in BOOLEAN
        /\ spaces[r.space] # None /\ spaces[r.space].kind = "group" /\ spaces' = spaces
        /\ Save(r.space, r.account, r.role, r.active)
        /\ r.space # Company => ActiveOwners(members'[r.space]) # {}
    BY <1>5 DEF Changes, PutMembership, RequestType
  <2>2. \A t \in Space \ {r.space}, b \in Account : members'[t][b] = members[t][b]
    <3>1. Saved(r.space, r.account, r.role, r.active)
      BY <2>1, SavedCell
    <3> QED BY <3>1 DEF Saved
  <2>3. UnbornEmpty'
    BY <1>0, <2>1, <2>2 DEF UnbornEmpty
  <2>4. PersonalSpacesFixed'
    BY <1>0, <2>1, <2>2 DEF PersonalSpacesFixed
  <2>5. r.space # Company =>
          \E b \in Account : members'[r.space][b] # None /\ members'[r.space][b].role = "owner"
                              /\ members'[r.space][b].active
    BY <2>1 DEF ActiveOwners
  <2>6. GroupsKeepAnOwner'
    BY <1>0, <2>1, <2>2, <2>5 DEF GroupsKeepAnOwner, Member
  <2> QED BY <1>0, <2>1, <2>3, <2>4, <2>6
<1> HIDE DEF Goal
<1>6. Goal
  BY <1>2, <1>3, <1>4, <1>5, <1>1, MembershipSteps, <1>0 DEF Goal
<1> QED BY <1>6 DEF Goal

-----------------------------------------------------------------------------
(* Requests, writes and sessions.                                             *)

LEMMA RequestsKept ==
  ASSUME AInv, [Next]_vars
  PROVE  /\ requests' \in [Actor -> RequestType \union {None}]
         /\ RequestsAudited' /\ OperatorAsks'
<1> DEFINE Goal == /\ requests' \in [Actor -> RequestType \union {None}]
                   /\ RequestsAudited' /\ OperatorAsks'
<1>0. /\ TypeOK /\ RequestsAudited /\ OperatorAsks /\ AuditComplete
      /\ audit \subseteq audit' /\ Operator \in Actor
  BY AuditKept DEF AInv, Actor
<1>1. ASSUME NEW x \in Actor, Answered(x)
      PROVE  Goal
  BY <1>0, <1>1, ConstantsAssumption DEF Answered, TypeOK, RequestsAudited, OperatorAsks
<1>2. ASSUME NEW x \in Actor, NEW kind \in Kind, NEW s \in Space, NEW a \in Account,
             NEW role \in Role, NEW active \in BOOLEAN,
             x = Operator => kind \in {"group", "member"},
             LetIn(x, Asks(kind, s, a, role, active))
      PROVE  Goal
  <2>1. PICK r : r = Asks(kind, s, a, role, active)
    OBVIOUS
  <2>2. /\ r \in RequestType /\ r.kind = kind /\ r.space = s /\ r.account = a
        /\ r.seen = members[s][a]
    BY <1>0, <2>1 DEF Asks, RequestType, TypeOK
  <2>3. r.seen # None => [space |-> r.space, account |-> r.account, record |-> r.seen] \in audit'
    BY <1>0, <2>2, RowsNumbered
  <2>4. /\ requests' \in [Actor -> RequestType \union {None}]
        /\ \A y \in Actor : requests'[y] = IF y = x THEN r ELSE requests[y]
    BY <1>0, <1>2, <2>1, <2>2 DEF LetIn, TypeOK
  <2>5. RequestsAudited'
    BY <1>0, <2>3, <2>4 DEF RequestsAudited
  <2>6. OperatorAsks'
    BY <1>0, <1>2, <2>2, <2>4 DEF OperatorAsks
  <2> QED BY <2>4, <2>5, <2>6
<1>3. ASSUME requests' = requests
      PROVE  Goal
  BY <1>0, <1>3 DEF TypeOK, RequestsAudited, OperatorAsks
<1> HIDE DEF Goal
<1>4. ASSUME NEW t \in tokens, NEW kind \in Operation, NEW s \in Space, NEW a \in Account,
             NEW role \in Role, NEW b \in BOOLEAN, UserRequest(t, kind, s, a, role, b)
      PROVE  Goal
  <2>1. /\ t.account \in Actor /\ t.account # Operator /\ kind \in Kind
        /\ LetIn(t.account, Asks(kind, s, a, role, b))
    BY <1>0, <1>4, ConstantsAssumption DEF UserRequest, Actor, TypeOK
  <2> QED BY <1>2, <2>1
<1>5. ASSUME NEW kind \in Operation, NEW s \in Space, NEW a \in Account,
             NEW role \in Role, NEW b \in BOOLEAN, OperatorRequest(kind, s, a, role, b)
      PROVE  Goal
  <2>1. kind \in Kind /\ kind \in {"group", "member"} /\ LetIn(Operator, Asks(kind, s, a, role, b))
    BY <1>5, ConstantsAssumption DEF OperatorRequest
  <2> QED BY <1>0, <1>2, <2>1
<1>6. ASSUME NEW x \in Actor, Handle(x) \/ Decline(x)
      PROVE  Goal
  <2>1. Answered(x)
    BY <1>6 DEF Handle, Decline
  <2> QED BY <1>1, <2>1
<1>7. ASSUME NEW a \in Account, \/ \E d \in BOOLEAN : CreateUser(a, d) \/ SetDisabled(a, d)
                               \/ BeginLogin(a) \/ EndLogin(a)
      PROVE  Goal
  <2>1. requests' = requests
    BY <1>7 DEF CreateUser, SetDisabled, BeginLogin, EndLogin
  <2> QED BY <1>3, <2>1
<1>8. ASSUME vars' = vars
      PROVE  Goal
  BY <1>3, <1>8 DEF vars
<1>9. Goal
  BY <1>4, <1>5, <1>6, <1>7, <1>8 DEF Next
<1> QED BY <1>9 DEF Goal

LEMMA WritesKept ==
  ASSUME AInv, [Next]_vars
  PROVE  writes' \subseteq [account: Account, space: Space, record: MemberType] /\ WritesAuthorised'
<1>0. TypeOK /\ AuditComplete /\ WritesAuthorised /\ OperatorAsks /\ audit \subseteq audit'
  BY AuditKept DEF AInv
<1>1. CASE writes' = writes
  BY <1>0, <1>1 DEF TypeOK, WritesAuthorised
<1>2. ASSUME NEW x \in Actor, NEW r, r = requests[x], r # None, r.kind = "write", Write(x, r)
      PROVE  writes' \subseteq [account: Account, space: Space, record: MemberType] /\ WritesAuthorised'
  <2>1. x \in Account /\ r.space \in Space
    BY <1>0, <1>2 DEF TypeOK, RequestType, OperatorAsks, Actor
  <2>2. PICK rec : rec = members[r.space][x]
    OBVIOUS
  <2>3. /\ rec # None /\ rec.active /\ rec.role \in WriteRole /\ rec \in MemberType
        /\ [space |-> r.space, account |-> x, record |-> rec] \in audit
    BY <1>0, <1>2, <2>1, <2>2, RowsNumbered DEF Write, Writer, Member, TypeOK
  <2>4. PICK w : w = [account |-> x, space |-> r.space, record |-> rec]
    OBVIOUS
  <2>5. /\ w \in [account: Account, space: Space, record: MemberType]
        /\ w.account = x /\ w.space = r.space /\ w.record = rec
        /\ writes' = writes \union {w}
    BY <1>2, <2>1, <2>2, <2>3, <2>4 DEF Write
  <2> QED BY <1>0, <2>3, <2>5 DEF TypeOK, WritesAuthorised
<1>3. ASSUME NEW x \in Actor, Handle(x)
      PROVE  writes' = writes \/ \E r : r = requests[x] /\ r # None /\ r.kind = "write" /\ Write(x, r)
  BY <1>3 DEF Handle
<1>4. \/ writes' = writes
      \/ \E x \in Actor : Handle(x)
  BY DEF Next, vars, CreateUser, SetDisabled, BeginLogin, EndLogin, UserRequest, OperatorRequest,
         LetIn, Decline
<1> QED BY <1>1, <1>2, <1>3, <1>4

LEMMA SessionsKept ==
  ASSUME AInv, [Next]_vars
  PROVE  /\ users' \in [Account -> UserType \union {None}]
         /\ logins' \in [Account -> UserType \union {None}]
         /\ tokens' \subseteq [account: Account, key: 1..MaxKey]
         /\ SessionsSound'
<1>0. /\ users \in [Account -> UserType \union {None}]
      /\ logins \in [Account -> UserType \union {None}]
      /\ tokens \subseteq [account: Account, key: 1..MaxKey]
      /\ SessionsSound /\ MaxKey \in Nat \ {0} /\ None \notin UserType
  BY ConstantsAssumption DEF AInv, TypeOK
<1>k. \A u \in UserType : u.key \in Nat
  BY DEF UserType
<1>1. ASSUME NEW a \in Account, NEW new \in UserType, users' = [users EXCEPT ![a] = new],
             users[a] # None => users[a].key < new.key, UNCHANGED <<logins, tokens>>
      PROVE  /\ users' \in [Account -> UserType \union {None}] /\ SessionsSound'
             /\ logins' = logins /\ tokens' = tokens
  <2>1. /\ users' \in [Account -> UserType \union {None}]
        /\ \A b \in Account : users'[b] = IF b = a THEN new ELSE users[b]
    BY <1>0, <1>1
  <2>2. ASSUME NEW t \in tokens
        PROVE  users'[t.account] # None /\ t.key <= users'[t.account].key
    <3>1. t.account \in Account /\ t.key \in Nat
      BY <1>0
    <3>2. users[t.account] \in UserType /\ t.key <= users[t.account].key
      BY <1>0, <3>1 DEF SessionsSound
    <3> QED BY <1>0, <1>1, <1>k, <2>1, <3>1, <3>2
  <2>3. ASSUME NEW b \in Account, logins[b] # None
        PROVE  /\ users'[b] # None /\ logins[b].key <= users'[b].key
               /\ logins[b].key = users'[b].key => logins[b] = users'[b]
    <3>1. users[b] \in UserType /\ logins[b] \in UserType /\ logins[b].key <= users[b].key
      BY <1>0, <2>3 DEF SessionsSound
    <3>2. CASE b = a
      BY <1>0, <1>1, <1>k, <2>1, <3>1, <3>2
    <3>3. CASE b # a
      BY <1>0, <2>1, <2>3, <3>3 DEF SessionsSound
    <3> QED BY <3>2, <3>3
  <2> QED BY <1>1, <2>1, <2>2, <2>3 DEF SessionsSound
<1>2. ASSUME NEW a \in Account, NEW d \in BOOLEAN, CreateUser(a, d)
      PROVE  \E new \in UserType :
               /\ users' = [users EXCEPT ![a] = new] /\ UNCHANGED <<logins, tokens>>
               /\ users[a] # None => users[a].key < new.key
  <2>1. [disabled |-> d, key |-> 1] \in UserType
    BY <1>0 DEF UserType
  <2> QED BY <1>2, <2>1 DEF CreateUser
<1>3. ASSUME NEW a \in Account, NEW d \in BOOLEAN, SetDisabled(a, d)
      PROVE  \E new \in UserType :
               /\ users' = [users EXCEPT ![a] = new] /\ UNCHANGED <<logins, tokens>>
               /\ users[a] # None => users[a].key < new.key
  <2>1. users[a] \in UserType /\ users[a].key < MaxKey
    BY <1>0, <1>3 DEF SetDisabled
  <2>2. PICK new : new = [disabled |-> d, key |-> users[a].key + 1]
    OBVIOUS
  <2>3. new \in UserType /\ users[a].key < new.key
    BY <1>0, <2>1, <2>2 DEF UserType
  <2>4. users' = [users EXCEPT ![a] = new] /\ UNCHANGED <<logins, tokens>>
    BY <1>3, <2>2 DEF SetDisabled
  <2> QED BY <2>3, <2>4
<1>4. ASSUME NEW a \in Account, BeginLogin(a)
      PROVE  logins' \in [Account -> UserType \union {None}] /\ SessionsSound'
             /\ users' = users /\ tokens' = tokens
  <2>1. /\ users' = users /\ tokens' = tokens /\ users[a] \in UserType
        /\ logins' \in [Account -> UserType \union {None}]
        /\ \A b \in Account : logins'[b] = IF b = a THEN users[a] ELSE logins[b]
    BY <1>0, <1>4 DEF BeginLogin
  <2> QED BY <1>0, <1>k, <2>1 DEF SessionsSound
<1>5. ASSUME NEW a \in Account, EndLogin(a)
      PROVE  /\ logins' \in [Account -> UserType \union {None}] /\ SessionsSound'
             /\ tokens' \subseteq [account: Account, key: 1..MaxKey] /\ users' = users
  <2>1. /\ users' = users /\ logins[a] \in UserType /\ logins[a].key \in 1..MaxKey
        /\ logins' \in [Account -> UserType \union {None}]
        /\ \A b \in Account : logins'[b] = IF b = a THEN None ELSE logins[b]
    BY <1>0, <1>5 DEF EndLogin, UserType
  <2>2. PICK t : t = [account |-> a, key |-> logins[a].key]
    OBVIOUS
  <2>3. /\ t \in [account: Account, key: 1..MaxKey] /\ t.account = a /\ t.key = logins[a].key
        /\ tokens' \subseteq tokens \union {t}
    BY <1>5, <2>1, <2>2 DEF EndLogin
  <2>4. users[a] # None /\ logins[a].key <= users[a].key
    BY <1>0, <2>1 DEF SessionsSound
  <2> QED BY <1>0, <2>1, <2>3, <2>4 DEF SessionsSound
<1>6. CASE UNCHANGED <<users, logins, tokens>>
  BY <1>0, <1>6 DEF SessionsSound
<1>7. \/ \E a \in Account, d \in BOOLEAN : CreateUser(a, d) \/ SetDisabled(a, d)
      \/ \E a \in Account : BeginLogin(a) \/ EndLogin(a)
      \/ UNCHANGED <<users, logins, tokens>>
  <2>1. ASSUME NEW x, NEW request, LetIn(x, request)
        PROVE  UNCHANGED <<users, logins, tokens>>
    BY <2>1 DEF LetIn
  <2>2. ASSUME NEW x \in Actor, Handle(x) \/ Decline(x)
        PROVE  UNCHANGED <<users, logins, tokens>>
    BY <2>2 DEF Handle, Decline
  <2>3. CASE vars' = vars
    BY <2>3 DEF vars
  <2> QED BY <2>1, <2>2, <2>3 DEF Next, UserRequest, OperatorRequest
<1>8. CASE \E a \in Account, d \in BOOLEAN : CreateUser(a, d) \/ SetDisabled(a, d)
  <2>1. PICK a \in Account, new \in UserType :
          /\ users' = [users EXCEPT ![a] = new] /\ UNCHANGED <<logins, tokens>>
          /\ users[a] # None => users[a].key < new.key
    BY <1>2, <1>3, <1>8
  <2> QED BY <1>0, <1>1, <2>1
<1>9. CASE \E a \in Account : BeginLogin(a) \/ EndLogin(a)
  BY <1>0, <1>4, <1>5, <1>9
<1> QED BY <1>6, <1>7, <1>8, <1>9

-----------------------------------------------------------------------------

LEMMA InvariantHolds == Spec => []AInv
<1>1. Init => AInv
  <2> SUFFICES ASSUME Init
               PROVE  AInv
    OBVIOUS
  <2>1. [kind |-> "group", creator |-> Operator] \in SpaceType
    BY DEF SpaceType, Actor
  <2>2. TypeOK
    BY <2>1 DEF Init, TypeOK
  <2>3. UnbornEmpty /\ GroupsKeepAnOwner /\ WritesAuthorised
    BY <2>1, ConstantsAssumption DEF Init, UnbornEmpty, GroupsKeepAnOwner, WritesAuthorised
  <2>4. PersonalSpacesFixed
    BY <2>1 DEF Init, PersonalSpacesFixed
  <2>5. AuditComplete
    BY DEF Init, AuditComplete
  <2>6. AuditUnique /\ RequestsAudited /\ OperatorAsks /\ SessionsSound
    BY DEF Init, AuditUnique, RequestsAudited, OperatorAsks, SessionsSound, Actor
  <2>7. IsFiniteSet(audit)
    BY FS_EmptySet DEF Init
  <2> QED BY <2>2, <2>3, <2>4, <2>5, <2>6, <2>7 DEF AInv
<1>2. AInv /\ [Next]_vars => AInv'
  <2> SUFFICES ASSUME AInv, [Next]_vars
               PROVE  AInv'
    OBVIOUS
  <2>1. TypeOK'
    BY AuditKept, SpacesKept, RequestsKept, WritesKept, SessionsKept DEF TypeOK, RowType
  <2> QED BY <2>1, AuditKept, SpacesKept, RequestsKept, WritesKept, SessionsKept DEF AInv
<1> QED BY <1>1, <1>2, PTL DEF Spec

\* Accounts, spaces, memberships and sessions keep their shapes, and the revision of a
\* membership never outgrows the audit log that bounds it.
THEOREM AccessTypes == Spec => []TypeOK
<1>1. AInv => TypeOK
  BY DEF AInv
<1> QED BY <1>1, InvariantHolds, PTL

\* No sequence of concurrent membership changes leaves a group without an active owner.
THEOREM OwnersRemain == Spec => []GroupsKeepAnOwner
<1>1. AInv => GroupsKeepAnOwner
  BY DEF AInv
<1> QED BY <1>1, InvariantHolds, PTL

\* An account has one personal space at most, and nobody else ever joins it.
THEOREM PersonalStaysPersonal == Spec => []PersonalSpacesFixed
<1>1. AInv => PersonalSpacesFixed
  BY DEF AInv
<1> QED BY <1>1, InvariantHolds, PTL

\* The audit log holds one row for each revision a membership ever had.
THEOREM AuditTellsAll == Spec => []AuditComplete
<1>1. AInv => AuditComplete
  BY DEF AInv
<1> QED BY <1>1, InvariantHolds, PTL

\* A domain write commits under a membership that allows it at that moment.
THEOREM WritesAreAuthorised == Spec => []WritesAuthorised
<1>1. AInv => WritesAuthorised
  BY DEF AInv
<1> QED BY <1>1, InvariantHolds, PTL

\* A membership that exists is replaced only by a request whose sender had read it: the
\* code compares revision numbers, the audit log makes that comparison enough.
THEOREM ChangedAsSeen == Spec => MembershipsChangedAsSeen
<1> DEFINE Seen == \A s \in Space, a \in Account :
                     members[s][a] # None /\ members'[s][a] # members[s][a] =>
                       \E x \in Actor :
                         /\ requests[x] # None /\ requests[x].kind = "member"
                         /\ requests[x].space = s /\ requests[x].account = a
                         /\ requests[x].seen = members[s][a]
<1>1. ASSUME AInv, [Next]_vars, NEW s \in Space, NEW a \in Account,
             members[s][a] # None, members'[s][a] # members[s][a]
      PROVE  \E x \in Actor :
               /\ requests[x] # None /\ requests[x].kind = "member"
               /\ requests[x].space = s /\ requests[x].account = a
               /\ requests[x].seen = members[s][a]
  <2>1. ~ \E b \in Account : Joins(b)
    <3> SUFFICES ASSUME NEW b \in Account, Joins(b)
                 PROVE  FALSE
      OBVIOUS
    <3>1. /\ Save(Company, b, "editor", TRUE) /\ "editor" \in Role /\ Company \in Space
          /\ members[Company][b] = None
      BY ConstantsAssumption DEF Joins, Role
    <3>2. Saved(Company, b, "editor", TRUE)
      BY <1>1, <3>1, SavedCell
    <3> QED BY <1>1, <3>1, <3>2 DEF Saved
  <2>2. ~ \E t \in Space, b \in Account, kind \in {"personal", "group"} : Founds(t, b, kind)
    <3> SUFFICES ASSUME NEW t \in Space, NEW b \in Account, NEW kind \in {"personal", "group"},
                        Founds(t, b, kind)
                 PROVE  FALSE
      OBVIOUS
    <3>1. Save(t, b, "owner", TRUE) /\ "owner" \in Role /\ members[t][b] = None
      BY <1>1 DEF Founds, Role, AInv, UnbornEmpty
    <3>2. Saved(t, b, "owner", TRUE)
      BY <1>1, <3>1, SavedCell
    <3> QED BY <1>1, <3>1, <3>2 DEF Saved
  <2>3. PICK x \in Actor, r \in RequestType : Changes(x, r)
    BY <1>1, <2>1, <2>2, MembershipSteps DEF FoundsEmpty
  <2>4. /\ r = requests[x] /\ r # None /\ r.kind = "member"
        /\ r.space \in Space /\ r.account \in Account /\ r.role \in Role /\ r.active \in BOOLEAN
        /\ Save(r.space, r.account, r.role, r.active)
        /\ UnchangedSince(r.space, r.account, r.seen)
    BY <2>3 DEF Changes, PutMembership, RequestType
  <2>5. Saved(r.space, r.account, r.role, r.active)
    BY <1>1, <2>4, SavedCell
  <2>6. r.space = s /\ r.account = a
    BY <1>1, <2>5 DEF Saved
  <2>7. r.seen # None /\ r.seen.revision = members[s][a].revision
    BY <1>1, <2>4, <2>6 DEF UnchangedSince
  <2>8. r.seen = members[s][a]
    <3>1. PICK row1 : row1 = [space |-> s, account |-> a, record |-> r.seen]
      OBVIOUS
    <3>2. PICK row2 : row2 = [space |-> s, account |-> a, record |-> members[s][a]]
      OBVIOUS
    <3>3. row1 \in audit
      BY <1>1, <2>4, <2>6, <2>7, <3>1 DEF AInv, RequestsAudited
    <3>4. row2 \in audit
      BY <1>1, <3>2, RowsNumbered DEF AInv
    <3>5. row1 = row2
      BY <1>1, <2>7, <3>1, <3>2, <3>3, <3>4 DEF AInv, AuditUnique
    <3> QED BY <3>1, <3>2, <3>5
  <2> QED BY <2>4, <2>6, <2>8
<1>2. AInv /\ [Next]_vars => Seen
  BY <1>1
<1>3. AInv /\ [Next]_vars => [Seen]_vars
  BY <1>2
<1> QED BY <1>3, InvariantHolds, PTL DEF Spec, MembershipsChangedAsSeen

\* Disabling an account ends its sessions for good, those included that a sign-in under
\* way has yet to issue.
THEOREM SessionsStayRevoked == Spec => RevokedSessionsStayRevoked
<1>1. ASSUME AInv, [Next]_vars, NEW t \in tokens, ~ Accepted(t)
      PROVE  ~ Accepted(t)'
  <2>1. /\ t.account \in Account /\ t.key \in Nat /\ users[t.account] \in UserType
        /\ t.key <= users[t.account].key /\ users[t.account].key \in Nat
        /\ users \in [Account -> UserType \union {None}]
    BY <1>1 DEF AInv, TypeOK, SessionsSound, UserType
  <2>2. ASSUME NEW a \in Account, NEW d \in BOOLEAN, CreateUser(a, d)
        PROVE  users'[t.account] = users[t.account]
    BY <2>1, <2>2, ConstantsAssumption DEF CreateUser
  <2>3. ASSUME NEW a \in Account, NEW d \in BOOLEAN, SetDisabled(a, d), a = t.account
        PROVE  users'[t.account].key = users[t.account].key + 1
    BY <2>1, <2>3 DEF SetDisabled
  <2>4. ASSUME NEW a \in Account, NEW d \in BOOLEAN, SetDisabled(a, d), a # t.account
        PROVE  users'[t.account] = users[t.account]
    BY <2>1, <2>4 DEF SetDisabled
  <2>5. \/ users' = users
        \/ \E a \in Account, d \in BOOLEAN : CreateUser(a, d) \/ SetDisabled(a, d)
    BY <1>1 DEF Next, vars, BeginLogin, EndLogin, UserRequest, OperatorRequest, LetIn, Handle, Decline
  <2>6. \/ users'[t.account] = users[t.account]
        \/ users'[t.account].key = users[t.account].key + 1
    BY <2>2, <2>3, <2>4, <2>5
  <2> QED BY <1>1, <2>1, <2>6 DEF Accepted
<1>2. ASSUME AInv, [Next]_vars, NEW t \in tokens' \ tokens, Accepted(t)'
      PROVE  logins[t.account] = users[t.account]
  <2>1. PICK a \in Account : EndLogin(a)
    BY <1>2 DEF Next, vars, CreateUser, SetDisabled, BeginLogin, UserRequest, OperatorRequest,
                LetIn, Handle, Decline
  <2>2. t = [account |-> a, key |-> logins[a].key] /\ logins[a] # None /\ users' = users
    BY <1>2, <2>1 DEF EndLogin
  <2>3. users[a].key = logins[a].key
    BY <1>2, <2>2 DEF Accepted
  <2> QED BY <1>2, <2>2, <2>3 DEF AInv, SessionsSound
<1>3. AInv /\ [Next]_vars =>
        [/\ \A t \in tokens : ~ Accepted(t) => ~ Accepted(t)'
         /\ \A t \in tokens' \ tokens : Accepted(t)' => logins[t.account] = users[t.account]]_vars
  BY <1>1, <1>2
<1> QED BY <1>3, InvariantHolds, PTL DEF Spec, RevokedSessionsStayRevoked

===============================================================================
