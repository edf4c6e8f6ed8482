-------------------------------- MODULE Access --------------------------------
(***************************************************************************)
(* Who may do what: accounts and their sessions                            *)
(* (src/pb_hooks/account_access.js), spaces and memberships                *)
(* (src/pb_hooks/spaces.js), and the membership check that every domain    *)
(* write makes in its own transaction (integrity.js, write and scope).     *)
(*                                                                         *)
(* A request of a user is let in by a middleware that looks at the account *)
(* as it is then; its handler runs later, in a transaction of its own, and *)
(* looks at spaces and memberships as they are by that time.  In between,  *)
(* operators disable accounts and owners revoke memberships.  Operators    *)
(* are superusers: the middleware and the membership checks of an actor do *)
(* not concern them.                                                       *)
(*                                                                         *)
(* Users create group spaces and change memberships through the functions  *)
(* that spaces.js calls the reviewed enablement path; its routes offer     *)
(* them to operators only so far.  The database is new: no account was     *)
(* there before the migration that made the company space.                 *)
(***************************************************************************)
EXTENDS Integers, FiniteSets

CONSTANTS
  Account,      \* user accounts
  Space,        \* space identities
  Company,      \* the company space, which the migration creates
  Operator,     \* the operators, acting through superuser requests
  Operation,    \* kinds of requests made, a subset of Kind
  Asked,        \* roles that membership requests ask for, a subset of Role
  Managed,      \* spaces that membership requests name
  MaxKey,       \* bound on the token keys of an account
  MaxChanges,   \* bound on the membership changes
  MaxWrites,    \* bound on the domain writes remembered
  MaxPending,   \* bound on the requests under way at the same time
  None

Actor == Account \union {Operator}
Kind == {"personal", "group", "member", "write"}
Role == {"owner", "editor", "reader"}
WriteRole == {"owner", "editor"}

UserType == [disabled: BOOLEAN, key: 1..MaxKey]

SpaceType == [kind: {"personal", "group"}, creator: Actor]

MemberType == [role: Role, active: BOOLEAN, revision: 1..MaxChanges]

\* A request let in: "seen" is the membership record its sender had read.
RequestType ==
  [kind: Kind, space: Space, account: Account, role: Role, active: BOOLEAN,
   seen: MemberType \union {None}]

ASSUME ConstantsAssumption ==
  /\ Company \in Space /\ Operator \notin Account
  /\ Operation \subseteq Kind /\ Asked \subseteq Role /\ Managed \subseteq Space
  /\ MaxKey \in Nat \ {0} /\ MaxChanges \in Nat \ {0} /\ MaxWrites \in Nat
  /\ MaxPending \in Nat \ {0}
  /\ None \notin Actor \union Space
  /\ None \notin UserType \union SpaceType \union MemberType \union RequestType

VARIABLES
  users,      \* users[a]: the account's disabled flag and token key, None before creation
  spaces,     \* spaces[s]: kind and creator of space s, None before creation
  members,    \* members[s][a]: the membership record of a in s, or None
  audit,      \* the audit rows of membership changes
  logins,     \* logins[a]: the account record a sign-in in progress has read, or None
  tokens,     \* session tokens issued so far
  requests,   \* requests[x]: the request of actor x that was let in, or None
  writes      \* the domain writes committed: author, space and the author's revision there

vars == <<users, spaces, members, audit, logins, tokens, requests, writes>>

TypeOK ==
  /\ users \in [Account -> UserType \union {None}]
  /\ spaces \in [Space -> SpaceType \union {None}]
  /\ members \in [Space -> [Account -> MemberType \union {None}]]
  /\ audit \subseteq [space: Space, account: Account, record: MemberType]
  /\ logins \in [Account -> UserType \union {None}]
  /\ tokens \subseteq [account: Account, key: 1..MaxKey]
  /\ requests \in [Actor -> RequestType \union {None}]
  /\ writes \subseteq [account: Account, space: Space, record: MemberType]

Init ==
  /\ users = [a \in Account |-> None]
  /\ spaces = [s \in Space |->
       IF s = Company THEN [kind |-> "group", creator |-> Operator] ELSE None]
  /\ members = [s \in Space |-> [a \in Account |-> None]]
  /\ audit = {}
  /\ logins = [a \in Account |-> None]
  /\ tokens = {}
  /\ requests = [x \in Actor |-> None]
  /\ writes = {}

-----------------------------------------------------------------------------
(* spaces.js: reading memberships, and saving one with its audit row. *)

ActiveUser(a) == users[a] # None /\ ~ users[a].disabled

Member(s, a) == members[s][a] # None /\ members[s][a].active

Writer(s, a) == Member(s, a) /\ members[s][a].role \in WriteRole

\* Mutant: any owner counts, active or not.
ActiveOwnersAny(m) == {a \in Account : m[a] # None /\ m[a].role = "owner"}

ActiveOwners(m) == {a \in Account : m[a] # None /\ m[a].role = "owner" /\ m[a].active}

\* Mutant: only updates are audited.
AuditedUpdates(s, a, record) ==
  audit' = audit \union
    (IF record.revision = 1 THEN {} ELSE {[space |-> s, account |-> a, record |-> record]})

Audited(s, a, record) ==
  audit' = audit \union {[space |-> s, account |-> a, record |-> record]}

\* Save the membership with its next revision number.
Save(s, a, role, active) ==
  LET old == members[s][a]
      record == [role |-> role, active |-> active,
                 revision |-> IF old = None THEN 1 ELSE old.revision + 1]
  IN /\ Cardinality(audit) < MaxChanges
     /\ members' = [members EXCEPT ![s][a] = record]
     /\ Audited(s, a, record)

\* Mutant: the revision the caller read is not compared.
UnchangedSinceAny(s, a, seen) == TRUE

\* expected_revision, or no revision while there was no record: 409 otherwise.
UnchangedSince(s, a, seen) ==
  IF members[s][a] = None THEN seen = None
  ELSE seen # None /\ seen.revision = members[s][a].revision

\* Mutant: personal spaces are not exempt.
PutMembershipAnywhere(x, s, a, role, active, seen) ==
  /\ x # Operator => Member(s, x) /\ members[s][x].role = "owner"
  /\ UnchangedSince(s, a, seen)
  /\ users[a] # None
  /\ active => ActiveUser(a)
  /\ Save(s, a, role, active)
  /\ s # Company => ActiveOwners(members'[s]) # {}

PutMembership(x, s, a, role, active, seen) ==
  /\ spaces[s].kind = "group"
  /\ x # Operator => Member(s, x) /\ members[s][x].role = "owner"
  /\ UnchangedSince(s, a, seen)
  /\ users[a] # None
  /\ active => ActiveUser(a)
  /\ Save(s, a, role, active)
  /\ s # Company => ActiveOwners(members'[s]) # {}

-----------------------------------------------------------------------------
(* Accounts and sessions. *)

\* Creation by an operator or by a first Google sign-in; an enabled account joins the
\* company in the same transaction (admitRequest, admitCompany).
CreateUser(a, disabled) ==
  /\ users[a] = None
  /\ users' = [users EXCEPT ![a] = [disabled |-> disabled, key |-> 1]]
  /\ IF disabled \/ members[Company][a] # None THEN UNCHANGED <<members, audit>>
                                               ELSE Save(Company, a, "editor", TRUE)
  /\ UNCHANGED <<spaces, logins, tokens, requests, writes>>

\* Mutant: the token key survives.
SetDisabledOnly(a, disabled) ==
  /\ users[a] # None
  /\ users[a].disabled # disabled
  /\ users' = [users EXCEPT ![a].disabled = disabled]
  /\ UNCHANGED <<spaces, members, audit, logins, tokens, requests, writes>>

\* Disabling and enabling both replace the token key.
SetDisabled(a, disabled) ==
  /\ users[a] # None
  /\ users[a].disabled # disabled
  /\ users[a].key < MaxKey
  /\ users' = [users EXCEPT ![a] = [disabled |-> disabled, key |-> @.key + 1]]
  /\ UNCHANGED <<spaces, members, audit, logins, tokens, requests, writes>>

\* A sign-in or a token refresh loads the account record (one that would issue a token
\* like one issued before is left out: it changes nothing) ...
BeginLogin(a) ==
  /\ users[a] # None
  /\ logins[a] = None
  /\ [account |-> a, key |-> users[a].key] \notin tokens
  /\ logins' = [logins EXCEPT ![a] = users[a]]
  /\ UNCHANGED <<users, spaces, members, audit, tokens, requests, writes>>

\* ... and issues a token for the key of that record, unless it says disabled.
EndLogin(a) ==
  /\ logins[a] # None
  /\ tokens' = tokens \union
       (IF logins[a].disabled THEN {} ELSE {[account |-> a, key |-> logins[a].key]})
  /\ logins' = [logins EXCEPT ![a] = None]
  /\ UNCHANGED <<users, spaces, members, audit, requests, writes>>

\* The middleware's test, made again for every realtime message.
Accepted(token) ==
  users[token.account].key = token.key /\ ~ users[token.account].disabled

-----------------------------------------------------------------------------
(* Requests. *)

LetIn(x, request) ==
  /\ requests[x] = None
  /\ Cardinality({y \in Actor : requests[y] # None}) < MaxPending
  /\ requests' = [requests EXCEPT ![x] = request]
  /\ UNCHANGED <<users, spaces, members, audit, logins, tokens, writes>>

\* What x may ask for; memberships are asked for by somebody who just read them.
Asks(kind, s, a, role, active) ==
  [kind |-> kind, space |-> s, account |-> a, role |-> role, active |-> active,
   seen |-> members[s][a]]

\* User requests that take no arguments are about the user.
UserRequest(token, kind, s, a, role, active) ==
  /\ Accepted(token)
  /\ kind = "write" => spaces[s] # None /\ a = token.account
  /\ kind \in {"personal", "group"} => s = Company /\ a = token.account
  /\ IF kind = "member" THEN role \in Asked /\ s \in Managed ELSE role = "owner" /\ active
  /\ LetIn(token.account, Asks(kind, s, a, role, active))

OperatorRequest(kind, s, a, role, active) ==
  /\ kind \in {"group", "member"}
  /\ IF kind = "member" THEN role \in Asked /\ s \in Managed ELSE s = Company /\ role = "owner" /\ active
  /\ LetIn(Operator, Asks(kind, s, a, role, active))

Answered(x) == requests' = [requests EXCEPT ![x] = None]

\* The first call creates the account's space and its one membership; a later one finds
\* them (and a unique index of the database stands behind that).
EnsurePersonal(a, s) ==
  /\ ActiveUser(a)
  /\ \A t \in Space : spaces[t] # [kind |-> "personal", creator |-> a]
  /\ spaces[s] = None
  /\ spaces' = [spaces EXCEPT ![s] = [kind |-> "personal", creator |-> a]]
  /\ Save(s, a, "owner", TRUE)

\* A user's new group space has its creator as owner, an operator's has no member yet.
CreateGroup(x, s) ==
  /\ spaces[s] = None
  /\ spaces' = [spaces EXCEPT ![s] = [kind |-> "group", creator |-> x]]
  /\ IF x = Operator THEN UNCHANGED <<members, audit>>
                     ELSE ActiveUser(x) /\ Save(s, x, "owner", TRUE)

SetMembership(x, r) ==
  /\ spaces[r.space] # None
  /\ x # Operator => ActiveUser(x)
  /\ PutMembership(x, r.space, r.account, r.role, r.active, r.seen)
  /\ UNCHANGED spaces

\* Mutant: the membership is the one the sender had when the request was let in.
WriteAsSeen(a, r) ==
  /\ r.seen # None /\ r.seen.active /\ r.seen.role \in WriteRole
  /\ Cardinality(writes) < MaxWrites
  /\ writes' = writes \union {[account |-> a, space |-> r.space, record |-> members[r.space][a]]}

\* A domain write commits only for an active owner or editor of its space, by the
\* membership as it is inside the transaction.
Write(a, r) ==
  /\ Writer(r.space, a)
  /\ Cardinality(writes) < MaxWrites
  /\ writes' = writes \union {[account |-> a, space |-> r.space, record |-> members[r.space][a]]}

Handle(x) ==
  /\ requests[x] # None
  /\ LET r == requests[x] IN
     \/ /\ r.kind = "personal"
        /\ \E s \in Space : EnsurePersonal(x, s)
        /\ UNCHANGED writes
     \/ /\ r.kind = "group"
        /\ \E s \in Space : CreateGroup(x, s)
        /\ UNCHANGED writes
     \/ /\ r.kind = "member"
        /\ SetMembership(x, r)
        /\ UNCHANGED writes
     \/ /\ r.kind = "write"
        /\ Write(x, r)
        /\ UNCHANGED <<spaces, members, audit>>
  /\ Answered(x)
  /\ UNCHANGED <<users, logins, tokens>>

\* The transaction is refused and rolled back, or finds nothing to do.
Decline(x) ==
  /\ requests[x] # None
  /\ Answered(x)
  /\ UNCHANGED <<users, spaces, members, audit, logins, tokens, writes>>

Next ==
  \/ \E a \in Account, d \in BOOLEAN : CreateUser(a, d)
  \/ \E a \in Account, d \in BOOLEAN : SetDisabled(a, d)
  \/ \E a \in Account : BeginLogin(a)
  \/ \E a \in Account : EndLogin(a)
  \/ \E t \in tokens, kind \in Operation, s \in Space, a \in Account, role \in Role, b \in BOOLEAN :
       UserRequest(t, kind, s, a, role, b)
  \/ \E kind \in Operation, s \in Space, a \in Account, role \in Role, b \in BOOLEAN :
       OperatorRequest(kind, s, a, role, b)
  \/ \E x \in Actor : Handle(x)
  \/ \E x \in Actor : Decline(x)

Spec == Init /\ [][Next]_vars

-----------------------------------------------------------------------------

\* Nobody can lock everyone out of a group: once it has members, one of them is an
\* active owner, whichever memberships are changed concurrently (putMembership).
GroupsKeepAnOwner ==
  \A s \in Space \ {Company} :
    (spaces[s] # None /\ \E a \in Account : members[s][a] # None) =>
      \E a \in Account : Member(s, a) /\ members[s][a].role = "owner"

\* "Each personal space has one fixed owner" (src/docs/spaces.md:28): an account has at
\* most one, and nobody else ever becomes a member of it.
PersonalSpacesFixed ==
  /\ \A s, t \in Space :
       spaces[s] # None /\ spaces[s].kind = "personal" /\ spaces[t] = spaces[s] => s = t
  /\ \A s \in Space : spaces[s] # None /\ spaces[s].kind = "personal" =>
       \A a \in Account :
         members[s][a] = IF a = spaces[s].creator
                         THEN [role |-> "owner", active |-> TRUE, revision |-> 1] ELSE None

\* Existing memberships change only by a request whose sender had read the record it
\* replaces: no concurrent change is lost, and "login and token refresh never reinstate a
\* revoked membership" (src/docs/spaces.md:20).
MembershipsChangedAsSeen ==
  [][\A s \in Space, a \in Account :
       members[s][a] # None /\ members'[s][a] # members[s][a] =>
         \E x \in Actor :
           /\ requests[x] # None /\ requests[x].kind = "member"
           /\ requests[x].space = s /\ requests[x].account = a
           /\ requests[x].seen = members[s][a]]_vars

\* The audit log tells the whole history of each membership, one row a revision.
AuditComplete ==
  \A s \in Space, a \in Account :
    LET rows == {row \in audit : row.space = s /\ row.account = a}
    IN IF members[s][a] = None THEN rows = {}
       ELSE /\ {row.record.revision : row \in rows} = 1..members[s][a].revision
            /\ Cardinality(rows) = members[s][a].revision
            /\ [space |-> s, account |-> a, record |-> members[s][a]] \in rows

\* A session that was once refused is refused for ever, also after the account is
\* enabled again; and a sign-in that read the account before a change of its disabled flag
\* yields no session that is accepted after it (account_access.js, update and request).
RevokedSessionsStayRevoked ==
  [][/\ \A t \in tokens : ~ Accepted(t) => ~ Accepted(t)'
     /\ \A t \in tokens' \ tokens : Accepted(t)' => logins[t.account] = users[t.account]]_vars

\* Every domain write was committed under a membership that allowed it at that moment,
\* as the audit log can tell afterwards: revoking a membership stops the requests that
\* are already under way.
WritesAuthorised ==
  \A w \in writes :
    /\ w.record.active /\ w.record.role \in WriteRole
    /\ [space |-> w.space, account |-> w.account, record |-> w.record] \in audit

=============================================================================
