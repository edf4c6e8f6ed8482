-------------------------------- MODULE Reader --------------------------------
(* The browser reader (ui/src/App.tsx, api.ts, memoryCache.ts, reconciledRead.ts *)
(* and snapshotStatus.ts): what it keeps and shows of the spaces of the account  *)
(* that is signed in, while accounts, memberships and its own requests change    *)
(* under it.  A space stands for what is read of it: its publications, and the   *)
(* pages of the publication selected, with the checks that come before them.     *)
(* The server answers a request from a copy of the requester's rows, older than  *)
(* the data unless the request asks for a fresh one (external).                  *)
EXTENDS Integers, FiniteSets, SequencesExt

CONSTANTS
  User, Space,
  Slot,          \* loads of the view that may be in flight together
  NoSpace,       \* no space
  Nobody,        \* nobody is signed in
  Unknown,       \* memberships that have not been read
  MaxEntries,    \* entries of the memory cache, and requests it shares
  MaxRequests,   \* bound on the requests in flight
  MaxChanges     \* bound on sign-ins, changes of memberships and copies lost

ASSUME ReaderAssumption ==
  /\ MaxEntries \in Nat \ {0} /\ MaxChanges \in Nat
  /\ NoSpace \notin Space /\ Nobody \notin User
  /\ \A spaces \in SUBSET Space : Unknown # spaces

VARIABLES
  memberships,  \* on the server: the spaces of each account, after each change
  user,         \* the account signed in
  values,       \* the memory cache, the least recently used first
  histories,    \* lists of publications, the empty ones too
  known,        \* membershipsCache
  check,        \* membershipReads: the read in flight, and whether one is to follow
  loads, fetches,
  route,        \* the space asked for
  selected,     \* selectedSpace
  view,         \* the snapshot shown
  status,       \* the account whose copy snapshots.current tells of, or Nobody
  told,         \* spaces whose loss an event was to make the reader find out
  changes

readerVars == <<memberships, user, values, histories, known, check, loads, fetches,
                route, selected, view, status, told, changes>>
kept == <<values, histories>>
place == <<route, selected, view>>

Bounded == changes < MaxChanges /\ changes' = changes + 1
NoLoad == [at |-> "idle", space |-> NoSpace, refresh |-> "no", members |-> {},
           active |-> FALSE, again |-> FALSE]
NoCheck == [at |-> "none", members |-> {}, queued |-> FALSE]
Now == Len(memberships)

Datum == [user : User, space : Space]
Check == [at : {"none", "asked", "answered"}, members : SUBSET Space, queued : BOOLEAN]
ViewLoad == [at : {"idle", "check", "queued", "resolve", "history", "list", "pages", "again"},
             space : Space \cup {NoSpace}, refresh : {"no", "yes", "again"},
             members : SUBSET Space, active : BOOLEAN, again : BOOLEAN]
Fetch == [kind : {"history", "pages", "status"}, space : Space \cup {NoSpace}, user : User,
          since : {"nothing", "clear", "session"}, shared : BOOLEAN,
          waiting : SUBSET Slot]

\* The type invariant of what is kept and shown, and of the requests and loads.
ReaderTypeOK ==
  /\ memberships \in Seq([User -> SUBSET Space]) /\ user \in User \cup {Nobody}
  /\ values \in Seq(Datum) /\ Len(values) <= MaxEntries
  /\ histories \subseteq [user : User, space : Space, listed : BOOLEAN]
  /\ known \in (SUBSET Space) \cup {Unknown}
  /\ check \in Check /\ loads \in [Slot -> ViewLoad] /\ fetches \subseteq Fetch
  /\ route \in Space /\ selected \in Space \cup {NoSpace} /\ view \subseteq Datum
  /\ status \in User \cup {Nobody}
  /\ told \subseteq Space /\ changes \in 0 .. MaxChanges

ReaderInit ==
  /\ \E given \in SUBSET Space : memberships = <<[u \in User |-> given]>>
  /\ user = Nobody /\ values = <<>> /\ histories = {} /\ known = Unknown
  /\ check = NoCheck /\ loads = [l \in Slot |-> NoLoad] /\ fetches = {}
  /\ route \in Space /\ selected = NoSpace /\ view = {} /\ status = Nobody
  /\ told = {} /\ changes = 0

---------------------------------------------------------------------------
\* The memory cache and the shared requests.

\* A request in flight: for which account, what has changed since it was sent, and the loads that wait for it.
Request(kind, s, shared, waiting) ==
  [kind |-> kind, space |-> s, user |-> user, since |-> "nothing", shared |-> shared, waiting |-> waiting]

\* Whether the n-th copy has rows of the space for the account that asked.
InCopy(f, n) == f.space \in memberships[n][f.user]

\* Requests of the kinds that are fenced by a change are marked as sent before it.
Fence(fs, kinds, what) ==
  {IF f.kind \in kinds /\ f.since # "session" THEN [f EXCEPT !.since = what] ELSE f : f \in fs}

\* A request for the same data that a caller joins; a change empties the registry.
Shared(kind, s) ==
  {f \in fetches : f.kind = kind /\ f.space = s /\ f.since = "nothing" /\ f.shared}

Registered == {f \in fetches : f.kind = "pages" /\ f.since = "nothing" /\ f.shared}

\* The requests once a load reads what is not kept.
Reading(kind, s, l) ==
  IF Shared(kind, s) # {}
    THEN LET f == CHOOSE g \in Shared(kind, s) : TRUE
         IN (fetches \ {f}) \cup {[f EXCEPT !.waiting = @ \cup {l}]}
    ELSE fetches \cup
           {Request(kind, s, kind = "history" \/ Cardinality(Registered) < MaxEntries, {l})}

\* The most recently used comes last, and the least recently used makes room.
Used(vs, v) ==
  Append(IF Contains(vs, v) THEN RemoveAt(vs, CHOOSE i \in DOMAIN vs : vs[i] = v) ELSE vs, v)

Retained(vs, v) ==
  LET used == Used(vs, v)
  IN IF Len(used) > MaxEntries THEN Tail(used) ELSE used

\* SnapshotMonitor.observe: a status that is not skipped as older (see Snapshots).
Observed(u) == {status, u}

---------------------------------------------------------------------------
\* Memberships: ReconciledRead and readMemberships.

\* A mutant: every caller joins the read in flight.
JoinedAny(reconcile) == IF check.at = "none" THEN [NoCheck EXCEPT !.at = "asked"] ELSE check

\* A caller joins the read in flight, or has one follow it.
Joined(reconcile) ==
  IF check.at = "none" THEN [NoCheck EXCEPT !.at = "asked"]
  ELSE IF reconcile THEN [check EXCEPT !.queued = TRUE]
  ELSE check

\* A mutant: the read that was to follow is forgotten.
FollowingNever == NoCheck

\* The next read begins as the last one ends.
Following == IF check.queued THEN [NoCheck EXCEPT !.at = "asked"] ELSE NoCheck

\* A load has ended; refresh() loads again when an event came meanwhile.
Ended(r) == IF r.refresh = "again" THEN [NoLoad EXCEPT !.at = "again", !.refresh = "again"]
            ELSE NoLoad

\* A load that is superseded, or fenced by a loss since it was given the memberships.
Inactive(r) == [r EXCEPT !.active = FALSE, !.space = NoSpace, !.members = {}]

\* listSpaces asks for a fresh copy.
CheckAnswered ==
  /\ check.at = "asked"
  /\ check' = [check EXCEPT !.at = "answered", !.members = memberships[Now][user]]
  /\ UNCHANGED <<memberships, user, kept, known, loads, fetches, place, status, told, changes>>

\* Spaces the account was known to be in, and is not.
Removed == IF known = Unknown THEN {} ELSE known \ check.members

\* The loads that waited for this read go on from it; the others are fenced.
Resumed(lost) ==
  [l \in Slot |->
     CASE loads[l].at = "check" ->
            [loads[l] EXCEPT !.at = "resolve",
                             !.members = IF loads[l].active THEN check.members ELSE {}]
       [] loads[l].at = "queued" -> [loads[l] EXCEPT !.at = "check"]
       [] OTHER -> IF lost THEN Inactive(loads[l]) ELSE loads[l]]

\* A confirmed loss discards all that is kept, and what is shown of the space.
CheckDone ==
  LET lost == Removed # {} IN
  /\ check.at = "answered" /\ known' = check.members /\ check' = Following
  /\ loads' = Resumed(lost)
  /\ values' = IF lost THEN <<>> ELSE values
  /\ histories' = IF lost THEN {} ELSE histories
  /\ fetches' = IF lost THEN Fence(fetches, {"history", "pages", "status"}, "clear") ELSE fetches
  /\ status' \in IF lost THEN {Nobody} ELSE Observed(user)
  /\ view' = IF selected \in Removed THEN {} ELSE view
  /\ UNCHANGED <<memberships, user, route, selected, told, changes>>

\* The read fails, and the loads that waited for it; one that was to follow begins.
CheckFailed ==
  /\ check.at # "none" /\ check' = Following
  /\ told' = IF check.queued THEN told ELSE {}
  /\ loads' = [l \in Slot |->
       CASE loads[l].at = "check" -> Ended(loads[l])
         [] loads[l].at = "queued" -> [loads[l] EXCEPT !.at = "check"]
         [] OTHER -> loads[l]]
  /\ UNCHANGED <<memberships, user, kept, known, fetches, place, status, changes>>

---------------------------------------------------------------------------
\* Loads of the view.

\* load: the memberships come first, from the last minute or from a read.
Loading(l, s, refresh) ==
  LET reconcile == refresh # "no" \/ known = Unknown \/ s \notin known
      record(at) == [NoLoad EXCEPT !.at = at, !.space = s, !.refresh = refresh, !.active = TRUE]
      begun(r) == [m \in Slot |-> IF m = l THEN r ELSE Inactive(loads[m])]
  IN \/ /\ ~reconcile /\ check.at = "none"
        /\ loads' = begun([record("resolve") EXCEPT !.members = known]) /\ UNCHANGED check
     \/ /\ loads' = begun(record(IF check.at # "none" /\ reconcile THEN "queued" ELSE "check"))
        /\ check' = Joined(reconcile)

\* The user goes to a page of a space; what is shown of another space goes.
Navigate(l, s) ==
  /\ user # Nobody /\ loads[l].at = "idle" /\ Loading(l, s, "no")
  /\ route' = s /\ view' = IF s = route THEN view ELSE {}
  /\ UNCHANGED <<memberships, user, kept, known, fetches, selected, status, told, changes>>

Lost == Space \ memberships[Now][user]

\* refresh(): an event, the window's focus or the minute's interval.  A load of
\* refresh() in flight loads again; its memberships are not waited for.
Refresh ==
  /\ user # Nobody /\ told' = Lost
  /\ \/ \E l \in Slot :
          /\ loads[l].refresh # "no" /\ check' = Joined(TRUE)
          /\ loads' = [loads EXCEPT ![l].refresh = "again"]
     \/ \E l \in Slot :
          /\ \A m \in Slot : loads[m].refresh = "no"
          /\ loads[l].at = "idle" /\ Loading(l, route, "yes")
  /\ UNCHANGED <<memberships, user, kept, known, fetches, place, status, changes>>

LoadAgain(l) ==
  /\ loads[l].at = "again" /\ Loading(l, route, "yes")
  /\ UNCHANGED <<memberships, user, kept, known, fetches, place, status, told, changes>>

LoadEnds(l) == loads' = [loads EXCEPT ![l] = Ended(loads[l])]
LoadGoes(l, at) == loads' = [loads EXCEPT ![l].at = at]

History(s) == {h \in histories : h.space = s}

\* The space is one of the memberships, and its publications are read: kept ones
\* unless the load refreshes them, those of a request in flight, or by a request.
Choose(l) ==
  LET s == loads[l].space
      again == loads[l].refresh # "no" \/ s # selected
      fetched == again \/ Shared("history", s) # {} \/ History(s) = {}
      listed == \E h \in History(s) : h.listed
  IN /\ loads[l].at = "resolve"
     /\ IF ~loads[l].active THEN LoadEnds(l) /\ UNCHANGED <<fetches, selected, view>>
        ELSE IF s \notin loads[l].members
          THEN LoadEnds(l) /\ view' = {} /\ UNCHANGED <<fetches, selected>>
        ELSE /\ selected' = s
             /\ view' = IF s = selected /\ (fetched \/ listed) THEN view ELSE {}
             /\ IF fetched
                  THEN /\ Cardinality(fetches) < MaxRequests
                       /\ fetches' = Reading("history", s, l)
                       /\ loads' = [loads EXCEPT ![l].at = "history",
                            ![l].again = again /\ Shared("history", s) # {}]
                  ELSE /\ UNCHANGED fetches
                       /\ IF listed THEN LoadGoes(l, "list") ELSE LoadEnds(l)
     /\ UNCHANGED <<memberships, user, kept, known, check, route, status, told, changes>>

\* listPages: the pages kept, those of a request in flight, or by a request.
ListPages(l) ==
  LET v == [user |-> user, space |-> loads[l].space] IN
  /\ loads[l].at = "list"
  /\ IF ~loads[l].active THEN LoadEnds(l) /\ UNCHANGED <<values, fetches, view>>
     ELSE IF Contains(values, v)
       THEN LoadEnds(l) /\ values' = Used(values, v) /\ view' = {v} /\ UNCHANGED fetches
     ELSE /\ Cardinality(fetches) < MaxRequests
          /\ LoadGoes(l, "pages") /\ fetches' = Reading("pages", loads[l].space, l)
          /\ UNCHANGED <<values, view>>
  /\ UNCHANGED <<memberships, user, histories, known, check, route, selected, status, told, changes>>

---------------------------------------------------------------------------
\* Requests.

\* snapshots.refresh, by its timer.
AskStatus ==
  /\ user # Nobody /\ Cardinality(fetches) < MaxRequests
  /\ {f \in fetches : f.kind = "status" /\ f.since = "nothing"} = {}
  /\ fetches' = fetches \cup {Request("status", NoSpace, TRUE, {})}
  /\ UNCHANGED <<memberships, user, kept, known, check, loads, place, status, told, changes>>

Failing(f) == [l \in Slot |-> IF l \in f.waiting THEN Ended(loads[l]) ELSE loads[l]]

\* pb.send: no response of an earlier session is read.
Rejected(f) == f.since = "session"

\* A mutant: whatever has changed since the request was sent, its result is kept.
KeptAny(f) == TRUE

\* The memory cache's generation, the reader's authority and the monitor's epoch.
Keeps(f) == f.since = "nothing"

Failed(f) ==
  /\ loads' = Failing(f) /\ fetches' = fetches \ {f}
  /\ UNCHANGED <<kept, view>>

\* Loads that joined what another had asked for, and were to refresh it.
Asking(f) == {l \in f.waiting : loads[l].again}

\* The publications: the loads go on to the pages, or show that there is none; those
\* that were to refresh ask again.
ListDelivered(f, n) ==
  LET again == Asking(f)
  IN /\ histories' = (histories \ History(f.space))
          \cup {[user |-> f.user, space |-> f.space, listed |-> InCopy(f, n)]}
     /\ \E first \in IF again = {} THEN {NoSpace} ELSE again :
          /\ fetches' = (fetches \ {f}) \cup
               (IF again = {} THEN {} ELSE {Request("history", f.space, TRUE, again)})
          /\ loads' = [l \in Slot |->
               IF l \in again \cap {first} THEN [loads[l] EXCEPT !.again = FALSE]
               ELSE IF l \notin f.waiting \ again THEN loads[l]
               ELSE IF InCopy(f, n) THEN [loads[l] EXCEPT !.at = "list"]
               ELSE Ended(loads[l])]
     /\ view' = IF ~InCopy(f, n) /\ \E l \in f.waiting \ again : loads[l].active THEN {} ELSE view
     /\ UNCHANGED values

\* The pages: they are kept, and the load that is still active shows them.
PagesDelivered(f, n) ==
  LET v == [user |-> f.user, space |-> f.space]
  IN /\ values' = IF InCopy(f, n) THEN Retained(values, v) ELSE values
     /\ view' = IF \E l \in f.waiting : loads[l].active THEN {v} ELSE view
     /\ loads' = Failing(f) /\ fetches' = fetches \ {f} /\ UNCHANGED histories

\* query and SnapshotMonitor.refresh: a response, of any copy the server has made (the
\* n-th).  Every response of this session tells the status of its copy, except one the
\* monitor asked for before it was reset.
Deliver(f, n) ==
  /\ status' \in IF Rejected(f) \/ (f.kind = "status" /\ ~Keeps(f)) THEN {status}
                 ELSE Observed(f.user)
  /\ IF Rejected(f) \/ ~Keeps(f) \/ f.kind = "status" THEN Failed(f)
     ELSE IF f.kind = "history" THEN ListDelivered(f, n)
     ELSE PagesDelivered(f, n)
  /\ UNCHANGED <<memberships, user, known, check, route, selected, told, changes>>

FetchFailed(f) ==
  /\ Failed(f)
  /\ UNCHANGED <<memberships, user, known, check, route, selected, status, told, changes>>

\* snapshot_generation_conflict: the server has lost the copy a query names; the
\* caches are cleared, and the query is sent again.
Conflict ==
  /\ \/ check.at = "asked"
     \/ \E f \in fetches : f.kind # "status" /\ f.since # "session"
  /\ Bounded /\ values' = <<>> /\ status' = Nobody
  /\ fetches' = Fence(fetches, {"pages", "status"}, "clear")
  /\ UNCHANGED <<memberships, user, histories, known, check, loads, place, told>>

---------------------------------------------------------------------------
\* Sessions and memberships.

\* authStore.onChange: another identity clears the caches, and the reader is
\* mounted anew, without what the last one kept.
SessionChanged(u) ==
  /\ user' = u /\ values' = <<>> /\ histories' = {} /\ known' = Unknown /\ check' = NoCheck
  /\ loads' = [l \in Slot |-> NoLoad] /\ selected' = NoSpace /\ view' = {}
  /\ status' = Nobody /\ told' = {}
  /\ fetches' = {[f EXCEPT !.waiting = {}] :
                   f \in Fence(fetches, {"history", "pages", "status"}, "session")}
  /\ UNCHANGED <<memberships, route>>

\* In this tab or another, directly from one account to another too.
SignIn(u) == u # user /\ Bounded /\ SessionChanged(u)

SignOut == user # Nobody /\ SessionChanged(Nobody) /\ UNCHANGED changes

\* An owner removes the account from a space, or adds it again.
ChangeMembership(u, s) ==
  /\ Bounded
  /\ memberships' = Append(memberships, [memberships[Now] EXCEPT ![u] = SymDiff(@, {s})])
  /\ told' = IF u = user THEN told \ {s} ELSE told
  /\ UNCHANGED <<user, kept, known, check, loads, fetches, place, status>>

ReaderNext ==
  \/ CheckAnswered \/ CheckDone \/ CheckFailed \/ Refresh \/ AskStatus \/ Conflict
  \/ \E l \in Slot : LoadAgain(l) \/ Choose(l) \/ ListPages(l) \/ \E s \in Space : Navigate(l, s)
  \/ \E f \in fetches : FetchFailed(f) \/ \E n \in 1 .. Now : Deliver(f, n)
  \/ SignOut \/ \E u \in User : SignIn(u) \/ \E s \in Space : ChangeMembership(u, s)

ReaderSpec == ReaderInit /\ [][ReaderNext]_readerVars

---------------------------------------------------------------------------
Kept == ToSet(values) \cup {h \in histories : h.listed} \cup view

\* What is kept and shown is of the account signed in, and of spaces that the last
\* membership check did not find lost; once every check that an event has called for
\* has ended, and none has failed, of none lost before the event.  The status is of
\* this account's copy.
NothingKept ==
  /\ \A v \in Kept :
       /\ v.user = user /\ known # Unknown /\ v.space \in known
       /\ check.at = "none" => v.space \notin told
  /\ status \in {Nobody, user}

\* A load that waits has something to wait for: the read of the memberships it joined,
\* the one that is to follow, or one request in flight for its data, whatever failed,
\* was shared, fenced or asked for again.
NoLoadStranded ==
  \A l \in Slot :
    /\ loads[l].at = "check" => check.at # "none"
    /\ loads[l].at = "queued" => check.queued
    /\ loads[l].at \in {"history", "pages"} => \E f \in fetches : l \in f.waiting
=============================================================================
