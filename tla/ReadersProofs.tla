---------------------------- MODULE ReadersProofs ----------------------------
(* What a reader of publications promises, proved for any numbers of accounts,   *)
(* spaces, loads and requests in flight.                                         *)
(*                                                                               *)
(* The browser keeps and shows nothing of another account, or of a space that    *)
(* the last membership check did not confirm (NothingKept), and no load of it    *)
(* waits for what no longer comes (NoLoadStranded).  Five facts carry the first  *)
(* through every step, and the second on top of them: the types; what            *)
(* an event has told is not among the memberships the server would answer        *)
(* (TellingSound); everything kept is of a known space of this account           *)
(* (KeptSound); a request that was not fenced is for such a space, and a load    *)
(* waits for one request at most (FetchesSound); and the one load that is        *)
(* active goes on from memberships that are still known (LoadsSound).            *)
(*                                                                               *)
(* A corpus file has all pages of its publication or none (OneWholeCorpus),      *)
(* and the pages of search results that a caller puts together are the beginning *)
(* of one ranking (SearchContinues): what a command has read and counted is of   *)
(* the publication it selected (PagesSound), which no later publication changes, *)
(* and the hits it was sent follow those its caller has (HitsSound).             *)
EXTENDS Corpus, Reader, SequenceTheorems, FunctionTheorems, FiniteSetTheorems, TLAPS

Mine(s) == known # Unknown /\ s \in known

TellingSound ==
  /\ user = Nobody => /\ known = Unknown /\ check.at = "none" /\ told = {}
                      /\ \A l \in Slot : loads[l].at = "idle"
  /\ Now \in Nat \ {0}
  /\ user # Nobody => told \cap memberships[Now][user] = {}
  /\ check.at = "none" /\ known # Unknown => known \cap told = {}
  /\ check.at = "answered" /\ ~check.queued => check.members \cap told = {}
  /\ status \in {Nobody, user}

KeptSound ==
  /\ \A i \in DOMAIN values : values[i].user = user /\ Mine(values[i].space)
  /\ \A h \in histories : h.user = user /\ Mine(h.space)
  /\ \A v \in view : v.user = user /\ Mine(v.space) /\ v.space = selected

FetchSound(f) ==
  /\ f.since # "session" => f.user = user
  /\ f.since = "nothing" /\ f.kind # "status" => Mine(f.space)
  /\ f.kind = "status" => f.waiting = {}
  /\ \A l \in f.waiting : loads[l].at = f.kind /\ (loads[l].active => loads[l].space = f.space)

FetchesSound ==
  /\ \A f \in fetches : FetchSound(f)
  /\ \A f, g \in fetches : f.waiting \cap g.waiting # {} => f = g

LoadSound(l) == loads[l].active =>
  /\ loads[l].at \notin {"idle", "again"}
  /\ loads[l].at = "resolve" => known # Unknown /\ loads[l].members \subseteq known
  /\ loads[l].at \in {"history", "list", "pages"} =>
       Mine(loads[l].space) /\ loads[l].space = selected
  /\ \A m \in Slot : loads[m].active => l = m

LoadsSound == \A l \in Slot : LoadSound(l)

ReaderInv == ReaderTypeOK /\ TellingSound /\ KeptSound /\ FetchesSound /\ LoadsSound

---------------------------------------------------------------------------
\* The initial states satisfy the invariant.
LEMMA ReaderStarts == ReaderInit => ReaderInv
<1> SUFFICES ASSUME ReaderInit PROVE ReaderInv
  OBVIOUS
<1>1. PICK given \in SUBSET Space : memberships = <<[u \in User |-> given]>>
  BY DEF ReaderInit
<1>2. memberships \in Seq([User -> SUBSET Space]) /\ Now = 1
  BY <1>1 DEF Now
<1>3. /\ NoLoad \in ViewLoad /\ NoCheck \in Check
  BY DEF NoLoad, NoCheck, ViewLoad, Check
<1>4. ReaderTypeOK
  BY <1>2, <1>3, ReaderAssumption DEF ReaderInit, ReaderTypeOK
<1>5. TellingSound
  BY <1>2 DEF ReaderInit, TellingSound, NoCheck, NoLoad
<1>6. KeptSound /\ FetchesSound
  BY DEF ReaderInit, KeptSound, FetchesSound
<1>7. LoadsSound
  BY DEF ReaderInit, LoadsSound, LoadSound, NoLoad
<1> QED  BY <1>4, <1>5, <1>6, <1>7 DEF ReaderInv

---------------------------------------------------------------------------
\* Using an entry of the memory cache moves it to the end.
LEMMA UsedOf ==
  ASSUME NEW S, NEW vs \in Seq(S), NEW v \in S
  PROVE  /\ Used(vs, v) \in Seq(S)
         /\ Contains(vs, v) => Len(Used(vs, v)) = Len(vs)
         /\ ~Contains(vs, v) => Len(Used(vs, v)) = Len(vs) + 1
<1>1. CASE ~Contains(vs, v)
  BY <1>1 DEF Used
<1>2. CASE Contains(vs, v)
  <2> DEFINE i == CHOOSE j \in DOMAIN vs : vs[j] = v
  <2>1. i \in 1 .. Len(vs)
    BY <1>2 DEF Contains
  <2> HIDE DEF i
  <2>2. /\ i - 1 \in 0 .. Len(vs) /\ i + 1 \in 1 .. Len(vs) + 1 /\ Len(vs) \in Nat /\ i \in Nat
        /\ 1 \in 1 .. Len(vs) + 1 /\ Len(vs) \in 0 .. Len(vs)
    BY <2>1
  <2> DEFINE a == SubSeq(vs, 1, i - 1)
             b == SubSeq(vs, i + 1, Len(vs))
  <2>5. a \in Seq(S) /\ Len(a) = IF 1 <= i - 1 THEN i - 1 - 1 + 1 ELSE 0
    BY <2>2, SubSeqProperties
  <2>6. b \in Seq(S) /\ Len(b) = IF i + 1 <= Len(vs) THEN Len(vs) - (i + 1) + 1 ELSE 0
    BY <2>2, SubSeqProperties
  <2>7. RemoveAt(vs, i) = a \o b
    BY DEF RemoveAt
  <2> HIDE DEF a, b
  <2>8. Len(a) = i - 1 /\ Len(b) = Len(vs) - i
    BY <2>1, <2>2, <2>5, <2>6
  <2>3. RemoveAt(vs, i) \in Seq(S) /\ Len(RemoveAt(vs, i)) = Len(vs) - 1
    <3>1. a \o b \in Seq(S) /\ Len(a \o b) = Len(a) + Len(b)
      BY <2>5, <2>6, ConcatProperties
    <3>2. Len(a) + Len(b) = Len(vs) - 1
      BY <2>2, <2>8
    <3> QED  BY <3>1, <3>2, <2>7
  <2>4. Used(vs, v) = Append(RemoveAt(vs, i), v)
    BY <1>2 DEF Used, i
  <2> QED  BY <1>2, <2>3, <2>4, <2>1
<1> QED  BY <1>1, <1>2

\* The memory cache never has more entries than it may, and no others than it had.
LEMMA CacheOf ==
  ASSUME NEW S, NEW vs \in Seq(S), NEW v \in S, Len(vs) <= MaxEntries
  PROVE  /\ Retained(vs, v) \in Seq(S) /\ Len(Retained(vs, v)) <= MaxEntries
         /\ Contains(vs, v) => Len(Used(vs, v)) <= MaxEntries
<1>1. Used(vs, v) \in Seq(S) /\ Len(Used(vs, v)) <= Len(vs) + 1 /\ Len(vs) \in Nat
      /\ (Contains(vs, v) => Len(Used(vs, v)) = Len(vs))
  BY UsedOf
<1>2. Len(Used(vs, v)) > MaxEntries =>
        Tail(Used(vs, v)) \in Seq(S) /\ Len(Tail(Used(vs, v))) = Len(Used(vs, v)) - 1
  BY <1>1, ReaderAssumption
<1> QED  BY <1>1, <1>2, ReaderAssumption DEF Retained
---------------------------------------------------------------------------
\* What is kept of a space is what a request or a load may rely on.
LEMMA ReaderInvKeeps == ReaderInv => NothingKept
<1> SUFFICES ASSUME ReaderInv PROVE NothingKept
  OBVIOUS
<1>1. ASSUME NEW v \in Kept
      PROVE  v.user = user /\ Mine(v.space)
  BY <1>1 DEF ReaderInv, KeptSound, Kept, ToSet
<1> QED  BY <1>1 DEF ReaderInv, TellingSound, NothingKept, Mine

\* A fence marks requests as sent before the change, and does nothing else to them.
LEMMA FenceOf ==
  ASSUME ReaderTypeOK, NEW kinds, NEW what \in {"clear", "session"}
  PROVE  /\ Fence(fetches, kinds, what) \subseteq Fetch
         /\ \A g \in Fence(fetches, kinds, what) : \E f \in fetches :
              /\ g.user = f.user /\ g.kind = f.kind /\ g.space = f.space
              /\ g.waiting = f.waiting /\ g.shared = f.shared
              /\ g.since \in {f.since, what}
              /\ f.since = "session" => g.since = "session"
              /\ f.kind \in kinds => g.since # "nothing"
              /\ f.kind \in kinds /\ what = "session" => g.since = "session"
              /\ g = IF f.kind \in kinds /\ f.since # "session" THEN [f EXCEPT !.since = what] ELSE f
<1> SUFFICES ASSUME NEW g \in Fence(fetches, kinds, what)
             PROVE  g \in Fetch /\ \E f \in fetches :
              /\ g.user = f.user /\ g.kind = f.kind /\ g.space = f.space
              /\ g.waiting = f.waiting /\ g.shared = f.shared
              /\ g.since \in {f.since, what}
              /\ f.since = "session" => g.since = "session"
              /\ f.kind \in kinds => g.since # "nothing"
              /\ f.kind \in kinds /\ what = "session" => g.since = "session"
              /\ g = IF f.kind \in kinds /\ f.since # "session" THEN [f EXCEPT !.since = what] ELSE f
  OBVIOUS
<1>1. PICK f \in fetches :
        g = IF f.kind \in kinds /\ f.since # "session" THEN [f EXCEPT !.since = what] ELSE f
  BY DEF Fence
<1>2. f \in Fetch
  BY DEF ReaderTypeOK
<1>3. g \in Fetch
  BY <1>1, <1>2 DEF Fetch
<1> QED  BY <1>1, <1>2, <1>3 DEF Fetch

---------------------------------------------------------------------------
\* The server answers the membership check: no one is told of a loss it denies.
LEMMA CheckAnsweredKeeps == ReaderInv /\ CheckAnswered => ReaderInv'
<1> SUFFICES ASSUME ReaderInv, CheckAnswered PROVE ReaderInv'
  OBVIOUS
<1> USE DEF ReaderInv, CheckAnswered, kept, place
<1>1. user \in User
  BY DEF TellingSound, ReaderTypeOK
<1>2. memberships[Now][user] \subseteq Space /\ Now' = Now /\ Now \in Nat
  BY <1>1 DEF ReaderTypeOK, TellingSound, Now
<1>3. /\ check' \in Check /\ check'.at = "answered" /\ check'.queued = check.queued
      /\ check'.members = memberships[Now][user]
  <2>1. check \in Check
    BY DEF ReaderTypeOK
  <2>2. check' = [check EXCEPT !.at = "answered", !.members = memberships[Now][user]]
    OBVIOUS
  <2>3. memberships[Now][user] \in SUBSET Space
    BY <1>2
  <2>4. check'.at = "answered" /\ check'.queued = check.queued
        /\ check'.members = memberships[Now][user]
    BY <2>1, <2>2 DEF Check
  <2>5. check' \in Check
    BY <2>1, <2>2, <2>3 DEF Check
  <2> QED  BY <1>2, <2>4, <2>5 DEF Check
<1>4. ReaderTypeOK'
  BY <1>2, <1>3 DEF ReaderTypeOK, Check, Fetch
<1>5. TellingSound'
  BY <1>1, <1>2, <1>3 DEF TellingSound
<1>6. KeptSound' /\ FetchesSound'
  BY DEF KeptSound, FetchesSound, FetchSound, Mine
<1>7. LoadsSound'
  BY DEF LoadsSound, LoadSound, Mine
<1> QED  BY <1>4, <1>5, <1>6, <1>7
---------------------------------------------------------------------------
\* Loads that wait for publications or pages go on waiting for them, or are given up.
Waiting ==
  \A l \in Slot : loads[l].at \in {"history", "pages"} =>
    /\ loads'[l].at = loads[l].at
    /\ loads'[l].active => loads[l].active /\ loads'[l].space = loads[l].space

\* While they do, the requests in flight stay sound.
LEMMA FetchesStay ==
  ASSUME ReaderInv, Waiting, fetches' = fetches, user' = user,
         \A s \in Space : Mine(s) => Mine(s)'
  PROVE  FetchesSound'
<1>1. ASSUME NEW f \in fetches PROVE FetchSound(f)'
  <2>1. f \in Fetch /\ FetchSound(f)
    BY DEF ReaderInv, ReaderTypeOK, FetchesSound
  <2>2. f.since = "nothing" /\ f.kind # "status" => Mine(f.space)'
    BY <2>1 DEF FetchSound, Mine, ReaderInv, ReaderTypeOK
  <2>3. ASSUME NEW l \in f.waiting
        PROVE  loads'[l].at = f.kind /\ (loads'[l].active => loads'[l].space = f.space)
    BY <2>1 DEF FetchSound, Waiting, Fetch
  <2> QED  BY <2>1, <2>2, <2>3 DEF FetchSound, Mine
<1> QED  BY <1>1 DEF FetchesSound, ReaderInv

\* A fence leaves them sound, whatever is lost of the kinds it marks.
LEMMA FencedStay ==
  ASSUME ReaderInv, Waiting, NEW kinds, fetches' = Fence(fetches, kinds, "clear"), user' = user,
         \A f \in fetches : f.kind \notin kinds /\ Mine(f.space) => Mine(f.space)'
  PROVE  FetchesSound'
<1>1. ASSUME NEW g \in fetches' PROVE FetchSound(g)'
  <2>1. PICK f \in fetches :
              /\ g.user = f.user /\ g.kind = f.kind /\ g.space = f.space
              /\ g.waiting = f.waiting /\ g.since \in {f.since, "clear"}
              /\ f.since = "session" => g.since = "session"
              /\ f.kind \in kinds => g.since # "nothing"
    BY <1>1, FenceOf DEF ReaderInv
  <2>2. f \in Fetch /\ FetchSound(f)
    BY DEF ReaderInv, ReaderTypeOK, FetchesSound
  <2>3. g.since # "session" => g.user = user'
    BY <2>1, <2>2 DEF FetchSound
  <2>4. g.since = "nothing" /\ g.kind # "status" => Mine(g.space)'
    BY <2>1, <2>2 DEF FetchSound
  <2>5. ASSUME NEW l \in g.waiting
        PROVE  loads'[l].at = g.kind /\ (loads'[l].active => loads'[l].space = g.space)
    BY <2>1, <2>2 DEF FetchSound, Waiting, Fetch
  <2>6. g.kind = "status" => g.waiting = {}
    BY <2>1, <2>2 DEF FetchSound
  <2> QED  BY <2>3, <2>4, <2>5, <2>6 DEF FetchSound, Mine
<1>2. ASSUME NEW g \in fetches', NEW h \in fetches', g.waiting \cap h.waiting # {} PROVE g = h
  <2>1. PICK f \in fetches :
          /\ g.waiting = f.waiting
          /\ g = IF f.kind \in kinds /\ f.since # "session" THEN [f EXCEPT !.since = "clear"] ELSE f
    BY <1>2, FenceOf DEF ReaderInv
  <2>2. PICK e \in fetches :
          /\ h.waiting = e.waiting
          /\ h = IF e.kind \in kinds /\ e.since # "session" THEN [e EXCEPT !.since = "clear"] ELSE e
    BY <1>2, FenceOf DEF ReaderInv
  <2>3. f = e
    BY <1>2, <2>1, <2>2 DEF ReaderInv, FetchesSound
  <2> QED  BY <2>1, <2>2, <2>3
<1> QED  BY <1>1, <1>2 DEF FetchesSound

---------------------------------------------------------------------------
\* The loads once a membership check has ended.
LEMMA ResumedOf ==
  ASSUME ReaderInv, check.at = "answered", NEW lost \in BOOLEAN
  PROVE  /\ Resumed(lost) \in [Slot -> ViewLoad]
         /\ \A l \in Slot :
              /\ loads[l].at = "check" =>
                   /\ Resumed(lost)[l].at = "resolve" /\ Resumed(lost)[l].active = loads[l].active
                   /\ Resumed(lost)[l].members \subseteq check.members
              /\ loads[l].at = "queued" =>
                   Resumed(lost)[l].at = "check" /\ Resumed(lost)[l].active = loads[l].active
              /\ loads[l].at \notin {"check", "queued"} =>
                   /\ Resumed(lost)[l].at = loads[l].at
                   /\ lost => ~Resumed(lost)[l].active
                   /\ ~lost => Resumed(lost)[l] = loads[l]
<1>1. check.members \subseteq Space
  BY DEF ReaderInv, ReaderTypeOK, Check
<1> SUFFICES ASSUME NEW l \in Slot
             PROVE  /\ Resumed(lost)[l] \in ViewLoad
                    /\ loads[l].at = "check" =>
                         /\ Resumed(lost)[l].at = "resolve" /\ Resumed(lost)[l].active = loads[l].active
                         /\ Resumed(lost)[l].members \subseteq check.members
                    /\ loads[l].at = "queued" =>
                         Resumed(lost)[l].at = "check" /\ Resumed(lost)[l].active = loads[l].active
                    /\ loads[l].at \notin {"check", "queued"} =>
                         /\ Resumed(lost)[l].at = loads[l].at
                         /\ lost => ~Resumed(lost)[l].active
                         /\ ~lost => Resumed(lost)[l] = loads[l]
  BY DEF Resumed
<1>2. loads[l] \in ViewLoad
  BY DEF ReaderInv, ReaderTypeOK
<1>3. CASE loads[l].at = "check"
  <2>1. Resumed(lost)[l] = [loads[l] EXCEPT !.at = "resolve",
          !.members = IF loads[l].active THEN check.members ELSE {}]
    BY <1>3 DEF Resumed
  <2> QED  BY <1>1, <1>2, <1>3, <2>1 DEF ViewLoad
<1>4. CASE loads[l].at = "queued"
  <2>1. Resumed(lost)[l] = [loads[l] EXCEPT !.at = "check"]
    BY <1>4 DEF Resumed
  <2> QED  BY <1>2, <1>4, <2>1 DEF ViewLoad
<1>5. CASE loads[l].at \notin {"check", "queued"}
  <2>1. Resumed(lost)[l] = IF lost THEN Inactive(loads[l]) ELSE loads[l]
    BY <1>5 DEF Resumed
  <2>2. Inactive(loads[l]) = [loads[l] EXCEPT !.active = FALSE, !.space = NoSpace, !.members = {}]
    BY DEF Inactive
  <2>3. /\ Inactive(loads[l]) \in ViewLoad /\ Inactive(loads[l]).at = loads[l].at
        /\ Inactive(loads[l]).active = FALSE
    BY <1>2, <2>2 DEF ViewLoad
  <2> QED  BY <1>2, <1>5, <2>1, <2>3
<1> QED  BY <1>3, <1>4, <1>5

\* A read that follows begins as the last one ends.
LEMMA FollowingOf ==
  ASSUME check \in Check, Now \in Nat
  PROVE  /\ Following \in Check /\ Following.at \in {"none", "asked"}
         /\ Following.at = "none" <=> ~check.queued
<1>1. NoCheck \in Check
  BY DEF NoCheck, Check
<1>3. [NoCheck EXCEPT !.at = "asked"] \in Check
  BY <1>1 DEF Check
<1>2. [NoCheck EXCEPT !.at = "asked"].at = "asked" /\ NoCheck.at = "none"
  BY DEF NoCheck
<1> QED  BY <1>1, <1>2, <1>3 DEF Following, Check

\* A membership check ends: what it no longer finds is dropped, shown and in flight.
LEMMA CheckDoneKeeps == ReaderInv /\ CheckDone => ReaderInv'
<1> SUFFICES ASSUME ReaderInv, CheckDone PROVE ReaderInv'
  OBVIOUS
<1> DEFINE lost == Removed # {}
<1>1. /\ check.at = "answered" /\ known' = check.members /\ check' = Following
      /\ loads' = Resumed(lost)
      /\ values' = IF lost THEN <<>> ELSE values
      /\ histories' = IF lost THEN {} ELSE histories
      /\ fetches' = IF lost THEN Fence(fetches, {"history", "pages", "status"}, "clear") ELSE fetches
      /\ status' \in IF lost THEN {Nobody} ELSE Observed(user)
      /\ view' = IF selected \in Removed THEN {} ELSE view
      /\ UNCHANGED <<memberships, user, route, selected, told, changes>>
  BY DEF CheckDone
<1>2. /\ user \in User /\ check \in Check /\ Now \in Nat /\ Now' = Now
      /\ check.members \subseteq Space /\ known' # Unknown
  BY <1>1, ReaderAssumption DEF ReaderInv, TellingSound, ReaderTypeOK, Check, Now
<1>3. ASSUME ~lost, NEW s \in Space, Mine(s) PROVE Mine(s)'
  BY <1>1, <1>2, <1>3 DEF Removed, Mine
<1>4. /\ loads' \in [Slot -> ViewLoad]
      /\ \A l \in Slot :
           /\ loads[l].at = "check" =>
                /\ loads'[l].at = "resolve" /\ loads'[l].active = loads[l].active
                /\ loads'[l].members \subseteq check.members
           /\ loads[l].at = "queued" =>
                loads'[l].at = "check" /\ loads'[l].active = loads[l].active
           /\ loads[l].at \notin {"check", "queued"} =>
                /\ loads'[l].at = loads[l].at
                /\ lost => ~loads'[l].active
                /\ ~lost => loads'[l] = loads[l]
  BY <1>1, ResumedOf
<1>5. /\ check' \in Check /\ check'.at \in {"none", "asked"}
      /\ check'.at = "none" <=> ~check.queued
  BY <1>1, <1>2, FollowingOf
<1>6. ReaderTypeOK'
  <2>1. fetches' \subseteq Fetch
    BY <1>1, FenceOf DEF ReaderInv, ReaderTypeOK
  <2>2. status' \in User \cup {Nobody}
    BY <1>1, <1>2 DEF ReaderInv, ReaderTypeOK, Observed
  <2>3. values' \in Seq(Datum) /\ Len(values') <= MaxEntries
    BY <1>1, ReaderAssumption DEF ReaderInv, ReaderTypeOK
  <2> QED  BY <1>1, <1>2, <1>4, <1>5, <2>1, <2>2, <2>3 DEF ReaderInv, ReaderTypeOK, Fetch, Check
<1>7. TellingSound'
  <2>1. status' \in {Nobody, user}
    BY <1>1 DEF ReaderInv, TellingSound, Observed
  <2> QED  BY <1>1, <1>2, <1>5, <2>1, ReaderAssumption DEF ReaderInv, TellingSound
<1>8. KeptSound'
  <2>1. CASE lost
    <3>1. \A v \in view' : v.user = user' /\ Mine(v.space)' /\ v.space = selected'
      BY <1>1, <1>2 DEF ReaderInv, KeptSound, Removed, Mine
    <3> QED  BY <1>1, <2>1, <3>1 DEF KeptSound
  <2>2. CASE ~lost
    <3>1. values \in Seq(Datum) /\ view \subseteq Datum
          /\ histories \subseteq [user : User, space : Space, listed : BOOLEAN]
      BY DEF ReaderInv, ReaderTypeOK
    <3>2. ASSUME NEW i \in DOMAIN values
          PROVE  values[i].user = user /\ known' # Unknown /\ values[i].space \in known'
      <4>1. values[i] \in Datum /\ values[i].user = user /\ Mine(values[i].space)
        BY <3>1 DEF ReaderInv, KeptSound
      <4>2. \A s \in Space : Mine(s) => known' # Unknown /\ s \in known'
        BY <1>3, <2>2 DEF Mine
      <4> QED  BY <4>1, <4>2 DEF Datum
    <3>3. \A h \in histories : h.user = user /\ Mine(h.space)'
      BY <1>3, <2>2, <3>1 DEF ReaderInv, KeptSound
    <3>4. \A v \in view : v.user = user /\ Mine(v.space)' /\ v.space = selected
      BY <1>3, <2>2, <3>1 DEF ReaderInv, KeptSound, Datum
    <3> QED  BY <1>1, <2>2, <3>2, <3>3, <3>4 DEF KeptSound, Mine
  <2> QED  BY <2>1, <2>2
<1>9. Waiting
  BY <1>4 DEF Waiting
<1>10. FetchesSound'
  <2>1. CASE lost
    <3>1. \A f \in fetches : f.kind \in {"history", "pages", "status"}
      BY DEF ReaderInv, ReaderTypeOK, Fetch
    <3> QED  BY <1>1, <1>9, <2>1, <3>1, FencedStay
  <2>2. CASE ~lost
    BY <1>1, <1>3, <1>9, <2>2, FetchesStay
  <2> QED  BY <2>1, <2>2
<1>11. ASSUME NEW l \in Slot PROVE LoadSound(l)'
  <2>1. \A m \in Slot : loads'[m].active => loads[m].active
    BY <1>4
  <2>2. LoadSound(l) /\ loads[l] \in ViewLoad
    BY DEF ReaderInv, LoadsSound, ReaderTypeOK
  <2>3. CASE loads[l].at \in {"check", "queued"}
    BY <1>1, <1>2, <1>4, <2>1, <2>2, <2>3 DEF LoadSound
  <2>4. CASE loads[l].at \notin {"check", "queued"}
    <3>1. CASE lost
      BY <1>4, <2>4, <3>1 DEF LoadSound
    <3>2. CASE ~lost
      BY <1>1, <1>2, <1>3, <1>4, <2>1, <2>2, <2>4, <3>2 DEF LoadSound, Mine, Removed, ViewLoad
    <3> QED  BY <3>1, <3>2
  <2> QED  BY <2>3, <2>4
<1> QED  BY <1>6, <1>7, <1>8, <1>10, <1>11 DEF ReaderInv, LoadsSound
\* A load that has ended is idle, or loads again.
LEMMA EndedOf ==
  ASSUME NEW r \in ViewLoad
  PROVE  Ended(r) \in ViewLoad /\ Ended(r).at \in {"idle", "again"} /\ ~Ended(r).active
<1>1. NoLoad \in ViewLoad /\ NoLoad.at = "idle" /\ ~NoLoad.active
  BY DEF NoLoad, ViewLoad
<1>2. [NoLoad EXCEPT !.at = "again", !.refresh = "again"] \in ViewLoad
      /\ [NoLoad EXCEPT !.at = "again", !.refresh = "again"].at = "again"
      /\ ~[NoLoad EXCEPT !.at = "again", !.refresh = "again"].active
  BY DEF NoLoad, ViewLoad
<1> QED  BY <1>1, <1>2 DEF Ended

\* Only what is active, or where it is, says anything of a load.
LEMMA LoadsStay ==
  ASSUME ReaderInv, loads' \in [Slot -> ViewLoad], selected' = selected,
         known' = known,
         \A l \in Slot : loads'[l].active =>
           /\ loads[l].active /\ loads'[l].space = loads[l].space
           /\ loads'[l].members = loads[l].members
           /\ loads'[l].at \in {loads[l].at, "check"}
  PROVE  LoadsSound'
<1>1. ASSUME NEW l \in Slot PROVE LoadSound(l)'
  <2>1. LoadSound(l)
    BY DEF ReaderInv, LoadsSound
  <2> QED  BY <2>1 DEF LoadSound, Mine
<1> QED  BY <1>1 DEF LoadsSound

\* A membership check fails: the loads that waited for it end, told of nothing.
LEMMA CheckFailedKeeps == ReaderInv /\ CheckFailed => ReaderInv'
<1> SUFFICES ASSUME ReaderInv, CheckFailed PROVE ReaderInv'
  OBVIOUS
<1>1. /\ check.at # "none" /\ check' = Following
      /\ told' = IF check.queued THEN told ELSE {}
      /\ UNCHANGED <<memberships, user, values, histories, known, fetches, route, selected, view,
                     status, changes>>
  BY DEF CheckFailed, kept, place
<1>2. /\ user \in User /\ check \in Check /\ Now \in Nat /\ Now' = Now
  BY <1>1 DEF ReaderInv, TellingSound, ReaderTypeOK, Check, Now
<1>3. /\ check' \in Check /\ check'.at \in {"none", "asked"}
      /\ check'.at = "none" <=> ~check.queued
  BY <1>1, <1>2, FollowingOf
<1>4. ASSUME NEW l \in Slot
      PROVE  /\ loads'[l] \in ViewLoad
             /\ loads'[l].active => /\ loads[l].active /\ loads'[l].space = loads[l].space
                                    /\ loads'[l].members = loads[l].members
                                    /\ loads'[l].at \in {loads[l].at, "check"}
             /\ loads[l].at \notin {"check", "queued"} => loads'[l] = loads[l]
  <2>1. loads[l] \in ViewLoad
    BY DEF ReaderInv, ReaderTypeOK
  <2>2. CASE loads[l].at = "check"
    <3>1. loads'[l] = Ended(loads[l])
      BY <2>2 DEF CheckFailed
    <3> QED  BY <2>1, <2>2, <3>1, EndedOf
  <2>3. CASE loads[l].at = "queued"
    <3>1. loads'[l] = [loads[l] EXCEPT !.at = "check"]
      BY <2>3 DEF CheckFailed
    <3> QED  BY <2>1, <2>3, <3>1 DEF ViewLoad
  <2>4. CASE loads[l].at \notin {"check", "queued"}
    BY <2>1, <2>4 DEF CheckFailed
  <2> QED  BY <2>2, <2>3, <2>4
<1>5. loads' \in [Slot -> ViewLoad]
  BY <1>4 DEF CheckFailed
<1>6. ReaderTypeOK'
  BY <1>1, <1>2, <1>3, <1>5 DEF ReaderInv, ReaderTypeOK, Fetch, Check
<1>7. TellingSound'
  BY <1>1, <1>2, <1>3, ReaderAssumption DEF ReaderInv, TellingSound
<1>8. KeptSound'
  BY <1>1 DEF ReaderInv, KeptSound, Mine
<1>9. FetchesSound'
  <2>1. Waiting
    BY <1>4 DEF Waiting
  <2> QED  BY <1>1, <2>1, FetchesStay DEF Mine
<1>10. LoadsSound'
  BY <1>1, <1>4, <1>5, LoadsStay
<1> QED  BY <1>6, <1>7, <1>8, <1>9, <1>10 DEF ReaderInv

---------------------------------------------------------------------------
\* A load begins: it alone is active, and waits for the memberships it does not know.
LEMMA LoadingOf ==
  ASSUME ReaderInv, NEW l \in Slot, loads[l].at \in {"idle", "again"},
         NEW s \in Space, NEW refresh \in {"no", "yes"}, Loading(l, s, refresh),
         UNCHANGED <<memberships, user, known, fetches, selected>>
  PROVE  /\ loads' \in [Slot -> ViewLoad] /\ LoadsSound' /\ FetchesSound'
         /\ check' \in Check
         /\ check.at # "none" =>
              /\ check'.at = check.at /\ check'.members = check.members
              /\ check.queued => check'.queued
         /\ check.at = "none" => check'.at \in {"none", "asked"}
         /\ refresh = "yes" =>
              check'.at # "none" /\ (check'.at = "answered" => check'.queued)
<1> DEFINE reconcile == refresh # "no" \/ known = Unknown \/ s \notin known
           record(at) == [NoLoad EXCEPT !.at = at, !.space = s, !.refresh = refresh, !.active = TRUE]
           begun(r) == [m \in Slot |-> IF m = l THEN r ELSE Inactive(loads[m])]
<1>1. check \in Check /\ Now \in Nat /\ Now' = Now /\ known \in (SUBSET Space) \cup {Unknown}
  BY DEF ReaderInv, ReaderTypeOK, TellingSound, Now
<1>2. PICK r :
        /\ loads' = begun(r)
        /\ \/ /\ ~reconcile /\ check.at = "none" /\ check' = check
              /\ r = [record("resolve") EXCEPT !.members = known]
           \/ /\ r = record(IF check.at # "none" /\ reconcile THEN "queued" ELSE "check")
              /\ check' = Joined(reconcile)
  BY DEF Loading
<1>3. \A at \in {"resolve", "queued", "check"} :
        /\ record(at) \in ViewLoad /\ record(at).at = at /\ record(at).active
  BY DEF NoLoad, ViewLoad
<1>4. /\ r \in ViewLoad /\ r.active /\ r.at \in {"resolve", "queued", "check"}
      /\ r.at = "resolve" => known # Unknown /\ r.members = known
  <2> HIDE DEF record, begun
  <2>1. CASE ~reconcile /\ r = [record("resolve") EXCEPT !.members = known]
    BY <1>1, <1>3, <2>1 DEF ViewLoad
  <2>2. CASE r = record(IF check.at # "none" /\ reconcile THEN "queued" ELSE "check")
    BY <1>3, <2>2
  <2> QED  BY <1>2, <2>1, <2>2
<1>5. ASSUME NEW m \in Slot
      PROVE  /\ Inactive(loads[m]) \in ViewLoad /\ ~Inactive(loads[m]).active
             /\ Inactive(loads[m]).at = loads[m].at
  BY DEF ReaderInv, ReaderTypeOK, Inactive, ViewLoad
<1>6. loads' \in [Slot -> ViewLoad]
  BY <1>2, <1>4, <1>5
<1>7. LoadsSound'
  BY <1>2, <1>4, <1>5 DEF LoadsSound, LoadSound
<1>8. FetchesSound'
  <2>1. Waiting
    BY <1>2, <1>5 DEF Waiting
  <2> QED  BY <2>1, FetchesStay DEF Mine
<1>9. Joined(reconcile) \in Check
  <2>1. NoCheck \in Check
    BY <1>1 DEF NoCheck, Check
  <2>2. [NoCheck EXCEPT !.at = "asked"] \in Check
    BY <2>1 DEF Check
  <2>3. [check EXCEPT !.queued = TRUE] \in Check
    BY <1>1 DEF Check
  <2> QED  BY <1>1, <2>2, <2>3 DEF Joined
<1>10. /\ check.at = "none" => Joined(reconcile).at = "asked"
       /\ check.at # "none" => /\ Joined(reconcile).at = check.at
                               /\ Joined(reconcile).members = check.members
                               /\ Joined(reconcile).queued = (check.queued \/ reconcile)
  <2> HIDE DEF reconcile
  <2>1. [NoCheck EXCEPT !.at = "asked"].at = "asked"
    BY DEF NoCheck
  <2>2. /\ [check EXCEPT !.queued = TRUE].at = check.at
        /\ [check EXCEPT !.queued = TRUE].members = check.members
        /\ [check EXCEPT !.queued = TRUE].queued = TRUE
    BY <1>1 DEF Check
  <2> QED  BY <1>1, <2>1, <2>2 DEF Joined, Check
<1>11. check' \in Check
  <2> HIDE DEF reconcile, record, begun
  <2>1. Check' = Check
    BY <1>1 DEF Check
  <2> QED  BY <1>1, <1>2, <1>9
<1>12. check.at # "none" => /\ check'.at = check.at /\ check'.members = check.members
                            /\ check.queued => check'.queued
  <2> HIDE DEF reconcile, record, begun
  <2> QED  BY <1>2, <1>10
<1>13. check.at = "none" => check'.at \in {"none", "asked"}
  <2> HIDE DEF reconcile, record, begun
  <2> QED  BY <1>2, <1>10
<1>14. refresh = "yes" => check'.at # "none" /\ (check'.at = "answered" => check'.queued)
  <2>1. refresh = "yes" => reconcile
    OBVIOUS
  <2> HIDE DEF reconcile, record, begun
  <2> QED  BY <1>2, <1>10, <2>1
<1> QED  BY <1>6, <1>7, <1>8, <1>11, <1>12, <1>13, <1>14
\* The user goes to a page: what is shown of another space goes, and a load begins.
LEMMA NavigateKeeps ==
  ASSUME NEW l \in Slot, NEW s \in Space, ReaderInv, Navigate(l, s)
  PROVE  ReaderInv'
<1>1. /\ user # Nobody /\ loads[l].at = "idle" /\ Loading(l, s, "no")
      /\ route' = s /\ view' = IF s = route THEN view ELSE {}
      /\ UNCHANGED <<memberships, user, values, histories, known, fetches, selected, status,
                     told, changes>>
  BY DEF Navigate, kept
<1>2. /\ loads' \in [Slot -> ViewLoad] /\ LoadsSound' /\ FetchesSound' /\ check' \in Check
      /\ check.at # "none" =>
           /\ check'.at = check.at /\ check'.members = check.members
           /\ check.queued => check'.queued
      /\ check.at = "none" => check'.at \in {"none", "asked"}
  BY <1>1, LoadingOf
<1>3. Now' = Now
  BY <1>1 DEF Now
<1>4. ReaderTypeOK'
  BY <1>1, <1>2, <1>3 DEF ReaderInv, ReaderTypeOK, Fetch, Check
<1>5. TellingSound'
  BY <1>1, <1>2, <1>3 DEF ReaderInv, TellingSound
<1>6. KeptSound'
  BY <1>1 DEF ReaderInv, KeptSound, Mine
<1> QED  BY <1>2, <1>4, <1>5, <1>6 DEF ReaderInv

\* An event: the reader is to find out what is lost, by a check that begins after it.
LEMMA RefreshKeeps == ReaderInv /\ Refresh => ReaderInv'
<1> SUFFICES ASSUME ReaderInv, Refresh PROVE ReaderInv'
  OBVIOUS
<1>1. /\ user # Nobody /\ told' = Lost
      /\ UNCHANGED <<memberships, user, values, histories, known, fetches, route, selected, view,
                     status, changes>>
  BY DEF Refresh, kept, place
<1>2. Now' = Now /\ Now \in Nat /\ check \in Check /\ known \in (SUBSET Space) \cup {Unknown}
  BY <1>1 DEF Now, ReaderInv, TellingSound, ReaderTypeOK
<1>3. /\ loads' \in [Slot -> ViewLoad] /\ LoadsSound' /\ FetchesSound' /\ check' \in Check
      /\ check'.at # "none" /\ (check'.at = "answered" => check'.queued)
  <2>1. ASSUME NEW l \in Slot, loads[l].refresh # "no", check' = Joined(TRUE),
               loads' = [loads EXCEPT ![l].refresh = "again"]
        PROVE  /\ loads' \in [Slot -> ViewLoad] /\ LoadsSound' /\ FetchesSound' /\ check' \in Check
               /\ check'.at # "none" /\ (check'.at = "answered" => check'.queued)
    <3>1. loads \in [Slot -> ViewLoad]
      BY DEF ReaderInv, ReaderTypeOK
    <3>2. ASSUME NEW m \in Slot
          PROVE  /\ loads'[m] \in ViewLoad /\ loads'[m].at = loads[m].at
                 /\ loads'[m].active = loads[m].active /\ loads'[m].space = loads[m].space
                 /\ loads'[m].members = loads[m].members
      <4>1. CASE m = l
        <5>1. loads'[l] = [loads[l] EXCEPT !.refresh = "again"]
          BY <2>1, <3>1
        <5> QED  BY <3>1, <4>1, <5>1 DEF ViewLoad
      <4>2. CASE m # l
        BY <2>1, <3>1, <4>2
      <4> QED  BY <4>1, <4>2
    <3>3. loads' \in [Slot -> ViewLoad]
      BY <2>1, <3>1, <3>2
    <3>4. LoadsSound'
      BY <1>1, <3>2, <3>3, LoadsStay
    <3>5. FetchesSound'
      BY <1>1, <3>2, FetchesStay DEF Waiting, Mine
    <3>9. NoCheck \in Check
      BY <1>2 DEF NoCheck, Check
    <3>6. [NoCheck EXCEPT !.at = "asked"] \in Check /\ [NoCheck EXCEPT !.at = "asked"].at = "asked"
      BY <3>9 DEF Check
    <3>7. /\ [check EXCEPT !.queued = TRUE] \in Check /\ [check EXCEPT !.queued = TRUE].queued
          /\ [check EXCEPT !.queued = TRUE].at = check.at
      BY <1>2 DEF Check
    <3>8. check' \in Check /\ check'.at # "none" /\ (check'.at = "answered" => check'.queued)
      BY <2>1, <3>6, <3>7 DEF Joined
    <3> QED  BY <3>3, <3>4, <3>5, <3>8
  <2>2. ASSUME NEW l \in Slot, loads[l].at = "idle", Loading(l, route, "yes")
        PROVE  /\ loads' \in [Slot -> ViewLoad] /\ LoadsSound' /\ FetchesSound' /\ check' \in Check
               /\ check'.at # "none" /\ (check'.at = "answered" => check'.queued)
    <3>1. route \in Space
      BY DEF ReaderInv, ReaderTypeOK
    <3> QED  BY <1>1, <2>2, <3>1, LoadingOf
  <2> QED  BY <2>1, <2>2 DEF Refresh
<1>4. ReaderTypeOK'
  BY <1>1, <1>2, <1>3 DEF ReaderInv, ReaderTypeOK, Fetch, Check, Lost
<1>5. TellingSound'
  BY <1>1, <1>2, <1>3 DEF ReaderInv, TellingSound, Lost
<1>6. KeptSound'
  BY <1>1 DEF ReaderInv, KeptSound, Mine
<1> QED  BY <1>3, <1>4, <1>5, <1>6 DEF ReaderInv

\* A load that an event overtook begins again.
LEMMA LoadAgainKeeps ==
  ASSUME NEW l \in Slot, ReaderInv, LoadAgain(l)
  PROVE  ReaderInv'
<1>1. /\ loads[l].at = "again" /\ Loading(l, route, "yes")
      /\ UNCHANGED <<memberships, user, values, histories, known, fetches, route, selected, view,
                     status, told, changes>>
  BY DEF LoadAgain, kept, place
<1>2. /\ loads' \in [Slot -> ViewLoad] /\ LoadsSound' /\ FetchesSound' /\ check' \in Check
      /\ check.at # "none" =>
           /\ check'.at = check.at /\ check'.members = check.members
           /\ check.queued => check'.queued
      /\ check.at = "none" => check'.at \in {"none", "asked"}
  <2>1. route \in Space
    BY DEF ReaderInv, ReaderTypeOK
  <2> QED  BY <1>1, <2>1, LoadingOf
<1>3. Now' = Now
  BY <1>1 DEF Now
<1>4. ReaderTypeOK'
  BY <1>1, <1>2, <1>3 DEF ReaderInv, ReaderTypeOK, Fetch, Check
<1>5. user # Nobody
  BY <1>1 DEF ReaderInv, TellingSound
<1>6. TellingSound'
  BY <1>1, <1>2, <1>3, <1>5 DEF ReaderInv, TellingSound
<1>7. KeptSound'
  BY <1>1 DEF ReaderInv, KeptSound, Mine
<1> QED  BY <1>2, <1>4, <1>6, <1>7 DEF ReaderInv
---------------------------------------------------------------------------
\* No load that does not wait for publications or pages is among those that wait.
LEMMA WaitsForOne ==
  ASSUME ReaderInv, NEW f \in fetches, NEW l \in f.waiting
  PROVE  l \in Slot /\ loads[l].at = f.kind /\ f.kind \in {"history", "pages"}
BY DEF ReaderInv, ReaderTypeOK, FetchesSound, FetchSound, Fetch

\* A load reads what is not kept: it joins the request in flight, or sends one.
LEMMA ReadingOf ==
  ASSUME ReaderInv, user \in User, NEW kind \in {"history", "pages"}, NEW s \in Space, Mine(s),
         NEW l \in Slot, loads[l].at \notin {"history", "pages"},
         loads'[l].at = kind, loads'[l].active => loads'[l].space = s,
         \A m \in Slot : m # l => loads'[m] = loads[m],
         fetches' = Reading(kind, s, l), user' = user, known' = known
  PROVE  fetches' \subseteq Fetch /\ FetchesSound'
<1>1. ASSUME NEW f \in fetches
      PROVE  f \in Fetch /\ FetchSound(f) /\ FetchSound(f)' /\ l \notin f.waiting
  <2>1. f \in Fetch /\ FetchSound(f)
    BY DEF ReaderInv, ReaderTypeOK, FetchesSound
  <2>2. \A m \in f.waiting : m \in Slot /\ loads[m].at \in {"history", "pages"}
    BY WaitsForOne
  <2>3. \A m \in f.waiting : loads'[m] = loads[m]
    BY <2>2
  <2> QED  BY <2>1, <2>2, <2>3 DEF FetchSound, Mine
<1>2. \A f, g \in fetches : f.waiting \cap g.waiting # {} => f = g
  BY DEF ReaderInv, FetchesSound
<1>3. CASE Shared(kind, s) # {}
  <2>1. PICK f \in Shared(kind, s) :
          fetches' = (fetches \ {f}) \cup {[f EXCEPT !.waiting = @ \cup {l}]}
    BY <1>3 DEF Reading
  <2> DEFINE g == [f EXCEPT !.waiting = @ \cup {l}]
  <2>2. f \in fetches /\ f.kind = kind /\ f.space = s /\ f.since = "nothing"
    BY DEF Shared
  <2>3. /\ g \in Fetch /\ g.waiting = f.waiting \cup {l} /\ g.kind = kind /\ g.space = s
        /\ g.since = f.since /\ g.user = f.user
    BY <1>1, <2>2 DEF Fetch
  <2> HIDE DEF g
  <2>4. FetchSound(g)'
    BY <1>1, <2>2, <2>3 DEF FetchSound, Mine
  <2>5. fetches' = (fetches \ {f}) \cup {g}
    BY <2>1 DEF g
  <2>6. \A h \in fetches \ {f} : h.waiting \cap g.waiting = {}
    BY <1>1, <1>2, <2>2, <2>3
  <2>7. fetches' \subseteq Fetch
    BY <1>1, <2>3, <2>5
  <2>8. \A h \in fetches' : FetchSound(h)'
    BY <1>1, <2>4, <2>5
  <2>9. \A h, e \in fetches' : h.waiting \cap e.waiting # {} => h = e
    BY <1>2, <2>5, <2>6
  <2> QED  BY <2>7, <2>8, <2>9 DEF FetchesSound
<1>4. CASE Shared(kind, s) = {}
  <2>0. PICK g :
          g = Request(kind, s, kind = "history" \/ Cardinality(Registered) < MaxEntries, {l})
    OBVIOUS
  <2>1. fetches' = fetches \cup {g}
    BY <1>4, <2>0 DEF Reading
  <2>2. /\ g.waiting = {l} /\ g.kind = kind /\ g.space = s /\ g.since = "nothing" /\ g.user = user
    BY <2>0 DEF Request
  <2>3. g \in Fetch
    <3>1. (kind = "history" \/ Cardinality(Registered) < MaxEntries) \in BOOLEAN
      OBVIOUS
    <3> QED  BY <2>0, <3>1 DEF Request, Fetch
  <2>4. FetchSound(g)'
    BY <2>2 DEF FetchSound, Mine
  <2>5. \A h \in fetches : h.waiting \cap g.waiting = {}
    BY <1>1, <2>2
  <2>6. fetches' \subseteq Fetch
    BY <1>1, <2>1, <2>3
  <2>7. \A h \in fetches' : FetchSound(h)'
    BY <1>1, <2>1, <2>4
  <2>8. \A h, e \in fetches' : h.waiting \cap e.waiting # {} => h = e
    BY <1>2, <2>1, <2>5
  <2> QED  BY <2>6, <2>7, <2>8 DEF FetchesSound
<1> QED  BY <1>3, <1>4
\* A load ends, and no other load is changed.
LEMMA LoadEndsOf ==
  ASSUME ReaderInv, NEW l \in Slot, LoadEnds(l)
  PROVE  /\ loads' \in [Slot -> ViewLoad] /\ ~loads'[l].active
         /\ \A m \in Slot : m # l => loads'[m] = loads[m]
<1>1. loads \in [Slot -> ViewLoad]
  BY DEF ReaderInv, ReaderTypeOK
<1>2. Ended(loads[l]) \in ViewLoad /\ ~Ended(loads[l]).active
  BY <1>1, EndedOf
<1> QED  BY <1>1, <1>2 DEF LoadEnds

\* What waits for no request may change without any request being the worse for it.
LEMMA OthersWait ==
  ASSUME ReaderInv, NEW l \in Slot, loads[l].at \notin {"history", "pages"},
         \A m \in Slot : m # l => loads'[m] = loads[m],
         fetches' = fetches, user' = user, known' = known
  PROVE  FetchesSound'
<1>1. Waiting
  BY DEF Waiting
<1> QED  BY <1>1, FetchesStay DEF Mine

\* The load chooses the publications of its space, if that is one of the memberships.
LEMMA ChooseKeeps ==
  ASSUME NEW l \in Slot, ReaderInv, Choose(l)
  PROVE  ReaderInv'
<1> DEFINE s == loads[l].space
           again == loads[l].refresh # "no" \/ s # selected
           fetched == again \/ Shared("history", s) # {} \/ History(s) = {}
           listed == \E h \in History(s) : h.listed
<1>1. /\ loads[l].at = "resolve"
      /\ UNCHANGED <<memberships, user, values, histories, known, check, route, status, told, changes>>
  BY DEF Choose, kept
<1>2. /\ loads \in [Slot -> ViewLoad] /\ Now \in Nat /\ Now' = Now /\ LoadSound(l)
      /\ user \in User
  BY <1>1 DEF ReaderInv, ReaderTypeOK, TellingSound, LoadsSound, Now
<1>3. /\ loads' \in [Slot -> ViewLoad] /\ \A m \in Slot : m # l => loads'[m] = loads[m]
      /\ fetches' \subseteq Fetch /\ FetchesSound' /\ LoadsSound'
      /\ view' \subseteq view /\ (view' # {} => selected' = selected)
      /\ selected' \in Space \cup {NoSpace}
  <2>1. CASE ~loads[l].active \/ s \notin loads[l].members
    <3>1. LoadEnds(l) /\ UNCHANGED <<fetches, selected>> /\ view' \subseteq view
      BY <2>1 DEF Choose
    <3>2. /\ loads' \in [Slot -> ViewLoad] /\ ~loads'[l].active
          /\ \A m \in Slot : m # l => loads'[m] = loads[m]
      BY <3>1, LoadEndsOf
    <3>3. LoadsSound'
      BY <1>1, <1>2, <3>1, <3>2, LoadsStay
    <3>4. FetchesSound'
      BY <1>1, <3>1, <3>2, OthersWait
    <3> QED  BY <3>1, <3>2, <3>3, <3>4 DEF ReaderInv, ReaderTypeOK
  <2>2. CASE loads[l].active /\ s \in loads[l].members
    <3>1. /\ selected' = s /\ view' = IF s = selected /\ (fetched \/ listed) THEN view ELSE {}
          /\ IF fetched
               THEN /\ fetches' = Reading("history", s, l)
                    /\ loads' = [loads EXCEPT ![l].at = "history",
                                   ![l].again = again /\ Shared("history", s) # {}]
               ELSE /\ UNCHANGED fetches
                    /\ IF listed THEN LoadGoes(l, "list") ELSE LoadEnds(l)
      BY <2>2 DEF Choose
    <3>2. known # Unknown /\ s \in known /\ s \in Space /\ Mine(s)
      BY <1>1, <1>2, <2>2 DEF LoadSound, ViewLoad, Mine
    <3>3. \A m \in Slot : m # l => ~loads[m].active
      BY <1>2, <2>2 DEF LoadSound
    <3>4. ASSUME fetched
          PROVE  /\ loads' \in [Slot -> ViewLoad] /\ \A m \in Slot : m # l => loads'[m] = loads[m]
                 /\ loads'[l].at = "history" /\ loads'[l].space = s
      <4>1. (again /\ Shared("history", s) # {}) \in BOOLEAN
        OBVIOUS
      <4> HIDE DEF again
      <4>2. loads' = [loads EXCEPT ![l].at = "history",
                                   ![l].again = again /\ Shared("history", s) # {}]
        BY <3>1, <3>4
      <4>3. [loads[l] EXCEPT !.at = "history", !.again = again /\ Shared("history", s) # {}] \in ViewLoad
        BY <1>2, <4>1 DEF ViewLoad
      <4> QED  BY <1>2, <4>2, <4>3 DEF ViewLoad
    <3>5. ASSUME ~fetched, listed
          PROVE  /\ loads' \in [Slot -> ViewLoad] /\ \A m \in Slot : m # l => loads'[m] = loads[m]
                 /\ loads'[l].at = "list" /\ loads'[l].space = s
      <4>1. loads' = [loads EXCEPT ![l].at = "list"]
        BY <3>1, <3>5 DEF LoadGoes
      <4>2. [loads[l] EXCEPT !.at = "list"] \in ViewLoad
        BY <1>2 DEF ViewLoad
      <4> QED  BY <1>2, <4>1, <4>2 DEF ViewLoad
    <3>6. ASSUME ~fetched, ~listed
          PROVE  /\ loads' \in [Slot -> ViewLoad] /\ \A m \in Slot : m # l => loads'[m] = loads[m]
                 /\ ~loads'[l].active
      BY <3>1, <3>6, LoadEndsOf
    <3> HIDE DEF fetched, listed, again
    <3>7. loads' \in [Slot -> ViewLoad] /\ \A m \in Slot : m # l => loads'[m] = loads[m]
      BY <3>4, <3>5, <3>6
    <3>8. fetches' \subseteq Fetch /\ FetchesSound'
      <4>1. CASE fetched
        BY <1>1, <1>2, <3>1, <3>2, <3>4, <4>1, ReadingOf
      <4>2. CASE ~fetched
        BY <1>1, <3>1, <3>7, <4>2, OthersWait DEF ReaderInv, ReaderTypeOK
      <4> QED  BY <4>1, <4>2
    <3>9. LoadsSound'
      <4>1. ASSUME NEW m \in Slot, loads'[m].active
            PROVE  m = l /\ loads'[l].at \in {"history", "list"} /\ loads'[l].space = s
        BY <3>3, <3>4, <3>5, <3>6, <3>7, <4>1
      <4>2. known' # Unknown /\ s \in known' /\ selected' = s
        BY <1>1, <3>1, <3>2
      <4> QED  BY <4>1, <4>2 DEF LoadsSound, LoadSound, Mine
    <3> QED  BY <3>1, <3>2, <3>7, <3>8, <3>9
  <2> QED  BY <2>1, <2>2
<1>4. ReaderTypeOK'
  BY <1>1, <1>2, <1>3 DEF ReaderInv, ReaderTypeOK, Fetch, Check
<1>5. TellingSound'
  BY <1>1, <1>2, <1>3, ReaderAssumption DEF ReaderInv, TellingSound, ReaderTypeOK
<1>6. KeptSound'
  BY <1>1, <1>3 DEF ReaderInv, KeptSound, Mine
<1> QED  BY <1>3, <1>4, <1>5, <1>6 DEF ReaderInv
\* What the memory cache keeps after a use of it was in it, or is what was used.
LEMMA CacheKeeps ==
  ASSUME ReaderInv, NEW v \in Datum, v.user = user, Mine(v.space)
  PROVE  /\ Retained(values, v) \in Seq(Datum) /\ Len(Retained(values, v)) <= MaxEntries
         /\ \A i \in DOMAIN Retained(values, v) :
              Retained(values, v)[i].user = user /\ Mine(Retained(values, v)[i].space)
         /\ Contains(values, v) =>
              /\ Used(values, v) \in Seq(Datum) /\ Len(Used(values, v)) <= MaxEntries
              /\ \A i \in DOMAIN Used(values, v) :
                   Used(values, v)[i].user = user /\ Mine(Used(values, v)[i].space)
<1> DEFINE S == {d \in Datum : d.user = user /\ Mine(d.space)}
<1>1. values \in Seq(Datum) /\ Len(values) <= MaxEntries
      /\ \A i \in DOMAIN values : values[i].user = user /\ Mine(values[i].space)
  BY DEF ReaderInv, ReaderTypeOK, KeptSound
<1>2. values \in Seq(S)
  <2>1. \A i \in 1 .. Len(values) : values[i] \in S
    BY <1>1
  <2> QED  BY <1>1, <2>1
<1>3. v \in S
  OBVIOUS
<1> HIDE DEF S
<1>4. /\ Retained(values, v) \in Seq(S) /\ Len(Retained(values, v)) <= MaxEntries
      /\ Contains(values, v) => Len(Used(values, v)) <= MaxEntries
  BY <1>1, <1>2, <1>3, CacheOf
<1>5. Used(values, v) \in Seq(S)
  BY <1>2, <1>3, UsedOf
<1>6. ASSUME NEW q \in Seq(S)
      PROVE  q \in Seq(Datum) /\ \A i \in DOMAIN q : q[i].user = user /\ Mine(q[i].space)
  <2>1. \A i \in 1 .. Len(q) : q[i] \in S
    BY <1>6
  <2>2. \A i \in 1 .. Len(q) : q[i] \in Datum /\ q[i].user = user /\ Mine(q[i].space)
    BY <2>1 DEF S
  <2> QED  BY <1>6, <2>2
<1> QED  BY <1>4, <1>5, <1>6

\* The load shows the pages kept, or asks for them.
LEMMA ListPagesKeeps ==
  ASSUME NEW l \in Slot, ReaderInv, ListPages(l)
  PROVE  ReaderInv'
<1>0. PICK v : v = [user |-> user, space |-> loads[l].space]
  OBVIOUS
<1>1. /\ loads[l].at = "list"
      /\ UNCHANGED <<memberships, user, histories, known, check, route, selected, status, told, changes>>
  BY DEF ListPages
<1>2. /\ loads \in [Slot -> ViewLoad] /\ Now \in Nat /\ Now' = Now /\ LoadSound(l)
      /\ user \in User
  BY <1>1 DEF ReaderInv, ReaderTypeOK, TellingSound, LoadsSound, Now
<1>3. loads[l].active => /\ v \in Datum /\ v.user = user /\ Mine(v.space) /\ v.space = selected
                         /\ v.space = loads[l].space /\ v.space \in Space
  <2>1. loads[l].active => Mine(loads[l].space) /\ loads[l].space = selected
    BY <1>1, <1>2 DEF LoadSound
  <2>2. loads[l].active => loads[l].space \in Space
    BY <2>1 DEF Mine, ReaderInv, ReaderTypeOK
  <2> QED  BY <1>0, <1>2, <2>1, <2>2 DEF Datum
<1>4. /\ loads' \in [Slot -> ViewLoad] /\ \A m \in Slot : m # l => loads'[m] = loads[m]
      /\ fetches' \subseteq Fetch /\ FetchesSound' /\ LoadsSound'
      /\ values' \in Seq(Datum) /\ Len(values') <= MaxEntries
      /\ \A i \in DOMAIN values' : values'[i].user = user /\ Mine(values'[i].space)
      /\ view' = view \/ (view' = {v} /\ loads[l].active)
  <2>0. /\ values \in Seq(Datum) /\ Len(values) <= MaxEntries
        /\ \A i \in DOMAIN values : values[i].user = user /\ Mine(values[i].space)
    BY DEF ReaderInv, ReaderTypeOK, KeptSound
  <2>1. CASE ~loads[l].active
    <3>1. LoadEnds(l) /\ UNCHANGED <<values, fetches, view>>
      BY <2>1 DEF ListPages
    <3>2. /\ loads' \in [Slot -> ViewLoad] /\ ~loads'[l].active
          /\ \A m \in Slot : m # l => loads'[m] = loads[m]
      BY <3>1, LoadEndsOf
    <3>3. LoadsSound'
      BY <1>1, <1>2, <3>1, <3>2, LoadsStay
    <3>4. FetchesSound'
      BY <1>1, <3>1, <3>2, OthersWait
    <3> QED  BY <2>0, <3>1, <3>2, <3>3, <3>4 DEF ReaderInv, ReaderTypeOK
  <2>2. CASE loads[l].active /\ Contains(values, v)
    <3>1. LoadEnds(l) /\ values' = Used(values, v) /\ view' = {v} /\ UNCHANGED fetches
      BY <1>0, <2>2 DEF ListPages
    <3>2. /\ loads' \in [Slot -> ViewLoad] /\ ~loads'[l].active
          /\ \A m \in Slot : m # l => loads'[m] = loads[m]
      BY <3>1, LoadEndsOf
    <3>3. LoadsSound'
      BY <1>1, <1>2, <3>1, <3>2, LoadsStay
    <3>4. FetchesSound'
      BY <1>1, <3>1, <3>2, OthersWait
    <3>5. /\ values' \in Seq(Datum) /\ Len(values') <= MaxEntries
          /\ \A i \in DOMAIN values' : values'[i].user = user /\ Mine(values'[i].space)
      BY <1>3, <2>2, <3>1, CacheKeeps
    <3> QED  BY <2>2, <3>1, <3>2, <3>3, <3>4, <3>5 DEF ReaderInv, ReaderTypeOK
  <2>3. CASE loads[l].active /\ ~Contains(values, v)
    <3>1. /\ LoadGoes(l, "pages") /\ fetches' = Reading("pages", loads[l].space, l)
          /\ UNCHANGED <<values, view>>
      BY <1>0, <2>3 DEF ListPages
    <3>2. [loads[l] EXCEPT !.at = "pages"] \in ViewLoad
      BY <1>2 DEF ViewLoad
    <3>3. /\ loads' \in [Slot -> ViewLoad] /\ \A m \in Slot : m # l => loads'[m] = loads[m]
          /\ loads'[l].at = "pages" /\ loads'[l].space = loads[l].space
      BY <1>2, <3>1, <3>2 DEF LoadGoes, ViewLoad
    <3>4. fetches' \subseteq Fetch /\ FetchesSound'
      BY <1>1, <1>2, <1>3, <2>3, <3>1, <3>3, ReadingOf
    <3>5. \A m \in Slot : m # l => ~loads'[m].active
      BY <1>2, <2>3, <3>3 DEF LoadSound
    <3>6. loads[l].space \in known /\ known # Unknown /\ loads[l].space = selected
      BY <1>3, <2>3 DEF Mine
    <3>7. LoadsSound'
      BY <1>1, <3>3, <3>5, <3>6 DEF LoadsSound, LoadSound, Mine
    <3> QED  BY <2>0, <3>1, <3>3, <3>4, <3>7
  <2> QED  BY <2>1, <2>2, <2>3
<1>5. view' \subseteq Datum /\ \A d \in view' : d.user = user /\ Mine(d.space) /\ d.space = selected
  BY <1>3, <1>4 DEF ReaderInv, ReaderTypeOK, KeptSound
<1>6. ReaderTypeOK'
  BY <1>1, <1>2, <1>4, <1>5 DEF ReaderInv, ReaderTypeOK, Fetch, Check
<1>7. TellingSound'
  BY <1>1, <1>2, <1>4, ReaderAssumption DEF ReaderInv, TellingSound
<1>8. KeptSound'
  BY <1>1, <1>4, <1>5 DEF ReaderInv, KeptSound, Mine
<1> QED  BY <1>4, <1>6, <1>7, <1>8 DEF ReaderInv
---------------------------------------------------------------------------
\* A request ends, and so do the loads that waited for it: no other waited with them.
LEMMA RequestEnds ==
  ASSUME ReaderInv, NEW f \in fetches, loads' = Failing(f), fetches' = fetches \ {f},
         user' = user, known' = known, selected' = selected
  PROVE  loads' \in [Slot -> ViewLoad] /\ fetches' \subseteq Fetch /\ FetchesSound' /\ LoadsSound'
<1>1. loads \in [Slot -> ViewLoad] /\ fetches \subseteq Fetch
  BY DEF ReaderInv, ReaderTypeOK
<1>2. ASSUME NEW l \in Slot
      PROVE  /\ loads'[l] \in ViewLoad /\ (l \in f.waiting => ~loads'[l].active)
             /\ l \notin f.waiting => loads'[l] = loads[l]
  BY <1>1, EndedOf DEF Failing
<1>3. loads' \in [Slot -> ViewLoad]
  BY <1>2 DEF Failing
<1>4. LoadsSound'
  BY <1>2, <1>3, LoadsStay
<1>5. ASSUME NEW g \in fetches, g # f PROVE FetchSound(g)'
  <2>1. g \in Fetch /\ FetchSound(g)
    BY <1>1 DEF ReaderInv, FetchesSound
  <2>2. g.waiting \cap f.waiting = {}
    BY <1>5 DEF ReaderInv, FetchesSound
  <2>3. \A m \in g.waiting : m \in Slot
    BY WaitsForOne
  <2>4. \A m \in g.waiting : loads'[m] = loads[m]
    BY <1>2, <2>2, <2>3
  <2> QED  BY <2>1, <2>4 DEF FetchSound, Mine
<1>6. FetchesSound'
  BY <1>5 DEF ReaderInv, FetchesSound
<1> QED  BY <1>1, <1>3, <1>4, <1>6

\* A request fails, or its answer is not read.
LEMMA FetchFailedKeeps ==
  ASSUME NEW f \in fetches, ReaderInv, FetchFailed(f)
  PROVE  ReaderInv'
<1>1. /\ loads' = Failing(f) /\ fetches' = fetches \ {f}
      /\ UNCHANGED <<memberships, user, values, histories, known, check, route, selected, view,
                     status, told, changes>>
  BY DEF FetchFailed, Failed, kept
<1>2. Now' = Now
  BY <1>1 DEF Now
<1>3. loads' \in [Slot -> ViewLoad] /\ fetches' \subseteq Fetch /\ FetchesSound' /\ LoadsSound'
  BY <1>1, RequestEnds
<1>4. ReaderTypeOK'
  BY <1>1, <1>2, <1>3 DEF ReaderInv, ReaderTypeOK, Fetch, Check
<1>5. user = Nobody => \A l \in Slot : l \notin f.waiting
  BY WaitsForOne DEF ReaderInv, TellingSound
<1>6. TellingSound'
  <2>1. user = Nobody => \A l \in Slot : loads'[l] = loads[l]
    BY <1>1, <1>5 DEF Failing
  <2> QED  BY <1>1, <1>2, <2>1 DEF ReaderInv, TellingSound
<1>7. KeptSound'
  BY <1>1 DEF ReaderInv, KeptSound, Mine
<1> QED  BY <1>3, <1>4, <1>6, <1>7 DEF ReaderInv

\* A request that no load waits for.
LEMMA AskStatusKeeps == ReaderInv /\ AskStatus => ReaderInv'
<1> SUFFICES ASSUME ReaderInv, AskStatus PROVE ReaderInv'
  OBVIOUS
<1>0. PICK g : g = Request("status", NoSpace, TRUE, {})
  OBVIOUS
<1>1. /\ user # Nobody /\ fetches' = fetches \cup {g}
      /\ UNCHANGED <<memberships, user, values, histories, known, check, loads, route, selected,
                     view, status, told, changes>>
  BY <1>0 DEF AskStatus, kept, place
<1>2. Now' = Now /\ Now \in Nat /\ user \in User
  BY <1>1 DEF Now, ReaderInv, ReaderTypeOK, TellingSound
<1>3. g \in Fetch /\ g.kind = "status" /\ g.waiting = {} /\ g.user = user
  BY <1>0, <1>2 DEF Request, Fetch
<1>4. ReaderTypeOK'
  BY <1>1, <1>2, <1>3 DEF ReaderInv, ReaderTypeOK, Fetch, Check
<1>5. TellingSound' /\ KeptSound' /\ LoadsSound'
  BY <1>1, <1>2 DEF ReaderInv, TellingSound, KeptSound, LoadsSound, LoadSound, Mine
<1>6. FetchesSound'
  BY <1>1, <1>3 DEF ReaderInv, FetchesSound, FetchSound, Mine
<1> QED  BY <1>4, <1>5, <1>6 DEF ReaderInv

---------------------------------------------------------------------------
\* A list of publications that was not fenced is kept, and the loads go on from it.
LEMMA ListDeliveredOf ==
  ASSUME ReaderInv, NEW f \in fetches, f.kind = "history", Keeps(f),
         NEW n \in 1 .. Now, ListDelivered(f, n),
         user' = user, known' = known, selected' = selected
  PROVE  /\ loads' \in [Slot -> ViewLoad] /\ fetches' \subseteq Fetch
         /\ FetchesSound' /\ LoadsSound'
         /\ histories' \subseteq [user : User, space : Space, listed : BOOLEAN]
         /\ \A h \in histories' : h.user = user /\ Mine(h.space)
         /\ view' \subseteq view /\ values' = values /\ user \in User
<1>1. /\ f \in Fetch /\ FetchSound(f) /\ f.since = "nothing" /\ f.user = user /\ Mine(f.space)
      /\ loads \in [Slot -> ViewLoad] /\ fetches \subseteq Fetch /\ f.space \in Space
  BY DEF ReaderInv, ReaderTypeOK, FetchesSound, FetchSound, Keeps, Mine
<1>2. user \in User
  BY <1>1 DEF Fetch
<1>3. PICK again : again = Asking(f)
  OBVIOUS
<1>4. PICK new : new = [user |-> f.user, space |-> f.space, listed |-> InCopy(f, n)]
  OBVIOUS
<1>5. PICK g : g = Request("history", f.space, TRUE, again)
  OBVIOUS
<1>6. /\ histories' = (histories \ History(f.space)) \cup {new}
      /\ fetches' = (fetches \ {f}) \cup (IF again = {} THEN {} ELSE {g})
      /\ view' \subseteq view /\ values' = values
  BY <1>3, <1>4, <1>5 DEF ListDelivered
<1>7. PICK first \in IF again = {} THEN {NoSpace} ELSE again :
        loads' = [l \in Slot |->
               IF l \in again \cap {first} THEN [loads[l] EXCEPT !.again = FALSE]
               ELSE IF l \notin f.waiting \ again THEN loads[l]
               ELSE IF InCopy(f, n) THEN [loads[l] EXCEPT !.at = "list"]
               ELSE Ended(loads[l])]
  BY <1>3 DEF ListDelivered
<1>8. ASSUME NEW l \in Slot
      PROVE  /\ loads'[l] \in ViewLoad
             /\ loads'[l].active => /\ loads[l].active /\ loads'[l].space = loads[l].space
                                    /\ loads'[l].members = loads[l].members
                                    /\ loads'[l].at = loads[l].at
                                         \/ (loads'[l].at = "list" /\ loads[l].at = "history")
             /\ l \notin f.waiting \/ l \in again =>
                  loads'[l].at = loads[l].at /\ loads'[l].space = loads[l].space
  <2>1. loads[l] \in ViewLoad
    BY <1>1
  <2>2. CASE l \in again \cap {first}
    <3>1. loads'[l] = [loads[l] EXCEPT !.again = FALSE]
      BY <1>7, <2>2
    <3> QED  BY <2>1, <3>1 DEF ViewLoad
  <2>3. CASE l \notin again \cap {first} /\ l \notin f.waiting \ again
    BY <1>7, <2>1, <2>3
  <2>4. CASE l \notin again /\ l \in f.waiting /\ InCopy(f, n)
    <3>1. loads'[l] = [loads[l] EXCEPT !.at = "list"] /\ loads[l].at = "history"
      BY <1>1, <1>7, <2>4 DEF FetchSound
    <3> QED  BY <2>1, <2>4, <3>1 DEF ViewLoad
  <2>5. CASE l \notin again /\ l \in f.waiting /\ ~InCopy(f, n)
    <3>1. loads'[l] = Ended(loads[l])
      BY <1>7, <2>5
    <3> QED  BY <2>1, <2>5, <3>1, EndedOf
  <2> QED  BY <2>2, <2>3, <2>4, <2>5
<1>9. loads' \in [Slot -> ViewLoad]
  BY <1>7, <1>8
<1>10. LoadsSound'
  <2>1. ASSUME NEW l \in Slot PROVE LoadSound(l)'
    <3>1. LoadSound(l)
      BY DEF ReaderInv, LoadsSound
    <3> QED  BY <1>8, <3>1 DEF LoadSound, Mine
  <2> QED  BY <2>1 DEF LoadsSound
<1>11. /\ new \in [user : User, space : Space, listed : BOOLEAN]
       /\ new.user = user /\ Mine(new.space)
  <2>1. InCopy(f, n) \in BOOLEAN
    BY DEF InCopy
  <2> QED  BY <1>1, <1>2, <1>4, <2>1
<1>12. /\ g.waiting = again /\ g.kind = "history" /\ g.space = f.space /\ g.user = user
       /\ g.since = "nothing" /\ g \in Fetch /\ again \subseteq f.waiting
  <2>1. again \subseteq Slot /\ f.space \in Space \cup {NoSpace}
    BY <1>1, <1>3 DEF ReaderInv, TellingSound, Fetch, Asking
  <2>2. g = [kind |-> "history", space |-> f.space, user |-> user,
             since |-> "nothing", shared |-> TRUE, waiting |-> again]
    BY <1>5 DEF Request
  <2> QED  BY <1>2, <1>3, <2>1, <2>2 DEF Fetch, Asking
<1>13. FetchSound(g)'
  <2>1. ASSUME NEW l \in again
        PROVE  loads'[l].at = "history" /\ (loads'[l].active => loads'[l].space = f.space)
    <3>1. l \in Slot /\ loads[l].at = "history" /\ (loads[l].active => loads[l].space = f.space)
      BY <1>1, <1>12 DEF FetchSound, Fetch
    <3> QED  BY <1>8, <3>1
  <2> QED  BY <1>1, <1>12, <2>1 DEF FetchSound, Mine
<1>14. ASSUME NEW h \in fetches, h # f PROVE FetchSound(h)' /\ h.waiting \cap f.waiting = {}
  <2>1. h \in Fetch /\ FetchSound(h)
    BY <1>1 DEF ReaderInv, FetchesSound
  <2>2. h.waiting \cap f.waiting = {}
    BY <1>14 DEF ReaderInv, FetchesSound
  <2>3. ASSUME NEW m \in h.waiting
        PROVE  loads'[m].at = loads[m].at /\ (loads'[m].active => loads[m].active)
               /\ loads'[m].space = loads[m].space
    <3>1. m \in Slot /\ m \notin f.waiting
      BY <2>2, WaitsForOne
    <3> QED  BY <1>8, <3>1
  <2> QED  BY <2>1, <2>2, <2>3 DEF FetchSound, Mine
<1>15. fetches' \subseteq Fetch
  BY <1>1, <1>6, <1>12
<1>16. FetchesSound'
  <2>1. \A h \in fetches' : FetchSound(h)'
    BY <1>6, <1>13, <1>14
  <2>2. \A h, e \in fetches' : h.waiting \cap e.waiting # {} => h = e
    BY <1>6, <1>12, <1>14 DEF ReaderInv, FetchesSound
  <2> QED  BY <2>1, <2>2 DEF FetchesSound
<1>17. /\ histories' \subseteq [user : User, space : Space, listed : BOOLEAN]
       /\ \A h \in histories' : h.user = user /\ Mine(h.space)
  BY <1>6, <1>11 DEF ReaderInv, ReaderTypeOK, KeptSound
<1> QED  BY <1>2, <1>6, <1>9, <1>10, <1>15, <1>16, <1>17

\* Pages that were not fenced are kept, and shown where a load still waits for them.
LEMMA PagesDeliveredOf ==
  ASSUME ReaderInv, NEW f \in fetches, f.kind = "pages", Keeps(f),
         NEW n \in 1 .. Now, PagesDelivered(f, n),
         user' = user, known' = known, selected' = selected
  PROVE  /\ loads' \in [Slot -> ViewLoad] /\ fetches' \subseteq Fetch
         /\ FetchesSound' /\ LoadsSound'
         /\ values' \in Seq(Datum) /\ Len(values') <= MaxEntries
         /\ \A i \in DOMAIN values' : values'[i].user = user /\ Mine(values'[i].space)
         /\ view' \subseteq Datum
         /\ \A d \in view' : d.user = user /\ Mine(d.space) /\ d.space = selected
         /\ histories' = histories /\ user \in User
<1>0. PICK v : v = [user |-> f.user, space |-> f.space]
  OBVIOUS
<1>1. /\ f \in Fetch /\ FetchSound(f) /\ f.user = user /\ Mine(f.space) /\ f.space \in Space
  BY DEF ReaderInv, ReaderTypeOK, FetchesSound, FetchSound, Keeps, Mine
<1>2. /\ values' = IF InCopy(f, n) THEN Retained(values, v) ELSE values
      /\ view' = IF \E l \in f.waiting : loads[l].active THEN {v} ELSE view
      /\ loads' = Failing(f) /\ fetches' = fetches \ {f} /\ UNCHANGED histories
  BY <1>0 DEF PagesDelivered
<1>3. v \in Datum /\ v.user = user /\ Mine(v.space) /\ v.space = f.space /\ user \in User
  BY <1>0, <1>1 DEF Datum, Fetch
<1>4. loads' \in [Slot -> ViewLoad] /\ fetches' \subseteq Fetch /\ FetchesSound' /\ LoadsSound'
  BY <1>2, RequestEnds
<1>5. /\ values' \in Seq(Datum) /\ Len(values') <= MaxEntries
      /\ \A i \in DOMAIN values' : values'[i].user = user /\ Mine(values'[i].space)
  <2>1. CASE InCopy(f, n)
    BY <1>2, <1>3, <2>1, CacheKeeps
  <2>2. CASE ~InCopy(f, n)
    BY <1>2, <2>2 DEF ReaderInv, ReaderTypeOK, KeptSound
  <2> QED  BY <2>1, <2>2
<1>6. ASSUME NEW l \in f.waiting, loads[l].active PROVE f.space = selected
  <2>1. l \in Slot /\ loads[l].at = "pages" /\ loads[l].space = f.space
    BY <1>1, <1>6 DEF FetchSound, Fetch
  <2>2. LoadSound(l)
    BY <2>1 DEF ReaderInv, LoadsSound
  <2> QED  BY <1>6, <2>1, <2>2 DEF LoadSound
<1>7. /\ view' \subseteq Datum
      /\ \A d \in view' : d.user = user /\ Mine(d.space) /\ d.space = selected
  BY <1>2, <1>3, <1>6 DEF ReaderInv, ReaderTypeOK, KeptSound
<1> QED  BY <1>2, <1>3, <1>4, <1>5, <1>7

\* An answer is delivered: what was fenced is dropped, the rest is kept.
LEMMA DeliverKeeps ==
  ASSUME NEW f \in fetches, NEW n \in 1 .. Now, ReaderInv, Deliver(f, n)
  PROVE  ReaderInv'
<1>1. UNCHANGED <<memberships, user, known, check, route, selected, told, changes>>
  BY DEF Deliver
<1>2. f \in Fetch /\ FetchSound(f) /\ Now' = Now /\ Now \in Nat
  BY <1>1 DEF ReaderInv, ReaderTypeOK, FetchesSound, Now, TellingSound
<1>3. status' \in User \cup {Nobody} /\ status' \in {Nobody, user}
  <2>1. status \in User \cup {Nobody} /\ status \in {Nobody, user}
    BY DEF ReaderInv, ReaderTypeOK, TellingSound
  <2>2. CASE status' = status
    BY <2>1, <2>2
  <2>3. CASE ~Rejected(f) /\ status' \in Observed(f.user)
    <3>1. f.user = user /\ f.user \in User
      BY <1>2, <2>3 DEF FetchSound, Rejected, Fetch
    <3> QED  BY <2>1, <2>3, <3>1 DEF Observed
  <2> QED  BY <2>2, <2>3 DEF Deliver
<1>4. \/ Failed(f)
      \/ f.kind = "history" /\ Keeps(f) /\ ListDelivered(f, n)
      \/ f.kind = "pages" /\ Keeps(f) /\ PagesDelivered(f, n)
  <2>1. f.kind \in {"history", "pages", "status"}
    BY <1>2 DEF Fetch
  <2>2. CASE Rejected(f) \/ ~Keeps(f) \/ f.kind = "status"
    BY <2>2 DEF Deliver
  <2>3. CASE ~Rejected(f) /\ Keeps(f) /\ f.kind = "history"
    BY <2>3 DEF Deliver
  <2>4. CASE ~Rejected(f) /\ Keeps(f) /\ f.kind = "pages"
    BY <2>4 DEF Deliver
  <2> QED  BY <2>1, <2>2, <2>3, <2>4
<1>5. /\ loads' \in [Slot -> ViewLoad] /\ fetches' \subseteq Fetch
      /\ FetchesSound' /\ LoadsSound'
  BY <1>1, <1>4, RequestEnds, ListDeliveredOf, PagesDeliveredOf DEF Failed
<1>6. /\ values' \in Seq(Datum) /\ Len(values') <= MaxEntries
      /\ \A i \in DOMAIN values' : values'[i].user = user /\ Mine(values'[i].space)
      /\ view' \subseteq Datum
      /\ \A d \in view' : d.user = user /\ Mine(d.space) /\ d.space = selected
      /\ histories' \subseteq [user : User, space : Space, listed : BOOLEAN]
      /\ \A h \in histories' : h.user = user /\ Mine(h.space)
  <2>1. CASE Failed(f)
    BY <2>1 DEF Failed, kept, ReaderInv, ReaderTypeOK, KeptSound
  <2>2. CASE f.kind = "history" /\ Keeps(f) /\ ListDelivered(f, n)
    BY <1>1, <2>2, ListDeliveredOf DEF ReaderInv, ReaderTypeOK, KeptSound
  <2>3. CASE f.kind = "pages" /\ Keeps(f) /\ PagesDelivered(f, n)
    BY <1>1, <2>3, PagesDeliveredOf DEF ReaderInv, ReaderTypeOK, KeptSound
  <2> QED  BY <1>4, <2>1, <2>2, <2>3
<1>7. ReaderTypeOK'
  BY <1>1, <1>2, <1>3, <1>5, <1>6 DEF ReaderInv, ReaderTypeOK, Fetch, Check
<1>8. user = Nobody => \A l \in Slot : loads'[l].at = "idle"
  <2>1. user = Nobody => f.waiting = {} /\ user \notin User
    BY ReaderAssumption, WaitsForOne DEF ReaderInv, TellingSound
  <2>2. CASE Failed(f)
    BY <2>1, <2>2 DEF Failed, Failing, ReaderInv, TellingSound
  <2>3. CASE ~Failed(f)
    BY <1>1, <1>4, <2>1, <2>3, ListDeliveredOf, PagesDeliveredOf
  <2> QED  BY <2>2, <2>3
<1>9. TellingSound'
  BY <1>1, <1>2, <1>3, <1>8 DEF ReaderInv, TellingSound
<1>10. KeptSound'
  BY <1>1, <1>6 DEF ReaderInv, KeptSound, Mine
<1> QED  BY <1>5, <1>7, <1>9, <1>10 DEF ReaderInv
---------------------------------------------------------------------------
\* The server has lost the copy a query names: the caches are cleared.
LEMMA ConflictKeeps == ReaderInv /\ Conflict => ReaderInv'
<1> SUFFICES ASSUME ReaderInv, Conflict PROVE ReaderInv'
  OBVIOUS
<1>1. /\ values' = <<>> /\ status' = Nobody /\ changes < MaxChanges /\ changes' = changes + 1
      /\ fetches' = Fence(fetches, {"pages", "status"}, "clear")
      /\ UNCHANGED <<memberships, user, histories, known, check, loads, route, selected, view, told>>
  BY DEF Conflict, Bounded, place
<1>2. Now' = Now /\ Now \in Nat
  BY <1>1 DEF Now, ReaderInv, TellingSound
<1>3. fetches' \subseteq Fetch
  BY <1>1, FenceOf DEF ReaderInv
<1>4. ReaderTypeOK'
  <2>1. status' \in User \cup {Nobody}
    BY <1>1
  <2>2. changes' \in 0 .. MaxChanges
    BY <1>1, ReaderAssumption DEF ReaderInv, ReaderTypeOK
  <2>3. values' \in Seq(Datum) /\ Len(values') <= MaxEntries
    BY <1>1, ReaderAssumption
  <2> QED  BY <1>1, <1>2, <1>3, <2>1, <2>2, <2>3 DEF ReaderInv, ReaderTypeOK, Fetch, Check
<1>5. TellingSound' /\ KeptSound' /\ LoadsSound'
  BY <1>1, <1>2 DEF ReaderInv, TellingSound, KeptSound, LoadsSound, LoadSound, Mine
<1>6. FetchesSound'
  <2>1. Waiting
    BY <1>1 DEF Waiting
  <2> QED  BY <1>1, <2>1, FencedStay DEF Mine
<1> QED  BY <1>3, <1>4, <1>5, <1>6 DEF ReaderInv

\* Another identity: nothing that was kept, shown or asked for passes to it.
LEMMA SessionKeeps ==
  ASSUME ReaderInv, NEW u \in User \cup {Nobody}, SessionChanged(u), changes' \in 0 .. MaxChanges
  PROVE  ReaderInv'
<1>1. /\ user' = u /\ values' = <<>> /\ histories' = {} /\ known' = Unknown /\ check' = NoCheck
      /\ loads' = [l \in Slot |-> NoLoad] /\ selected' = NoSpace /\ view' = {}
      /\ status' = Nobody /\ told' = {}
      /\ fetches' = {[f EXCEPT !.waiting = {}] :
                   f \in Fence(fetches, {"history", "pages", "status"}, "session")}
      /\ UNCHANGED <<memberships, route>>
  BY DEF SessionChanged
<1>2. Now' = Now /\ Now \in Nat \ {0}
  BY <1>1 DEF Now, ReaderInv, TellingSound
<1>3. ASSUME NEW g \in fetches'
      PROVE  g \in Fetch /\ g.since = "session" /\ g.waiting = {}
  <2>1. PICK e \in Fence(fetches, {"history", "pages", "status"}, "session") :
          g = [e EXCEPT !.waiting = {}]
    BY <1>1
  <2>2. e \in Fetch /\ \E f \in fetches :
          f.kind \in {"history", "pages", "status"} => e.since = "session"
    BY FenceOf DEF ReaderInv
  <2>3. e.since = "session"
    <3>1. PICK f \in fetches :
            f.kind \in {"history", "pages", "status"} => e.since = "session"
      BY FenceOf DEF ReaderInv
    <3>2. f \in Fetch
      BY DEF ReaderInv, ReaderTypeOK
    <3> QED  BY <3>1, <3>2 DEF Fetch
  <2> QED  BY <2>1, <2>2, <2>3 DEF Fetch
<1>4. /\ NoLoad \in ViewLoad /\ ~NoLoad.active /\ NoLoad.at = "idle"
      /\ NoCheck \in Check /\ NoCheck.at = "none"
  BY DEF NoLoad, ViewLoad, NoCheck, Check
<1>5. ReaderTypeOK'
  <2>1. values' \in Seq(Datum) /\ Len(values') <= MaxEntries
    BY <1>1, ReaderAssumption
  <2> QED  BY <1>1, <1>2, <1>3, <1>4, <2>1 DEF ReaderInv, ReaderTypeOK, Fetch, Check
<1>6. TellingSound'
  BY <1>1, <1>2, <1>4 DEF TellingSound
<1>7. KeptSound'
  BY <1>1 DEF KeptSound
<1>8. FetchesSound'
  <2>1. \A g \in fetches' : FetchSound(g)'
    BY <1>3 DEF FetchSound, Mine
  <2>2. \A g, h \in fetches' : g.waiting \cap h.waiting = {}
    BY <1>3
  <2> QED  BY <2>1, <2>2 DEF FetchesSound
<1>9. LoadsSound'
  BY <1>1, <1>4 DEF LoadsSound, LoadSound
<1> QED  BY <1>5, <1>6, <1>7, <1>8, <1>9 DEF ReaderInv

\* A membership ends or begins: an event may have told of the first only.
LEMMA MembershipKeeps ==
  ASSUME NEW u \in User, NEW s \in Space, ReaderInv, ChangeMembership(u, s)
  PROVE  ReaderInv'
<1>1. /\ changes < MaxChanges /\ changes' = changes + 1
      /\ memberships' = Append(memberships, [memberships[Now] EXCEPT ![u] = SymDiff(@, {s})])
      /\ told' = IF u = user THEN told \ {s} ELSE told
      /\ UNCHANGED <<user, values, histories, known, check, loads, fetches, route, selected, view,
                     status>>
  BY DEF ChangeMembership, Bounded, kept, place
<1>2. /\ memberships \in Seq([User -> SUBSET Space]) /\ Now \in Nat \ {0}
      /\ Now = Len(memberships)
  BY DEF ReaderInv, ReaderTypeOK, TellingSound, Now
<1>3. PICK new : new = [memberships[Now] EXCEPT ![u] = SymDiff(@, {s})]
  OBVIOUS
<1>4. memberships[Now] \in [User -> SUBSET Space]
  BY <1>2
<1>5. /\ new \in [User -> SUBSET Space] /\ new[u] = SymDiff(memberships[Now][u], {s})
      /\ \A w \in User : w # u => new[w] = memberships[Now][w]
  BY <1>3, <1>4 DEF SymDiff
<1>6. /\ memberships' \in Seq([User -> SUBSET Space]) /\ Now' = Now + 1
      /\ memberships'[Now'] = new
  <2>1. memberships' = Append(memberships, new)
    BY <1>1, <1>3
  <2> QED  BY <1>2, <1>5, <2>1 DEF Now
<1>7. ReaderTypeOK'
  <2>1. changes' \in 0 .. MaxChanges
    BY <1>1, ReaderAssumption DEF ReaderInv, ReaderTypeOK
  <2> QED  BY <1>1, <1>6, <2>1 DEF ReaderInv, ReaderTypeOK, Fetch, Check
<1>8. TellingSound'
  <2>1. user # Nobody => told' \cap memberships'[Now'][user] = {}
    <3>1. CASE user = u
      BY <1>1, <1>5, <1>6, <3>1 DEF ReaderInv, TellingSound, SymDiff
    <3>2. CASE user # u
      BY <1>1, <1>5, <1>6, <3>2 DEF ReaderInv, TellingSound, ReaderTypeOK
    <3> QED  BY <3>1, <3>2
  <2>2. told' \subseteq told
    BY <1>1
  <2>3. Now' \in Nat \ {0}
    BY <1>2, <1>6
  <2>4. /\ user' = Nobody => /\ known' = Unknown /\ check'.at = "none" /\ told' = {}
                             /\ \A l \in Slot : loads'[l].at = "idle"
        /\ check'.at = "none" /\ known' # Unknown => known' \cap told' = {}
    BY <1>1, <2>2 DEF ReaderInv, TellingSound
  <2>5. /\ check'.at = "answered" /\ ~check'.queued => check'.members \cap told' = {}
        /\ status' \in {Nobody, user'}
    BY <1>1, <2>2 DEF ReaderInv, TellingSound
  <2> QED  BY <1>1, <2>1, <2>3, <2>4, <2>5 DEF TellingSound
<1>9. KeptSound' /\ LoadsSound'
  BY <1>1 DEF ReaderInv, KeptSound, LoadsSound, LoadSound, Mine
<1>10. FetchesSound'
  BY <1>1 DEF ReaderInv, FetchesSound, FetchSound, Mine
<1> QED  BY <1>7, <1>8, <1>9, <1>10 DEF ReaderInv

---------------------------------------------------------------------------
\* Every step keeps the invariant.
LEMMA ReaderStep == ReaderInv /\ [ReaderNext]_readerVars => ReaderInv'
<1> SUFFICES ASSUME ReaderInv, [ReaderNext]_readerVars PROVE ReaderInv'
  OBVIOUS
<1>1. CASE CheckAnswered
  BY <1>1, CheckAnsweredKeeps
<1>2. CASE CheckDone
  BY <1>2, CheckDoneKeeps
<1>3. CASE CheckFailed
  BY <1>3, CheckFailedKeeps
<1>4. CASE Refresh
  BY <1>4, RefreshKeeps
<1>5. CASE AskStatus
  BY <1>5, AskStatusKeeps
<1>6. CASE Conflict
  BY <1>6, ConflictKeeps
<1>7. ASSUME NEW l \in Slot, LoadAgain(l) PROVE ReaderInv'
  BY <1>7, LoadAgainKeeps
<1>8. ASSUME NEW l \in Slot, Choose(l) PROVE ReaderInv'
  BY <1>8, ChooseKeeps
<1>9. ASSUME NEW l \in Slot, ListPages(l) PROVE ReaderInv'
  BY <1>9, ListPagesKeeps
<1>10. ASSUME NEW l \in Slot, NEW s \in Space, Navigate(l, s) PROVE ReaderInv'
  BY <1>10, NavigateKeeps
<1>11. ASSUME NEW f \in fetches, NEW n \in 1 .. Now, Deliver(f, n) PROVE ReaderInv'
  BY <1>11, DeliverKeeps
<1>12. ASSUME NEW f \in fetches, FetchFailed(f) PROVE ReaderInv'
  BY <1>12, FetchFailedKeeps
<1>13. CASE SignOut
  BY <1>13, SessionKeeps DEF SignOut, ReaderInv, ReaderTypeOK
<1>14. ASSUME NEW u \in User, SignIn(u) PROVE ReaderInv'
  <2>1. changes' \in 0 .. MaxChanges
    BY <1>14, ReaderAssumption DEF SignIn, Bounded, ReaderInv, ReaderTypeOK
  <2> QED  BY <1>14, <2>1, SessionKeeps DEF SignIn
<1>15. ASSUME NEW u \in User, NEW s \in Space, ChangeMembership(u, s) PROVE ReaderInv'
  BY <1>15, MembershipKeeps
<1>16. CASE UNCHANGED readerVars
  BY <1>16 DEF readerVars, ReaderInv, ReaderTypeOK, TellingSound, KeptSound, FetchesSound,
       FetchSound, LoadsSound, LoadSound, Mine, Now, Check, Fetch
<1> QED
  BY <1>1, <1>2, <1>3, <1>4, <1>5, <1>6, <1>7, <1>8, <1>9, <1>10, <1>11, <1>11, <1>12, <1>13,
     <1>14, <1>15, <1>16 DEF ReaderNext

\* What the browser keeps and shows, and its requests and loads, are of the types of
\* App.tsx and memoryCache.ts, and the memory cache never has more entries than it may.
THEOREM ReaderTypes == ReaderSpec => []ReaderTypeOK
<1>1. ReaderInit => ReaderInv
  BY ReaderStarts
<1>2. ReaderInv /\ [ReaderNext]_readerVars => ReaderInv'
  BY ReaderStep
<1>3. ReaderInv => ReaderTypeOK
  BY DEF ReaderInv
<1> QED  BY <1>1, <1>2, <1>3, PTL DEF ReaderSpec

\* The reader never keeps or shows what is not of the account signed in, or of a space
\* that the last membership check did not confirm (memoryCache.ts, reconciledRead.ts,
\* App.tsx): not when accounts change in another tab, when checks and responses cross,
\* or when a response comes after the membership has ended.
THEOREM NothingStaysOfOthers == ReaderSpec => []NothingKept
<1>1. ReaderInit => ReaderInv
  BY ReaderStarts
<1>2. ReaderInv /\ [ReaderNext]_readerVars => ReaderInv'
  BY ReaderStep
<1>3. ReaderInv => NothingKept
  BY ReaderInvKeeps
<1> QED  BY <1>1, <1>2, <1>3, PTL DEF ReaderSpec

---------------------------------------------------------------------------
\* The two parts of NoLoadStranded; a read of the memberships follows another only.
CheckAwaited ==
  /\ check.queued => check.at # "none"
  /\ \A l \in Slot : /\ loads[l].at = "check" => check.at # "none"
                     /\ loads[l].at = "queued" => check.queued

RequestAwaited ==
  \A l \in Slot : loads[l].at \in {"history", "pages"} => \E f \in fetches : l \in f.waiting

\* Joining the read of the memberships leaves one to wait for.
LEMMA JoinedOf ==
  ASSUME check \in Check, NEW reconcile \in BOOLEAN
  PROVE  /\ Joined(reconcile).at # "none"
         /\ check.at # "none" /\ (check.queued \/ reconcile) => Joined(reconcile).queued
<1>1. [NoCheck EXCEPT !.at = "asked"].at = "asked"
  BY DEF NoCheck
<1>2. /\ [check EXCEPT !.queued = TRUE].at = check.at
      /\ [check EXCEPT !.queued = TRUE].queued = TRUE
  BY DEF Check
<1> QED  BY <1>1, <1>2 DEF Joined

\* What may change without a load being the worse for it: requests that keep those who
\* wait for them, and loads that do not begin to wait for one.
LEMMA RequestsStay ==
  ASSUME RequestAwaited,
         \A l \in Slot : loads'[l].at \in {"history", "pages"} => loads'[l].at = loads[l].at,
         \A f \in fetches : \E g \in fetches' : f.waiting \subseteq g.waiting
  PROVE  RequestAwaited'
BY DEF RequestAwaited

\* A fence keeps those who wait for what it marks.
LEMMA FenceWaits ==
  ASSUME ReaderInv, NEW kinds, NEW what \in {"clear", "session"}, NEW f \in fetches
  PROVE  \E g \in Fence(fetches, kinds, what) : f.waiting \subseteq g.waiting
<1>1. PICK g : g = IF f.kind \in kinds /\ f.since # "session" THEN [f EXCEPT !.since = what] ELSE f
  OBVIOUS
<1>2. g \in Fence(fetches, kinds, what)
  BY <1>1 DEF Fence
<1>3. f \in Fetch
  BY DEF ReaderInv, ReaderTypeOK
<1>4. g.waiting = f.waiting
  BY <1>1, <1>3 DEF Fetch
<1> QED  BY <1>2, <1>4

\* Only loads that waited for it end with a request.
LEMMA FailingWaits ==
  ASSUME ReaderInv, RequestAwaited, NEW f \in fetches,
         loads' = Failing(f), fetches' = fetches \ {f}
  PROVE  /\ RequestAwaited'
         /\ \A l \in Slot : loads'[l].at \in {"check", "queued"} => loads'[l].at = loads[l].at
<1>1. \A l \in Slot : loads[l] \in ViewLoad
  BY DEF ReaderInv, ReaderTypeOK
<1>2. ASSUME NEW l \in Slot
      PROVE  /\ l \in f.waiting => loads'[l].at \in {"idle", "again"}
             /\ l \notin f.waiting => loads'[l] = loads[l]
  BY <1>1, EndedOf DEF Failing
<1>3. RequestAwaited'
  BY <1>2 DEF RequestAwaited
<1> QED  BY <1>2, <1>3

\* A membership check ends or fails: who waited for it goes on or ends, and who waited
\* for the one to follow now waits for that one.
LEMMA CheckEndsWaits ==
  ASSUME ReaderInv, CheckAwaited, RequestAwaited, CheckDone \/ CheckFailed
  PROVE  CheckAwaited' /\ RequestAwaited'
<1>1. check \in Check /\ Now \in Nat /\ check' = Following
  BY DEF ReaderInv, ReaderTypeOK, TellingSound, CheckDone, CheckFailed
<1>2. check.queued => check'.at # "none"
  BY <1>1, FollowingOf
<1>6. ~check'.queued
  <2>1. ~NoCheck.queued /\ ~[NoCheck EXCEPT !.at = "asked"].queued
    BY DEF NoCheck
  <2> QED  BY <1>1, <2>1 DEF Following
<1>3. ASSUME NEW l \in Slot
      PROVE  /\ loads'[l].at = "check" => loads[l].at = "queued"
             /\ loads'[l].at # "queued"
             /\ loads'[l].at \in {"history", "pages"} => loads'[l].at = loads[l].at
  <2>1. loads[l] \in ViewLoad
    BY DEF ReaderInv, ReaderTypeOK
  <2>2. CASE CheckDone
    <3>1. check.at = "answered" /\ loads' = Resumed(Removed # {})
      BY <2>2 DEF CheckDone
    <3>2. (Removed # {}) \in BOOLEAN
      OBVIOUS
    <3> QED  BY <3>1, <3>2, ResumedOf
  <2>3. CASE CheckFailed
    <3>1. CASE loads[l].at = "check"
      <4>1. loads'[l] = Ended(loads[l])
        BY <2>3, <3>1 DEF CheckFailed
      <4> QED  BY <2>1, <4>1, EndedOf
    <3>2. CASE loads[l].at = "queued"
      <4>1. loads'[l] = [loads[l] EXCEPT !.at = "check"]
        BY <2>3, <3>2 DEF CheckFailed
      <4> QED  BY <2>1, <3>2, <4>1 DEF ViewLoad
    <3>3. CASE loads[l].at \notin {"check", "queued"}
      BY <2>3, <3>3 DEF CheckFailed
    <3> QED  BY <3>1, <3>2, <3>3
  <2> QED  BY <2>2, <2>3
<1>4. CheckAwaited'
  BY <1>2, <1>3, <1>6 DEF CheckAwaited
<1>5. \A f \in fetches : \E g \in fetches' : f.waiting \subseteq g.waiting
  BY FenceWaits DEF CheckDone, CheckFailed
<1> QED  BY <1>3, <1>4, <1>5, RequestsStay

\* A load that begins waits for the read it joins, or has one follow it.
LEMMA LoadingWaits ==
  ASSUME ReaderInv, CheckAwaited, RequestAwaited, NEW l \in Slot, NEW s \in Space,
         NEW refresh \in {"no", "yes"}, Loading(l, s, refresh), fetches' = fetches
  PROVE  CheckAwaited' /\ RequestAwaited'
<1> DEFINE reconcile == refresh # "no" \/ known = Unknown \/ s \notin known
           record(at) == [NoLoad EXCEPT !.at = at, !.space = s, !.refresh = refresh, !.active = TRUE]
           begun(r) == [m \in Slot |-> IF m = l THEN r ELSE Inactive(loads[m])]
<1>1. check \in Check /\ \A m \in Slot : Inactive(loads[m]).at = loads[m].at
  BY DEF ReaderInv, ReaderTypeOK, Inactive, ViewLoad
<1>2. PICK r :
        /\ loads' = begun(r)
        /\ \/ /\ ~reconcile /\ check.at = "none" /\ check' = check
              /\ r = [record("resolve") EXCEPT !.members = known]
           \/ /\ r = record(IF check.at # "none" /\ reconcile THEN "queued" ELSE "check")
              /\ check' = Joined(reconcile)
  BY DEF Loading
<1>3. /\ \A at \in {"queued", "check"} : record(at).at = at
      /\ [record("resolve") EXCEPT !.members = known].at = "resolve"
  BY DEF NoLoad
<1>4. reconcile \in BOOLEAN
  OBVIOUS
<1>5. \A m \in Slot : loads'[m].at = IF m = l THEN r.at ELSE loads[m].at
  BY <1>1, <1>2
<1> HIDE DEF reconcile, record, begun
<1>6. /\ r.at \in {"resolve", "queued", "check"}
      /\ r.at = "check" => check'.at # "none"
      /\ r.at = "queued" => check'.queued
  BY <1>1, <1>2, <1>3, <1>4, JoinedOf
<1>7. /\ check'.queued => check'.at # "none"
      /\ check.at # "none" => check'.at # "none"
      /\ check.queued => check'.queued
  BY <1>1, <1>2, <1>4, JoinedOf DEF CheckAwaited
<1>9. \A m \in Slot : /\ loads'[m].at = "check" => check'.at # "none"
                      /\ loads'[m].at = "queued" => check'.queued
  BY <1>5, <1>6, <1>7 DEF CheckAwaited
<1>8. RequestAwaited'
  BY <1>5, <1>6, RequestsStay
<1> QED  BY <1>7, <1>8, <1>9 DEF CheckAwaited

\* A load that reads what is not kept is among those that wait for a request.
LEMMA ReadingWaits ==
  ASSUME ReaderInv, RequestAwaited, NEW kind \in {"history", "pages"}, NEW s, NEW l \in Slot,
         fetches' = Reading(kind, s, l), \A m \in Slot : m # l => loads'[m] = loads[m]
  PROVE  RequestAwaited'
<1>1. /\ \A f \in fetches : \E g \in fetches' : f.waiting \subseteq g.waiting
      /\ \E g \in fetches' : l \in g.waiting
  <2>1. CASE Shared(kind, s) # {}
    <3>1. PICK f \in Shared(kind, s) :
            fetches' = (fetches \ {f}) \cup {[f EXCEPT !.waiting = @ \cup {l}]}
      BY <2>1 DEF Reading
    <3>2. f \in Fetch
      BY DEF Shared, ReaderInv, ReaderTypeOK
    <3>3. [f EXCEPT !.waiting = @ \cup {l}].waiting = f.waiting \cup {l}
      BY <3>2 DEF Fetch
    <3> QED  BY <3>1, <3>3
  <2>2. CASE Shared(kind, s) = {}
    <3>1. PICK g :
            g = Request(kind, s, kind = "history" \/ Cardinality(Registered) < MaxEntries, {l})
      OBVIOUS
    <3>2. fetches' = fetches \cup {g} /\ g.waiting = {l}
      BY <2>2, <3>1 DEF Reading, Request
    <3> QED  BY <3>2
  <2> QED  BY <2>1, <2>2
<1> QED  BY <1>1 DEF RequestAwaited

\* A load goes on from the memberships, or from a publication, to one request at most.
LEMMA LoadGoesWaits ==
  ASSUME ReaderInv, CheckAwaited, RequestAwaited, NEW l \in Slot, Choose(l) \/ ListPages(l)
  PROVE  CheckAwaited' /\ RequestAwaited'
<1>1. /\ loads \in [Slot -> ViewLoad] /\ check' = check
  BY DEF ReaderInv, ReaderTypeOK, Choose, ListPages
<1>2. Ended(loads[l]).at \in {"idle", "again"}
  BY <1>1, EndedOf
<1>3. ASSUME LoadEnds(l), fetches' = fetches
      PROVE  CheckAwaited' /\ RequestAwaited'
  <2>1. \A m \in Slot : loads'[m].at = IF m = l THEN Ended(loads[l]).at ELSE loads[m].at
    BY <1>1, <1>3 DEF LoadEnds
  <2> QED  BY <1>1, <1>2, <1>3, <2>1 DEF CheckAwaited, RequestAwaited
<1>4. ASSUME NEW r, loads' = [loads EXCEPT ![l] = r], r.at \in {"history", "list", "pages"},
             \/ fetches' = fetches /\ r.at = "list"
             \/ \E kind \in {"history", "pages"} : fetches' = Reading(kind, loads[l].space, l)
      PROVE  CheckAwaited' /\ RequestAwaited'
  <2>1. \A m \in Slot : loads'[m] = IF m = l THEN r ELSE loads[m]
    BY <1>1, <1>4
  <2>2. CheckAwaited'
    BY <1>1, <1>4, <2>1 DEF CheckAwaited
  <2>3. RequestAwaited'
    <3>1. CASE fetches' = fetches /\ r.at = "list"
      BY <2>1, <3>1 DEF RequestAwaited
    <3>2. CASE \E kind \in {"history", "pages"} : fetches' = Reading(kind, loads[l].space, l)
      BY <2>1, <3>2, ReadingWaits
    <3> QED  BY <1>4, <3>1, <3>2
  <2> QED  BY <2>2, <2>3
<1>5. CASE Choose(l)
  <2> DEFINE s == loads[l].space
             again == loads[l].refresh # "no" \/ s # selected
             r == [loads[l] EXCEPT !.at = "history", !.again = again /\ Shared("history", s) # {}]
  <2>1. \/ LoadEnds(l) /\ fetches' = fetches
        \/ fetches' = Reading("history", s, l) /\ loads' = [loads EXCEPT ![l] = r]
        \/ fetches' = fetches /\ loads' = [loads EXCEPT ![l].at = "list"]
    BY <1>1, <1>5 DEF Choose, LoadGoes
  <2>2. r.at = "history" /\ [loads[l] EXCEPT !.at = "list"].at = "list"
    BY <1>1 DEF ViewLoad
  <2> HIDE DEF r
  <2> QED  BY <1>3, <1>4, <2>1, <2>2
<1>6. CASE ListPages(l)
  <2>1. \/ LoadEnds(l) /\ fetches' = fetches
        \/ /\ fetches' = Reading("pages", loads[l].space, l)
           /\ loads' = [loads EXCEPT ![l] = [loads[l] EXCEPT !.at = "pages"]]
    BY <1>1, <1>6 DEF ListPages, LoadGoes
  <2>2. [loads[l] EXCEPT !.at = "pages"].at = "pages"
    BY <1>1 DEF ViewLoad
  <2> QED  BY <1>3, <1>4, <2>1, <2>2
<1> QED  BY <1>5, <1>6

\* A response: who waited for it goes on, ends, or waits for the request asked again.
LEMMA DeliverWaits ==
  ASSUME ReaderInv, CheckAwaited, RequestAwaited, NEW f \in fetches, NEW n \in 1 .. Now,
         Deliver(f, n) \/ FetchFailed(f)
  PROVE  CheckAwaited' /\ RequestAwaited'
<1>1. check' = check /\ \A l \in Slot : loads[l] \in ViewLoad
  BY DEF ReaderInv, ReaderTypeOK, Deliver, FetchFailed
<1>2. ASSUME loads' = Failing(f), fetches' = fetches \ {f}
      PROVE  CheckAwaited' /\ RequestAwaited'
  BY <1>1, <1>2, FailingWaits DEF CheckAwaited
<1>3. ASSUME ListDelivered(f, n)
      PROVE  CheckAwaited' /\ RequestAwaited'
  <2>1. PICK again : again = Asking(f)
    OBVIOUS
  <2>2. PICK first \in IF again = {} THEN {NoSpace} ELSE again :
          /\ fetches' = (fetches \ {f}) \cup
               (IF again = {} THEN {} ELSE {Request("history", f.space, TRUE, again)})
          /\ loads' = [l \in Slot |->
               IF l \in again \cap {first} THEN [loads[l] EXCEPT !.again = FALSE]
               ELSE IF l \notin f.waiting \ again THEN loads[l]
               ELSE IF InCopy(f, n) THEN [loads[l] EXCEPT !.at = "list"]
               ELSE Ended(loads[l])]
    BY <1>3, <2>1 DEF ListDelivered
  <2>6. Request("history", f.space, TRUE, again).waiting = again
    BY DEF Request
  <2>3. ASSUME NEW l \in Slot
        PROVE  /\ l \in again \/ l \notin f.waiting => loads'[l].at = loads[l].at
               /\ l \in f.waiting \ again => loads'[l].at \in {"list", "idle", "again"}
    <3>0. again \subseteq f.waiting
      BY <2>1 DEF Asking
    <3>1. CASE l \in again
      <4>1. loads'[l] \in {[loads[l] EXCEPT !.again = FALSE], loads[l]}
        BY <2>2, <3>1
      <4> QED  BY <1>1, <3>1, <4>1 DEF ViewLoad
    <3>2. CASE l \notin f.waiting
      BY <2>2, <3>2, <3>0
    <3>3. CASE l \in f.waiting \ again /\ InCopy(f, n)
      <4>1. loads'[l] = [loads[l] EXCEPT !.at = "list"]
        BY <2>2, <3>3
      <4> QED  BY <1>1, <3>3, <4>1 DEF ViewLoad
    <3>4. CASE l \in f.waiting \ again /\ ~InCopy(f, n)
      <4>1. loads'[l] = Ended(loads[l])
        BY <2>2, <3>4
      <4> QED  BY <1>1, <3>4, <4>1, EndedOf
    <3> QED  BY <2>1, <3>1, <3>2, <3>3, <3>4
  <2>4. CheckAwaited'
    BY <1>1, <2>1, <2>3 DEF CheckAwaited
  <2>5. ASSUME NEW l \in Slot, loads'[l].at \in {"history", "pages"}
        PROVE  \E e \in fetches' : l \in e.waiting
    <3>1. loads[l].at \in {"history", "pages"} /\ (l \in again \/ l \notin f.waiting)
      BY <2>1, <2>3, <2>5
    <3>2. CASE l \in again
      BY <2>2, <2>6, <3>2
    <3>3. CASE l \notin f.waiting
      BY <2>2, <3>1, <3>3 DEF RequestAwaited
    <3> QED  BY <3>1, <3>2, <3>3
  <2> QED  BY <2>4, <2>5 DEF RequestAwaited
<1>4. CASE FetchFailed(f)
  BY <1>2, <1>4 DEF FetchFailed, Failed
<1>5. CASE Deliver(f, n)
  <2>1. \/ loads' = Failing(f) /\ fetches' = fetches \ {f}
        \/ ListDelivered(f, n)
    BY <1>5 DEF Deliver, Failed, PagesDelivered
  <2> QED  BY <1>2, <1>3, <2>1
<1> QED  BY <1>4, <1>5

\* An event joins the read in flight, or has one follow it, or begins a load.
LEMMA RefreshWaits ==
  ASSUME ReaderInv, CheckAwaited, RequestAwaited, Refresh
  PROVE  CheckAwaited' /\ RequestAwaited'
<1>1. check \in Check /\ loads \in [Slot -> ViewLoad] /\ route \in Space /\ fetches' = fetches
  BY DEF ReaderInv, ReaderTypeOK, Refresh
<1>2. ASSUME NEW l \in Slot, check' = Joined(TRUE), loads' = [loads EXCEPT ![l].refresh = "again"]
      PROVE  CheckAwaited' /\ RequestAwaited'
  <2>1. \A m \in Slot : loads'[m].at = loads[m].at
    BY <1>1, <1>2 DEF ViewLoad
  <2>2. check'.at # "none" /\ (check.queued => check'.queued)
    BY <1>1, <1>2, JoinedOf DEF CheckAwaited
  <2> QED  BY <1>1, <2>1, <2>2 DEF CheckAwaited, RequestAwaited
<1>3. ASSUME NEW l \in Slot, Loading(l, route, "yes")
      PROVE  CheckAwaited' /\ RequestAwaited'
  BY <1>1, <1>3, LoadingWaits
<1> QED  BY <1>2, <1>3 DEF Refresh

\* Every step leaves every load with what it waits for.
LEMMA WaitsStep ==
  ReaderInv /\ CheckAwaited /\ RequestAwaited /\ [ReaderNext]_readerVars =>
    CheckAwaited' /\ RequestAwaited'
<1> SUFFICES ASSUME ReaderInv, CheckAwaited, RequestAwaited, [ReaderNext]_readerVars
             PROVE  CheckAwaited' /\ RequestAwaited'
  OBVIOUS
<1>1. CASE CheckAnswered
  <2>1. check'.at = "answered" /\ check'.queued = check.queued /\ check.at = "asked"
    BY <1>1 DEF CheckAnswered, ReaderInv, ReaderTypeOK, Check
  <2> QED  BY <1>1, <2>1 DEF CheckAnswered, CheckAwaited, RequestAwaited
<1>2. CASE CheckDone \/ CheckFailed
  BY <1>2, CheckEndsWaits
<1>3. CASE Refresh
  BY <1>3, RefreshWaits
<1>4. CASE AskStatus
  BY <1>4 DEF AskStatus, CheckAwaited, RequestAwaited
<1>5. CASE Conflict
  <2>1. \A f \in fetches : \E g \in fetches' : f.waiting \subseteq g.waiting
    BY <1>5, FenceWaits DEF Conflict
  <2> QED  BY <1>5, <2>1 DEF Conflict, CheckAwaited, RequestAwaited
<1>6. ASSUME NEW l \in Slot, LoadAgain(l) PROVE CheckAwaited' /\ RequestAwaited'
  BY <1>6, LoadingWaits DEF LoadAgain, ReaderInv, ReaderTypeOK
<1>7. ASSUME NEW l \in Slot, Choose(l) \/ ListPages(l) PROVE CheckAwaited' /\ RequestAwaited'
  BY <1>7, LoadGoesWaits
<1>8. ASSUME NEW l \in Slot, NEW s \in Space, Navigate(l, s)
      PROVE  CheckAwaited' /\ RequestAwaited'
  BY <1>8, LoadingWaits DEF Navigate
<1>9. ASSUME NEW f \in fetches, FetchFailed(f) \/ \E n \in 1 .. Now : Deliver(f, n)
      PROVE  CheckAwaited' /\ RequestAwaited'
  <2>1. 1 \in 1 .. Now
    BY DEF ReaderInv, TellingSound
  <2> QED  BY <1>9, <2>1, DeliverWaits
<1>10. ASSUME NEW u, SessionChanged(u) PROVE CheckAwaited' /\ RequestAwaited'
  <2>1. /\ ~check'.queued /\ \A l \in Slot : loads'[l].at = "idle"
    BY <1>10 DEF SessionChanged, NoCheck, NoLoad
  <2> QED  BY <2>1 DEF CheckAwaited, RequestAwaited
<1>11. ASSUME NEW u \in User, NEW s \in Space, ChangeMembership(u, s)
       PROVE  CheckAwaited' /\ RequestAwaited'
  BY <1>11 DEF ChangeMembership, CheckAwaited, RequestAwaited
<1>12. CASE UNCHANGED readerVars
  BY <1>12 DEF readerVars, CheckAwaited, RequestAwaited
<1> QED
  BY <1>1, <1>2, <1>3, <1>4, <1>5, <1>6, <1>7, <1>8, <1>9, <1>10, <1>11, <1>12
     DEF ReaderNext, SignIn, SignOut

\* No load of the browser waits for what no longer comes (App.tsx, reconciledRead.ts,
\* memoryCache.ts): not when a read of the memberships fails with one to follow, a
\* shared request fails or is fenced, or one that joined it has to ask again.
THEOREM LoadsAreAnswered == ReaderSpec => []NoLoadStranded
<1>1. ReaderInit => ReaderInv /\ CheckAwaited /\ RequestAwaited
  BY ReaderStarts DEF ReaderInit, CheckAwaited, RequestAwaited, NoCheck, NoLoad
<1>2. ReaderInv /\ CheckAwaited /\ RequestAwaited /\ [ReaderNext]_readerVars =>
        (ReaderInv /\ CheckAwaited /\ RequestAwaited)'
  BY ReaderStep, WaitsStep
<1>3. CheckAwaited /\ RequestAwaited => NoLoadStranded
  BY DEF CheckAwaited, RequestAwaited, NoLoadStranded
<1> QED  BY <1>1, <1>2, <1>3, PTL DEF ReaderSpec

---------------------------------------------------------------------------
\* The commands that read a publication.

\* In a finite set of numbers, one has as many before it as there are places before it.
LEMMA RankingOf ==
  ASSUME NEW S, NEW generation \in Nat, S \subseteq Nat, IsFiniteSet(S)
  PROVE  Ranking(S, generation) \in [1 .. Cardinality(S) -> S]
<1> DEFINE before(a, b) == Before(a, b, generation)
           n == Cardinality(S)
           Earlier(r) == {q \in S : before(q, r)}
           rank == [r \in S |-> Cardinality(Earlier(r))]
<1>1. n \in Nat /\ S \subseteq Nat /\ IsFiniteSet(S)
  BY FS_CardinalityType
<1>2. /\ \A a \in S : ~before(a, a)
      /\ \A a, b \in S : a # b => before(a, b) \/ before(b, a)
      /\ \A a, b, c \in S : before(a, b) /\ before(b, c) => before(a, c)
  BY <1>1 DEF Before
<1> HIDE DEF before, n
<1>3. ASSUME NEW r \in S
      PROVE  IsFiniteSet(Earlier(r)) /\ Cardinality(Earlier(r)) \in 0 .. n - 1
  <2>1. Earlier(r) \subseteq S \ {r}
    BY <1>2
  <2>2. IsFiniteSet(S \ {r}) /\ Cardinality(S \ {r}) = n - 1
    BY <1>1, FS_RemoveElement DEF n
  <2>3. IsFiniteSet(Earlier(r)) /\ Cardinality(Earlier(r)) <= n - 1
    BY <2>1, <2>2, FS_Subset
  <2> QED  BY <1>1, <2>3, FS_CardinalityType
<1>4. ASSUME NEW a \in S, NEW b \in S, before(a, b)
      PROVE  Cardinality(Earlier(a)) < Cardinality(Earlier(b))
  <2>1. Earlier(a) \cup {a} \subseteq Earlier(b) /\ a \notin Earlier(a)
    BY <1>2, <1>4
  <2>2. IsFiniteSet(Earlier(a)) /\ IsFiniteSet(Earlier(b))
        /\ Cardinality(Earlier(a)) \in Nat /\ Cardinality(Earlier(b)) \in Nat
    BY <1>1, <1>3
  <2>3. Cardinality(Earlier(a) \cup {a}) = Cardinality(Earlier(a)) + 1
    BY <2>1, <2>2, FS_AddElement
  <2>4. Cardinality(Earlier(a) \cup {a}) <= Cardinality(Earlier(b))
    BY <2>1, <2>2, FS_Subset
  <2> QED  BY <2>2, <2>3, <2>4
<1>5. rank \in Injection(S, 0 .. n - 1)
  <2>1. rank \in [S -> 0 .. n - 1]
    BY <1>3
  <2>2. ASSUME NEW a \in S, NEW b \in S, rank[a] = rank[b] PROVE a = b
    <3>1. Cardinality(Earlier(a)) = Cardinality(Earlier(b)) /\ Cardinality(Earlier(a)) \in Nat
      BY <1>1, <1>3, <2>2
    <3> QED  BY <1>2, <1>4, <3>1
  <2> HIDE DEF rank
  <2> QED  BY <2>1, <2>2 DEF Injection, IsInjective
<1>6. rank \in Surjection(S, 0 .. n - 1)
  <2>1. IsFiniteSet(0 .. n - 1) /\ Cardinality(0 .. n - 1) = n
    BY <1>1, FS_Interval
  <2> HIDE DEF rank
  <2> QED  BY <1>5, <2>1, FS_Injection DEF n
<1>7. ASSUME NEW i \in 1 .. n PROVE \E r \in S : Cardinality(Earlier(r)) = i - 1
  <2>1. i - 1 \in 0 .. n - 1
    BY <1>1
  <2>2. PICK r \in S : rank[r] = i - 1
    BY <1>6, <2>1 DEF Surjection
  <2> QED  BY <2>2
<1>8. Ranking(S, generation) = [i \in 1 .. n |-> CHOOSE r \in S : Cardinality(Earlier(r)) = i - 1]
  BY DEF Ranking, n, before
<1>9. \A i \in 1 .. n : (CHOOSE r \in S : Cardinality(Earlier(r)) = i - 1) \in S
  BY <1>7
<1> HIDE DEF Earlier
<1>10. Ranking(S, generation) \in [1 .. n -> S]
  BY <1>8, <1>9
<1> QED  BY <1>10 DEF n

---------------------------------------------------------------------------
\* A sequence of hits is the beginning of a ranking.
Begins(hits, ranking) == Len(hits) <= Len(ranking) /\ hits = SubSeq(ranking, 1, Len(hits))

\* What has been read and counted is of the selected publication.
PagesSound(p) ==
  /\ proc[p].at # "idle" => proc[p].task # "idle"
  /\ proc[p].at \in {"count", "search", "page", "write"} =>
       /\ proc[p].task \in {"prepare", "find"} /\ proc[p].pub \in DOMAIN published
       /\ proc[p].rows \subseteq published[proc[p].pub]
  /\ proc[p].at = "page" /\ proc[p].task = "prepare" =>
       proc[p].active \in {0, Cardinality(published[proc[p].pub])}
  /\ proc[p].at = "search" => proc[p].task = "find"
  /\ proc[p].at = "write" =>
       proc[p].task = "prepare" /\ proc[p].rows \in {{}, published[proc[p].pub]}

\* The hits of a page of results follow those the caller has, in one ranking.
HitsSound(p) ==
  /\ found[p] # Nothing =>
       /\ found[p].pub \in DOMAIN published
       /\ Begins(found[p].hits, Ranked(found[p].pub, found[p].index))
  /\ proc[p].at \in {"count", "search", "page"} /\ proc[p].task = "find" =>
       found[p] = Nothing \/ found[p].pub = proc[p].pub
  /\ proc[p].at = "page" /\ proc[p].task = "find" =>
       /\ found[p] = Nothing \/ found[p].index = proc[p].index
       /\ \E upto \in Len(found[p].hits) .. Cardinality(published[proc[p].pub]) :
            proc[p].hits = SubSeq(Ranked(proc[p].pub, proc[p].index), Len(found[p].hits) + 1, upto)

CorpusSound ==
  /\ cache \in Prepared => cache.pub \in DOMAIN published
                           /\ cache.pages \in {published[cache.pub], {}}
  /\ \A p \in Process : PagesSound(p) /\ HitsSound(p)

CorpusInv == CorpusTypeOK /\ CorpusSound

---------------------------------------------------------------------------
\* The hits of one page after another are the beginning of one ranking.
LEMMA BeginsOn ==
  ASSUME NEW S, NEW ranking \in Seq(S), NEW hits, Begins(hits, ranking), Len(hits) \in Nat,
         NEW upto \in Len(hits) .. Len(ranking)
  PROVE  Begins(hits \o SubSeq(ranking, Len(hits) + 1, upto), ranking)
<1> DEFINE more == SubSeq(ranking, Len(hits) + 1, upto)
           all == SubSeq(ranking, 1, upto)
<1>1. Len(ranking) \in Nat /\ Len(hits) <= upto /\ upto <= Len(ranking) /\ upto \in Nat
  BY DEF Begins
<1>2. hits = SubSeq(ranking, 1, Len(hits))
  BY DEF Begins
<1>3. \A i \in 1 .. Len(ranking) : ranking[i] \in S
  OBVIOUS
<1>4. all = hits \o more
  <2>1. 1 \in 1 .. Len(ranking) + 1 /\ Len(hits) \in 1 - 1 .. Len(ranking)
        /\ upto \in Len(hits) .. Len(ranking)
    BY <1>1
  <2>2. SubSeq(ranking, 1, Len(hits)) \o more = all
    BY <2>1, ConcatAdjacentSubSeq
  <2> QED  BY <1>2, <2>2
<1>5. Len(all) = upto
  BY <1>1, <1>3, SubSeqProperties
<1> HIDE DEF more, all
<1>6. all = SubSeq(ranking, 1, Len(all))
  BY <1>5 DEF all
<1> QED  BY <1>1, <1>4, <1>5, <1>6 DEF Begins, more

\* The beginning of a ranking is a prefix of it.
LEMMA BeginsIsPrefix ==
  ASSUME NEW S, NEW ranking \in Seq(S), NEW hits \in Seq(S), Begins(hits, ranking)
  PROVE  IsPrefix(hits, ranking)
<1>1. SubSeq(hits, 1, Len(hits)) = hits
  BY SubSeqFull
<1> QED  BY <1>1 DEF Begins, IsPrefix

\* A prepared command and its publication are of the types they should be.
LEMMA PublicationOf ==
  ASSUME CorpusTypeOK, NEW pub \in DOMAIN published
  PROVE  /\ published[pub] \subseteq Revision /\ IsFiniteSet(published[pub])
         /\ Cardinality(published[pub]) \in 0 .. Cardinality(Revision)
         /\ pub \in Publication
         /\ \A generation \in Nat :
              /\ Ranked(pub, generation) \in Seq(Revision)
              /\ Len(Ranked(pub, generation)) = Cardinality(published[pub])
<1>1. published[pub] \subseteq Revision /\ pub \in Publication
  BY CorpusAssumption DEF CorpusTypeOK, Publication
<1>2. /\ IsFiniteSet(published[pub]) /\ Cardinality(published[pub]) <= Cardinality(Revision)
      /\ Cardinality(published[pub]) \in Nat /\ Cardinality(Revision) \in Nat
  BY <1>1, CorpusAssumption, FS_Subset, FS_CardinalityType
<1>3. ASSUME NEW generation \in Nat
      PROVE  /\ Ranked(pub, generation) \in Seq(Revision)
             /\ Len(Ranked(pub, generation)) = Cardinality(published[pub])
  <2>1. Ranked(pub, generation) \in [1 .. Cardinality(published[pub]) -> published[pub]]
    BY <1>1, <1>2, CorpusAssumption, RankingOf DEF Ranked
  <2>2. Ranked(pub, generation) \in [1 .. Cardinality(published[pub]) -> Revision]
    BY <1>1, <2>1
  <2> QED  BY <1>2, <2>2
<1> QED  BY <1>1, <1>2, <1>3

\* The initial states satisfy the invariant of the commands.
LEMMA CorpusStarts == CorpusInit => CorpusInv
<1> SUFFICES ASSUME CorpusInit PROVE CorpusInv
  OBVIOUS
<1>1. Idle \in Command
  <2>1. Cardinality(Revision) \in Nat
    BY CorpusAssumption, FS_CardinalityType
  <2> QED  BY <2>1, CorpusAssumption DEF Idle, Command
<1>3. Nothing \in [pub : 0 .. MaxPublications, index : 0 .. MaxIndexes, hits : Seq(Revision)]
  BY CorpusAssumption DEF Nothing
<1>4. CorpusTypeOK
  BY <1>1, <1>3, CorpusAssumption DEF CorpusInit, CorpusTypeOK
<1>5. CorpusSound
  BY CorpusAssumption DEF CorpusInit, CorpusSound, PagesSound, HitsSound, Idle
<1> QED  BY <1>4, <1>5 DEF CorpusInv

---------------------------------------------------------------------------
\* What a command knows stays true, whatever is published.
LEMMA CommandStays ==
  ASSUME CorpusInv, NEW q \in Process, proc'[q] = proc[q], found'[q] = found[q],
         \A pub \in DOMAIN published : pub \in DOMAIN published' /\ published'[pub] = published[pub]
  PROVE  PagesSound(q)' /\ HitsSound(q)'
<1>1. PagesSound(q) /\ HitsSound(q)
  BY DEF CorpusInv, CorpusSound
<1>2. PagesSound(q)'
  BY <1>1 DEF PagesSound
<1>3. found[q] # Nothing => Ranked(found[q].pub, found[q].index)' = Ranked(found[q].pub, found[q].index)
  BY <1>1 DEF HitsSound, Ranked
<1>4. proc[q].at = "page" => Ranked(proc[q].pub, proc[q].index)' = Ranked(proc[q].pub, proc[q].index)
  BY <1>1 DEF PagesSound, Ranked
<1>5. HitsSound(q)'
  BY <1>1, <1>3, <1>4 DEF HitsSound, PagesSound, Ranked, Nothing
<1> QED  BY <1>2, <1>5

\* The others, while one command goes on.
LEMMA OthersGoOn ==
  ASSUME CorpusInv, NEW p \in Process, NEW r, proc' = [proc EXCEPT ![p] = r],
         \A q \in Process : q # p => found'[q] = found[q],
         UNCHANGED <<published, cache>>, PagesSound(p)', HitsSound(p)'
  PROVE  CorpusSound'
<1>1. ASSUME NEW q \in Process, q # p PROVE PagesSound(q)' /\ HitsSound(q)'
  <2>1. proc'[q] = proc[q] /\ found'[q] = found[q]
    BY <1>1 DEF CorpusInv, CorpusTypeOK
  <2> QED  BY <2>1, CommandStays
<1>2. \A q \in Process : PagesSound(q)' /\ HitsSound(q)'
  BY <1>1
<1> QED  BY <1>2 DEF CorpusInv, CorpusSound

\* A process that runs no command is of the type of the commands.
LEMMA IdleOf == Idle \in Command /\ Idle.at = "idle"
<1>1. Cardinality(Revision) \in Nat
  BY CorpusAssumption, FS_CardinalityType
<1>2. Idle \in Command
  BY <1>1, CorpusAssumption DEF Idle, Command
<1> QED  BY <1>2 DEF Idle

\* A caller without results is of the type of the callers.
LEMMA NothingOf ==
  Nothing \in [pub : 0 .. MaxPublications, index : 0 .. MaxIndexes, hits : Seq(Revision)]
BY CorpusAssumption DEF Nothing

\* A command that has selected no publication knows nothing of one, and its caller
\* has what it had or starts again.
LEMMA QuietStep ==
  ASSUME CorpusInv, NEW p \in Process, NEW r \in Command, Becomes(p, r),
         r.at \in {"idle", "auth", "load", "select"}, r.at # "idle" => r.task # "idle",
         found' = found \/ found' = [found EXCEPT ![p] = Nothing],
         report' \in [Process -> {"none", "changed", "mismatch", "compared"}],
         UNCHANGED <<published, account, index, cache>>, events' \in 0 .. MaxEvents
  PROVE  CorpusInv'
<1>1. proc' = [proc EXCEPT ![p] = r] /\ proc' \in [Process -> Command] /\ proc'[p] = r
  BY DEF Becomes, CorpusInv, CorpusTypeOK
<1>2. PagesSound(p)'
  BY <1>1 DEF PagesSound
<1>3. HitsSound(p)'
  BY <1>1 DEF CorpusInv, CorpusTypeOK, CorpusSound, HitsSound, Ranked
<1>4. \A q \in Process : q # p => found'[q] = found[q]
  BY DEF CorpusInv, CorpusTypeOK
<1>5. CorpusSound'
  BY <1>1, <1>2, <1>3, <1>4, OthersGoOn
<1>6. CorpusTypeOK'
  BY <1>1, NothingOf DEF CorpusInv, CorpusTypeOK
<1> QED  BY <1>5, <1>6 DEF CorpusInv

---------------------------------------------------------------------------
\* A command begins, and knows of no publication yet.
LEMMA RunKeeps == ASSUME NEW p \in Process, CorpusInv, Run(p) PROVE CorpusInv'
<1>1. PICK task \in Task[p] :
        Becomes(p, [Idle EXCEPT !.task = task, !.at = IF task = "find" THEN "select" ELSE "auth"])
  BY DEF Run
<1>2. PICK r : r = [Idle EXCEPT !.task = task, !.at = IF task = "find" THEN "select" ELSE "auth"]
  OBVIOUS
<1>3. task \in {"prepare", "query", "benchmark", "find"}
  BY CorpusAssumption
<1>4. r \in Command /\ r.at \in {"select", "auth"} /\ r.task # "idle"
  BY <1>2, <1>3, IdleOf DEF Command
<1>5. /\ report' \in [Process -> {"none", "changed", "mismatch", "compared"}]
      /\ UNCHANGED <<published, account, index, cache, found, events>>
  BY DEF Run, World, Reports, CorpusInv, CorpusTypeOK
<1> QED  BY <1>1, <1>2, <1>4, <1>5, QuietStep DEF CorpusInv, CorpusTypeOK

\* The server knows the account, or the command ends.
LEMMA AuthenticateKeeps ==
  ASSUME NEW p \in Process, CorpusInv, Authenticate(p) PROVE CorpusInv'
<1>1. UNCHANGED <<published, account, index, cache, found, report, events>>
  BY DEF Authenticate, World
<1>2. CASE account = "disabled"
  BY <1>1, <1>2, IdleOf, QuietStep DEF Authenticate, Ends, CorpusInv, CorpusTypeOK
<1>3. CASE account # "disabled"
  <2>1. PICK at \in {"select", "load"} : Becomes(p, [proc[p] EXCEPT !.at = at])
    BY <1>3 DEF Authenticate, Goes
  <2>2. PICK r : r = [proc[p] EXCEPT !.at = at]
    OBVIOUS
  <2>3. proc[p] \in Command
    BY DEF CorpusInv, CorpusTypeOK
  <2>4. r \in Command /\ r.at \in {"select", "load"} /\ r.task # "idle"
    BY <2>2, <2>3 DEF Command, Authenticate, CorpusInv, CorpusSound, PagesSound
  <2> QED  BY <1>1, <2>1, <2>2, <2>4, QuietStep DEF CorpusInv, CorpusTypeOK
<1> QED  BY <1>2, <1>3

\* A query or a benchmark reads the corpus file, and a benchmark ends if that has changed.
LEMMA LoadKeeps == ASSUME NEW p \in Process, CorpusInv, Load(p) PROVE CorpusInv'
<1>1. UNCHANGED <<published, account, index, cache, found, events>>
  BY DEF Load, World
<1>2. proc[p] \in Command /\ proc[p].task # "idle"
  BY DEF Load, CorpusInv, CorpusTypeOK, CorpusSound, PagesSound
<1>3. report' \in [Process -> {"none", "changed", "mismatch", "compared"}]
  BY DEF Load, Reports, CorpusInv, CorpusTypeOK
<1>4. CASE Ends(p)
  BY <1>1, <1>3, <1>4, IdleOf, QuietStep DEF Ends, CorpusInv, CorpusTypeOK
<1>5. CASE cache \in Prepared /\ Becomes(p, [proc[p] EXCEPT !.at = "auth", !.pinned = cache])
  <2>1. PICK r : r = [proc[p] EXCEPT !.at = "auth", !.pinned = cache]
    OBVIOUS
  <2>2. r \in Command /\ r.at = "auth" /\ r.task # "idle"
    BY <1>2, <1>5, <2>1 DEF Command
  <2> QED  BY <1>1, <1>3, <1>5, <2>1, <2>2, QuietStep DEF CorpusInv, CorpusTypeOK
<1>6. CASE cache \in Prepared /\ Becomes(p, [proc[p] EXCEPT !.at = "select", !.corpus = cache])
  <2>1. PICK r : r = [proc[p] EXCEPT !.at = "select", !.corpus = cache]
    OBVIOUS
  <2>2. r \in Command /\ r.at = "select" /\ r.task # "idle"
    BY <1>2, <1>6, <2>1 DEF Command
  <2> QED  BY <1>1, <1>3, <1>6, <2>1, <2>2, QuietStep DEF CorpusInv, CorpusTypeOK
<1> QED  BY <1>4, <1>5, <1>6 DEF Load
---------------------------------------------------------------------------
\* A command goes on with the publication it has selected.
LEMMA GoOnStep ==
  ASSUME CorpusInv, NEW p \in Process, NEW r \in Command, Becomes(p, r),
         found' \in [Process -> [pub : 0 .. MaxPublications, index : 0 .. MaxIndexes,
                                 hits : Seq(Revision)]],
         \A q \in Process : q # p => found'[q] = found[q],
         report' \in [Process -> {"none", "changed", "mismatch", "compared"}],
         UNCHANGED <<published, account, index, cache, events>>,
         PagesSound(p)', HitsSound(p)'
  PROVE  CorpusInv'
<1>1. proc' = [proc EXCEPT ![p] = r] /\ proc' \in [Process -> Command]
  BY DEF Becomes, CorpusInv, CorpusTypeOK
<1>2. CorpusSound'
  BY <1>1, OthersGoOn
<1>3. CorpusTypeOK'
  BY <1>1 DEF CorpusInv, CorpusTypeOK
<1> QED  BY <1>2, <1>3 DEF CorpusInv

\* A command selects a publication, the one its caller has results of or another.
LEMMA SelectKeeps == ASSUME NEW p \in Process, CorpusInv, Select(p) PROVE CorpusInv'
<1>1. /\ UNCHANGED <<published, account, index, cache, events>> /\ proc[p].at = "select"
      /\ report' \in [Process -> {"none", "changed", "mismatch", "compared"}]
  BY DEF Select, World, Reports, CorpusInv, CorpusTypeOK
<1>2. /\ proc[p] \in Command /\ PagesSound(p) /\ HitsSound(p)
      /\ found \in [Process -> [pub : 0 .. MaxPublications, index : 0 .. MaxIndexes,
                                 hits : Seq(Revision)]]
      /\ report \in [Process -> {"none", "changed", "mismatch", "compared"}]
      /\ events \in 0 .. MaxEvents
  BY DEF CorpusInv, CorpusTypeOK, CorpusSound
<1>3. CASE Ends(p) /\ (found' = found \/ found' = [found EXCEPT ![p] = Nothing])
  BY <1>1, <1>2, <1>3, IdleOf, QuietStep DEF Ends
<1>4. ASSUME NEW pub \in Selectable(p), ~Queries(p),
             Becomes(p, [proc[p] EXCEPT !.at = "count", !.pub = pub, !.rows = {}]),
             found' = IF proc[p].task = "find" /\ pub # found[p].pub
                        THEN [found EXCEPT ![p] = Nothing] ELSE found
      PROVE  CorpusInv'
  <2>1. pub \in DOMAIN published
    <3>1. CASE proc[p].task = "find" /\ found[p] # Nothing
      <4>1. found[p].pub \in DOMAIN published
        BY <1>2, <3>1 DEF HitsSound
      <4>2. Len(published) \in DOMAIN published
        BY <4>1 DEF CorpusInv, CorpusTypeOK
      <4>3. pub \in {found[p].pub, Len(published)}
        BY <1>4, <3>1 DEF Selectable
      <4> QED  BY <4>1, <4>2, <4>3
    <3>2. CASE ~(proc[p].task = "find" /\ found[p] # Nothing)
      BY <1>4, <3>2 DEF Selectable
    <3> QED  BY <3>1, <3>2
  <2>2. PICK r : r = [proc[p] EXCEPT !.at = "count", !.pub = pub, !.rows = {}]
    OBVIOUS
  <2>3. pub \in 0 .. MaxPublications
    BY <2>1, PublicationOf DEF CorpusInv, Publication
  <2>4. /\ r \in Command /\ r.at = "count" /\ r.pub = pub /\ r.rows = {} /\ r.task = proc[p].task
        /\ r.task \in {"prepare", "find"}
    BY <1>1, <1>2, <1>4, <2>2, <2>3 DEF Command, Queries, PagesSound
  <2>5. proc'[p] = r
    BY <1>4, <2>2 DEF Becomes, CorpusInv, CorpusTypeOK
  <2>6. PagesSound(p)'
    BY <1>1, <2>1, <2>4, <2>5 DEF PagesSound
  <2>7. found' = found \/ found' = [found EXCEPT ![p] = Nothing]
    BY <1>4
  <2>8. /\ found'[p] \in {found[p], Nothing} /\ \A q \in Process : q # p => found'[q] = found[q]
        /\ r.task = "find" => found'[p] = Nothing \/ found'[p].pub = pub
        /\ found' \in [Process -> [pub : 0 .. MaxPublications, index : 0 .. MaxIndexes,
                                 hits : Seq(Revision)]]
    BY <1>2, <1>4, <2>4, <2>7, NothingOf
  <2>9. HitsSound(p)'
    BY <1>1, <1>2, <2>4, <2>5, <2>8 DEF HitsSound, Ranked
  <2> QED  BY <1>1, <1>4, <2>2, <2>4, <2>6, <2>8, <2>9, GoOnStep
<1> QED  BY <1>3, <1>4 DEF Select

\* The rows the account sees are those of the publication, or none.
LEMMA RowsOf ==
  ASSUME CorpusInv, NEW p \in Process, proc[p].at \in {"count", "search", "page", "write"}
  PROVE  /\ Rows(p) \in {{}, published[proc[p].pub]}
         /\ Rows(p) \subseteq Revision
         /\ Cardinality(Rows(p)) \in {0, Cardinality(published[proc[p].pub])}
         /\ Cardinality(Rows(p)) \in 0 .. Cardinality(Revision)
<1>1. proc[p].pub \in DOMAIN published
  BY DEF CorpusInv, CorpusSound, PagesSound
<1>2. /\ published[proc[p].pub] \subseteq Revision
      /\ Cardinality(published[proc[p].pub]) \in 0 .. Cardinality(Revision)
  BY <1>1, PublicationOf DEF CorpusInv
<1>3. Cardinality({}) = 0 /\ Cardinality(Revision) \in Nat
  BY CorpusAssumption, FS_EmptySet, FS_CardinalityType
<1>4. CASE Visible
  BY <1>2, <1>4 DEF Rows
<1>5. CASE ~Visible
  <2>1. Rows(p) = {}
    BY <1>5 DEF Rows
  <2> QED  BY <1>3, <2>1
<1> QED  BY <1>4, <1>5

\* The rows counted are those of the publication, or none.
LEMMA CountKeeps == ASSUME NEW p \in Process, CorpusInv, Count(p) PROVE CorpusInv'
<1>1. PICK r : r = [proc[p] EXCEPT !.active = Cardinality(Rows(p)),
                                   !.at = IF proc[p].task = "find" THEN "search" ELSE "page"]
  OBVIOUS
<1>2. /\ proc[p].at = "count" /\ Becomes(p, r)
      /\ UNCHANGED <<published, account, index, cache, found, report, events>>
  BY <1>1 DEF Count, World
<1>3. /\ proc[p] \in Command /\ PagesSound(p) /\ HitsSound(p)
      /\ found \in [Process -> [pub : 0 .. MaxPublications, index : 0 .. MaxIndexes,
                                 hits : Seq(Revision)]]
      /\ report \in [Process -> {"none", "changed", "mismatch", "compared"}]
  BY DEF CorpusInv, CorpusTypeOK, CorpusSound
<1>4. /\ Cardinality(Rows(p)) \in {0, Cardinality(published[proc[p].pub])}
      /\ Cardinality(Rows(p)) \in 0 .. Cardinality(Revision)
  BY <1>2, RowsOf
<1>5. /\ r \in Command /\ r.task = proc[p].task /\ r.pub = proc[p].pub /\ r.rows = proc[p].rows
      /\ r.active = Cardinality(Rows(p))
      /\ r.at = IF proc[p].task = "find" THEN "search" ELSE "page"
  BY <1>1, <1>3, <1>4 DEF Command
<1>6. proc'[p] = r
  BY <1>2 DEF Becomes, CorpusInv, CorpusTypeOK
<1>7. PagesSound(p)'
  BY <1>2, <1>3, <1>4, <1>5, <1>6 DEF PagesSound
<1>8. HitsSound(p)'
  BY <1>2, <1>3, <1>5, <1>6 DEF HitsSound, Ranked
<1> QED  BY <1>2, <1>3, <1>5, <1>7, <1>8, GoOnStep
\* What the caller of a search has is the beginning of the ranking it is to go on with.
LEMMA FoundOf ==
  ASSUME CorpusInv, NEW p \in Process, proc[p].task = "find",
         proc[p].at \in {"count", "search", "page"}, NEW generation \in Nat,
         found[p] = Nothing \/ found[p].index = generation
  PROVE  /\ Begins(found[p].hits, Ranked(proc[p].pub, generation))
         /\ Len(found[p].hits) \in 0 .. Cardinality(published[proc[p].pub])
         /\ Ranked(proc[p].pub, generation) \in Seq(Revision)
         /\ Len(Ranked(proc[p].pub, generation)) = Cardinality(published[proc[p].pub])
         /\ Cardinality(published[proc[p].pub]) \in Nat
<1>1. /\ proc[p].pub \in DOMAIN published /\ HitsSound(p)
      /\ found[p] = Nothing \/ found[p].pub = proc[p].pub
      /\ found[p] \in [pub : 0 .. MaxPublications, index : 0 .. MaxIndexes, hits : Seq(Revision)]
  BY DEF CorpusInv, CorpusTypeOK, CorpusSound, PagesSound, HitsSound
<1>2. PICK ranking : ranking = Ranked(proc[p].pub, generation)
  OBVIOUS
<1>3. /\ ranking \in Seq(Revision) /\ Len(ranking) = Cardinality(published[proc[p].pub])
      /\ Len(ranking) \in Nat
  BY <1>1, <1>2, PublicationOf DEF CorpusInv
<1>4. Begins(found[p].hits, ranking)
  <2>1. CASE found[p] = Nothing
    <3>1. found[p].hits = <<>> /\ Len(found[p].hits) = 0
      BY <2>1 DEF Nothing
    <3>2. SubSeq(ranking, 1, 0) = <<>>
      BY <1>3, SubSeqEmpty
    <3> QED  BY <1>3, <3>1, <3>2 DEF Begins
  <2>2. CASE found[p] # Nothing
    BY <1>1, <1>2, <2>2 DEF HitsSound
  <2> QED  BY <2>1, <2>2
<1>5. Len(found[p].hits) \in 0 .. Len(ranking)
  <2>1. Len(found[p].hits) \in Nat
    BY <1>1
  <2> QED  BY <1>3, <1>4, <2>1 DEF Begins
<1> QED  BY <1>2, <1>3, <1>4, <1>5

\* The next page of results follows what the caller has, in the same ranking.
LEMMA SearchKeeps == ASSUME NEW p \in Process, CorpusInv, Search(p) PROVE CorpusInv'
<1>1. /\ proc[p].at = "search" /\ UNCHANGED <<published, account, index, cache, report, events>>
      /\ proc[p].task = "find"
  BY DEF Search, World, CorpusInv, CorpusSound, PagesSound
<1>2. /\ proc[p] \in Command /\ PagesSound(p) /\ HitsSound(p)
      /\ found \in [Process -> [pub : 0 .. MaxPublications, index : 0 .. MaxIndexes,
                                 hits : Seq(Revision)]]
      /\ report \in [Process -> {"none", "changed", "mismatch", "compared"}]
      /\ index \in 1 .. MaxIndexes /\ events \in 0 .. MaxEvents
  BY DEF CorpusInv, CorpusTypeOK, CorpusSound
<1>3. CASE Ends(p) /\ (found' = found \/ found' = [found EXCEPT ![p] = Nothing])
  BY <1>1, <1>2, <1>3, IdleOf, QuietStep DEF Ends
<1>4. CASE ~(Ends(p) /\ (found' = found \/ found' = [found EXCEPT ![p] = Nothing]))
  <2>1. PICK from, n, ranking :
          from = Len(found[p].hits) /\ n = Cardinality(published[proc[p].pub])
          /\ ranking = Ranked(proc[p].pub, index)
    OBVIOUS
  <2>2. PICK upto : upto = IF from + SearchLimit < n THEN from + SearchLimit ELSE n
    OBVIOUS
  <2>13. PICK hits : hits = SubSeq(ranking, from + 1, upto)
    OBVIOUS
  <2>3. PICK r : r = [proc[p] EXCEPT !.at = "page", !.index = index, !.hits = hits]
    OBVIOUS
  <2>4. Becomes(p, r) /\ found' = found /\ SameIndex(p)
    BY <1>4, <2>1, <2>2, <2>13, <2>3 DEF Search
  <2>5. found[p] = Nothing \/ found[p].index = index
    BY <2>4 DEF SameIndex
  <2>6. from \in 0 .. n /\ ranking \in Seq(Revision) /\ Len(ranking) = n /\ n \in Nat
    BY <1>1, <1>2, <2>1, <2>5, FoundOf
  <2>7. upto \in from .. n
    BY <2>2, <2>6, CorpusAssumption
  <2>8. hits \in Seq(Revision)
    BY <2>6, <2>7, <2>13, SubSeqProperties
  <2>9. /\ r \in Command /\ r.at = "page" /\ r.task = "find" /\ r.pub = proc[p].pub
        /\ r.rows = proc[p].rows /\ r.index = index
        /\ r.hits = hits
    <3>1. index \in 0 .. MaxIndexes
      BY <1>2, CorpusAssumption
    <3>2. r \in Command
      BY <1>2, <2>3, <2>8, <3>1 DEF Command
    <3>3. r.at = "page" /\ r.index = index /\ r.hits = hits
      BY <1>2, <2>3 DEF Command
    <3>4. r.task = proc[p].task /\ r.pub = proc[p].pub /\ r.rows = proc[p].rows
      BY <1>2, <2>3 DEF Command
    <3> QED  BY <1>1, <3>2, <3>3, <3>4
  <2>10. proc'[p] = r
    BY <2>4 DEF Becomes, CorpusInv, CorpusTypeOK
  <2>11. PagesSound(p)'
    BY <1>1, <1>2, <2>9, <2>10 DEF PagesSound
  <2>12. HitsSound(p)'
    BY <1>1, <1>2, <2>1, <2>4, <2>5, <2>7, <2>9, <2>10, <2>13 DEF HitsSound, Ranked
  <2> QED  BY <1>1, <1>2, <2>4, <2>9, <2>11, <2>12, GoOnStep
<1> QED  BY <1>3, <1>4

\* A batch is of the rows of the publication.
LEMMA PageKeeps == ASSUME NEW p \in Process, CorpusInv, Page(p) PROVE CorpusInv'
<1>1. proc[p].at = "page" /\ UNCHANGED <<published, account, index, cache, found, report, events>>
  BY DEF Page, World
<1>2. /\ proc[p] \in Command /\ PagesSound(p) /\ HitsSound(p)
      /\ found \in [Process -> [pub : 0 .. MaxPublications, index : 0 .. MaxIndexes,
                                 hits : Seq(Revision)]]
      /\ report \in [Process -> {"none", "changed", "mismatch", "compared"}]
      /\ events \in 0 .. MaxEvents
  BY DEF CorpusInv, CorpusTypeOK, CorpusSound
<1>3. ASSUME NEW r \in Command, Becomes(p, r), r.at = "page", r.task = proc[p].task,
             r.pub = proc[p].pub, r.hits = proc[p].hits, r.index = proc[p].index,
             r.active = proc[p].active, r.rows \subseteq published[proc[p].pub]
      PROVE  CorpusInv'
  <2>1. proc'[p] = r
    BY <1>3 DEF Becomes, CorpusInv, CorpusTypeOK
  <2>2. PagesSound(p)'
    BY <1>1, <1>2, <1>3, <2>1 DEF PagesSound
  <2>3. HitsSound(p)'
    BY <1>1, <1>2, <1>3, <2>1 DEF HitsSound, Ranked
  <2> QED  BY <1>1, <1>2, <1>3, <2>2, <2>3, GoOnStep
<1>4. CASE Becomes(p, [proc[p] EXCEPT !.rows = @ \cup Batch(p)])
  <2>1. Batch(p) \subseteq published[proc[p].pub] /\ Batch(p) \subseteq Revision
    <3>1. Rows(p) \in {{}, published[proc[p].pub]} /\ Rows(p) \subseteq Revision
      BY <1>1, RowsOf
    <3> QED  BY <3>1 DEF Batch, After
  <2>2. PICK r : r = [proc[p] EXCEPT !.rows = @ \cup Batch(p)]
    OBVIOUS
  <2>3. /\ r \in Command /\ r.at = "page" /\ r.task = proc[p].task
        /\ r.pub = proc[p].pub /\ r.hits = proc[p].hits /\ r.index = proc[p].index
        /\ r.active = proc[p].active /\ r.rows = proc[p].rows \cup Batch(p)
    BY <1>1, <1>2, <2>1, <2>2 DEF Command
  <2>4. r.rows \subseteq published[proc[p].pub]
    BY <1>1, <1>2, <2>1, <2>3 DEF PagesSound
  <2> QED  BY <1>3, <1>4, <2>2, <2>3, <2>4
<1>5. CASE proc[p].limit > 1 /\ Becomes(p, [proc[p] EXCEPT !.limit = @ \div 2])
  <2>1. PICK half : half = proc[p].limit \div 2
    OBVIOUS
  <2>2. half \in 1 .. BatchSize
    BY <1>2, <1>5, <2>1, CorpusAssumption DEF Command
  <2>3. PICK r : r = [proc[p] EXCEPT !.limit = half]
    OBVIOUS
  <2>4. /\ r \in Command /\ r.at = "page" /\ r.task = proc[p].task
        /\ r.pub = proc[p].pub /\ r.hits = proc[p].hits /\ r.index = proc[p].index
        /\ r.active = proc[p].active /\ r.rows = proc[p].rows
    BY <1>1, <1>2, <2>2, <2>3 DEF Command
  <2>5. r.rows \subseteq published[proc[p].pub] /\ Becomes(p, r)
    BY <1>1, <1>2, <1>5, <2>1, <2>3, <2>4 DEF PagesSound
  <2> QED  BY <1>3, <2>4, <2>5
<1>6. CASE Ends(p)
  BY <1>1, <1>2, <1>6, IdleOf, QuietStep DEF Ends
<1> QED  BY <1>4, <1>5, <1>6 DEF Page

\* A preparation that has all rows it counted has all of the publication, or none.
LEMMA AllOrNone ==
  ASSUME CorpusInv, NEW p \in Process, proc[p].at = "page", proc[p].task = "prepare", ReadAll(p)
  PROVE  proc[p].rows \in {{}, published[proc[p].pub]}
<1>1. /\ proc[p].pub \in DOMAIN published /\ proc[p].rows \subseteq published[proc[p].pub]
      /\ proc[p].active \in {0, Cardinality(published[proc[p].pub])}
      /\ Cardinality(proc[p].rows) = proc[p].active
  BY DEF CorpusInv, CorpusSound, PagesSound, ReadAll
<1>2. IsFiniteSet(published[proc[p].pub])
  BY <1>1, PublicationOf DEF CorpusInv
<1>3. IsFiniteSet(proc[p].rows)
  BY <1>1, <1>2, FS_Subset
<1>4. proc[p].active = 0 => proc[p].rows = {}
  BY <1>1, <1>3, FS_EmptySet
<1>5. proc[p].active = Cardinality(published[proc[p].pub]) => proc[p].rows = published[proc[p].pub]
  BY <1>1, <1>2, FS_Subset
<1> QED  BY <1>1, <1>4, <1>5

\* The last batch: the corpus may be written, and the caller of a search has its hits.
LEMMA LastBatchKeeps == ASSUME NEW p \in Process, CorpusInv, LastBatch(p) PROVE CorpusInv'
<1>1. proc[p].at = "page" /\ UNCHANGED <<published, account, index, cache, report, events>>
  BY DEF LastBatch, World
<1>2. /\ proc[p] \in Command /\ PagesSound(p) /\ HitsSound(p)
      /\ found \in [Process -> [pub : 0 .. MaxPublications, index : 0 .. MaxIndexes,
                                 hits : Seq(Revision)]]
      /\ report \in [Process -> {"none", "changed", "mismatch", "compared"}]
      /\ events \in 0 .. MaxEvents
  BY DEF CorpusInv, CorpusTypeOK, CorpusSound
<1>3. CASE ReadAll(p) /\ proc[p].task = "prepare"
  <2>1. PICK r : r = [proc[p] EXCEPT !.at = "write"]
    OBVIOUS
  <2>2. Becomes(p, r) /\ found' = found
    BY <1>3, <2>1 DEF LastBatch, Goes
  <2>3. /\ r \in Command /\ r.at = "write" /\ r.task = "prepare"
        /\ r.pub = proc[p].pub /\ r.rows = proc[p].rows
    BY <1>2, <1>3, <2>1 DEF Command
  <2>4. proc'[p] = r
    BY <2>2 DEF Becomes, CorpusInv, CorpusTypeOK
  <2>5. proc[p].rows \in {{}, published[proc[p].pub]}
    BY <1>1, <1>3, AllOrNone
  <2>6. PagesSound(p)'
    BY <1>1, <1>2, <2>3, <2>4, <2>5 DEF PagesSound
  <2>7. HitsSound(p)'
    BY <1>1, <1>2, <2>2, <2>3, <2>4 DEF HitsSound, Ranked
  <2> QED  BY <1>1, <1>2, <2>2, <2>3, <2>6, <2>7, GoOnStep
<1>4. CASE ReadAll(p) /\ proc[p].task = "find"
  <2>1. PICK f : f = [pub |-> proc[p].pub, index |-> proc[p].index,
                      hits |-> found[p].hits \o proc[p].hits]
    OBVIOUS
  <2>2. Ends(p) /\ found' = [found EXCEPT ![p] = f]
    BY <1>4, <2>1 DEF LastBatch
  <2>3. /\ f \in [pub : 0 .. MaxPublications, index : 0 .. MaxIndexes, hits : Seq(Revision)]
        /\ f.pub = proc[p].pub /\ f.index = proc[p].index
        /\ f.hits = found[p].hits \o proc[p].hits
    <3>1. found[p].hits \in Seq(Revision) /\ proc[p].hits \in Seq(Revision)
          /\ proc[p].pub \in 0 .. MaxPublications /\ proc[p].index \in 0 .. MaxIndexes
      BY <1>2 DEF Command
    <3>2. found[p].hits \o proc[p].hits \in Seq(Revision)
      BY <3>1, ConcatProperties
    <3> QED  BY <2>1, <3>1, <3>2
  <2>4. found'[p] = f /\ (\A q \in Process : q # p => found'[q] = found[q])
        /\ found' \in [Process -> [pub : 0 .. MaxPublications, index : 0 .. MaxIndexes,
                                   hits : Seq(Revision)]]
    BY <1>2, <2>2, <2>3
  <2>5. PICK ranking : ranking = Ranked(proc[p].pub, proc[p].index)
    OBVIOUS
  <2>6. /\ Begins(found[p].hits, ranking) /\ ranking \in Seq(Revision)
        /\ Len(ranking) = Cardinality(published[proc[p].pub])
        /\ Len(found[p].hits) \in Nat
    <3>1. proc[p].index \in Nat /\ (found[p] = Nothing \/ found[p].index = proc[p].index)
      BY <1>1, <1>2, <1>4 DEF HitsSound, Command
    <3> QED  BY <1>1, <1>4, <2>5, <3>1, FoundOf
  <2>7. PICK upto \in Len(found[p].hits) .. Len(ranking) :
          proc[p].hits = SubSeq(ranking, Len(found[p].hits) + 1, upto)
    BY <1>1, <1>2, <1>4, <2>5, <2>6 DEF HitsSound
  <2>8. Begins(f.hits, ranking)
    BY <2>3, <2>6, <2>7, BeginsOn
  <2>9. proc'[p] = Idle /\ Idle.at = "idle" /\ Idle \in Command /\ Becomes(p, Idle)
    BY <2>2, IdleOf DEF Ends, Becomes, CorpusInv, CorpusTypeOK
  <2>10. PagesSound(p)'
    BY <2>9 DEF PagesSound
  <2>11. HitsSound(p)'
    <3>1. f.pub \in DOMAIN published
      BY <1>1, <1>2, <2>3 DEF PagesSound
    <3>2. Begins(f.hits, Ranked(f.pub, f.index))
      BY <2>3, <2>5, <2>8
    <3> QED  BY <1>1, <2>4, <2>9, <3>1, <3>2 DEF HitsSound, Ranked
  <2> QED  BY <1>1, <1>2, <2>4, <2>9, <2>10, <2>11, GoOnStep
<1>5. CASE ~ReadAll(p) \/ proc[p].task \notin {"prepare", "find"}
  <2>1. Ends(p) /\ found' = found
    BY <1>5 DEF LastBatch
  <2> QED  BY <1>1, <1>2, <2>1, IdleOf, QuietStep DEF Ends
<1> QED  BY <1>3, <1>4, <1>5
\* The corpus file is written whole.
LEMMA WriteKeeps == ASSUME NEW p \in Process, CorpusInv, WriteCorpus(p) PROVE CorpusInv'
<1>1. /\ proc[p].at = "write" /\ UNCHANGED <<published, account, index, found, report, events>>
      /\ cache' = [pub |-> proc[p].pub, pages |-> proc[p].rows] /\ Ends(p)
  BY DEF WriteCorpus, World
<1>2. /\ proc[p] \in Command /\ proc[p].pub \in DOMAIN published
      /\ proc[p].rows \in {{}, published[proc[p].pub]}
  BY <1>1 DEF CorpusInv, CorpusTypeOK, CorpusSound, PagesSound
<1>3. cache' \in Prepared /\ cache'.pub \in DOMAIN published
      /\ cache'.pages \in {published[cache'.pub], {}}
  <2>1. proc[p].pub \in Publication /\ proc[p].rows \in SUBSET Revision
    BY <1>2, PublicationOf DEF CorpusInv, Command
  <2> QED  BY <1>1, <1>2, <2>1 DEF Prepared
<1>4. proc' \in [Process -> Command] /\ proc'[p].at = "idle"
      /\ \A q \in Process : q # p => proc'[q] = proc[q]
  BY <1>1, IdleOf DEF Ends, Becomes, CorpusInv, CorpusTypeOK
<1>5. PagesSound(p)'
  BY <1>4 DEF PagesSound
<1>6. HitsSound(p)'
  BY <1>1, <1>4 DEF CorpusInv, CorpusSound, HitsSound, Ranked
<1>7. ASSUME NEW q \in Process PROVE PagesSound(q)' /\ HitsSound(q)'
  <2>1. CASE q = p
    BY <1>5, <1>6, <2>1
  <2>2. CASE q # p
    BY <1>1, <1>4, <2>2, CommandStays
  <2> QED  BY <2>1, <2>2
<1>8. CorpusSound'
  BY <1>1, <1>3, <1>7 DEF CorpusSound
<1>9. CorpusTypeOK'
  BY <1>1, <1>3, <1>4 DEF CorpusInv, CorpusTypeOK
<1> QED  BY <1>8, <1>9 DEF CorpusInv

\* A command is killed; its caller keeps the results it had.
LEMMA KillKeeps == ASSUME NEW p \in Process, CorpusInv, KillCommand(p) PROVE CorpusInv'
<1>1. /\ UNCHANGED <<published, account, index, cache, found, report>> /\ Ends(p)
      /\ events' \in 0 .. MaxEvents
  BY CorpusAssumption DEF KillCommand, Event, CorpusInv, CorpusTypeOK
<1> QED  BY <1>1, IdleOf, QuietStep DEF Ends, CorpusInv, CorpusTypeOK

---------------------------------------------------------------------------
\* Nothing that is published changes what was published before.
LEMMA PublishKeeps == CorpusInv /\ Publish => CorpusInv'
<1> SUFFICES ASSUME CorpusInv, Publish PROVE CorpusInv'
  OBVIOUS
<1>1. /\ Len(published) < MaxPublications
      /\ UNCHANGED <<account, index, cache, proc, found, report, events>>
  BY DEF Publish
<1>2. PICK pages \in SUBSET Revision : published' = Append(published, pages)
  BY DEF Publish
<1>3. published \in Seq(SUBSET Revision)
  BY DEF CorpusInv, CorpusTypeOK
<1>4. /\ published' \in Seq(SUBSET Revision) /\ Len(published') <= MaxPublications
      /\ \A pub \in DOMAIN published : pub \in DOMAIN published' /\ published'[pub] = published[pub]
  BY <1>1, <1>2, <1>3, CorpusAssumption
<1>5. \A q \in Process : PagesSound(q)' /\ HitsSound(q)'
  BY <1>1, <1>4, CommandStays
<1>6. CorpusSound'
  BY <1>1, <1>4, <1>5 DEF CorpusInv, CorpusSound
<1>7. CorpusTypeOK'
  BY <1>1, <1>4 DEF CorpusInv, CorpusTypeOK
<1> QED  BY <1>6, <1>7 DEF CorpusInv

\* A damaged file is no corpus; the index and the account are nothing a command relies on.
LEMMA WorldKeeps ==
  ASSUME CorpusInv, UNCHANGED <<published, proc, found, report>>, index' \in 1 .. MaxIndexes,
         account' \in {"member", "removed", "disabled"}, cache' \in {cache, Damaged},
         events' \in 0 .. MaxEvents
  PROVE  CorpusInv'
<1>1. CorpusTypeOK'
  BY DEF CorpusInv, CorpusTypeOK
<1>2. \A q \in Process : PagesSound(q)' /\ HitsSound(q)'
  BY CommandStays
<1>3. cache' \in Prepared => cache' = cache
  BY CorpusAssumption
<1>4. CorpusSound'
  BY <1>2, <1>3 DEF CorpusInv, CorpusSound
<1> QED  BY <1>1, <1>4 DEF CorpusInv

\* Every step of the commands, and of others, keeps the invariant.
LEMMA CorpusStep == CorpusInv /\ [CorpusNext]_corpusVars => CorpusInv'
<1> SUFFICES ASSUME CorpusInv, [CorpusNext]_corpusVars PROVE CorpusInv'
  OBVIOUS
<1>1. ASSUME NEW p \in Process,
             \/ Run(p) \/ Authenticate(p) \/ Load(p) \/ Select(p) \/ Count(p) \/ Search(p)
             \/ Page(p) \/ LastBatch(p) \/ WriteCorpus(p) \/ KillCommand(p)
      PROVE  CorpusInv'
  BY <1>1, RunKeeps, AuthenticateKeeps, LoadKeeps, SelectKeeps, CountKeeps, SearchKeeps,
     PageKeeps, LastBatchKeeps, WriteKeeps, KillKeeps
<1>2. CASE Publish
  BY <1>2, PublishKeeps
<1>3. /\ index \in 1 .. MaxIndexes /\ account \in {"member", "removed", "disabled"}
      /\ events \in 0 .. MaxEvents
  BY DEF CorpusInv, CorpusTypeOK
<1>4. CASE Reindex
  BY <1>3, <1>4, CorpusAssumption, WorldKeeps DEF Reindex
<1>5. CASE DamageCache
  BY <1>3, <1>5, CorpusAssumption, WorldKeeps DEF DamageCache, Event
<1>6. ASSUME NEW a \in {"member", "removed", "disabled"}, ChangeAccount(a) PROVE CorpusInv'
  BY <1>3, <1>6, CorpusAssumption, WorldKeeps DEF ChangeAccount, Event
<1>7. CASE UNCHANGED corpusVars
  BY <1>3, <1>7, WorldKeeps DEF corpusVars
<1> QED  BY <1>1, <1>2, <1>4, <1>5, <1>6, <1>7 DEF CorpusNext

\* The invariant of the commands, of which the theorems below are parts.
LEMMA CorpusInvariant == CorpusSpec => []CorpusInv
<1>1. CorpusInit => CorpusInv
  BY CorpusStarts
<1>2. CorpusInv /\ [CorpusNext]_corpusVars => CorpusInv'
  BY CorpusStep
<1> QED  BY <1>1, <1>2, PTL DEF CorpusSpec

\* What the commands know, and their results, are of the types of knowledge.py and cli.py:
\* a halved limit is never 0, and the hits of a search are pages.
THEOREM CorpusTypes == CorpusSpec => []CorpusTypeOK
<1>1. CorpusInv => CorpusTypeOK
  BY DEF CorpusInv
<1> QED  BY <1>1, CorpusInvariant, PTL

\* Whatever is published, killed or prepared meanwhile, a corpus file that a command
\* accepts has all pages of its publication, or none where the membership had ended
\* (batches and validate_manifest of knowledge.py, atomic_write).
THEOREM CorporaAreWhole == CorpusSpec => []OneWholeCorpus
<1>1. CorpusInv => OneWholeCorpus
  BY DEF CorpusInv, CorpusSound, OneWholeCorpus
<1> QED  BY <1>1, CorpusInvariant, PTL

\* The pages of results a caller has put together are the beginning of one ranking of
\* one publication, whatever is published or indexed between the requests
\* (search of knowledge.py, expectedGeneration).
THEOREM SearchesContinue == CorpusSpec => []SearchContinues
<1>1. ASSUME CorpusInv, NEW p \in Process, found[p] # Nothing
      PROVE  IsPrefix(found[p].hits, Ranked(found[p].pub, found[p].index))
  <2>1. /\ found[p].pub \in DOMAIN published /\ found[p].index \in Nat
        /\ found[p].hits \in Seq(Revision)
        /\ Begins(found[p].hits, Ranked(found[p].pub, found[p].index))
    <3>1. found[p] \in [pub : 0 .. MaxPublications, index : 0 .. MaxIndexes, hits : Seq(Revision)]
      BY <1>1 DEF CorpusInv, CorpusTypeOK
    <3>2. HitsSound(p)
      BY <1>1 DEF CorpusInv, CorpusSound
    <3>3. found[p].index \in Nat /\ found[p].hits \in Seq(Revision)
      BY <3>1, CorpusAssumption
    <3> QED  BY <1>1, <3>2, <3>3 DEF HitsSound
  <2>2. Ranked(found[p].pub, found[p].index) \in Seq(Revision)
    BY <1>1, <2>1, PublicationOf DEF CorpusInv
  <2> QED  BY <2>1, <2>2, BeginsIsPrefix
<1>2. CorpusInv => SearchContinues
  BY <1>1 DEF SearchContinues
<1> QED  BY <1>2, CorpusInvariant, PTL
=============================================================================
