---------------------------- MODULE ClientProofs ----------------------------
(* What a command-line client promises, proved for any number of processes,    *)
(* restarts and retries: a write is applied once at most (WritesOnce) and the  *)
(* provider is not billed twice for one recording (NoRepeatBilling).           *)
(*                                                                             *)
(* The first rests on CallSound: a request is sent again only after a refusal, *)
(* which means it was not applied, or because it only reads.  The second on    *)
(* WorkSound: past the lock the receipt a process has read is the receipt on   *)
(* disk, nothing was started as long as that receipt says "prepared", and it   *)
(* says "running" before anything is started.                                  *)
EXTENDS AudioWorkflow, TLAPS

CallType ==
  [stage : {"idle", "load", "send", "answered", "done", "failed"}, kind : Kind,
   session : Session \cup {None}, cached : BOOLEAN, status : Status, attempt : 0 .. MaxAttempts]

\* How often the server has applied a request, at each stage of it.
CallSound(c) ==
  /\ applied[c] \in {0, 1}
  /\ call[c].kind # "write" => applied[c] = 0
  /\ call[c].stage \in {"load", "send"} => applied[c] = 0
  /\ call[c].stage = "answered" =>
       /\ call[c].status \in {401, 404} => applied[c] = 0
       /\ call[c].status = 200 /\ call[c].kind = "write" => applied[c] = 1
  /\ call[c].stage = "done" /\ call[c].kind = "write" => applied[c] = 1
  /\ call[c].stage \in {"send", "answered"} => call[c].session \in Session

SInv ==
  /\ file \in Session \cup {None} /\ era \in 0 .. MaxEra
  /\ call \in [Client -> CallType] /\ applied \in [Client -> {0, 1}]
  /\ \A c \in Client : CallSound(c)

Locked == {"open", "write", "work", "existing", "start", "provider", "import"}
Holding == {"work", "existing", "start", "provider", "import"}

WorkType ==
  /\ task \in [Client -> Task]
  /\ flags \in [Client -> [resume : BOOLEAN, key : BOOLEAN]]
  /\ holder \in Client \cup {None}
  /\ snapshot \in {"absent", "partial", "whole"}
  /\ receipt \in Receipt \cup {None} /\ held \in Receipt \cup {None}
  /\ imported \in BOOLEAN
  /\ fresh \in {0, 1} /\ unasked \in {0, 1} /\ runs \in 0 .. MaxRuns

\* Who is past the lock holds it and knows the receipt on disk; the provider is not
\* started before that receipt says so.
WorkSound ==
  /\ \A c \in Client : task[c] \in Locked => holder = c
  /\ \A c \in Client : task[c] \in Holding => held = receipt /\ receipt # None
  /\ receipt = None \/ receipt.status = "prepared" => fresh = 0 /\ unasked = 0
  /\ \A c \in Client : task[c] = "start" =>
       /\ receipt.status = "running"
       /\ ~ held.manifest => fresh = 0
       /\ ~ flags[c].resume => unasked = 0
  /\ \A c \in Client : task[c] # "idle" => runs >= 1
  /\ fresh + unasked > 0 => runs >= 1

WInv == WorkType /\ WorkSound

---------------------------------------------------------------------------
\* The requests.

\* A step that changes one request keeps the others sound.
LEMMA OneCall ==
  ASSUME SInv, NEW c \in Client, NEW r \in CallType, NEW n \in {0, 1},
         call' = [call EXCEPT ![c] = r], applied' = [applied EXCEPT ![c] = n],
         file' \in Session \cup {None}, era' \in 0 .. MaxEra,
         r.kind # "write" => n = 0,
         r.stage \in {"load", "send"} => n = 0,
         r.stage = "answered" =>
           /\ r.status \in {401, 404} => n = 0
           /\ r.status = 200 /\ r.kind = "write" => n = 1,
         r.stage = "done" /\ r.kind = "write" => n = 1,
         r.stage \in {"send", "answered"} => r.session \in Session
  PROVE  SInv'
<1>1. /\ call' \in [Client -> CallType] /\ applied' \in [Client -> {0, 1}]
      /\ call'[c] = r /\ applied'[c] = n
      /\ \A d \in Client \ {c} : call'[d] = call[d] /\ applied'[d] = applied[d]
  BY DEF SInv
<1>2. \A d \in Client : CallSound(d)'
  BY <1>1 DEF SInv, CallSound
<1> QED BY <1>1, <1>2 DEF SInv

IdleAs(stage, kind) == [Idle EXCEPT !.stage = stage, !.kind = kind]

LEMMA IdleCall ==
  ASSUME NEW kind \in Kind, NEW stage \in {"idle", "load", "done", "failed"}
  PROVE  /\ Idle \in CallType
         /\ IdleAs(stage, kind) \in CallType
         /\ IdleAs(stage, kind).stage = stage /\ IdleAs(stage, kind).kind = kind
<1>1. 0 \in 0 .. MaxAttempts /\ 0 \in Status /\ "read" \in Kind
  BY SessionAssumption DEF Status, Kind
<1>2. Idle \in CallType
  BY <1>1 DEF Idle, CallType
<1>3. PICK idle : idle = Idle
  OBVIOUS
<1>4. PICK r : r = [idle EXCEPT !.stage = stage, !.kind = kind]
  OBVIOUS
<1>5. r \in CallType /\ r.stage = stage /\ r.kind = kind
  BY <1>2, <1>3, <1>4 DEF CallType
<1>6. r = IdleAs(stage, kind)
  BY <1>3, <1>4 DEF IdleAs
<1> QED BY <1>2, <1>5, <1>6

\* A request that begins, is forgotten, or ends without having been answered.
LEMMA AskKeeps ==
  ASSUME SInv, NEW c \in Client, NEW kind \in Kind, Ask(c, kind)
  PROVE  SInv'
<1>1. PICK r : r = [Idle EXCEPT !.stage = "load", !.kind = kind]
  OBVIOUS
<1>2. r \in CallType /\ r.stage = "load" /\ r.kind = kind
  BY <1>1, IdleCall DEF IdleAs
<1>3. call' = [call EXCEPT ![c] = r] /\ applied' = [applied EXCEPT ![c] = 0]
      /\ file' = file /\ era' = era
  BY <1>1 DEF Ask, Set
<1> QED BY <1>2, <1>3, OneCall DEF SInv

LEMMA ForgetKeeps ==
  ASSUME SInv, NEW c \in Client, Forget(c)
  PROVE  SInv'
<1>1. Idle \in CallType /\ Idle.stage = "idle" /\ Idle.kind = "read"
  BY SessionAssumption DEF Idle, CallType, Kind, Status
<1>2. call' = [call EXCEPT ![c] = Idle] /\ applied' = [applied EXCEPT ![c] = 0]
      /\ file' = file /\ era' = era
  BY DEF Forget, Set
<1> QED BY <1>1, <1>2, OneCall DEF SInv

LEMMA FailsKeeps ==
  ASSUME SInv, NEW c \in Client, Fails(c), UNCHANGED <<file, era, applied>>
  PROVE  SInv'
<1>1. PICK r : r = [Idle EXCEPT !.stage = "failed", !.kind = call[c].kind]
  OBVIOUS
<1>2. call[c] \in CallType /\ call[c].kind \in Kind /\ applied[c] \in {0, 1} /\ CallSound(c)
  BY DEF SInv, CallType
<1>3. r \in CallType /\ r.stage = "failed" /\ r.kind = call[c].kind
  BY <1>1, <1>2, IdleCall DEF IdleAs
<1>4. call' = [call EXCEPT ![c] = r] /\ applied' = [applied EXCEPT ![c] = applied[c]]
      /\ file' = file /\ era' = era
  BY <1>1 DEF Fails, Set, SInv
<1>5. r.kind # "write" => applied[c] = 0
  BY <1>2, <1>3 DEF CallSound
<1> QED BY <1>2, <1>3, <1>4, <1>5, OneCall DEF SInv

LEMMA SignedInKeeps ==
  ASSUME SInv, NEW c \in Client, NEW s \in Session, NEW cached \in BOOLEAN,
         applied[c] = 0, SignedIn(c, s, cached)
  PROVE  SInv'
<1>1. PICK r : r = [call[c] EXCEPT !.stage = "send", !.session = s, !.cached = cached]
  OBVIOUS
<1>2. r \in CallType /\ r.stage = "send" /\ r.session = s
  BY <1>1 DEF SInv, CallType
<1>3. call' = [call EXCEPT ![c] = r] /\ applied' = [applied EXCEPT ![c] = 0]
      /\ file' \in {file, s} /\ era' = era
  BY <1>1 DEF SignedIn, Set, SInv
<1> QED BY <1>2, <1>3, OneCall DEF SInv

LEMMA SessionKeeps ==
  ASSUME SInv, SessionNext
  PROVE  SInv'
<1>0. /\ file \in Session \cup {None} /\ era \in 0 .. MaxEra /\ era \in Nat
      /\ call \in [Client -> CallType] /\ applied \in [Client -> {0, 1}]
      /\ \A c \in Client : CallSound(c)
  BY SessionAssumption DEF SInv
<1>i. \A m \in Method : Issued(m) \in Session
  BY <1>0 DEF Issued, Session
<1>l. \A c \in Client : call[c].stage = "load" => applied[c] = 0
  BY <1>0 DEF CallSound
<1>1. ASSUME NEW c \in Client, FirstLogin(c)
      PROVE  SInv'
  BY <1>1, <1>i, <1>l, SignedInKeeps DEF FirstLogin
<1>2. ASSUME NEW c \in Client, UseSession(c)
      PROVE  SInv'
  <2>1. PICK r : r = [call[c] EXCEPT !.stage = "send", !.session = file, !.cached = TRUE]
    OBVIOUS
  <2>2. file \in Session /\ applied[c] = 0
    BY <1>0, <1>2, <1>l DEF UseSession
  <2>3. r \in CallType /\ r.stage = "send" /\ r.session = file
    BY <1>0, <2>1, <2>2 DEF CallType
  <2>4. call' = [call EXCEPT ![c] = r] /\ applied' = [applied EXCEPT ![c] = 0]
        /\ file' = file /\ era' = era
    BY <1>0, <1>2, <2>1, <2>2 DEF UseSession, Set
  <2> QED BY <1>0, <2>2, <2>3, <2>4, OneCall
<1>3. ASSUME NEW c \in Client, Renew(c)
      PROVE  SInv'
  <2>1. "central" \in Method /\ TRUE \in BOOLEAN
    BY DEF Method
  <2> QED BY <1>3, <1>i, <1>l, <2>1, SignedInKeeps DEF Renew
<1>4. ASSUME NEW c \in Client, SignInFails(c)
      PROVE  SInv'
  BY <1>4, FailsKeeps DEF SignInFails
<1>5. ASSUME NEW c \in Client, NEW s \in Status, NEW n \in {0, 1},
             call[c].stage = "send",
             call' = [call EXCEPT ![c] = [call[c] EXCEPT !.stage = "answered", !.status = s]],
             applied' = [applied EXCEPT ![c] = n], UNCHANGED <<file, era>>,
             call[c].kind # "write" => n = 0,
             s \in {401, 404} => n = 0,
             s = 200 /\ call[c].kind = "write" => n = 1
      PROVE  SInv'
  <2>1. PICK r : r = [call[c] EXCEPT !.stage = "answered", !.status = s]
    OBVIOUS
  <2>2. /\ r \in CallType /\ r.stage = "answered" /\ r.status = s /\ r.kind = call[c].kind
        /\ r.session = call[c].session
    BY <1>0, <2>1 DEF CallType
  <2>3. call[c].session \in Session
    BY <1>0, <1>5 DEF CallSound
  <2> QED BY <1>0, <1>5, <2>1, <2>2, <2>3, OneCall
<1>6. ASSUME NEW c \in Client, Serve(c)
      PROVE  SInv'
  <2>1. applied[c] = 0 /\ call[c].stage = "send"
    BY <1>0, <1>6 DEF Serve, CallSound
  <2>2. ASSUME NEW s \in {404, 503, 0}, Set(c, [call[c] EXCEPT !.stage = "answered", !.status = s]),
               UNCHANGED applied, UNCHANGED <<file, era>>
        PROVE  SInv'
    <3>1. applied' = [applied EXCEPT ![c] = 0] /\ s \in Status /\ s # 200
      BY <1>0, <2>1, <2>2 DEF Status
    <3>2. call' = [call EXCEPT ![c] = [call[c] EXCEPT !.stage = "answered", !.status = s]]
      BY <2>2 DEF Set
    <3> QED BY <1>5, <2>1, <2>2, <3>1, <3>2
  <2>3. ASSUME NEW s \in {200, 503, 0}, Set(c, [call[c] EXCEPT !.stage = "answered", !.status = s]),
               applied' = [applied EXCEPT ![c] = IF call[c].kind = "write" THEN @ + 1 ELSE @],
               UNCHANGED <<file, era>>
        PROVE  SInv'
    <3>1. PICK n : n = IF call[c].kind = "write" THEN 1 ELSE 0
      OBVIOUS
    <3>2. applied' = [applied EXCEPT ![c] = n] /\ n \in {0, 1}
      BY <1>0, <2>1, <2>3, <3>1
    <3>3. s \in Status /\ s \notin {401, 404}
      BY DEF Status
    <3>4. call' = [call EXCEPT ![c] = [call[c] EXCEPT !.stage = "answered", !.status = s]]
      BY <2>3 DEF Set
    <3>5. /\ call[c].kind # "write" => n = 0
          /\ s \in {401, 404} => n = 0
          /\ s = 200 /\ call[c].kind = "write" => n = 1
          /\ call[c].stage = "send" /\ UNCHANGED <<file, era>>
      BY <2>1, <2>3, <3>1, <3>3
    <3> QED BY <1>5, <3>2, <3>3, <3>4, <3>5
  <2> QED BY <1>6, <2>2, <2>3 DEF Serve
<1>7. ASSUME NEW c \in Client, Reject(c)
      PROVE  SInv'
  <2>1. applied[c] = 0 /\ call[c].stage = "send"
    BY <1>0, <1>7 DEF Reject, CallSound
  <2>2. PICK s : s = IF call[c].kind = "sql" THEN 401 ELSE 404
    OBVIOUS
  <2>3. applied' = [applied EXCEPT ![c] = 0] /\ s \in Status /\ s # 200
    BY <1>0, <1>7, <2>1, <2>2 DEF Reject, Status
  <2>4. call' = [call EXCEPT ![c] = [call[c] EXCEPT !.stage = "answered", !.status = s]]
        /\ UNCHANGED <<file, era>>
    BY <1>7, <2>2 DEF Reject, Set
  <2> QED BY <1>5, <2>1, <2>3, <2>4
<1>8. ASSUME NEW c \in Client, SignInAgain(c)
      PROVE  SInv'
  <2>1. applied[c] = 0
    BY <1>0, <1>8 DEF SignInAgain, RejectedToken, MaybeRejected, CallSound
  <2>2. "password" \in Method /\ FALSE \in BOOLEAN
    BY DEF Method
  <2> QED BY <1>8, <1>i, <2>1, <2>2, SignedInKeeps, FailsKeeps DEF SignInAgain
<1>9. ASSUME NEW c \in Client, Again(c)
      PROVE  SInv'
  <2>1. PICK r : r = [call[c] EXCEPT !.stage = "load", !.session = None, !.cached = FALSE,
                                     !.status = 0, !.attempt = @ + 1]
    OBVIOUS
  <2>2. call[c] \in CallType /\ call[c].kind # "write" /\ call[c].attempt < MaxAttempts
        /\ applied[c] = 0
    BY <1>0, <1>9 DEF Again, Retry, CallSound
  <2>3. call[c].attempt + 1 \in 0 .. MaxAttempts /\ 0 \in Status
    BY <2>2, SessionAssumption DEF CallType, Status
  <2>4. r \in CallType /\ r.stage = "load"
    BY <2>1, <2>2, <2>3 DEF CallType
  <2>5. call' = [call EXCEPT ![c] = r] /\ applied' = [applied EXCEPT ![c] = 0]
        /\ file' = file /\ era' = era
    BY <1>0, <1>9, <2>1, <2>2 DEF Again, Set
  <2> QED BY <1>0, <2>4, <2>5, OneCall
<1>10. ASSUME NEW c \in Client, Answered(c)
       PROVE  SInv'
  <2>1. PICK stage : stage = IF call[c].status = 200 THEN "done" ELSE "failed"
    OBVIOUS
  <2>2. PICK r : r = [Idle EXCEPT !.stage = stage, !.kind = call[c].kind]
    OBVIOUS
  <2>3. call[c] \in CallType /\ call[c].kind \in Kind /\ applied[c] \in {0, 1}
        /\ call[c].stage = "answered" /\ CallSound(c) /\ stage \in {"done", "failed"}
    BY <1>0, <1>10, <2>1 DEF CallType, Answered
  <2>4. r \in CallType /\ r.stage = stage /\ r.kind = call[c].kind
    <3>1. r = IdleAs(stage, call[c].kind)
      BY <2>2 DEF IdleAs
    <3>2. stage \in {"idle", "load", "done", "failed"}
      BY <2>3
    <3> QED BY <2>3, <3>1, <3>2, IdleCall
  <2>5. call' = [call EXCEPT ![c] = r] /\ applied' = [applied EXCEPT ![c] = applied[c]]
        /\ file' = file /\ era' = era
    BY <1>0, <1>10, <2>1, <2>2 DEF Answered, Set
  <2>6. /\ r.kind # "write" => applied[c] = 0
        /\ r.stage = "done" /\ r.kind = "write" => applied[c] = 1
    BY <2>1, <2>3, <2>4 DEF CallSound
  <2> QED BY <1>0, <2>3, <2>4, <2>5, <2>6, OneCall
<1>11. ASSUME Revoke
       PROVE  SInv'
  <2>1. era' \in 0 .. MaxEra /\ UNCHANGED <<file, call, applied>>
    BY <1>0, <1>11, SessionAssumption DEF Revoke
  <2> QED BY <1>0, <2>1 DEF SInv, CallSound
<1> QED BY <1>1, <1>2, <1>3, <1>4, <1>6, <1>7, <1>8, <1>9, <1>10, <1>11 DEF SessionNext

---------------------------------------------------------------------------
\* The workflow.

\* A process that leaves takes its lock along; what it leaves behind is a receipt.
LEMMA LeaveKeeps ==
  ASSUME WInv, NEW c \in Client, Leave(c),
         UNCHANGED <<snapshot, imported, fresh, unasked, runs>>,
         \/ receipt' = receipt
         \/ task[c] \in Locked /\ receipt' \in Receipt /\ receipt'.status # "prepared"
  PROVE  WInv'
<1>0. WorkType /\ WorkSound /\ None \notin Client /\ None \notin Receipt
  BY AudioAssumption DEF WInv
<1>1. /\ task' = [task EXCEPT ![c] = "idle"]
      /\ \A d \in Client : task'[d] = IF d = c THEN "idle" ELSE task[d]
      /\ \A d \in Client \ {c} : flags'[d] = flags[d]
      /\ flags' \in [Client -> [resume : BOOLEAN, key : BOOLEAN]]
      /\ holder' = (IF holder = c THEN None ELSE holder)
      /\ held' = (IF holder = c THEN None ELSE held)
  BY <1>0 DEF Leave, Go, WorkType
<1>2. WorkType'
  BY <1>0, <1>1 DEF WorkType, Task
<1>3. ASSUME NEW d \in Client, task'[d] \in Locked
      PROVE  /\ d # c /\ task[d] = task'[d] /\ holder = d /\ holder' = d /\ held' = held
             /\ receipt' = receipt /\ flags'[d] = flags[d]
  <2>1. d # c /\ task[d] = task'[d] /\ flags'[d] = flags[d]
    BY <1>1, <1>3 DEF Locked
  <2>2. holder = d
    BY <1>0, <1>3, <2>1 DEF WorkSound
  <2>3. task[c] \notin Locked
    BY <1>0, <2>1, <2>2 DEF WorkSound
  <2> QED BY <1>1, <2>1, <2>2, <2>3
<1>4. Holding \subseteq Locked /\ "start" \in Locked
  BY DEF Holding, Locked
<1>5. WorkSound'
  <2>1. \A d \in Client : task'[d] \in Locked => holder' = d
    BY <1>3
  <2>2. \A d \in Client : task'[d] \in Holding => held' = receipt' /\ receipt' # None
    BY <1>0, <1>3, <1>4 DEF WorkSound
  <2>3. receipt' = None \/ receipt'.status = "prepared" => fresh' = 0 /\ unasked' = 0
    BY <1>0 DEF WorkSound
  <2>4. \A d \in Client : task'[d] = "start" =>
          /\ receipt'.status = "running"
          /\ ~ held'.manifest => fresh' = 0
          /\ ~ flags'[d].resume => unasked' = 0
    BY <1>0, <1>3, <1>4 DEF WorkSound
  <2>5. \A d \in Client : task'[d] # "idle" => runs' >= 1
    BY <1>0, <1>1 DEF WorkSound
  <2>6. fresh' + unasked' > 0 => runs' >= 1
    BY <1>0 DEF WorkSound
  <2> QED BY <2>1, <2>2, <2>3, <2>4, <2>5, <2>6 DEF WorkSound
<1> QED BY <1>2, <1>5 DEF WInv

\* A command that starts adds a process outside the lock.
LEMMA BeginKeeps ==
  ASSUME WInv, NEW c \in Client, NEW t \in {"idle", "update", "member"},
         task[c] = "idle", runs < MaxRuns, runs' = runs + 1,
         task' = [task EXCEPT ![c] = t],
         flags' \in [Client -> [resume : BOOLEAN, key : BOOLEAN]],
         \A d \in Client \ {c} : flags'[d] = flags[d],
         UNCHANGED <<holder, snapshot, receipt, held, imported, fresh, unasked>>
  PROVE  WInv'
<1>0. WorkType /\ WorkSound
  BY DEF WInv
<1>1. \A d \in Client : task'[d] = IF d = c THEN t ELSE task[d]
  BY <1>0 DEF WorkType
<1>2. WorkType'
  BY <1>0, AudioAssumption DEF WorkType, Task
<1>3. runs \in Nat
  BY <1>0, AudioAssumption DEF WorkType
<1>4. WorkSound'
  BY <1>0, <1>1, <1>3 DEF WorkSound, Locked, Holding
<1> QED BY <1>2, <1>4 DEF WInv

\* The steps of a process that stays at work, its flags unchanged.
Moves(c, t) ==
  /\ task' = [task EXCEPT ![c] = t]
  /\ UNCHANGED <<flags, imported, runs>>

LEMMA MovesTask ==
  ASSUME WInv, NEW c \in Client, NEW t \in Task, Moves(c, t), task[c] # "idle"
  PROVE  /\ task' \in [Client -> Task]
         /\ \A d \in Client : task'[d] = IF d = c THEN t ELSE task[d]
         /\ runs \in Nat /\ runs >= 1 /\ runs' = runs /\ flags' = flags /\ imported' = imported
         /\ \A d \in Client : task[c] \in Locked /\ task[d] \in Locked => d = c
BY AudioAssumption DEF WInv, WorkType, WorkSound, Moves

\* Steps that neither read the receipt nor write it.
LEMMA WorkQuiet ==
  ASSUME WInv, NEW c \in Client,
         \/ Lock(c)
         \/ Open(c) \/ OpenNew(c) \/ Write(c)
         \/ Prepare(c)
         \/ Work(c)
  PROVE  WInv'
<1>0. WorkType /\ WorkSound /\ None \notin Client /\ None \notin Receipt
  BY AudioAssumption DEF WInv
<1>1. CASE Lock(c)
  <2>1. Moves(c, "open") /\ task[c] = "lock" /\ "open" \in Task
    BY <1>1 DEF Lock, Go, Quiet, Counts, Moves, Task
  <2>2. holder = None /\ holder' = c /\ UNCHANGED <<snapshot, receipt, held, fresh, unasked>>
    BY <1>1 DEF Lock, Free, Counts
  <2>3. \A d \in Client : task[d] \notin Locked
    BY <1>0, <2>2 DEF WorkSound
  <2>4. WorkType'
    BY <1>0, <2>1, <2>2, MovesTask DEF WorkType
  <2>5. \A d \in Client : task'[d] = IF d = c THEN "open" ELSE task[d]
    BY <2>1, MovesTask
  <2>6. WorkSound'
    BY <1>0, <2>1, <2>2, <2>3, <2>5, MovesTask DEF WorkSound, Locked, Holding
  <2> QED BY <2>4, <2>6 DEF WInv
<1>2. CASE Open(c)
  <2>1. Moves(c, "work") /\ task[c] = "open" /\ "work" \in Task
    BY <1>2 DEF Open, Go, Quiet, Counts, Moves, Task
  <2>2. /\ receipt # None /\ held' = receipt
        /\ UNCHANGED <<holder, snapshot, receipt, fresh, unasked>>
    BY <1>2 DEF Open, Counts
  <2>3. WorkType'
    BY <1>0, <2>1, <2>2, MovesTask DEF WorkType
  <2>4. /\ \A d \in Client : task'[d] = IF d = c THEN "work" ELSE task[d]
        /\ \A d \in Client : task[d] \in Locked => d = c
    BY <2>1, MovesTask DEF Locked
  <2>5. WorkSound'
    BY <1>0, <2>1, <2>2, <2>4, MovesTask DEF WorkSound, Locked, Holding
  <2> QED BY <2>3, <2>5 DEF WInv
<1>3. CASE OpenNew(c) \/ Write(c)
  <2>1. PICK t \in {"open", "write"} : Moves(c, t)
    BY <1>3 DEF OpenNew, Write, Go, Quiet, Counts, Moves
  <2>2. /\ task[c] \in {"open", "write"} /\ t \in Task
        /\ snapshot' \in {"partial", "whole"}
        /\ UNCHANGED <<holder, receipt, held, fresh, unasked>>
    BY <1>3 DEF OpenNew, Write, Counts, Task
  <2>3. WorkType'
    BY <1>0, <2>1, <2>2, MovesTask DEF WorkType
  <2>4. /\ \A d \in Client : task'[d] = IF d = c THEN t ELSE task[d]
        /\ \A d \in Client : task[d] \in Locked => d = c
    BY <2>1, <2>2, MovesTask DEF Locked
  <2>5. WorkSound'
    BY <1>0, <2>1, <2>2, <2>4, MovesTask DEF WorkSound, Locked, Holding
  <2> QED BY <2>3, <2>5 DEF WInv
<1>4. CASE Prepare(c)
  <2>1. Moves(c, "work") /\ task[c] = "open" /\ "work" \in Task
    BY <1>4 DEF Prepare, Go, Quiet, Counts, Moves, Task
  <2>2. PICK r : r = [status |-> "prepared", manifest |-> FALSE]
    OBVIOUS
  <2>3. /\ receipt = None /\ receipt' = r /\ held' = r /\ r \in Receipt
        /\ UNCHANGED <<holder, snapshot, fresh, unasked>>
    BY <1>4, <2>2 DEF Prepare, Counts, Receipt
  <2>4. WorkType'
    BY <1>0, <2>1, <2>3, MovesTask DEF WorkType
  <2>5. /\ \A d \in Client : task'[d] = IF d = c THEN "work" ELSE task[d]
        /\ \A d \in Client : task[d] \in Locked => d = c
    BY <2>1, MovesTask DEF Locked
  <2>6. WorkSound'
    BY <1>0, <2>1, <2>3, <2>5, MovesTask DEF WorkSound, Locked, Holding
  <2> QED BY <2>4, <2>6 DEF WInv
<1>5. CASE Work(c)
  <2>1. PICK t \in {"import", "existing"} : Moves(c, t)
    BY <1>5 DEF Work, Go, Counts, Moves
  <2>2. /\ task[c] = "work" /\ t \in Task
        /\ UNCHANGED <<holder, snapshot, receipt, held, fresh, unasked>>
    BY <1>5 DEF Work, Counts, Task
  <2>3. WorkType'
    BY <1>0, <2>1, <2>2, MovesTask DEF WorkType
  <2>4. /\ \A d \in Client : task'[d] = IF d = c THEN t ELSE task[d]
        /\ \A d \in Client : task[d] \in Locked => d = c
    BY <2>1, <2>2, MovesTask DEF Locked
  <2>5. WorkSound'
    BY <1>0, <2>1, <2>2, <2>4, MovesTask DEF WorkSound, Locked, Holding
  <2> QED BY <2>3, <2>5 DEF WInv
<1> QED BY <1>1, <1>2, <1>3, <1>4, <1>5

\* The receipt says "running" before the provider is started, and the start counts.
LEMMA WorkStarts ==
  ASSUME WInv, NEW c \in Client, Existing(c) \/ Start(c) \/ Provided(c)
  PROVE  WInv'
<1>0. WorkType /\ WorkSound /\ None \notin Client /\ None \notin Receipt
  BY AudioAssumption DEF WInv
<1>1. ASSUME Existing(c), ~ Leave(c)
      PROVE  WInv'
  <2>1. Moves(c, "start") /\ task[c] = "existing" /\ "start" \in Task
    BY <1>1 DEF Existing, Go, Quiet, Counts, Moves, Task
  <2>2. /\ held = receipt /\ held \in Receipt
        /\ \A d \in Client : task[d] \in Locked => d = c
    BY <1>0, <2>1, MovesTask DEF WorkSound, WorkType, Holding, Locked
  <2>3. PICK r : r = [held EXCEPT !.status = "running"]
    OBVIOUS
  <2>4. /\ held' = r /\ receipt' = r
        /\ UNCHANGED <<holder, snapshot, fresh, unasked>> /\ Startable(held, flags[c])
    BY <1>1, <2>3 DEF Existing, Counts
  <2>5. r \in Receipt /\ r.status = "running" /\ r.manifest = held.manifest
    BY <2>2, <2>3 DEF Receipt
  <2>6. WorkType'
    BY <1>0, <2>1, <2>4, <2>5, MovesTask DEF WorkType
  <2>7. \A d \in Client : task'[d] = IF d = c THEN "start" ELSE task[d]
    BY <2>1, MovesTask
  <2>8. /\ ~ held.manifest => fresh = 0
        /\ ~ flags[c].resume => unasked = 0
    BY <1>0, <2>2, <2>4 DEF Startable, WorkSound
  <2>9. WorkSound'
    BY <1>0, <2>1, <2>2, <2>4, <2>5, <2>7, <2>8, MovesTask DEF WorkSound, Locked, Holding
  <2> QED BY <2>6, <2>9 DEF WInv
<1>2. CASE Existing(c) /\ Leave(c)
  <2>1. UNCHANGED <<snapshot, imported, fresh, unasked, runs>> /\ receipt' = receipt
    <3>1. task' = [task EXCEPT ![c] = "idle"] /\ c \in DOMAIN task
      BY <1>0, <1>2 DEF Leave, Go, WorkType
    <3>2. task'[c] # "start"
      BY <3>1
    <3> QED BY <1>2, <3>2, <1>0 DEF Existing, Counts, Go, WorkType
  <2> QED BY <1>2, <2>1, LeaveKeeps
<1>3. CASE Start(c)
  <2>1. Moves(c, "provider") /\ task[c] = "start" /\ "provider" \in Task
    BY <1>3 DEF Start, Go, Moves, Task
  <2>2. /\ fresh' = (IF held.manifest THEN fresh ELSE fresh + 1)
        /\ unasked' = (IF flags[c].resume THEN unasked ELSE unasked + 1)
        /\ UNCHANGED <<holder, snapshot, receipt, held>>
    BY <1>3 DEF Start
  <2>3. /\ held = receipt /\ receipt # None /\ receipt.status = "running"
        /\ ~ held.manifest => fresh = 0
        /\ ~ flags[c].resume => unasked = 0
    BY <1>0, <2>1 DEF WorkSound, Holding
  <2>4. fresh' \in {0, 1} /\ unasked' \in {0, 1}
    BY <1>0, <2>2, <2>3 DEF WorkType
  <2>5. WorkType'
    BY <1>0, <2>1, <2>2, <2>4, MovesTask DEF WorkType
  <2>6. /\ \A d \in Client : task'[d] = IF d = c THEN "provider" ELSE task[d]
        /\ \A d \in Client : task[d] \in Locked => d = c
    BY <2>1, MovesTask DEF Locked
  <2>7. WorkSound'
    BY <1>0, <2>1, <2>2, <2>3, <2>6, MovesTask DEF WorkSound, Locked, Holding
  <2> QED BY <2>5, <2>7 DEF WInv
<1>4. ASSUME Provided(c), NEW r \in Receipt, r.status \in {"complete", "failed"}, receipt' = r,
             UNCHANGED <<snapshot, imported, fresh, unasked, runs>>, task[c] = "provider",
             \/ Leave(c)
             \/ held' = r /\ Go(c, "import") /\ UNCHANGED <<flags, holder>>
      PROVE  WInv'
  <2>1. CASE Leave(c)
    BY <1>4, <2>1, LeaveKeeps DEF Locked
  <2>2. CASE held' = r /\ Go(c, "import") /\ UNCHANGED <<flags, holder>>
    <3>1. Moves(c, "import") /\ "import" \in Task
      BY <1>4, <2>2 DEF Go, Moves, Task
    <3>2. /\ \A d \in Client : task'[d] = IF d = c THEN "import" ELSE task[d]
          /\ \A d \in Client : task[d] \in Locked => d = c
      BY <1>4, <3>1, MovesTask DEF Locked
    <3>3. WorkType'
      BY <1>0, <1>4, <2>2, <3>1, MovesTask DEF WorkType
    <3>4. WorkSound'
      BY <1>0, <1>4, <2>2, <3>1, <3>2, MovesTask DEF WorkSound, Locked, Holding
    <3> QED BY <3>3, <3>4 DEF WInv
  <2> QED BY <1>4, <2>1, <2>2
<1>5. CASE Provided(c)
  <2>1. PICK r \in [status : {"complete", "failed"}, manifest : BOOLEAN] :
          /\ receipt' = r
          /\ IF r.status = "complete"
               THEN held' = r /\ Go(c, "import") /\ Ask(c, "write") /\ UNCHANGED <<flags, holder>>
               ELSE Leave(c)
    BY <1>5 DEF Provided
  <2>2. r \in Receipt /\ r.status \in {"complete", "failed"}
    BY DEF Receipt
  <2>3. task[c] = "provider" /\ UNCHANGED <<snapshot, imported, fresh, unasked, runs>>
    BY <1>5 DEF Provided, Counts
  <2> QED BY <1>4, <1>5, <2>1, <2>2, <2>3
<1> QED BY <1>1, <1>2, <1>3, <1>5

LEMMA WorkKeeps ==
  ASSUME WInv, [Next]_vars
  PROVE  WInv'
<1>0. WorkType /\ WorkSound
  BY DEF WInv
<1>1. ASSUME NEW c \in Client, SignInOrOut(c) \/ Update(c) \/ Begin(c)
      PROVE  WInv'
  <2>1. PICK t \in {"idle", "update", "member"} : task' = [task EXCEPT ![c] = t]
    BY <1>0, <1>1 DEF SignInOrOut, Update, Begin, Go, WorkType
  <2>2. /\ task[c] = "idle" /\ runs < MaxRuns /\ runs' = runs + 1
        /\ UNCHANGED <<holder, snapshot, receipt, held, imported, fresh, unasked>>
    BY <1>1 DEF SignInOrOut, Update, Begin
  <2>3. /\ flags' \in [Client -> [resume : BOOLEAN, key : BOOLEAN]]
        /\ \A d \in Client \ {c} : flags'[d] = flags[d]
    BY <1>0, <1>1 DEF SignInOrOut, Update, Begin, WorkType
  <2> QED BY <2>1, <2>2, <2>3, BeginKeeps
<1>2. ASSUME NEW c \in Client, Leave(c), UNCHANGED <<snapshot, receipt, imported, fresh, unasked, runs>>
      PROVE  WInv'
  BY <1>2, LeaveKeeps
<1>3. ASSUME NEW c \in Client, Member(c)
      PROVE  WInv'
  <2>1. CASE Leave(c)
    BY <1>2, <1>3, <2>1 DEF Member, Counts
  <2>2. CASE Go(c, "lock") /\ UNCHANGED <<flags, holder, held>>
    <3>1. Moves(c, "lock") /\ task[c] = "member" /\ "lock" \in Task
      BY <1>3, <2>2 DEF Member, Go, Counts, Moves, Task
    <3>2. UNCHANGED <<holder, held, snapshot, receipt, fresh, unasked>>
      BY <1>3, <2>2 DEF Member, Counts
    <3>3. \A d \in Client : task'[d] = IF d = c THEN "lock" ELSE task[d]
      BY <3>1, MovesTask
    <3>4. WorkType'
      BY <1>0, <3>1, <3>2, MovesTask DEF WorkType
    <3>5. WorkSound'
      BY <1>0, <3>1, <3>2, <3>3, MovesTask DEF WorkSound, Locked, Holding
    <3> QED BY <3>4, <3>5 DEF WInv
  <2> QED BY <1>3, <2>1, <2>2 DEF Member
<1>4. ASSUME NEW c \in Client, OpenRefused(c) \/ Record(c) \/ Refused(c) \/ Kill(c)
      PROVE  WInv'
  <2>1. Leave(c) /\ UNCHANGED <<snapshot, receipt, imported, fresh, unasked, runs>>
    BY <1>4 DEF OpenRefused, Record, Refused, Kill, Counts
  <2> QED BY <1>2, <2>1
<1>5. ASSUME ServeImport \/ ImportElsewhere
      PROVE  WInv'
  <2>1. /\ imported' \in BOOLEAN
        /\ UNCHANGED <<task, flags, holder, snapshot, receipt, held, fresh, unasked, runs>>
    BY <1>0, <1>5 DEF ServeImport, ImportElsewhere, WorkType
  <2>2. WorkType'
    BY <1>0, <2>1 DEF WorkType
  <2>3. WorkSound'
    BY <1>0, <2>1 DEF WorkSound
  <2> QED BY <2>2, <2>3 DEF WInv
<1>6. CASE vars' = vars
  BY <1>0, <1>6 DEF WInv, WorkType, WorkSound, vars, audioVars
<1> QED BY <1>1, <1>3, <1>4, <1>5, <1>6, WorkQuiet, WorkStarts DEF Next

\* Every step of the workflow begins a request, forgets one, or leaves them alone.
LEMMA CallsKeep ==
  ASSUME SInv, [Next]_vars
  PROVE  SInv'
<1>1. CASE SessionNext
  BY <1>1, SessionKeeps
<1>2. ASSUME NEW c \in Client, Leave(c)
      PROVE  SInv'
  BY <1>2, ForgetKeeps DEF Leave
<1>3. ASSUME NEW c \in Client, NEW kind \in {"sql", "write"}, Ask(c, kind)
      PROVE  SInv'
  BY <1>3, AskKeeps DEF Kind
<1>4. CASE UNCHANGED sessionVars
  BY <1>4 DEF sessionVars, SInv, CallSound
<1>5. CASE LoginCommand \/ Logout
  <2>1. \A m \in Method : Issued(m) \in Session
    BY DEF SInv, Issued, Session
  <2>2. file' \in Session \cup {None} /\ UNCHANGED <<era, call, applied>>
    BY <1>5, <2>1 DEF LoginCommand, Logout
  <2> QED BY <2>2 DEF SInv, CallSound
<1>6. ASSUME NEW c \in Client,
             \/ Lock(c) \/ Open(c) \/ OpenNew(c) \/ Write(c) \/ Prepare(c) \/ Start(c)
      PROVE  UNCHANGED sessionVars
  BY <1>6 DEF Lock, Open, OpenNew, Write, Prepare, Start, Quiet
<1>7. ASSUME NEW c \in Client,
             \/ Member(c) \/ OpenRefused(c) \/ Existing(c) \/ Record(c) \/ Refused(c) \/ Kill(c)
      PROVE  UNCHANGED sessionVars \/ Leave(c)
  BY <1>7 DEF Member, OpenRefused, Existing, Record, Refused, Kill, Quiet
<1>8. ASSUME NEW c \in Client, Update(c) \/ Begin(c) \/ Work(c) \/ Provided(c)
      PROVE  Leave(c) \/ \E kind \in {"sql", "write"} : Ask(c, kind)
  BY <1>8 DEF Update, Begin, Work, Provided
<1>9. ASSUME NEW c \in Client, SignInOrOut(c)
      PROVE  LoginCommand \/ Logout
  BY <1>9 DEF SignInOrOut
<1>10. CASE ImportElsewhere
  BY <1>4, <1>10 DEF ImportElsewhere, Quiet
<1>11. CASE vars' = vars
  BY <1>4, <1>11 DEF vars
<1> QED BY <1>1, <1>2, <1>3, <1>4, <1>5, <1>6, <1>7, <1>8, <1>9, <1>10, <1>11 DEF Next

LEMMA InvariantsHold == Spec => []SInv /\ []WInv
<1>1. Init => SInv
  <2> SUFFICES ASSUME Init
               PROVE  SInv
    OBVIOUS
  <2>1. Idle \in CallType /\ Idle.stage = "idle" /\ Idle.kind = "read"
    BY IdleCall DEF Idle, Kind
  <2>2. \A m \in Method, e \in {0} : [method |-> m, era |-> e] \in Session
    BY SessionAssumption DEF Session
  <2>3. file \in Session \cup {None} /\ era \in 0 .. MaxEra
    BY <2>2, SessionAssumption DEF Init, SessionInit, Session
  <2>4. call = [c \in Client |-> Idle] /\ applied = [c \in Client |-> 0]
    BY DEF Init, SessionInit
  <2> QED BY <2>1, <2>3, <2>4 DEF SInv, CallSound
<1>2. Init => WInv
  <2> SUFFICES ASSUME Init
               PROVE  WInv
    OBVIOUS
  <2>1. fresh = 0 /\ unasked = 0 /\ \A c \in Client : task[c] = "idle"
    BY DEF Init
  <2>2. WorkSound
    BY <2>1 DEF WorkSound, Locked, Holding
  <2>3. WorkType
    <3>1. flags \in [Client -> [resume : BOOLEAN, key : BOOLEAN]]
      BY DEF Init
    <3>2. imported \in BOOLEAN
      BY Zenon DEF Init
    <3>3. task \in [Client -> Task] /\ snapshot \in {"absent", "partial", "whole"}
      BY DEF Init, Task
    <3>4. holder = None /\ receipt = None /\ held = None /\ runs \in 0 .. MaxRuns
      BY AudioAssumption DEF Init
    <3> QED BY <2>1, <3>1, <3>2, <3>3, <3>4 DEF WorkType
  <2> QED BY <2>2, <2>3 DEF WInv
<1>3. SInv /\ [Next]_vars => SInv'
  BY CallsKeep
<1>4. WInv /\ [Next]_vars => WInv'
  BY WorkKeeps
<1> QED BY <1>1, <1>2, <1>3, <1>4, PTL DEF Spec

---------------------------------------------------------------------------
\* Sessions, requests and the workflow's directory keep their shapes.
THEOREM ClientTypes == Spec => []TypeOK
<1>1. SInv /\ WInv => TypeOK
  <2> SUFFICES ASSUME SInv, WInv
               PROVE  TypeOK
    OBVIOUS
  <2>1. {0, 1} \subseteq 0 .. MaxAttempts + 2
    BY SessionAssumption
  <2>2. SessionTypeOK
    BY <2>1 DEF SInv, SessionTypeOK, CallType
  <2>3. fresh \in 0 .. MaxRuns /\ unasked \in 0 .. MaxRuns
    BY AudioAssumption DEF WInv, WorkType, WorkSound
  <2> QED BY <2>2, <2>3 DEF TypeOK, WInv, WorkType
<1>2. Spec => [](SInv /\ WInv)
  BY InvariantsHold, PTL
<1> QED BY <1>1, <1>2, PTL

\* However often a command signs in or repeats a request, its write is applied once at
\* most, and exactly once when the command says so.
THEOREM WritesAppliedOnce == Spec => []WritesOnce
<1>1. SInv => WritesOnce
  BY DEF SInv, CallSound, WritesOnce
<1> QED BY <1>1, InvariantsHold, PTL

\* Whatever is killed, resumed or run side by side, the provider generates a recording's
\* version once, and starts unasked once.
THEOREM BilledOnce == Spec => []NoRepeatBilling
<1>1. WInv => NoRepeatBilling
  BY DEF WInv, WorkType, NoRepeatBilling
<1> QED BY <1>1, InvariantsHold, PTL

===========================================================================
