--------------------------- MODULE AudioWorkflow ---------------------------
(* audio_pipeline.py: one recording, configuration and version are normalized,  *)
(* handed to a billable provider and imported, by commands that may be killed   *)
(* between any two steps and started again, with or without --resume, while     *)
(* others run.  Their requests are those of ClientSession; what import_bundle    *)
(* does to the server is the subject of Ingest, and one request here.           *)
EXTENDS ClientSession

CONSTANTS
  MaxRuns      \* bound on the commands started

\* "failed" stands for "uncertain" as well: no code tells them apart.
Receipt == [status : {"prepared", "running", "complete", "failed"}, manifest : BOOLEAN]

ASSUME AudioAssumption == MaxRuns \in Nat /\ None \notin Receipt /\ None \notin Client

VARIABLES
  task,        \* the step each process is at
  flags,       \* whether it was given --resume and an API key
  holder,      \* who holds the workflow's lock, or None
  snapshot,    \* the recording in the workflow's directory
  receipt,     \* workflow.json, or None
  held,        \* the receipt the process at work has read
  imported,    \* whether the server has an extraction of this recording and version
  fresh,       \* how often the provider was started for a new generation, and
  unasked,     \* how often by a command without --resume
  runs

audioVars == <<task, flags, holder, snapshot, receipt, held, imported, fresh,
               unasked, runs>>
vars == <<sessionVars, audioVars>>

Task == {"idle", "update", "member", "lock", "open", "write", "work", "existing", "start",
         "provider", "import", "record"}

\* The type invariant of the workflow's directory and of the processes at it.
TypeOK ==
  /\ SessionTypeOK
  /\ task \in [Client -> Task]
  /\ flags \in [Client -> [resume : BOOLEAN, key : BOOLEAN]]
  /\ holder \in Client \cup {None}
  /\ snapshot \in {"absent", "partial", "whole"}
  /\ receipt \in Receipt \cup {None} /\ held \in Receipt \cup {None}
  /\ imported \in BOOLEAN
  /\ fresh \in 0 .. MaxRuns /\ unasked \in 0 .. MaxRuns /\ runs \in 0 .. MaxRuns

Init ==
  /\ SessionInit
  /\ task = [c \in Client |-> "idle"]
  /\ flags = [c \in Client |-> [resume |-> FALSE, key |-> FALSE]]
  /\ holder = None /\ snapshot = "absent" /\ receipt = None /\ held = None
  /\ imported = FALSE /\ fresh = 0 /\ unasked = 0 /\ runs = 0

Go(c, t) == task' = [task EXCEPT ![c] = t]
Quiet == UNCHANGED sessionVars
Counts == UNCHANGED <<imported, fresh, unasked, runs>>

\* A command ends, with an answer or an error, and its lock goes with it.
Leave(c) ==
  /\ Go(c, "idle") /\ flags' = [flags EXCEPT ![c] = [resume |-> FALSE, key |-> FALSE]]
  /\ holder' = IF holder = c THEN None ELSE holder
  /\ held' = IF holder = c THEN None ELSE held
  /\ Forget(c)

\* The commands login and logout.
SignInOrOut(c) ==
  /\ task[c] = "idle" /\ runs < MaxRuns /\ runs' = runs + 1
  /\ LoginCommand \/ Logout
  /\ UNCHANGED <<task, flags, holder, snapshot, receipt, held, imported, fresh, unasked>>

\* Any other command that writes.
Update(c) ==
  /\ task[c] = "idle" /\ runs < MaxRuns /\ runs' = runs + 1
  /\ Go(c, "update") /\ Ask(c, "write")
  /\ UNCHANGED <<flags, holder, snapshot, receipt, held, imported, fresh, unasked>>

\* ingest_audio: the account and its membership come before anything else.
Begin(c) ==
  /\ task[c] = "idle" /\ runs < MaxRuns /\ runs' = runs + 1
  /\ \E resume, key \in BOOLEAN : flags' = [flags EXCEPT ![c] = [resume |-> resume, key |-> key]]
  /\ Go(c, "member") /\ Ask(c, "sql")
  /\ UNCHANGED <<holder, snapshot, receipt, held, imported, fresh, unasked>>

\* Without an API key only a completed workflow goes on; the receipt is read unlocked.
Completed == receipt # None /\ receipt.status = "complete"

Member(c) ==
  /\ task[c] = "member" /\ call[c].stage = "done"
  /\ IF flags[c].key \/ Completed
       THEN Go(c, "lock") /\ UNCHANGED <<flags, holder, held>> /\ Quiet
       ELSE Leave(c)
  /\ UNCHANGED <<snapshot, receipt>> /\ Counts

Free == holder = None

Lock(c) ==
  /\ task[c] = "lock" /\ Free
  /\ holder' = c /\ Go(c, "open")
  /\ UNCHANGED <<flags, snapshot, receipt, held>> /\ Quiet /\ Counts

\* An existing receipt must be whole, and its recording the one that was asked for.
Open(c) ==
  /\ task[c] = "open" /\ receipt # None /\ snapshot = "whole"
  /\ held' = receipt /\ Go(c, "work")
  /\ UNCHANGED <<flags, holder, snapshot, receipt>> /\ Quiet /\ Counts

\* Without a receipt nothing can be resumed, and a partial recording is left alone.
OpenNew(c) ==
  /\ task[c] = "open" /\ receipt = None /\ ~flags[c].resume
  /\ snapshot = "absent" /\ snapshot' = "partial" /\ Go(c, "write")
  /\ UNCHANGED <<flags, holder, receipt, held>> /\ Quiet /\ Counts

Write(c) ==
  /\ task[c] = "write" /\ snapshot' = "whole" /\ Go(c, "open")
  /\ UNCHANGED <<flags, holder, receipt, held>> /\ Quiet /\ Counts

Prepare(c) ==
  /\ task[c] = "open" /\ receipt = None /\ ~flags[c].resume /\ snapshot = "whole"
  /\ receipt' = [status |-> "prepared", manifest |-> FALSE] /\ held' = receipt' /\ Go(c, "work")
  /\ UNCHANGED <<flags, holder, snapshot>> /\ Quiet /\ Counts

OpenRefused(c) ==
  /\ task[c] = "open" /\ receipt = None /\ (flags[c].resume \/ snapshot = "partial")
  /\ Leave(c) /\ UNCHANGED <<snapshot, receipt>> /\ Counts

\* A completed workflow is imported again; any other asks for existing extractions.
Work(c) ==
  /\ task[c] = "work"
  /\ IF held.status = "complete" THEN Go(c, "import") /\ Ask(c, "write")
                                 ELSE Go(c, "existing") /\ Ask(c, "sql")
  /\ UNCHANGED <<flags, holder, snapshot, receipt, held>> /\ Counts

\* A mutant: what an earlier attempt left is taken up without being asked to.
StartableAnyway(r, f) == f.key /\ (r.status = "prepared" \/ r.manifest)

\* Another attempt is made only on request, and only from a manifest.
Startable(r, f) ==
  /\ f.key
  /\ r.status = "prepared" \/ (f.resume /\ r.manifest)

\* "running" is on disk before the provider is started.
Existing(c) ==
  /\ task[c] = "existing" /\ call[c].stage = "done"
  /\ IF ~imported /\ Startable(held, flags[c])
       THEN /\ held' = [held EXCEPT !.status = "running"] /\ receipt' = held'
            /\ Go(c, "start") /\ UNCHANGED <<flags, holder>> /\ Quiet
       ELSE Leave(c) /\ UNCHANGED receipt
  /\ UNCHANGED snapshot /\ Counts

Start(c) ==
  /\ task[c] = "start" /\ Go(c, "provider")
  /\ fresh' = IF held.manifest THEN fresh ELSE fresh + 1
  /\ unasked' = IF flags[c].resume THEN unasked ELSE unasked + 1
  /\ UNCHANGED <<flags, holder, snapshot, receipt, held, imported, runs>> /\ Quiet

\* What the provider reports is recorded; only a complete bundle is imported.
Provided(c) ==
  /\ task[c] = "provider"
  /\ \E r \in [status : {"complete", "failed"}, manifest : BOOLEAN] :
       /\ r.status = "complete" => r.manifest
       /\ held.manifest => r.manifest
       /\ receipt' = r
       /\ IF r.status = "complete"
            THEN held' = r /\ Go(c, "import") /\ Ask(c, "write") /\ UNCHANGED <<flags, holder>>
            ELSE Leave(c)
  /\ UNCHANGED snapshot /\ Counts

\* import_bundle: the same bundle is imported once, however often it is sent.
Record(c) ==
  /\ task[c] = "import" /\ call[c].stage = "done"
  /\ Leave(c)
  /\ UNCHANGED <<snapshot, receipt>> /\ Counts

\* The command ends with the first request that fails.
Refused(c) ==
  /\ task[c] \in {"update", "member", "existing", "import"}
  /\ call[c].stage = "failed" \/ (task[c] = "update" /\ call[c].stage = "done")
  /\ Leave(c)
  /\ UNCHANGED <<snapshot, receipt>> /\ Counts

\* The operating system releases the lock; a request under way is not taken back.
Kill(c) ==
  /\ task[c] # "idle"
  /\ Leave(c)
  /\ UNCHANGED <<snapshot, receipt, imported, fresh, unasked, runs>>

\* The request of an import reaches the server; so does one of another machine.
ServeImport ==
  /\ imported' = (imported \/ \E c \in Client : task[c] = "import" /\ applied'[c] > applied[c])
  /\ UNCHANGED <<task, flags, holder, snapshot, receipt, held, fresh, unasked, runs>>

ImportElsewhere ==
  /\ ~imported /\ imported' = TRUE
  /\ UNCHANGED <<task, flags, holder, snapshot, receipt, held, fresh, unasked, runs>>
  /\ Quiet

Next ==
  \/ \E c \in Client :
       \/ SignInOrOut(c) \/ Update(c) \/ Begin(c) \/ Member(c) \/ Lock(c) \/ Open(c)
       \/ OpenNew(c) \/ Write(c) \/ Prepare(c) \/ OpenRefused(c) \/ Work(c) \/ Existing(c)
       \/ Start(c) \/ Provided(c) \/ Record(c) \/ Refused(c) \/ Kill(c)
  \/ SessionNext /\ ServeImport
  \/ ImportElsewhere

Spec == Init /\ [][Next]_vars

---------------------------------------------------------------------------
\* Whatever runs beside a command, is killed or fails, the provider generates a
\* recording's version once, and is started again only when asked to resume it.
NoRepeatBilling == fresh <= 1 /\ unasked <= 1
=============================================================================
