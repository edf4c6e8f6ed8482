------------------------------ MODULE Cutover ------------------------------
(* tools/capture_checkpoint.py and tools/activate_checkpoint.py: production is  *)
(* frozen, stopped and captured; once an off-host copy has been recovered, the  *)
(* candidate image migrates the working volume in isolation, replaces the old   *)
(* container and is thawed.  The tools may be killed between any two steps, the *)
(* host may reboot, and commands of Docker and ONCE may fail half-way.          *)
EXTENDS Clone

CONSTANTS
  MaxGen,      \* bound on the maintenance generations that operators reach
  MaxReceipts  \* bound on the captures that are completed

VARIABLES
  data,        \* the working volume
  box,         \* the containers on it: the old one, a temporary one, the candidate
  restarts,    \* containers the daemon restarts
  image,       \* the image the temporary container runs
  migrates,    \* whether the candidate image has schema migrations
  fence,       \* the pending marker that holds back deliveries
  files,       \* receipts in the capture directory
  token,       \* the maintenance generation read at login
  receipts,    \* capture receipts written so far, the last of them the current one
  verification,  \* the operator's file: the receipt and the recovery it speaks of, or None
  same,        \* --same-schema of the running phase
  migrated,    \* --same-schema of the migration on record
  pc           \* the running tool's next step; the locks admit one tool

cutoverVars == <<data, box, restarts, image, migrates, fence, files, token, receipts,
                 verification, same, migrated, pc>>
vars == <<cutoverVars, recoveryVars, cloneVars>>

Container == {"source", "temporary", "candidate"}
Public == {"source", "candidate"}

Verification == [receipt : Nat, package : Package]

ASSUME CutoverAssumption == None \notin Verification

Running == {c \in Container : box[c] = "running"}

CaptureStep == {"fence", "norestart", "freeze", "stop", "copy", "backup", "stopagain", "receipt"}
MigrateStep == {"oldrun", "oldthaw", "oldstop", "newrun", "newfreeze", "newstop", "compare"}
ActivateStep == {"update", "ready"}
ThawStep == {"thaw", "thawed"}

\* The type invariant of the volume, the containers and the tools' records.
TypeOK ==
  /\ RecoveryTypeOK /\ CloneTypeOK
  /\ data \in Data
  /\ box \in [Container -> {"absent", "running", "stopped", "crashed"}]
  /\ restarts \subseteq Container /\ image \in {"old", "new"}
  /\ migrates \in BOOLEAN /\ fence \in BOOLEAN /\ same \in BOOLEAN /\ migrated \in BOOLEAN
  /\ files \subseteq {"control", "receipt", "activation", "migrated", "activation-started",
                      "activated", "thaw-started", "thawed"}
  /\ token \in Nat /\ receipts \in Nat /\ verification \in Verification \cup {None}
  /\ pc \in {"idle", "captureabort", "migrateabort", "activateabort", "thawabort"}
              \cup CaptureStep \cup MigrateStep \cup ActivateStep \cup ThawStep

Init ==
  /\ RecoveryInit /\ CloneInit
  /\ data = [refs |-> {}, schema |-> "old", frozen |-> FALSE, gen |-> 0]
  /\ box = [c \in Container |-> IF c = "source" THEN "running" ELSE "absent"]
  /\ restarts = {"source"} /\ image = "old" /\ migrates \in BOOLEAN
  /\ fence = FALSE /\ files = {} /\ token = 0 /\ receipts = 0 /\ verification = None
  /\ same = FALSE /\ migrated = FALSE
  /\ pc = "idle"

Goto(label) == pc' = label

\* A step of a tool leaves alone what the other tools and the world write.
Others == <<objects, listing, packages, remote, recovered, verification, changes, migrates>>
Alone == UNCHANGED <<archive, receipts, Others>>

\* A mutant: the freeze answers before its marker is written.
FrozenLater(d) == d

Frozen(d) == [d EXCEPT !.frozen = TRUE, !.gen = @ + 1]
Thawed(d) == [d EXCEPT !.frozen = FALSE, !.gen = @ + 1]

---------------------------------------------------------------------------
\* capture_checkpoint.py

\* preflight, inspect_source and login: production runs alone and is writable.
Capture ==
  /\ pc = "idle" /\ ~fence /\ Running = {"source"} /\ ~data.frozen
  /\ files' = {"control"} /\ token' = data.gen /\ Goto("fence")
  /\ UNCHANGED <<data, box, restarts, image, fence, same, migrated, saved>> /\ Alone

\* The fence outlives every failure: nothing is delivered before it is reconciled.
Fence ==
  /\ pc = "fence" /\ fence' = TRUE /\ Goto("norestart")
  /\ UNCHANGED <<data, box, restarts, image, files, token, same, migrated, saved>> /\ Alone

NoRestart ==
  /\ pc = "norestart" /\ restarts' = restarts \ {"source"} /\ Goto("freeze")
  /\ UNCHANGED <<data, box, image, fence, files, token, same, migrated, saved>> /\ Alone

\* The freeze names the generation seen at login, and is read back from the marker.
Freeze ==
  /\ pc = "freeze" /\ box["source"] = "running" /\ ~data.frozen /\ token = data.gen
  /\ data' = Frozen(data) /\ Goto("stop")
  /\ UNCHANGED <<box, restarts, image, fence, files, token, same, migrated, saved>> /\ Alone

\* stop: no restart, and a clean exit; anything else fails the capture.
Stopped(b) == [b EXCEPT !["source"] = "stopped"]

StopSource(label, next) ==
  /\ pc = label /\ restarts' = restarts \ {"source"}
  /\ \/ box' = Stopped(box) /\ Goto(next)
     \/ box' = [box EXCEPT !["source"] = "crashed"] /\ Goto("captureabort")
  /\ UNCHANGED <<data, image, fence, files, token, same, migrated, saved>> /\ Alone

Copy ==
  /\ pc = "copy" /\ saved' = data /\ Goto("backup")
  /\ UNCHANGED <<data, box, restarts, image, fence, files, token, same, migrated>> /\ Alone

\* once backup archives the volume; ONCE may start the container again after it.
Backup ==
  /\ pc = "backup" /\ archive' = data /\ Goto("stopagain")
  /\ \/ UNCHANGED <<box, restarts>>
     \/ box' = [box EXCEPT !["source"] = "running"] /\ restarts' = restarts \cup {"source"}
  /\ UNCHANGED <<data, image, fence, files, token, same, migrated, saved, receipts, Others>>

Receipt ==
  /\ pc = "receipt" /\ files' = files \cup {"receipt"} /\ receipts' = receipts + 1 /\ Goto("idle")
  /\ UNCHANGED <<data, box, restarts, image, fence, token, same, migrated, saved, archive, Others>>

\* A failed capture stops the source before it gives up, if it can.
CaptureAbort ==
  /\ pc = "captureabort" /\ Goto("idle") /\ restarts' = restarts \ {"source"}
  /\ box' \in {box, [box EXCEPT !["source"] = "stopped"]}
  /\ UNCHANGED <<data, image, fence, files, token, same, migrated, saved>> /\ Alone

CaptureNext ==
  \/ Capture \/ Fence \/ NoRestart \/ Freeze \/ Copy \/ Backup \/ Receipt \/ CaptureAbort
  \/ StopSource("stop", "copy") \/ StopSource("stopagain", "receipt")

---------------------------------------------------------------------------
\* activate_checkpoint.py

\* A mutant: the verification need not name the receipt of this capture.
RecoveryAnyway == verification # None

\* control: the operator's file says that a recovery was verified, and names the digest
\* of this capture's receipt.
RecoveryVerified == verification # None /\ verification.receipt = receipts
Control == pc = "idle" /\ {"control", "receipt"} \subseteq files /\ RecoveryVerified /\ fence

OriginalStopped == box["source"] = "stopped" /\ "source" \notin restarts
NoWriters(allowed) == Running \subseteq allowed

\* baseline_matches: the volume still holds the bytes of the checkpoint.
BaselineMatches == data = saved

\* A migration starts once; what it left is for the operator to reconcile.
Migrate(s) ==
  /\ Control /\ OriginalStopped /\ NoWriters({}) /\ data.frozen /\ BaselineMatches
  /\ "activation" \notin files
  /\ files' = files \cup {"activation"} /\ same' = s
  /\ Goto(IF s THEN "newrun" ELSE "oldrun")
  /\ UNCHANGED <<data, box, restarts, image, fence, token, migrated, saved>> /\ Alone

\* temporary: an isolated container without routes, restarts or other writers.
TemporaryRun(label, img, next) ==
  /\ pc = label /\ NoWriters({})
  /\ label = "newrun" => OriginalStopped /\ fence /\ data.frozen = same
  /\ box' = [box EXCEPT !["temporary"] = "running"] /\ image' = img
  /\ \E failed \in BOOLEAN : Goto(IF failed THEN "migrateabort" ELSE next)
  /\ UNCHANGED <<data, restarts, fence, files, token, same, migrated, saved>> /\ Alone

OldThaw ==
  /\ pc = "oldthaw" /\ box["temporary"] = "running" /\ data.frozen
  /\ data' = Thawed(data) /\ Goto("oldstop")
  /\ UNCHANGED <<box, restarts, image, fence, files, token, same, migrated, saved>> /\ Alone

\* The candidate is ready after its migrations; it must agree with --same-schema.
NewFreeze ==
  /\ pc = "newfreeze" /\ box["temporary"] = "running" /\ data.frozen = same
  /\ migrates => data.schema = "new"
  /\ data' = IF same THEN data ELSE Frozen(data)
  /\ Goto("newstop")
  /\ UNCHANGED <<box, restarts, image, fence, files, token, same, migrated, saved>> /\ Alone

TemporaryStop(label, next) ==
  /\ pc = label /\ box' = [box EXCEPT !["temporary"] = "absent"] /\ Goto(next)
  /\ UNCHANGED <<data, restarts, image, fence, files, token, same, migrated, saved>> /\ Alone

\* compare_snapshot: every row is as captured; the schema changed exactly if asked.
Compared(s) == /\ data.refs = saved.refs
               /\ IF s THEN data.schema = saved.schema /\ data.gen = saved.gen
                       ELSE data.schema = "new"

Compare ==
  /\ pc = "compare" /\ NoWriters({}) /\ data.frozen /\ Compared(same)
  /\ files' = files \cup {"migrated"} /\ migrated' = same /\ Goto("idle")
  /\ UNCHANGED <<data, box, restarts, image, fence, token, same, saved>> /\ Alone

\* The temporary container is stopped and removed, or left as it is if uncertain.
MigrateAbort ==
  /\ pc = "migrateabort" /\ Goto("idle")
  /\ box' \in {box, [box EXCEPT !["temporary"] = "absent"]}
  /\ UNCHANGED <<data, restarts, image, fence, files, token, same, migrated, saved>> /\ Alone

\* activate: started once, on the verified migration, with production stopped.
Activate(s) ==
  /\ Control /\ "migrated" \in files /\ migrated = s /\ data.frozen
  /\ OriginalStopped /\ NoWriters({}) /\ Compared(s)
  /\ "activation-started" \notin files
  /\ files' = files \cup {"activation-started"} /\ same' = s /\ Goto("update")
  /\ UNCHANGED <<data, box, restarts, image, fence, token, migrated, saved>> /\ Alone

\* once update replaces the container, or fails with either of them left.
Update ==
  /\ pc = "update"
  /\ \/ /\ box' = [box EXCEPT !["source"] = "absent", !["candidate"] = "running"]
        /\ Goto("ready")
     \/ /\ box' \in {box, [box EXCEPT !["candidate"] = "running"]}
        /\ Goto("activateabort")
  /\ restarts' = IF box'["candidate"] = "running" THEN restarts \cup {"candidate"} ELSE restarts
  /\ UNCHANGED <<data, image, fence, files, token, same, migrated, saved>> /\ Alone

\* once_source: the candidate alone answers for the host, on this volume, frozen.
CandidateServes == box["source"] = "absent" /\ Running = {"candidate"} /\ data.frozen

Activated ==
  /\ pc = "ready" /\ CandidateServes
  /\ files' = files \cup {"activated"} /\ Goto("idle")
  /\ UNCHANGED <<data, box, restarts, image, fence, token, same, migrated, saved>> /\ Alone

\* Every container on the volume is stopped, as far as Docker obeys.
ActivateAbort ==
  /\ pc = "activateabort" /\ Goto("idle")
  /\ \/ /\ box' = [c \in Container |-> IF c \in Running THEN "stopped" ELSE box[c]]
        /\ restarts' = {}
     \/ UNCHANGED <<box, restarts>>
  /\ UNCHANGED <<data, image, fence, files, token, same, migrated, saved>> /\ Alone

\* thaw: on the activated container, recorded before it is asked for.
Thaw(s) ==
  /\ Control /\ {"migrated", "activated"} \subseteq files /\ migrated = s /\ CandidateServes
  /\ "thaw-started" \notin files
  /\ files' = files \cup {"thaw-started"} /\ same' = s /\ Goto("thaw")
  /\ UNCHANGED <<data, box, restarts, image, fence, token, migrated, saved>> /\ Alone

ThawApi ==
  /\ pc = "thaw" /\ box["candidate"] = "running" /\ data.frozen
  /\ data' = Thawed(data) /\ Goto("thawed")
  /\ UNCHANGED <<box, restarts, image, fence, files, token, same, migrated, saved>> /\ Alone

ThawSaved ==
  /\ pc = "thawed" /\ ~data.frozen
  /\ files' = files \cup {"thawed"} /\ Goto("idle")
  /\ UNCHANGED <<data, box, restarts, image, fence, token, same, migrated, saved>> /\ Alone

ThawAbort ==
  /\ pc = "thawabort" /\ Goto("idle")
  /\ \/ box' = [box EXCEPT !["candidate"] = "stopped"] /\ restarts' = restarts \ {"candidate"}
     \/ UNCHANGED <<box, restarts>>
  /\ UNCHANGED <<data, image, fence, files, token, same, migrated, saved>> /\ Alone

ActivateNext ==
  \/ \E s \in BOOLEAN : Migrate(s) \/ Activate(s) \/ Thaw(s)
  \/ TemporaryRun("oldrun", "old", "oldthaw") \/ TemporaryRun("newrun", "new", "newfreeze")
  \/ TemporaryStop("oldstop", "newrun") \/ TemporaryStop("newstop", "compare")
  \/ OldThaw \/ NewFreeze \/ Compare \/ MigrateAbort \/ Update \/ Activated \/ ActivateAbort
  \/ ThawApi \/ ThawSaved \/ ThawAbort

---------------------------------------------------------------------------
\* The world around the tools.

World == UNCHANGED <<fence, files, token, receipts, verification, same, migrated, migrates, image,
                     saved, archive, listing, packages, remote, recovered>>

\* A command fails or a check refuses: each phase has its own way to give up.
Fail ==
  /\ \/ pc \in CaptureStep \ {"fence"} /\ Goto("captureabort")
     \/ pc \in MigrateStep /\ Goto("migrateabort")
     \/ pc \in ActivateStep /\ Goto("activateabort")
     \/ pc \in ThawStep /\ Goto("thawabort")
  /\ World /\ UNCHANGED <<data, box, restarts, objects, changes>>

Kill ==
  /\ pc # "idle" /\ Goto("idle")
  /\ World /\ UNCHANGED <<data, box, restarts, objects, changes>>

\* The daemon restarts what it may; the rest stops, cleanly or not.
Reboot ==
  /\ Goto("idle")
  /\ box' \in {[c \in Container |-> IF c \notin Running THEN box[c]
                                    ELSE IF c \in restarts THEN "running" ELSE end] :
                 end \in {"stopped", "crashed"}}
  /\ World /\ UNCHANGED <<data, restarts, objects, changes>>

\* Another delivery brings the old container back; the fence and the locks stop it.
Deliver ==
  /\ pc = "idle" /\ ~fence /\ box["source"] # "running"
  /\ box' = [box EXCEPT !["source"] = "running"] /\ restarts' = restarts \cup {"source"}
  /\ World /\ UNCHANGED <<data, pc, objects, changes>>

\* The operator adds to verify's result the digest of the receipt of the capture that
\* was recovered.  No tool computes or compares it: that the recovery is of this very
\* capture is the operator's finding, and taken as true here.
Bind ==
  /\ "receipt" \in files /\ recovered # None /\ recovered.data = saved
  /\ verification' = [receipt |-> receipts, package |-> recovered]
  /\ UNCHANGED <<data, box, restarts, image, migrates, fence, files, token, receipts, same,
                 migrated, pc, recoveryVars>>

\* A capture is given up before its migration: the operator sets its directory aside
\* and clears the fence, and production may be delivered, thawed and captured again.
GiveUp ==
  /\ pc = "idle" /\ fence /\ "activation" \notin files /\ receipts < MaxReceipts
  /\ fence' = FALSE /\ files' = {}
  /\ UNCHANGED <<data, box, restarts, image, migrates, token, receipts, verification, same,
                 migrated, pc, recoveryVars>>

\* The public adds a source and its original through a writable container.
Write(o) ==
  /\ Running \cap Public # {} /\ ~data.frozen /\ o \notin data.refs
  /\ data' = [data EXCEPT !.refs = @ \cup {o}]
  /\ objects' = [objects EXCEPT ![o] = "intact"]
  /\ World /\ UNCHANGED <<box, restarts, pc, changes>>

\* An operator freezes or thaws production by hand before a capture begins.
Maintain ==
  /\ pc \in {"idle", "fence", "norestart", "freeze"} /\ ~fence /\ data.gen < MaxGen
  /\ box["source"] = "running"
  /\ data' = IF data.frozen THEN Thawed(data) ELSE Frozen(data)
  /\ World /\ UNCHANGED <<box, restarts, pc, objects, changes>>

\* A writable server with migrations of its own applies them when it starts.
MigrateSchema ==
  /\ migrates /\ ~data.frozen /\ data.schema = "old"
  /\ box["candidate"] = "running" \/ (box["temporary"] = "running" /\ image = "new")
  /\ data' = [data EXCEPT !.schema = "new"]
  /\ World /\ UNCHANGED <<box, restarts, pc, objects, changes>>

ProductionNext ==
  \/ CaptureNext \/ ActivateNext
  \/ Fail \/ Kill \/ Reboot \/ Deliver \/ Bind \/ GiveUp \/ Maintain \/ MigrateSchema
  \/ \E o \in Original : Write(o)

\* A rehearsal works on a copy of the recovered checkpoint and shares no variable
\* with production, so the two are explored one after the other.
Rehearsing == clone # None \/ step # "idle" \/ packed # None

Next ==
  \/ ProductionNext /\ ~Rehearsing /\ UNCHANGED cloneVars
  \/ RecoveryNext /\ ~Rehearsing /\ UNCHANGED <<cutoverVars, cloneVars>>
  \/ /\ CloneNext /\ pc = "idle" /\ files = {"control", "receipt"}
     /\ UNCHANGED <<cutoverVars, recoveryVars>>

Spec == Init /\ [][Next]_vars

---------------------------------------------------------------------------
\* From the receipt to the thaw nobody writes: the captured copy and its archive
\* hold everything the volume does, whatever failed, was killed or restarted.
CheckpointKept ==
  "receipt" \in files /\ "thaw-started" \notin files =>
    saved # None /\ saved.frozen /\ archive = saved /\ data.refs = saved.refs

\* A migration begins, and the schema changes, only when the capture at hand, and not an
\* earlier one, was verified to come back from the off-host copy with every original it
\* refers to; and it stays the capture the migration can return to.  (Bind's guard is
\* the operator's word: the tools carry it to the right capture, they do not check it.)
MigratedRecoverable ==
  data.schema = "new" \/ "activation" \in files =>
    /\ verification # None /\ verification.package.data = saved /\ saved.schema = "old"
    /\ \A o \in saved.refs : verification.package.objects[o] = "intact"
=============================================================================
