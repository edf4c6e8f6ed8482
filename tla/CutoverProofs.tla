----------------------------- MODULE CutoverProofs -----------------------------
(***************************************************************************)
(* What a cutover keeps, for any originals, accounts, packages and bounds: *)
(* the checkpoint that was captured, the way back from a migration, and    *)
(* the isolation of a clone.  Production and a rehearsal share no variable *)
(* that both write, so each has an invariant of its own.                   *)
(***************************************************************************)
EXTENDS Cutover, TLAPS

-----------------------------------------------------------------------------
(* The inductive invariant. *)

\* A capture begins before anything is on record and fences first.  Once it has frozen
\* production nothing is written, so what it copies stays what production holds.
CaptureSound ==
  /\ pc \in CaptureStep \union {"captureabort"} =>
       files = {"control"} /\ (pc # "fence" => fence)
  /\ "receipt" \in files => fence
  /\ pc \in {"stop", "copy", "backup", "stopagain", "receipt"} => data.frozen
  /\ pc \in {"backup", "stopagain", "receipt"} => saved = data
  /\ pc \in {"stopagain", "receipt"} => archive = saved

\* Until the thaw, the volume holds what was captured, and nobody outside could write.
CheckpointSound ==
  "receipt" \in files =>
    /\ saved \in Data /\ saved.frozen /\ archive = saved
    /\ "thaw-started" \in files \/
         (data.refs = saved.refs /\ (data.frozen \/ Running \intersect Public = {}))

\* What each phase of the activation may count on.
PhaseSound ==
  /\ pc \in MigrateStep \union {"migrateabort"} =>
       "activation" \in files /\ Running \intersect Public = {}
  /\ pc \in ActivateStep \union {"activateabort"} => "activation" \in files /\ data.frozen
  /\ pc \in ThawStep \union {"thawabort"} => {"activation", "thaw-started"} \subseteq files
  /\ "migrated" \in files => "activation" \in files

\* Nothing runs the candidate, and no schema is migrated, but on a recovered checkpoint.
MigrationSound ==
  /\ "activation" \in files =>
       /\ "receipt" \in files
       /\ RecoveryVerified /\ saved.schema = "old"
  /\ box["temporary"] # "absent" \/ box["candidate"] # "absent" \/ data.schema = "new" =>
       "activation" \in files

\* What is recovered is whole.
RecoverySound == recovered # None => DataValid(recovered.data, recovered.objects)

\* The operator's file speaks of a whole recovery; while the receipt it names is the
\* current one, of what that capture saved.
VerificationSound ==
  verification # None =>
    /\ verification.receipt <= receipts
    /\ DataValid(verification.package.data, verification.package.objects)
    /\ "receipt" \in files /\ verification.receipt = receipts => verification.package.data = saved

\* The types of what the tools and the containers keep.
ProductionType ==
  /\ data \in Data
  /\ box \in [Container -> {"absent", "running", "stopped", "crashed"}]
  /\ restarts \subseteq Container /\ image \in {"old", "new"}
  /\ migrates \in BOOLEAN /\ fence \in BOOLEAN /\ same \in BOOLEAN /\ migrated \in BOOLEAN
  /\ files \subseteq {"control", "receipt", "activation", "migrated", "activation-started",
                      "activated", "thaw-started", "thawed"}
  /\ token \in Nat /\ receipts \in Nat /\ verification \in Verification \cup {None}
  /\ pc \in {"idle", "captureabort", "migrateabort", "activateabort", "thawabort"}
              \cup CaptureStep \cup MigrateStep \cup ActivateStep \cup ThawStep

ProductionInv ==
  /\ RecoveryTypeOK /\ ProductionType
  /\ CaptureSound /\ CheckpointSound /\ PhaseSound /\ MigrationSound /\ RecoverySound
  /\ VerificationSound

-----------------------------------------------------------------------------
(* Production. *)

\* Freezing and thawing write the marker and nothing else.
LEMMA MarkerOnly ==
  ASSUME NEW d \in Data
  PROVE  /\ Frozen(d) \in Data /\ Frozen(d).frozen /\ Frozen(d).refs = d.refs
         /\ Frozen(d).schema = d.schema
         /\ Thawed(d) \in Data /\ ~ Thawed(d).frozen /\ Thawed(d).refs = d.refs
         /\ Thawed(d).schema = d.schema
<1>1. /\ Frozen(d) = [d EXCEPT !.frozen = TRUE, !.gen = d.gen + 1]
      /\ Thawed(d) = [d EXCEPT !.frozen = FALSE, !.gen = d.gen + 1]
  BY DEF Data, Frozen, Thawed
<1>2. d.gen \in Nat /\ d.gen + 1 \in Nat /\ d.refs \in SUBSET Original
      /\ d.schema \in {"old", "new"}
  BY DEF Data
<1>3. /\ Frozen(d).frozen = TRUE /\ Frozen(d).refs = d.refs /\ Frozen(d).schema = d.schema
      /\ Frozen(d) \in Data
  BY <1>1, <1>2 DEF Data
<1>4. /\ Thawed(d).frozen = FALSE /\ Thawed(d).refs = d.refs /\ Thawed(d).schema = d.schema
      /\ Thawed(d) \in Data
  BY <1>1, <1>2 DEF Data
<1> QED BY <1>3, <1>4

\* Capturing a checkpoint.
LEMMA CaptureKeeps == ProductionInv /\ CaptureNext => ProductionInv'
<1> USE DEF ProductionInv, RecoveryTypeOK, ProductionType, CaptureSound, CheckpointSound,
        PhaseSound, MigrationSound, RecoverySound, VerificationSound, Alone, Others, World, Goto,
        RecoveryVerified, CaptureStep, MigrateStep, ActivateStep, ThawStep, Running, Container, Public
<1>1. ASSUME ProductionInv, Capture PROVE ProductionInv'
  BY <1>1 DEF Capture, Data
<1>2. ASSUME ProductionInv, Fence PROVE ProductionInv'
  BY <1>2 DEF Fence
<1>3. ASSUME ProductionInv, NoRestart PROVE ProductionInv'
  BY <1>3 DEF NoRestart
<1>4. ASSUME ProductionInv, Freeze PROVE ProductionInv'
  BY <1>4, MarkerOnly DEF Freeze
<1>5. ASSUME ProductionInv, Copy PROVE ProductionInv'
  BY <1>5, RecoveryAssumption DEF Copy
<1>6. ASSUME ProductionInv, Backup PROVE ProductionInv'
  BY <1>6 DEF Backup
<1>7. ASSUME ProductionInv, Receipt PROVE ProductionInv'
  <2>1. VerificationSound'
    <3>1. verification # None => verification.receipt \in Nat
      BY <1>7 DEF Verification
    <3>2. verification # None => verification.receipt <= receipts' /\ verification.receipt # receipts'
      BY <1>7, <3>1 DEF Receipt
    <3> QED BY <1>7, <3>2 DEF Receipt
  <2>2. MigrationSound'
    <3>1. files = {"control"}
      BY <1>7 DEF Receipt
    <3> QED BY <1>7, <3>1 DEF Receipt
  <2> HIDE DEF VerificationSound, MigrationSound
  <2> QED BY <1>7, <2>1, <2>2 DEF Receipt
<1>8. ASSUME ProductionInv, CaptureAbort PROVE ProductionInv'
  BY <1>8 DEF CaptureAbort
<1>9. ASSUME ProductionInv, StopSource("stop", "copy") PROVE ProductionInv'
  BY <1>9 DEF StopSource, Stopped
<1>10. ASSUME ProductionInv, StopSource("stopagain", "receipt") PROVE ProductionInv'
  BY <1>10 DEF StopSource, Stopped
<1> QED BY <1>1, <1>2, <1>3, <1>4, <1>5, <1>6, <1>7, <1>8, <1>9, <1>10 DEF CaptureNext

\* Migrating, activating and thawing it.
LEMMA ActivateKeeps == ProductionInv /\ ActivateNext => ProductionInv'
<1> USE DEF ProductionInv, RecoveryTypeOK, ProductionType, CaptureSound, CheckpointSound,
        PhaseSound, MigrationSound, RecoverySound, VerificationSound, Alone, Others, World, Goto,
        RecoveryVerified, CaptureStep, MigrateStep, ActivateStep, ThawStep, Running, Container, Public
<1>1. ASSUME ProductionInv, NEW s \in BOOLEAN, Migrate(s) PROVE ProductionInv'
  <2>1. data.schema = "old" /\ saved.schema = "old"
    BY <1>1 DEF Migrate, BaselineMatches, Data
  <2> QED BY <1>1, <2>1 DEF Migrate, Control, NoWriters, BaselineMatches
<1>2. ASSUME ProductionInv, NEW s \in BOOLEAN, Activate(s) PROVE ProductionInv'
  BY <1>2 DEF Activate, Control, NoWriters
<1>3. ASSUME ProductionInv, NEW s \in BOOLEAN, Thaw(s) PROVE ProductionInv'
  BY <1>3 DEF Thaw, Control
<1>4. ASSUME ProductionInv, TemporaryRun("oldrun", "old", "oldthaw") PROVE ProductionInv'
  BY <1>4 DEF TemporaryRun, NoWriters
<1>5. ASSUME ProductionInv, TemporaryRun("newrun", "new", "newfreeze") PROVE ProductionInv'
  BY <1>5 DEF TemporaryRun, NoWriters
<1>6. ASSUME ProductionInv, TemporaryStop("oldstop", "newrun") PROVE ProductionInv'
  BY <1>6 DEF TemporaryStop
<1>7. ASSUME ProductionInv, TemporaryStop("newstop", "compare") PROVE ProductionInv'
  BY <1>7 DEF TemporaryStop
<1>8. ASSUME ProductionInv, OldThaw PROVE ProductionInv'
  BY <1>8, MarkerOnly DEF OldThaw
<1>9. ASSUME ProductionInv, NewFreeze PROVE ProductionInv'
  BY <1>9, MarkerOnly DEF NewFreeze
<1>10. ASSUME ProductionInv, Compare PROVE ProductionInv'
  BY <1>10 DEF Compare
<1>11. ASSUME ProductionInv, MigrateAbort PROVE ProductionInv'
  BY <1>11 DEF MigrateAbort
<1>12. ASSUME ProductionInv, Update PROVE ProductionInv'
  BY <1>12 DEF Update
<1>13. ASSUME ProductionInv, Activated PROVE ProductionInv'
  BY <1>13 DEF Activated
<1>14. ASSUME ProductionInv, ActivateAbort PROVE ProductionInv'
  BY <1>14 DEF ActivateAbort
<1>15. ASSUME ProductionInv, ThawApi PROVE ProductionInv'
  BY <1>15, MarkerOnly DEF ThawApi
<1>16. ASSUME ProductionInv, ThawSaved PROVE ProductionInv'
  BY <1>16 DEF ThawSaved
<1>17. ASSUME ProductionInv, ThawAbort PROVE ProductionInv'
  BY <1>17 DEF ThawAbort
<1> QED BY <1>1, <1>2, <1>3, <1>4, <1>5, <1>6, <1>7, <1>8, <1>9, <1>10, <1>11, <1>12, <1>13, <1>14, <1>15, <1>16, <1>17 DEF ActivateNext

\* And whatever happens around the tools.
LEMMA WorldKeeps == ProductionInv /\ ProductionNext => ProductionInv'
<1> USE DEF ProductionInv, RecoveryTypeOK, ProductionType, CaptureSound, CheckpointSound,
        PhaseSound, MigrationSound, RecoverySound, VerificationSound, Alone, Others, World, Goto,
        RecoveryVerified, CaptureStep, MigrateStep, ActivateStep, ThawStep, Running, Container, Public
<1>1. ASSUME ProductionInv, CaptureNext PROVE ProductionInv'
  BY <1>1, CaptureKeeps
<1>2. ASSUME ProductionInv, ActivateNext PROVE ProductionInv'
  BY <1>2, ActivateKeeps
<1>3. ASSUME ProductionInv, Fail PROVE ProductionInv'
  BY <1>3 DEF Fail
<1>4. ASSUME ProductionInv, Kill PROVE ProductionInv'
  BY <1>4 DEF Kill
<1>5. ASSUME ProductionInv, Reboot PROVE ProductionInv'
  BY <1>5 DEF Reboot
<1>6. ASSUME ProductionInv, Deliver PROVE ProductionInv'
  BY <1>6 DEF Deliver
<1>7. ASSUME ProductionInv, Maintain PROVE ProductionInv'
  BY <1>7, MarkerOnly DEF Maintain
<1>8. ASSUME ProductionInv, MigrateSchema PROVE ProductionInv'
  BY <1>8 DEF MigrateSchema, Data
<1>9. ASSUME ProductionInv, NEW o \in Original, Write(o) PROVE ProductionInv'
  BY <1>9 DEF Write, Data, Bucket
<1>10. ASSUME ProductionInv, Bind PROVE ProductionInv'
  <2>1. verification' \in Verification
    BY <1>10, RecoveryAssumption DEF Bind, Verification
  <2>2. verification'.receipt = receipts /\ verification'.package = recovered
    BY <1>10 DEF Bind
  <2>3. VerificationSound'
    BY <1>10, <2>1, <2>2 DEF Bind, recoveryVars
  <2>4. MigrationSound'
    BY <1>10, <2>1, <2>2, CutoverAssumption DEF Bind, recoveryVars
  <2> HIDE DEF VerificationSound, MigrationSound
  <2> QED BY <1>10, <2>1, <2>3, <2>4 DEF Bind, recoveryVars
<1>11. ASSUME ProductionInv, GiveUp PROVE ProductionInv'
  <2>1. /\ pc' = pc /\ pc = "idle" /\ files' = {} /\ fence' = FALSE /\ "activation" \notin files
        /\ UNCHANGED <<data, box, restarts, image, migrates, token, receipts, verification, same,
                       migrated, recoveryVars>>
    BY <1>11 DEF GiveUp
  <2>2. RecoveryTypeOK' /\ RecoverySound' /\ VerificationSound'
    BY <1>11, <2>1 DEF recoveryVars
  <2>3. ProductionType'
    BY <1>11, <2>1
  <2>4. CaptureSound' /\ CheckpointSound'
    BY <1>11, <2>1 DEF recoveryVars
  <2>5. PhaseSound' /\ MigrationSound'
    BY <1>11, <2>1 DEF recoveryVars
  <2> HIDE DEF RecoveryTypeOK, ProductionType, CaptureSound, CheckpointSound, PhaseSound,
          MigrationSound, RecoverySound, VerificationSound
  <2> QED BY <2>2, <2>3, <2>4, <2>5
<1> QED BY <1>1, <1>2, <1>3, <1>4, <1>5, <1>6, <1>7, <1>8, <1>9, <1>10, <1>11 DEF ProductionNext

-----------------------------------------------------------------------------
(* Packaging and recovering the checkpoint. *)

LEMMA RecoveryKeeps ==
  ProductionInv /\ RecoveryNext /\ UNCHANGED cutoverVars => ProductionInv'
<1> SUFFICES ASSUME ProductionInv, RecoveryNext, UNCHANGED cutoverVars PROVE ProductionInv'
  OBVIOUS
<1>1. saved' = saved /\ archive' = archive
  BY DEF RecoveryNext, List, PackFails, Pack, Upload, Recover, DamageRemote, ChangeObject
<1>2. ASSUME RecoveryTypeOK', RecoverySound' PROVE ProductionInv'
  BY <1>1, <1>2 DEF ProductionInv, ProductionType, CaptureSound, CheckpointSound, PhaseSound,
     MigrationSound, VerificationSound, RecoveryVerified, cutoverVars, Running
<1>3. RecoveryTypeOK /\ RecoverySound
  BY DEF ProductionInv
<1>4. ASSUME NEW i \in Id, Pack(i) PROVE RecoveryTypeOK' /\ RecoverySound'
  BY <1>3, <1>4 DEF RecoveryTypeOK, RecoverySound, Pack, Package
<1>5. ASSUME NEW i \in Id, Upload(i) PROVE RecoveryTypeOK' /\ RecoverySound'
  BY <1>3, <1>5 DEF RecoveryTypeOK, RecoverySound, Upload
<1>6. ASSUME NEW i \in Id, Recover(i) PROVE RecoveryTypeOK' /\ RecoverySound'
  BY <1>3, <1>6 DEF RecoveryTypeOK, RecoverySound, Recover, Authentic
<1>7. ASSUME NEW i \in Id, DamageRemote(i) PROVE RecoveryTypeOK' /\ RecoverySound'
  BY <1>3, <1>7, RecoveryAssumption DEF RecoveryTypeOK, RecoverySound, DamageRemote
<1>8. ASSUME NEW o \in Original, ChangeObject(o) PROVE RecoveryTypeOK' /\ RecoverySound'
  BY <1>3, <1>8, RecoveryAssumption DEF RecoveryTypeOK, RecoverySound, ChangeObject, Bucket
<1>9. ASSUME List \/ PackFails PROVE RecoveryTypeOK' /\ RecoverySound'
  BY <1>3, <1>9 DEF RecoveryTypeOK, RecoverySound, List, PackFails, Package
<1> QED BY <1>2, <1>4, <1>5, <1>6, <1>7, <1>8, <1>9 DEF RecoveryNext
-----------------------------------------------------------------------------
(* Preparing a clone of the checkpoint. *)

\* No credential or binding of the source opens c.
Revoked(c) ==
  /\ c.binding = "clone"
  /\ \A a \in Account \ c.disabled :
       /\ c.password[a] # "source"
       /\ CollectionOf(a) \notin c.external
       /\ c.signing[CollectionOf(a)] # "source"

\* What has been replaced in c but for the accounts still to come.
UsersReplaced(c, but) ==
  /\ c.signing["users"] = "clone" /\ "users" \notin c.external
  /\ \A u \in User \ but : u \in c.disabled \/ c.password[u] = "clone"

OperatorsReplaced(c, but) ==
  "_superusers" \notin c.external /\ \A o \in Operator \ but : c.password[o] = "clone"

\* What a running preparation has replaced when it stands at step "at".
Replaced(c, at, but) ==
  /\ at \in {"users", "pages", "operators", "login", "rotate", "receipt"} => c.binding = "clone"
  /\ at = "pages" => but \subseteq User /\ UsersReplaced(c, but)
  /\ at \in {"operators", "login", "rotate", "receipt"} => UsersReplaced(c, {})
  /\ at = "operators" => OperatorsReplaced(c, but \union {Selected})
  /\ at \in {"login", "rotate", "receipt"} => OperatorsReplaced(c, {})
  /\ at = "receipt" => c.signing["_superusers"] = "clone"

CloneInv ==
  /\ CloneTypeOK
  /\ version <= touches
  /\ step \notin {"idle", "copy"} => clone # None
  /\ Replaced(clone, step, todo)
  /\ prepared # None => Revoked(prepared)
  /\ verified # None => Revoked(verified)

\* When all is replaced, nothing of the source opens the clone.
LEMMA ReplacedIsRevoked ==
  ASSUME NEW c \in Copied, NEW but, Replaced(c, "receipt", but)
  PROVE  Revoked(c)
<1>1. ASSUME NEW a \in Account \ c.disabled
      PROVE  /\ c.password[a] # "source" /\ CollectionOf(a) \notin c.external
             /\ c.signing[CollectionOf(a)] # "source"
  BY DEF Replaced, UsersReplaced, OperatorsReplaced, Account, CollectionOf
<1> QED BY <1>1 DEF Replaced, Revoked

\* Each request of the worker replaces one thing and leaves the rest.
LEMMA RequestKeeps ==
  ASSUME CloneInv, NEW label, NEW next, NEW result, Request(label, next, result),
         label \notin {"idle", "copy"},
         next \in {"settings", "users", "pages", "operators", "login", "receipt"},
         todo' \in SUBSET Account, result \in Copied, Replaced(result, next, todo')
  PROVE  CloneInv'
<1>1. /\ clone' = result /\ step' = next /\ before' = before /\ version' = version
      /\ operator' = operator /\ prepared' = prepared /\ packed' = packed
      /\ verified' = verified /\ touches' = touches
  BY DEF Request
<1>2. CloneTypeOK'
  BY <1>1 DEF CloneInv, CloneTypeOK
<1>3. clone' # None
  BY <1>1, CloneAssumption
<1>4. Replaced(clone', step', todo')
  BY <1>1
<1> QED BY <1>1, <1>2, <1>3, <1>4 DEF CloneInv, Revoked

\* What replacing one field of a copy yields.
LEMMA Replacing ==
  ASSUME NEW c \in Copied
  PROVE  /\ \A a \in Account, m \in Marked : [c EXCEPT !.password[a] = m] \in Copied
         /\ \A k \in Collection, m \in Marked, x \in SUBSET Collection :
              [c EXCEPT !.signing[k] = m, !.external = x] \in Copied
         /\ \A k \in Collection, m \in Marked : [c EXCEPT !.signing[k] = m] \in Copied
         /\ \A x \in SUBSET Collection : [c EXCEPT !.external = x] \in Copied
         /\ \A u \in SUBSET User : [c EXCEPT !.disabled = u] \in Copied
         /\ \A b \in BOOLEAN : [c EXCEPT !.frozen = b] \in Copied
         /\ \A m \in Marked : [c EXCEPT !.binding = m] \in Copied
         /\ \A a \in Account, m \in Marked : [c EXCEPT !.password[a] = m, !.binding = m] \in Copied
<1>1. /\ c.password \in [Account -> Marked] /\ c.signing \in [Collection -> Marked]
      /\ c.external \in SUBSET Collection /\ c.disabled \in SUBSET User
  BY DEF Copied
<1>2. \A a \in Account, m \in Marked : [c.password EXCEPT ![a] = m] \in [Account -> Marked]
  BY <1>1
<1>3. \A k \in Collection, m \in Marked : [c.signing EXCEPT ![k] = m] \in [Collection -> Marked]
  BY <1>1
<1>4. \A a \in Account, m \in Marked : [c EXCEPT !.password[a] = m] \in Copied
  BY <1>2 DEF Copied
<1>5. \A k \in Collection, m \in Marked, x \in SUBSET Collection :
              [c EXCEPT !.signing[k] = m, !.external = x] \in Copied
  BY <1>3 DEF Copied
<1>6. \A k \in Collection, m \in Marked : [c EXCEPT !.signing[k] = m] \in Copied
  BY <1>3 DEF Copied
<1>7. \A x \in SUBSET Collection : [c EXCEPT !.external = x] \in Copied
  BY DEF Copied
<1>8. \A u \in SUBSET User : [c EXCEPT !.disabled = u] \in Copied
  BY DEF Copied
<1>9. \A b \in BOOLEAN : [c EXCEPT !.frozen = b] \in Copied
  BY DEF Copied
<1>10. \A m \in Marked : [c EXCEPT !.binding = m] \in Copied
  BY DEF Copied
<1>11. \A a \in Account, m \in Marked : [c EXCEPT !.password[a] = m, !.binding = m] \in Copied
  BY <1>2 DEF Copied
<1> QED BY <1>4, <1>5, <1>6, <1>7, <1>8, <1>9, <1>10, <1>11
\* Each step of a preparation, and what others do between preparations.
LEMMA CloneKeeps == CloneInv /\ CloneNext => CloneInv'
<1> SUFFICES ASSUME CloneInv PROVE CloneNext => CloneInv'
  OBVIOUS
<1>0. /\ CloneTypeOK /\ Replaced(clone, step, todo) /\ todo \in SUBSET Account
      /\ step \notin {"idle", "copy"} => clone \in Copied
      /\ Collection = {"users", "_superusers"} /\ Marked = {"source", "clone"}
      /\ Selected \in Operator /\ User \subseteq Account /\ Operator \subseteq Account
  BY CloneAssumption DEF CloneInv, CloneTypeOK, Collection, Marked, Account
<1>1. ASSUME ThawClone PROVE CloneInv'
  <2> PICK r : r = [clone EXCEPT !.frozen = FALSE]
    OBVIOUS
  <2>1. Request("thaw", "settings", r) /\ step = "thaw"
    BY <1>1 DEF ThawClone, Request
  <2>2. r \in Copied /\ todo' \in SUBSET Account
    BY <1>0, <1>1, <2>1, Replacing DEF ThawClone
  <2>3. Replaced(r, "settings", todo')
    BY <1>0, <1>1, <2>1 DEF ThawClone, Replaced, UsersReplaced, OperatorsReplaced, Copied
  <2> QED BY <2>1, <2>2, <2>3, RequestKeeps
<1>2. ASSUME Settings PROVE CloneInv'
  <2> PICK r : r = [clone EXCEPT !.binding = "clone"]
    OBVIOUS
  <2>1. Request("settings", "users", r) /\ step = "settings"
    BY <1>2 DEF Settings, Request
  <2>2. r \in Copied /\ todo' \in SUBSET Account
    BY <1>0, <1>2, <2>1, Replacing DEF Settings
  <2>3. Replaced(r, "users", todo')
    BY <1>0, <1>2, <2>1 DEF Settings, Replaced, UsersReplaced, OperatorsReplaced, Copied
  <2> QED BY <2>1, <2>2, <2>3, RequestKeeps
<1>3. ASSUME SecureUsers PROVE CloneInv'
  <2> PICK r : r = [clone EXCEPT !.signing["users"] = "clone", !.external = clone.external \ {"users"}]
    OBVIOUS
  <2>1. Request("users", "pages", r) /\ step = "users"
    BY <1>3 DEF SecureUsers, Request
  <2>2. r \in Copied /\ todo' \in SUBSET Account
    <3>1. clone \in Copied /\ clone.external \ {"users"} \in SUBSET Collection
      BY <1>0, <2>1 DEF Copied
    <3>2. r \in Copied
      BY <1>0, <3>1, Replacing
    <3>3. todo' \in SUBSET Account
      BY <1>0, <1>3 DEF SecureUsers
    <3> QED BY <3>2, <3>3
  <2>3. Replaced(r, "pages", todo')
    BY <1>0, <1>3, <2>1 DEF SecureUsers, Replaced, UsersReplaced, OperatorsReplaced, Copied
  <2> QED BY <2>1, <2>2, <2>3, RequestKeeps
<1>4. ASSUME NEW u \in Account, PatchUser(u) PROVE CloneInv'
  <2> PICK r : r = IF u \in Tester THEN [clone EXCEPT !.password[u] = "clone"]
               ELSE [clone EXCEPT !.disabled = clone.disabled \cup {u}]
    OBVIOUS
  <2>1. Request("pages", "pages", r) /\ step = "pages"
    BY <1>4 DEF PatchUser, Request
  <2>2. r \in Copied /\ todo' \in SUBSET Account
    <3>1. clone \in Copied /\ u \in Account /\ clone.disabled \in SUBSET User
      BY <1>0, <2>1 DEF Copied
    <3>2. u \notin Tester => clone.disabled \union {u} \in SUBSET User
      BY <1>0, <1>4, <2>1, <3>1 DEF PatchUser, Replaced
    <3>3. CASE u \in Tester
      BY <1>0, <1>4, <3>1, <3>3, Replacing DEF PatchUser
    <3>4. CASE u \notin Tester
      BY <1>0, <1>4, <3>1, <3>2, <3>4, Replacing DEF PatchUser
    <3> QED BY <3>3, <3>4
  <2>3. Replaced(r, "pages", todo')
    BY <1>0, <1>4, <2>1 DEF PatchUser, Replaced, UsersReplaced, OperatorsReplaced, Copied
  <2> QED BY <2>1, <2>2, <2>3, RequestKeeps
<1>5. ASSUME SecureOperators PROVE CloneInv'
  <2> PICK r : r = [clone EXCEPT !.external = clone.external \ {"_superusers"}]
    OBVIOUS
  <2>1. Request("pages", "operators", r) /\ step = "pages"
    BY <1>5 DEF SecureOperators, Request
  <2>2. r \in Copied /\ todo' \in SUBSET Account
    <3>1. clone \in Copied /\ clone.external \ {"_superusers"} \in SUBSET Collection
      BY <1>0, <2>1 DEF Copied
    <3>2. r \in Copied
      BY <1>0, <3>1, Replacing
    <3>3. todo' \in SUBSET Account
      BY <1>0, <1>5 DEF SecureOperators
    <3> QED BY <3>2, <3>3
  <2>3. Replaced(r, "operators", todo')
    BY <1>0, <1>5, <2>1 DEF SecureOperators, Replaced, UsersReplaced, OperatorsReplaced, Copied
  <2> QED BY <2>1, <2>2, <2>3, RequestKeeps
<1>6. ASSUME NEW o \in Account, PatchOperator(o) PROVE CloneInv'
  <2> PICK r : r = [clone EXCEPT !.password[o] = "clone"]
    OBVIOUS
  <2>1. Request("operators", "operators", r) /\ step = "operators"
    BY <1>6 DEF PatchOperator, Request
  <2>2. r \in Copied /\ todo' \in SUBSET Account
    BY <1>0, <1>6, <2>1, Replacing DEF PatchOperator
  <2>3. Replaced(r, "operators", todo')
    BY <1>0, <1>6, <2>1 DEF PatchOperator, Replaced, UsersReplaced, OperatorsReplaced, Copied
  <2> QED BY <2>1, <2>2, <2>3, RequestKeeps
<1>7. ASSUME PatchSelected PROVE CloneInv'
  <2> PICK r : r = [clone EXCEPT !.password[Selected] = "clone"]
    OBVIOUS
  <2>1. Request("operators", "login", r) /\ step = "operators"
    BY <1>7 DEF PatchSelected, Request
  <2>2. r \in Copied /\ todo' \in SUBSET Account
    BY <1>0, <1>7, <2>1, Replacing DEF PatchSelected
  <2>3. Replaced(r, "login", todo')
    BY <1>0, <1>7, <2>1 DEF PatchSelected, Replaced, UsersReplaced, OperatorsReplaced, Copied
  <2> QED BY <2>1, <2>2, <2>3, RequestKeeps
<1>8. ASSUME Rotate PROVE CloneInv'
  <2> PICK r : r = [clone EXCEPT !.signing["_superusers"] = "clone"]
    OBVIOUS
  <2>1. Request("rotate", "receipt", r) /\ step = "rotate"
    BY <1>8 DEF Rotate, Request
  <2>2. r \in Copied /\ todo' \in SUBSET Account
    BY <1>0, <1>8, <2>1, Replacing DEF Rotate
  <2>3. Replaced(r, "receipt", todo')
    BY <1>0, <1>8, <2>1 DEF Rotate, Replaced, UsersReplaced, OperatorsReplaced, Copied
  <2> QED BY <2>1, <2>2, <2>3, RequestKeeps
<1>9. ASSUME Begin \/ Abandon \/ Elsewhere PROVE CloneInv'
  BY <1>9 DEF Begin, Abandon, Elsewhere, CloneInv, CloneTypeOK, Replaced, Revoked
<1>10. ASSUME CopyFiles PROVE CloneInv'
  <2>1. clone' \in Copied
    BY <1>0, <1>10 DEF CopyFiles, Copied, CloneTypeOK
  <2> QED BY <1>10, <2>1, CloneAssumption DEF CopyFiles, CloneInv, CloneTypeOK, Replaced, Revoked
<1>11. ASSUME Mint PROVE CloneInv'
  <2>1. Issued(clone) \in [password : Marked, signing : Marked]
    BY <1>0, <1>11 DEF Mint, Issued, Copied
  <2> QED BY <1>11, <2>1 DEF Mint, CloneInv, CloneTypeOK, Replaced, Revoked
<1>12. ASSUME Login PROVE CloneInv'
  <2>1. Issued(clone) \in [password : Marked, signing : Marked]
    BY <1>0, <1>12 DEF Login, Issued, Copied
  <2>2. Replaced(clone, "rotate", todo)
    BY <1>0, <1>12 DEF Login, Replaced
  <2> QED BY <1>12, <2>1, <2>2 DEF Login, CloneInv, CloneTypeOK, Revoked
<1>13. ASSUME CloneReceipt PROVE CloneInv'
  <2>1. clone \in Copied /\ Revoked(clone)
    BY <1>0, <1>13, ReplacedIsRevoked DEF CloneReceipt
  <2> QED BY <1>13, <2>1 DEF CloneReceipt, CloneInv, CloneTypeOK, Replaced, Revoked
<1>14. ASSUME VerifyClone PROVE CloneInv'
  <2>1. verified' = prepared /\ prepared # None /\ prepared = clone
    BY <1>14 DEF VerifyClone, VerifyPrepared
  <2> QED BY <1>14, <2>1 DEF VerifyClone, CloneInv, CloneTypeOK, Replaced, Revoked
<1>17. ASSUME PackClone PROVE CloneInv'
  BY <1>17 DEF PackClone, CloneInv, CloneTypeOK, Replaced, Revoked
<1>15. ASSUME TouchSource PROVE CloneInv'
  BY <1>15, CloneAssumption DEF TouchSource, CloneInv, CloneTypeOK, Replaced, Revoked
<1>16. ASSUME StartClone PROVE CloneInv'
  <2>1. clone \in Copied /\ step \in {"idle", "pack"}
    BY <1>0, <1>16 DEF StartClone, CloneTypeOK
  <2>2. clone' \in Copied
    BY <1>0, <1>16, <2>1, Replacing DEF StartClone
  <2> QED BY <1>16, <2>1, <2>2, CloneAssumption
          DEF StartClone, CloneInv, CloneTypeOK, Replaced, Revoked
<1> QED BY <1>1, <1>2, <1>3, <1>4, <1>5, <1>6, <1>7, <1>8, <1>9, <1>10, <1>11, <1>12, <1>13,
           <1>14, <1>15, <1>16, <1>17 DEF CloneNext

-----------------------------------------------------------------------------
(* The cutover as a whole. *)

LEMMA TypesSplit == TypeOK <=> RecoveryTypeOK /\ CloneTypeOK /\ ProductionType
BY DEF TypeOK, ProductionType

LEMMA InitHolds == Init => ProductionInv /\ CloneInv
<1> SUFFICES ASSUME Init PROVE ProductionInv /\ CloneInv
  OBVIOUS
<1>1. RecoveryTypeOK /\ ProductionType
  <2>1. RecoveryTypeOK
    BY RecoveryAssumption DEF Init, RecoveryInit, RecoveryTypeOK, Bucket
  <2>2. data \in Data
    BY DEF Init, Data
  <2> QED BY <2>1, <2>2 DEF Init, ProductionType, Container
<1>2. /\ CaptureSound /\ CheckpointSound /\ PhaseSound /\ MigrationSound /\ RecoverySound
      /\ VerificationSound
  BY DEF Init, RecoveryInit, CaptureSound, CheckpointSound, PhaseSound, MigrationSound,
     RecoverySound, VerificationSound, Container, CaptureStep, MigrateStep, ActivateStep, ThawStep
<1>3. CloneInv
  BY CloneAssumption DEF Init, CloneInit, CloneInv, CloneTypeOK, Replaced
<1> QED BY <1>1, <1>2, <1>3 DEF ProductionInv

LEMMA StepHolds == ProductionInv /\ CloneInv /\ [Next]_vars => ProductionInv' /\ CloneInv'
<1> SUFFICES ASSUME ProductionInv, CloneInv, [Next]_vars PROVE ProductionInv' /\ CloneInv'
  OBVIOUS
<1>1. ASSUME UNCHANGED cloneVars PROVE CloneInv'
  BY <1>1 DEF cloneVars, CloneInv, CloneTypeOK, Replaced, Revoked
<1>2. ASSUME UNCHANGED <<cutoverVars, recoveryVars>> PROVE ProductionInv'
  BY <1>2 DEF cutoverVars, recoveryVars, ProductionInv, RecoveryTypeOK, ProductionType,
     CaptureSound, CheckpointSound, PhaseSound, MigrationSound, RecoverySound, VerificationSound,
     RecoveryVerified, Running
<1>3. CASE UNCHANGED vars
  BY <1>1, <1>2, <1>3 DEF vars
<1>4. CASE ProductionNext /\ UNCHANGED cloneVars
  BY <1>1, <1>4, WorldKeeps
<1>5. CASE RecoveryNext /\ UNCHANGED <<cutoverVars, cloneVars>>
  BY <1>1, <1>5, RecoveryKeeps
<1>6. CASE CloneNext /\ UNCHANGED <<cutoverVars, recoveryVars>>
  BY <1>2, <1>6, CloneKeeps
<1> QED BY <1>3, <1>4, <1>5, <1>6 DEF Next

LEMMA InvariantsHold == Spec => [](ProductionInv /\ CloneInv)
BY InitHolds, StepHolds, PTL DEF Spec

\* The tools, the packages and the clone keep their types.
THEOREM CutoverTypes == Spec => []TypeOK
<1>1. ProductionInv /\ CloneInv => TypeOK
  BY TypesSplit DEF ProductionInv, CloneInv
<1> QED BY <1>1, InvariantsHold, PTL

\* From the receipt to the thaw the captured copy and its archive hold everything the
\* volume does, whatever failed, was killed or restarted.
THEOREM CheckpointStays == Spec => []CheckpointKept
<1>1. ProductionInv => CheckpointKept
  BY RecoveryAssumption DEF ProductionInv, CheckpointSound, CheckpointKept
<1> QED BY <1>1, InvariantsHold, PTL

\* The volume is changed only when the capture at hand was verified to come back, with
\* its originals: a recovery of an earlier capture does not serve.
THEOREM MigrationsCanReturn == Spec => []MigratedRecoverable
<1>1. ProductionInv => MigratedRecoverable
  <2> SUFFICES ASSUME ProductionInv, data.schema = "new" \/ "activation" \in files
               PROVE  /\ verification # None /\ verification.package.data = saved
                      /\ saved.schema = "old"
                      /\ \A o \in saved.refs : verification.package.objects[o] = "intact"
    BY DEF MigratedRecoverable
  <2>1. "activation" \in files
    BY DEF ProductionInv, MigrationSound
  <2>2. RecoveryVerified /\ saved.schema = "old" /\ "receipt" \in files
    BY <2>1 DEF ProductionInv, MigrationSound
  <2> QED BY <2>2 DEF ProductionInv, VerificationSound, RecoveryVerified, DataValid
<1> QED BY <1>1, InvariantsHold, PTL

\* What a rehearsal serves, as it was verified, admits nobody whom the source would.
THEOREM ClonesAreRevoked == Spec => []CloneRevoked
<1>1. CloneInv => CloneRevoked
  BY DEF CloneInv, Revoked, CloneRevoked
<1> QED BY <1>1, InvariantsHold, PTL
=============================================================================
