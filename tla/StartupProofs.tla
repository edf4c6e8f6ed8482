--------------------------- MODULE StartupProofs ---------------------------
(* What a container's start promises, proved for any originals, environments *)
(* and number of faults, whenever the container is killed.                   *)
(*                                                                           *)
(* StagedSound, ChecksSound and ModeSound say what each step of the          *)
(* preparation has established when the next one begins, so that a server    *)
(* that opens has been through all of them (ServesSound); Descends says      *)
(* that the volume's database is always a later state of what the replica    *)
(* holds, so that synchronizing never sets the replica back.                 *)
EXTENDS Startup, TLAPS

\* A database in the volume continues the one in the replica.
Descends ==
  replica # None /\ vol.db # None =>
    vol.db.origin = replica.origin /\ replica.refs \subseteq vol.db.refs

\* While a restore is staged the volume is empty and thawed, and the restore complete.
StagedSound ==
  /\ pc \notin {"restoring", "verify", "verifying", "install"} => staged = None
  /\ pc = "restoring" => staged # None /\ replica # None
  /\ pc \in {"restore", "restoring", "mark", "migrate"} => vol.db = None /\ ~vol.frozen
  /\ pc \in {"mark", "migrate", "migrating"} => replica = None
  /\ pc = "migrating" => vol.db # None /\ ~vol.frozen
  /\ pc \in {"verify", "verifying", "install"} /\ staged # None =>
       staged = replica /\ vol.db = None /\ ~vol.frozen
  /\ pc \in {"verify", "verifying"} /\ staged = None => vol.db # None
  /\ pc = "install" => staged # None

\* What the checks have established.
ChecksSound ==
  /\ pc = "verifying" =>
       /\ Subject.whole /\ (vol.frozen => Subject.s3 = env)
       /\ Subject.refs \subseteq todo \cup checked
  /\ pc = "install" => staged.whole /\ staged.refs \subseteq checked
  /\ pc \in {"provision", "finish", "sync", "boot"} =>
       /\ vol.db # None /\ vol.db.whole /\ vol.db.refs \subseteq checked
       /\ vol.frozen => vol.db.s3 = env

\* An initialization ends before anything is served.
ModeSound ==
  /\ pc \in {"restoring", "sync", "boot", "serving"} => mode = "start"
  /\ mode = "start" /\ pc # "down" => ~vol.pending
  /\ pc \in {"mark", "migrate", "migrating"} => mode = "init"

ServesSound ==
  /\ pc = "boot" => replica = vol.db
  /\ pc = "serving" =>
       /\ vol.db # None /\ vol.db.whole /\ vol.db.s3 = env
       /\ vol.db.refs \subseteq checked
       /\ replica # None /\ opened \subseteq replica.refs /\ opened \subseteq vol.db.refs

StInv == TypeOK /\ Descends /\ StagedSound /\ ChecksSound /\ ModeSound /\ ServesSound

---------------------------------------------------------------------------

LEMMA VolumeFields ==
  ASSUME NEW v \in Volume
  PROVE  /\ v.db \in Database \cup {None} /\ v.litter \subseteq {"files", "staging"}
         /\ v.pending \in BOOLEAN /\ v.frozen \in BOOLEAN /\ v.local \subseteq Original
         /\ \A db \in Database \cup {None} :
              /\ [v EXCEPT !.db = db] \in Volume
              /\ [v EXCEPT !.db = db].db = db
              /\ [v EXCEPT !.db = db].frozen = v.frozen
              /\ [v EXCEPT !.db = db].pending = v.pending
BY DEF Volume

LEMMA DatabaseFields ==
  ASSUME NEW db \in Database
  PROVE  /\ db.origin \in 0 .. MaxInits /\ db.whole \in BOOLEAN /\ db.refs \subseteq Original
         /\ db.s3 \in Config \cup {None} /\ db.operator \in {0, 1} /\ db # None
BY StartupAssumption DEF Database

\* Booting a server changes nothing but the storage settings.
LEMMA BootedFields ==
  ASSUME TypeOK, NEW db \in Database
  PROVE  /\ Booted(db) \in Database /\ Booted(db).whole = db.whole
         /\ Booted(db).origin = db.origin /\ Booted(db).refs = db.refs
         /\ ~vol.frozen => Booted(db).s3 = env
         /\ vol.frozen => Booted(db) = db
BY DEF Booted, Database, TypeOK

\* The steps that only replace the volume's database.
Replaces(db) == vol' = [vol EXCEPT !.db = db]

LEMMA ReplacesFields ==
  ASSUME TypeOK, NEW db \in Database, Replaces(db)
  PROVE  /\ vol' \in Volume /\ vol'.db = db /\ vol'.db # None
         /\ vol'.frozen = vol.frozen /\ vol'.pending = vol.pending
BY VolumeFields, DatabaseFields DEF Replaces, TypeOK

LEMMA StartKeeps ==
  ASSUME StInv, NEW m \in {"start", "init"}, Start(m)
  PROVE  StInv'
<1>1. /\ inits' \in 0 .. MaxInits /\ mode' = m /\ checked' = {} /\ pc = "down"
      /\ pc' = (IF vol.db = None THEN "restore" ELSE "verify") /\ ~vol.pending
      /\ vol.frozen => vol.db # None
      /\ UNCHANGED <<vol, replica, bucket, env, staged, todo, opened, faults>>
  BY StartupAssumption DEF Start, Admitted, Goto, StInv, TypeOK
<1>2. TypeOK'
  BY <1>1 DEF StInv, TypeOK
<1> QED BY <1>1, <1>2 DEF StInv, Descends, StagedSound, ChecksSound, ModeSound, ServesSound, Subject

\* A process that ends leaves the volume as it is.
LEMMA StopKeeps ==
  ASSUME StInv, pc' = "down", staged' = None, todo' = {}, vol' = vol, faults' \in 0 .. MaxFaults,
         UNCHANGED <<checked, opened, replica, bucket, env, mode, inits>>
  PROVE  StInv'
BY DEF StInv, TypeOK, Descends, StagedSound, ChecksSound, ModeSound, ServesSound

LEMMA RestoreKeeps ==
  ASSUME StInv, Restore \/ RestoreDone
  PROVE  StInv'
<1>0. TypeOK /\ Descends /\ StagedSound /\ ChecksSound /\ ModeSound /\ ServesSound
  BY DEF StInv
<1>1. ASSUME Stop, Inside, UNCHANGED faults
      PROVE  StInv'
  <2>1. faults' \in 0 .. MaxFaults
    BY <1>0, <1>1 DEF TypeOK
  <2> QED BY <1>1, <2>1, StopKeeps DEF Stop, Goto, Inside
<1>2. CASE /\ pc = "restore" /\ mode = "init" /\ ~InitRefused /\ pc' = "mark"
           /\ UNCHANGED <<vol, staged, todo, checked, opened, faults>> /\ Inside
  <2>1. TypeOK'
    BY <1>0, <1>2 DEF TypeOK, Inside
  <2> QED BY <1>0, <1>2, <2>1 DEF StInv, Descends, StagedSound, ChecksSound, ModeSound,
                                  ServesSound, Subject, Inside, InitRefused
<1>3. CASE /\ pc = "restore" /\ mode = "start" /\ replica # None /\ pc' = "restoring"
           /\ staged' = [replica EXCEPT !.whole = FALSE]
           /\ UNCHANGED <<vol, todo, checked, opened, faults>> /\ Inside
  <2>1. staged' \in Database
    BY <1>0, <1>3 DEF TypeOK, Database
  <2>2. TypeOK' /\ staged' # None
    BY <1>0, <1>3, <2>1, DatabaseFields DEF TypeOK, Inside
  <2> QED BY <1>0, <1>3, <2>2 DEF StInv, Descends, StagedSound, ChecksSound, ModeSound,
                                  ServesSound, Subject, Inside
<1>4. CASE RestoreDone
  <2>1. /\ pc = "restoring" /\ pc' = "verify" /\ staged' = replica
        /\ UNCHANGED <<vol, todo, checked, opened, faults, replica, bucket, env, mode, inits>>
    BY <1>4 DEF RestoreDone, Goto, Inside
  <2>2. TypeOK'
    BY <1>0, <2>1 DEF TypeOK
  <2> QED BY <1>0, <2>1, <2>2 DEF StInv, Descends, StagedSound, ChecksSound, ModeSound,
                                  ServesSound, Subject
<1>5. Restore => \/ Stop /\ Inside /\ UNCHANGED faults
                 \/ /\ pc = "restore" /\ mode = "init" /\ ~InitRefused /\ pc' = "mark"
                    /\ UNCHANGED <<vol, staged, todo, checked, opened, faults>> /\ Inside
                 \/ /\ pc = "restore" /\ mode = "start" /\ replica # None /\ pc' = "restoring"
                    /\ staged' = [replica EXCEPT !.whole = FALSE]
                    /\ UNCHANGED <<vol, todo, checked, opened, faults>> /\ Inside
  BY DEF Restore, Goto
<1> QED BY <1>1, <1>2, <1>3, <1>4, <1>5

LEMMA InitializeKeeps ==
  ASSUME StInv, Mark \/ Migrate \/ MigrateDone
  PROVE  StInv'
<1>0. TypeOK /\ Descends /\ StagedSound /\ ChecksSound /\ ModeSound /\ ServesSound
  BY DEF StInv
<1>i. UNCHANGED <<staged, todo, checked, opened, faults, replica, bucket, env, mode, inits>>
  BY DEF Mark, Migrate, MigrateDone, Inside
<1>1. CASE Mark
  <2>1. /\ pc = "mark" /\ pc' = "migrate" /\ vol' \in Volume
        /\ vol'.db = vol.db /\ vol'.frozen = vol.frozen
    BY <1>0, <1>1 DEF Mark, Goto, TypeOK, Volume
  <2>2. TypeOK'
    BY <1>0, <1>i, <2>1 DEF TypeOK
  <2> QED BY <1>0, <1>i, <2>1, <2>2 DEF StInv, Descends, StagedSound, ChecksSound, ModeSound,
                                        ServesSound, Subject
<1>2. CASE Migrate
  <2>1. PICK db : db = [origin |-> inits, whole |-> FALSE, refs |-> {}, s3 |-> None, operator |-> 0]
    OBVIOUS
  <2>2. db \in Database
    BY <1>0, <2>1 DEF TypeOK, Database
  <2>3. pc = "migrate" /\ pc' = "migrating" /\ Replaces(db)
    BY <1>2, <2>1 DEF Migrate, Goto, Replaces
  <2>4. vol' \in Volume /\ vol'.db = db /\ vol'.db # None /\ vol'.frozen = vol.frozen
    BY <1>0, <2>2, <2>3, ReplacesFields
  <2>5. TypeOK'
    BY <1>0, <1>i, <2>3, <2>4 DEF TypeOK
  <2> QED BY <1>0, <1>i, <2>3, <2>4, <2>5 DEF StInv, Descends, StagedSound, ChecksSound, ModeSound,
                                        ServesSound, Subject
<1>3. CASE MigrateDone
  <2>1. PICK old : old = [vol.db EXCEPT !.whole = TRUE]
    OBVIOUS
  <2>2. vol.db \in Database /\ ~vol.frozen /\ pc = "migrating"
    BY <1>0, <1>3 DEF MigrateDone, StagedSound, TypeOK, Volume
  <2>3. old \in Database /\ old.origin = vol.db.origin /\ old.refs = vol.db.refs /\ old.whole
    BY <2>1, <2>2 DEF Database
  <2>4. pc' = "verify" /\ Replaces(Booted(old))
    BY <1>3, <2>1 DEF MigrateDone, Goto, Replaces
  <2>5. Booted(old) \in Database
    BY <1>0, <2>3, BootedFields
  <2>6. vol' \in Volume /\ vol'.db = Booted(old) /\ vol'.db # None /\ vol'.frozen = vol.frozen
    BY <1>0, <2>4, <2>5, ReplacesFields
  <2>7. TypeOK'
    BY <1>0, <1>i, <2>4, <2>6 DEF TypeOK
  <2> QED BY <1>0, <1>i, <2>2, <2>4, <2>6, <2>7
          DEF StInv, Descends, StagedSound, ChecksSound, ModeSound, ServesSound, Subject
<1> QED BY <1>1, <1>2, <1>3

LEMMA VerifyKeeps ==
  ASSUME StInv, Verify \/ Verified \/ \E o \in Original : VerifyOne(o)
  PROVE  StInv'
<1>0. TypeOK /\ Descends /\ StagedSound /\ ChecksSound /\ ModeSound /\ ServesSound
  BY DEF StInv
<1>1. ASSUME Stop, Inside, UNCHANGED faults
      PROVE  StInv'
  <2>1. faults' \in 0 .. MaxFaults
    BY <1>0, <1>1 DEF TypeOK
  <2> QED BY <1>1, <2>1, StopKeeps DEF Stop, Goto, Inside
<1>2. CASE Verify /\ Subject.whole /\ StorageMatches
  <2>1. /\ pc = "verify" /\ pc' = "verifying" /\ todo' = Subject.refs
        /\ UNCHANGED <<vol, staged, checked, opened, faults, replica, bucket, env, mode, inits>>
    BY <1>2 DEF Verify, Goto, Inside
  <2>2. Subject \in Database
    BY <1>0, <2>1 DEF Subject, StagedSound, TypeOK, Volume
  <2>3. TypeOK'
    BY <1>0, <2>1, <2>2, DatabaseFields DEF TypeOK
  <2> QED BY <1>0, <1>2, <2>1, <2>3 DEF StInv, Descends, StagedSound, ChecksSound, ModeSound,
                                        ServesSound, Subject, StorageMatches
<1>3. CASE Verify /\ ~(Subject.whole /\ StorageMatches)
  BY <1>1, <1>3 DEF Verify
<1>4. ASSUME NEW o \in Original, VerifyOne(o)
      PROVE  StInv'
  <2>1. CASE bucket[env][o] = "intact"
    <3>1. /\ pc = "verifying" /\ o \in todo /\ todo' = todo \ {o} /\ checked' = checked \cup {o}
          /\ UNCHANGED <<vol, staged, opened, pc, faults, replica, bucket, env, mode, inits>>
      BY <1>4, <2>1 DEF VerifyOne, Inside
    <3>2. TypeOK'
      BY <1>0, <3>1 DEF TypeOK
    <3> QED BY <1>0, <3>1, <3>2 DEF StInv, Descends, StagedSound, ChecksSound, ModeSound,
                                    ServesSound, Subject
  <2>2. CASE bucket[env][o] # "intact"
    BY <1>1, <1>4, <2>2 DEF VerifyOne
  <2> QED BY <2>1, <2>2
<1>5. CASE Verified
  <2>1. /\ pc = "verifying" /\ todo = {} /\ pc' = IF staged # None THEN "install" ELSE "provision"
        /\ UNCHANGED <<vol, staged, todo, checked, opened, faults, replica, bucket, env, mode, inits>>
    BY <1>5 DEF Verified, Goto, Inside
  <2>2. TypeOK'
    BY <1>0, <2>1 DEF TypeOK
  <2> QED BY <1>0, <2>1, <2>2 DEF StInv, Descends, StagedSound, ChecksSound, ModeSound,
                                  ServesSound, Subject
<1> QED BY <1>2, <1>3, <1>4, <1>5

LEMMA FinishKeeps ==
  ASSUME StInv, Install \/ Provision \/ Finish
  PROVE  StInv'
<1>0. TypeOK /\ Descends /\ StagedSound /\ ChecksSound /\ ModeSound /\ ServesSound
  BY DEF StInv
<1>i. UNCHANGED <<todo, checked, opened, faults, replica, bucket, env, mode, inits>>
  BY DEF Install, Provision, Finish, Inside
<1>1. CASE Install
  <2>1. pc = "install" /\ pc' = "provision" /\ staged' = None /\ Replaces(staged)
    BY <1>1 DEF Install, Goto, Replaces
  <2>2. staged \in Database /\ staged = replica /\ ~vol.frozen
    BY <1>0, <2>1 DEF StagedSound, TypeOK
  <2>3. vol' \in Volume /\ vol'.db = staged /\ vol'.db # None
        /\ vol'.frozen = vol.frozen /\ vol'.pending = vol.pending
    BY <1>0, <2>1, <2>2, ReplacesFields
  <2>4. TypeOK'
    BY <1>0, <1>i, <2>1, <2>3 DEF TypeOK
  <2> QED BY <1>0, <1>i, <2>1, <2>2, <2>3, <2>4
          DEF StInv, Descends, StagedSound, ChecksSound, ModeSound, ServesSound
<1>2. CASE Provision
  <2>1. /\ pc = "provision" /\ pc' = "finish" /\ staged' = staged
        /\ vol.db \in Database
    BY <1>0, <1>2 DEF Provision, Goto, ChecksSound, TypeOK, Volume
  <2>2. CASE vol' = vol
    <3>1. TypeOK'
      BY <1>0, <1>i, <2>1, <2>2 DEF TypeOK
    <3> QED BY <1>0, <1>i, <2>1, <2>2, <3>1
            DEF StInv, Descends, StagedSound, ChecksSound, ModeSound, ServesSound
  <2>3. CASE ~vol.frozen /\ vol' = [vol EXCEPT !.db = [Booted(vol.db) EXCEPT !.operator = 1 - @]]
    <3>1. PICK booted : booted = Booted(vol.db)
      OBVIOUS
    <3>2. PICK db : db = [booted EXCEPT !.operator = 1 - @]
      OBVIOUS
    <3>3. /\ booted \in Database /\ booted.whole = vol.db.whole
          /\ booted.origin = vol.db.origin /\ booted.refs = vol.db.refs
      BY <1>0, <2>1, <3>1, BootedFields
    <3>4. /\ db \in Database /\ db.whole = vol.db.whole
          /\ db.origin = vol.db.origin /\ db.refs = vol.db.refs
      BY <3>2, <3>3 DEF Database
    <3>5. Replaces(db)
      BY <2>3, <3>1, <3>2 DEF Replaces
    <3>6. vol' \in Volume /\ vol'.db = db /\ vol'.db # None
          /\ vol'.frozen = vol.frozen /\ vol'.pending = vol.pending
      BY <1>0, <3>4, <3>5, ReplacesFields
    <3>7. TypeOK'
      BY <1>0, <1>i, <2>1, <3>6 DEF TypeOK
    <3> QED BY <1>0, <1>i, <2>1, <2>3, <3>4, <3>6, <3>7
            DEF StInv, Descends, StagedSound, ChecksSound, ModeSound, ServesSound
  <2> QED BY <1>2, <2>2, <2>3 DEF Provision
<1>3. CASE Finish
  <2>1. /\ pc = "finish" /\ pc' = (IF mode = "init" THEN "down" ELSE "sync") /\ staged' = staged
        /\ vol' = [vol EXCEPT !.pending = FALSE] /\ mode \in {"start", "init"}
    BY <1>0, <1>3 DEF Finish, Goto, TypeOK
  <2>2. vol' \in Volume /\ vol'.db = vol.db /\ vol'.frozen = vol.frozen /\ ~vol'.pending
    BY <1>0, <2>1 DEF TypeOK, Volume
  <2>3. TypeOK'
    BY <1>0, <1>i, <2>1, <2>2 DEF TypeOK
  <2> QED BY <1>0, <1>i, <2>1, <2>2, <2>3
          DEF StInv, Descends, StagedSound, ChecksSound, ModeSound, ServesSound
<1> QED BY <1>1, <1>2, <1>3
LEMMA ServeKeeps ==
  ASSUME StInv, Sync \/ Boot \/ Replicate \/ Maintain \/ \E o \in Original : Ingest(o)
  PROVE  StInv'
<1>0. TypeOK /\ Descends /\ StagedSound /\ ChecksSound /\ ModeSound /\ ServesSound
  BY DEF StInv
<1>1. CASE Sync
  <2>1. /\ pc = "sync" /\ pc' = "boot" /\ replica' = vol.db
        /\ UNCHANGED <<vol, bucket, env, mode, staged, todo, checked, opened, inits, faults>>
    BY <1>1 DEF Sync, Goto
  <2>2. TypeOK'
    BY <1>0, <2>1 DEF TypeOK, Volume
  <2> QED BY <1>0, <2>1, <2>2 DEF StInv, Descends, StagedSound, ChecksSound, ModeSound, ServesSound
<1>2. CASE Boot
  <2>1. /\ pc = "boot" /\ pc' = "serving" /\ opened' = vol.db.refs /\ Replaces(Booted(vol.db))
        /\ UNCHANGED <<staged, todo, checked, faults, replica, bucket, env, mode, inits>>
    BY <1>2 DEF Boot, Goto, Inside, Replaces
  <2>2. vol.db \in Database /\ (vol.frozen => vol.db.s3 = env) /\ replica = vol.db
        /\ vol.db.whole /\ vol.db.refs \subseteq checked
    BY <1>0, <2>1 DEF ChecksSound, ServesSound, TypeOK, Volume
  <2>3. PICK db \in Database : db = Booted(vol.db)
    BY <1>0, <2>2, BootedFields
  <2>4. db.whole = vol.db.whole /\ db.origin = vol.db.origin /\ db.refs = vol.db.refs /\ db.s3 = env
    BY <1>0, <2>2, <2>3, BootedFields DEF TypeOK, Volume
  <2>5. vol' \in Volume /\ vol'.db = db /\ vol'.db # None
        /\ vol'.frozen = vol.frozen /\ vol'.pending = vol.pending
    BY <1>0, <2>1, <2>3, ReplacesFields
  <2>6. opened' \subseteq Original
    BY <2>1, <2>2, DatabaseFields
  <2>7. TypeOK'
    BY <1>0, <2>1, <2>5, <2>6 DEF TypeOK
  <2> QED BY <1>0, <2>1, <2>2, <2>4, <2>5, <2>7
          DEF StInv, Descends, StagedSound, ChecksSound, ModeSound, ServesSound
<1>3. CASE Replicate
  <2>1. /\ pc = "serving" /\ replica' = vol.db
        /\ UNCHANGED <<vol, bucket, env, pc, mode, staged, todo, checked, opened, inits, faults>>
    BY <1>3 DEF Replicate
  <2>2. TypeOK'
    BY <1>0, <2>1 DEF TypeOK, Volume
  <2> QED BY <1>0, <2>1, <2>2 DEF StInv, Descends, StagedSound, ChecksSound, ModeSound, ServesSound
<1>4. CASE Maintain
  <2>1. /\ pc = "serving" /\ vol' = [vol EXCEPT !.frozen = ~vol.frozen]
        /\ UNCHANGED <<replica, bucket, env, pc, mode, staged, todo, checked, opened, inits, faults>>
    BY <1>4 DEF Maintain
  <2>2. vol' \in Volume /\ vol'.db = vol.db /\ vol'.pending = vol.pending
    BY <1>0, <2>1 DEF TypeOK, Volume
  <2>3. TypeOK'
    BY <1>0, <2>1, <2>2 DEF TypeOK
  <2> QED BY <1>0, <2>1, <2>2, <2>3
          DEF StInv, Descends, StagedSound, ChecksSound, ModeSound, ServesSound
<1>5. ASSUME NEW o \in Original, Ingest(o)
      PROVE  StInv'
  <2>1. /\ pc = "serving" /\ checked' = checked \cup {o}
        /\ bucket' = [bucket EXCEPT ![vol.db.s3][o] = "intact"]
        /\ vol' = [vol EXCEPT !.db.refs = @ \cup {o}]
        /\ UNCHANGED <<replica, env, pc, mode, staged, todo, opened, inits, faults>>
    BY <1>5 DEF Ingest
  <2>2. PICK db : db = [vol.db EXCEPT !.refs = @ \cup {o}]
    OBVIOUS
  <2>3. vol.db \in Database
    BY <1>0, <2>1 DEF ServesSound, TypeOK, Volume
  <2>4. /\ db \in Database /\ db.whole = vol.db.whole /\ db.origin = vol.db.origin
        /\ db.refs = vol.db.refs \cup {o} /\ db.s3 = vol.db.s3
    BY <2>2, <2>3 DEF Database
  <2>5. Replaces(db)
    BY <2>1, <2>2 DEF Replaces
  <2>6. vol' \in Volume /\ vol'.db = db /\ vol'.db # None
        /\ vol'.frozen = vol.frozen /\ vol'.pending = vol.pending
    BY <1>0, <2>4, <2>5, ReplacesFields
  <2>7. bucket' \in [Config -> [Original -> Object]]
    BY <1>0, <2>1 DEF TypeOK, Object
  <2>8. TypeOK'
    BY <1>0, <2>1, <2>6, <2>7 DEF TypeOK
  <2> QED BY <1>0, <2>1, <2>4, <2>6, <2>8
          DEF StInv, Descends, StagedSound, ChecksSound, ModeSound, ServesSound
<1> QED BY <1>1, <1>2, <1>3, <1>4, <1>5

LEMMA FaultsKeep ==
  ASSUME StInv,
         \/ Kill \/ CommandFails \/ Reconfigure \/ ReplaceVolume \/ LoseDatabase
         \/ \E c \in Config, o \in Original : DamageObject(c, o)
         \/ \E o \in Original : CopyFile(o)
  PROVE  StInv'
<1>0. TypeOK /\ Descends /\ StagedSound /\ ChecksSound /\ ModeSound /\ ServesSound
  BY DEF StInv
<1>f. Fault => faults' \in 0 .. MaxFaults
  BY <1>0, StartupAssumption DEF Fault, TypeOK
<1>1. CASE Kill
  <2>1. vol' = vol
    BY <1>1 DEF Kill, LeftBy
  <2> QED BY <1>1, <1>f, <2>1, StopKeeps DEF Kill, Goto, Inside
<1>2. CASE CommandFails
  BY <1>2, <1>f, StopKeeps DEF CommandFails, Stop, Goto, Inside
<1>3. CASE Reconfigure
  <2>1. /\ env' \in Config /\ pc = "down" /\ faults' \in 0 .. MaxFaults
        /\ UNCHANGED <<vol, replica, bucket, pc, mode, staged, todo, checked, opened, inits>>
    BY <1>3, <1>f DEF Reconfigure
  <2>2. TypeOK'
    BY <1>0, <2>1 DEF TypeOK
  <2> QED BY <1>0, <2>1, <2>2 DEF StInv, Descends, StagedSound, ChecksSound, ModeSound, ServesSound
<1>4. CASE ReplaceVolume \/ LoseDatabase
  <2>1. vol' \in Volume /\ vol'.db = None
    <3>1. EmptyVolume \in Volume /\ EmptyVolume.db = None
      BY DEF EmptyVolume, Volume
    <3>2. [vol EXCEPT !.db = None, !.litter = @ \cup {"files"}] \in Volume
          /\ [vol EXCEPT !.db = None, !.litter = @ \cup {"files"}].db = None
      BY <1>0 DEF TypeOK, Volume
    <3> QED BY <1>4, <3>1, <3>2 DEF ReplaceVolume, LoseDatabase
  <2>2. /\ pc = "down" /\ faults' \in 0 .. MaxFaults
        /\ UNCHANGED <<replica, bucket, env, mode, inits, pc, staged, todo, checked, opened>>
    BY <1>4, <1>f DEF ReplaceVolume, LoseDatabase, Inside
  <2>3. TypeOK'
    BY <1>0, <2>1, <2>2 DEF TypeOK
  <2> QED BY <1>0, <2>1, <2>2, <2>3
          DEF StInv, Descends, StagedSound, ChecksSound, ModeSound, ServesSound
<1>5. ASSUME bucket' \in [Config -> [Original -> Object]], faults' \in 0 .. MaxFaults,
             UNCHANGED <<vol, replica, env, pc, mode, staged, todo, checked, opened, inits>>
      PROVE  StInv'
  <2>1. TypeOK'
    BY <1>0, <1>5 DEF TypeOK
  <2> QED BY <1>0, <1>5, <2>1
          DEF StInv, Descends, StagedSound, ChecksSound, ModeSound, ServesSound, Subject
<1>6. ASSUME NEW c \in Config, NEW o \in Original, DamageObject(c, o)
      PROVE  StInv'
  <2>1. bucket' \in [Config -> [Original -> Object]]
    <3>1. PICK s \in Object : bucket' = [bucket EXCEPT ![c][o] = s]
      BY <1>6 DEF DamageObject
    <3> QED BY <1>0, <3>1 DEF TypeOK
  <2> QED BY <1>5, <1>6, <1>f, <2>1 DEF DamageObject
<1>7. ASSUME NEW o \in Original, CopyFile(o)
      PROVE  StInv'
  <2>1. bucket' \in [Config -> [Original -> Object]] /\ faults' \in 0 .. MaxFaults
    BY <1>0, <1>7 DEF CopyFile, TypeOK, Object
  <2> QED BY <1>5, <1>7, <2>1 DEF CopyFile
<1> QED BY <1>1, <1>2, <1>3, <1>4, <1>6, <1>7

LEMMA InvariantHolds == Spec => []StInv
<1>1. Init => StInv
  <2> SUFFICES ASSUME Init
               PROVE  StInv
    OBVIOUS
  <2>1. EmptyVolume \in Volume
    BY DEF EmptyVolume, Volume
  <2>2. vol \in Volume
    <3>1. PICK refs \in SUBSET Original :
            vol \in {EmptyVolume,
                     [EmptyVolume EXCEPT
                        !.db = [origin |-> 0, whole |-> TRUE, refs |-> refs, s3 |-> None,
                                operator |-> 0],
                        !.local = refs]}
      BY DEF Init
    <3>2. [origin |-> 0, whole |-> TRUE, refs |-> refs, s3 |-> None, operator |-> 0] \in Database
      BY StartupAssumption DEF Database
    <3> QED BY <2>1, <3>1, <3>2 DEF Volume
  <2>3. TypeOK
    BY <2>2, StartupAssumption DEF Init, TypeOK, Object
  <2> QED BY <2>3 DEF Init, StInv, Descends, StagedSound, ChecksSound, ModeSound, ServesSound
<1>2. StInv /\ [Next]_vars => StInv'
  <2>1. StInv /\ UNCHANGED vars => StInv'
    BY DEF vars, StInv, TypeOK, Descends, StagedSound, ChecksSound, ModeSound, ServesSound, Subject
  <2>2. ASSUME StInv, Next
        PROVE  StInv'
    BY <2>2, StartKeeps, RestoreKeeps, InitializeKeeps, VerifyKeeps, FinishKeeps, ServeKeeps,
       FaultsKeep DEF Next, Prepare
  <2> QED BY <2>1, <2>2
<1> QED BY <1>1, <1>2, PTL DEF Spec

\* The volume, the replica and the container keep their shapes.
THEOREM StartupTypes == Spec => []TypeOK
<1>1. StInv => TypeOK
  BY DEF StInv
<1> QED BY <1>1, InvariantHolds, PTL

\* A server opens on a whole, finished database, with the object storage it was checked
\* against, and on originals that were all found there.
THEOREM ServesSafely == Spec => []ServedSafely
<1>1. StInv => ServedSafely
  BY DEF StInv, ServesSound, ModeSound, ServedSafely
<1> QED BY <1>1, InvariantHolds, PTL

\* The replica is never given to another database nor set back, whatever is restarted,
\* reinitialized or lost.
THEOREM ReplicaSurvives == Spec => ReplicaKept
<1>1. ASSUME StInv, [Next]_vars, replica # None
      PROVE  replica'.origin = replica.origin /\ replica.refs \subseteq replica'.refs
  <2>1. CASE Sync \/ Replicate
    <3>1. replica' = vol.db /\ vol.db # None
      BY <1>1, <2>1 DEF Sync, Replicate, StInv, ChecksSound, ServesSound
    <3> QED BY <1>1, <3>1 DEF StInv, Descends
  <2>2. CASE replica' = replica
    BY <2>2
  <2>3. Sync \/ Replicate \/ replica' = replica
    BY <1>1 DEF Next, vars, Prepare, Start, Restore, RestoreDone, Mark, Migrate, MigrateDone, Verify,
                VerifyOne, Verified, Install, Provision, Finish, Boot, Ingest, Maintain, Kill,
                CommandFails, Reconfigure, ReplaceVolume, LoseDatabase, DamageObject, CopyFile, Inside
  <2> QED BY <2>1, <2>2, <2>3
<1>2. StInv /\ [Next]_vars =>
        [replica # None => /\ replica'.origin = replica.origin
                           /\ replica.refs \subseteq replica'.refs]_vars
  BY <1>1
<1> QED BY <1>2, InvariantHolds, PTL DEF Spec, ReplicaKept

\* A frozen volume keeps its database, or loses the file, but never gets another.
THEOREM FrozenStays == Spec => FrozenUntouched
<1>1. ASSUME StInv, [Next]_vars, vol.frozen, vol'.frozen
      PROVE  vol'.db \in {vol.db, None}
  <2>0. vol \in Volume /\ StagedSound /\ TypeOK
    BY <1>1 DEF StInv, TypeOK
  <2>1. ~(Migrate \/ MigrateDone \/ Install \/ \E o \in Original : Ingest(o))
    BY <1>1, <2>0 DEF Migrate, MigrateDone, Install, Ingest, StagedSound
  <2>2. CASE Mark \/ Finish \/ Maintain \/ Boot
    <3>1. Mark \/ Finish \/ Maintain => vol'.db = vol.db
      BY <2>0 DEF Mark, Finish, Maintain, Volume
    <3>2. Boot => vol'.db = vol.db
      <4>1. Booted(vol.db) = vol.db
        BY <1>1 DEF Booted
      <4>2. Boot => vol' = [vol EXCEPT !.db = vol.db]
        BY <4>1 DEF Boot
      <4> QED BY <2>0, <4>2 DEF Volume
    <3> QED BY <2>2, <3>1, <3>2
  <2>3. CASE ReplaceVolume \/ LoseDatabase
    <3>1. ReplaceVolume => vol'.db = None
      BY DEF ReplaceVolume, EmptyVolume
    <3>2. LoseDatabase => vol'.db = None
      BY <2>0 DEF LoseDatabase, Volume
    <3> QED BY <2>3, <3>1, <3>2
  <2>4. CASE vol' = vol
    BY <2>4
  <2>5. Mark \/ Finish \/ Maintain \/ Boot \/ ReplaceVolume \/ LoseDatabase \/ vol' = vol
    BY <1>1, <2>1 DEF Next, vars, Prepare, Start, Stop, Restore, RestoreDone, Verify, VerifyOne,
                Verified, Provision, Sync, Replicate, Kill, LeftBy,
                CommandFails, Reconfigure, DamageObject, CopyFile, Inside
  <2> QED BY <2>2, <2>3, <2>4, <2>5
<1>2. StInv /\ [Next]_vars => [vol.frozen /\ vol'.frozen => vol'.db \in {vol.db, None}]_vars
  BY <1>1
<1> QED BY <1>2, InvariantHolds, PTL DEF Spec, FrozenUntouched

===========================================================================
