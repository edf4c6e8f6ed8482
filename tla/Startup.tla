------------------------------ MODULE Startup ------------------------------
(* The container of one installation: docker/entrypoint.py prepares the      *)
(* volume, Litestream replicates it and runs the server, and a container may *)
(* be killed between any two steps.  Litestream, the object storage and the  *)
(* server's own writes are external; pb_hooks/deploy.js copies the           *)
(* environment into the database whenever a server command boots, and        *)
(* tools/migrate_files.py fills the object storage from local files.         *)
EXTENDS Integers

CONSTANTS
  Original,    \* original files a source may refer to
  Config,      \* environments of the container; each names its own object storage
  None,        \* no database
  MaxInits,    \* bound on the attempts to initialize a volume
  MaxFaults    \* bound on kills, losses and failed external commands

Database == [origin: 0 .. MaxInits, whole: BOOLEAN, refs: SUBSET Original,
             s3: Config \cup {None}, operator: {0, 1}]

ASSUME StartupAssumption == /\ MaxInits \in Nat
                            /\ MaxFaults \in Nat
                            /\ None \notin Config /\ None \notin Database

VARIABLES
  vol,         \* the data directory and what survives the container in it
  replica,     \* the database Litestream could restore
  bucket,      \* per object storage, the state of each original
  env,         \* the container's environment
  pc, mode,    \* the container: its next step, and the command it was given
  staged,      \* the database restored beside the data directory
  todo,        \* originals still to be verified
  checked,     \* originals found intact since this container started
  opened,      \* what the database referred to when the server opened it
  inits, faults

vars == <<vol, replica, bucket, env, pc, mode, staged, todo, checked, opened,
          inits, faults>>

Object == {"absent", "intact", "damaged"}

Volume == [db: Database \cup {None}, litter: SUBSET {"files", "staging"}, pending: BOOLEAN,
           frozen: BOOLEAN, local: SUBSET Original]

EmptyVolume == [db |-> None, litter |-> {}, pending |-> FALSE,
                frozen |-> FALSE, local |-> {}]

\* The type invariant: the volume, the replica and the steps of the container.
TypeOK ==
  /\ vol \in Volume
  /\ replica \in Database \cup {None}
  /\ bucket \in [Config -> [Original -> Object]]
  /\ env \in Config
  /\ pc \in {"down", "restore", "restoring", "mark", "migrate", "migrating", "verify",
             "verifying", "install", "provision", "finish", "sync", "boot", "serving"}
  /\ mode \in {"start", "init"}
  /\ staged \in Database \cup {None}
  /\ todo \subseteq Original /\ checked \subseteq Original /\ opened \subseteq Original
  /\ inits \in 0 .. MaxInits /\ faults \in 0 .. MaxFaults

\* An empty volume, or an installation that kept its originals in local files.
Init ==
  /\ \E refs \in SUBSET Original :
       vol \in {EmptyVolume,
                [EmptyVolume EXCEPT
                   !.db = [origin |-> 0, whole |-> TRUE, refs |-> refs, s3 |-> None,
                           operator |-> 0],
                   !.local = refs]}
  /\ replica = None
  /\ bucket = [c \in Config |-> [o \in Original |-> "absent"]]
  /\ env \in Config
  /\ pc = "down" /\ mode = "start" /\ staged = None
  /\ todo = {} /\ checked = {} /\ opened = {} /\ inits = 0 /\ faults = 0

---------------------------------------------------------------------------
\* Preparation.

Goto(label) == pc' = label

\* A step of preparation leaves the world outside the container alone.
Inside == UNCHANGED <<replica, bucket, env, mode, inits>>

\* prepare refuses an unfinished initialization, a frozen volume without its
\* database, and the initialization of a directory that holds anything.
Admitted(m) ==
  /\ ~vol.pending
  /\ vol.frozen => m = "start" /\ vol.db # None
  /\ m = "init" => vol = EmptyVolume
  /\ vol.db = None => vol.litter = {}

\* The container starts: an existing database is used, a missing one restored.
Start(m) ==
  /\ pc = "down" /\ Admitted(m)
  /\ m = "init" => inits < MaxInits
  /\ inits' = IF m = "init" THEN inits + 1 ELSE inits
  /\ mode' = m
  /\ Goto(IF vol.db = None THEN "restore" ELSE "verify")
  /\ checked' = {}
  /\ UNCHANGED <<vol, replica, bucket, env, staged, todo, opened, faults>>

\* The process ends on its own; the staging directory goes with it.
Stop ==
  /\ Goto("down")
  /\ staged' = None /\ todo' = {}
  /\ UNCHANGED <<vol, checked, opened>>

InitRefusedNever == FALSE

\* What a replica says to the initialization of another database.
InitRefused == replica # None

\* restore_database: a replica refuses an initialization, and a start needs one.
Restore ==
  /\ pc = "restore"
  /\ \/ /\ mode = "init" /\ InitRefused /\ Stop
     \/ /\ mode = "init" /\ ~InitRefused /\ Goto("mark")
        /\ UNCHANGED <<vol, staged, todo, checked, opened>>
     \/ /\ mode = "start" /\ replica = None /\ Stop
     \/ /\ mode = "start" /\ replica # None /\ Goto("restoring")
        /\ staged' = [replica EXCEPT !.whole = FALSE]
        /\ UNCHANGED <<vol, todo, checked, opened>>
  /\ Inside /\ UNCHANGED faults

RestoreDone ==
  /\ pc = "restoring"
  /\ staged' = replica /\ Goto("verify")
  /\ UNCHANGED <<vol, todo, checked, opened, faults>> /\ Inside

\* The initialization is marked as pending before anything is created.
Mark ==
  /\ pc = "mark"
  /\ vol' = [vol EXCEPT !.pending = TRUE] /\ Goto("migrate")
  /\ UNCHANGED <<staged, todo, checked, opened, faults>> /\ Inside

\* deploy.js, run by every server command that boots: the environment is
\* copied into the settings unless the volume is frozen.
Booted(db) == IF vol.frozen THEN db ELSE [db EXCEPT !.s3 = env]

\* migrate up creates the schema step by step.
Migrate ==
  /\ pc = "migrate"
  /\ vol' = [vol EXCEPT !.db = [origin |-> inits, whole |-> FALSE, refs |-> {},
                                s3 |-> None, operator |-> 0]]
  /\ Goto("migrating")
  /\ UNCHANGED <<staged, todo, checked, opened, faults>> /\ Inside

MigrateDone ==
  /\ pc = "migrating"
  /\ vol' = [vol EXCEPT !.db = Booted([vol.db EXCEPT !.whole = TRUE])]
  /\ Goto("verify")
  /\ UNCHANGED <<staged, todo, checked, opened, faults>> /\ Inside

\* The database to verify: the restored one, or the one in the volume.
Subject == IF staged # None THEN staged ELSE vol.db

StorageMatchesUnchecked == TRUE

\* A frozen database keeps its storage settings, so the environment must match.
StorageMatches == vol.frozen => Subject.s3 = env

\* refs and verify_frozen_storage: the database is sound, and what it refers to.
Verify ==
  /\ pc = "verify"
  /\ IF Subject.whole /\ StorageMatches
       THEN /\ todo' = Subject.refs /\ Goto("verifying")
            /\ UNCHANGED <<vol, staged, checked, opened>>
       ELSE Stop
  /\ Inside /\ UNCHANGED faults

\* One of the parallel checks of verify_remote ends; a failure refuses startup.
VerifyOne(o) ==
  /\ pc = "verifying" /\ o \in todo
  /\ IF bucket[env][o] = "intact"
       THEN /\ todo' = todo \ {o} /\ checked' = checked \cup {o}
            /\ UNCHANGED <<vol, staged, opened, pc>>
       ELSE Stop
  /\ Inside /\ UNCHANGED faults

Verified ==
  /\ pc = "verifying" /\ todo = {}
  /\ Goto(IF staged # None THEN "install" ELSE "provision")
  /\ UNCHANGED <<vol, staged, todo, checked, opened, faults>> /\ Inside

\* os.replace puts the verified restore in place in one step.
Install ==
  /\ pc = "install"
  /\ vol' = [vol EXCEPT !.db = staged] /\ staged' = None /\ Goto("provision")
  /\ UNCHANGED <<todo, checked, opened, faults>> /\ Inside

ProvisionAlways ==
  /\ pc = "provision"
  /\ vol' = [vol EXCEPT !.db = [Booted(vol.db) EXCEPT !.operator = 1 - @]]
  /\ Goto("finish")
  /\ UNCHANGED <<staged, todo, checked, opened, faults>> /\ Inside

\* superuser upsert rewrites the operator's record (a new hash and token key),
\* when the environment names an operator and nothing is frozen.
Provision ==
  /\ pc = "provision"
  /\ vol' \in {vol} \cup IF vol.frozen THEN {}
                         ELSE {[vol EXCEPT !.db = [Booted(vol.db) EXCEPT !.operator = 1 - @]]}
  /\ Goto("finish")
  /\ UNCHANGED <<staged, todo, checked, opened, faults>> /\ Inside

\* An initialization removes its mark and ends; a start becomes Litestream.
Finish ==
  /\ pc = "finish"
  /\ vol' = [vol EXCEPT !.pending = FALSE]
  /\ Goto(IF mode = "init" THEN "down" ELSE "sync")
  /\ UNCHANGED <<staged, todo, checked, opened, faults>> /\ Inside

---------------------------------------------------------------------------
\* Serving.

\* serve: the server opens only after the replica has what the volume has.
Sync ==
  /\ pc = "sync"
  /\ replica' = vol.db /\ Goto("boot")
  /\ UNCHANGED <<vol, bucket, env, mode, staged, todo, checked, opened, inits, faults>>

Boot ==
  /\ pc = "boot"
  /\ vol' = [vol EXCEPT !.db = Booted(vol.db)]
  /\ opened' = vol.db.refs /\ Goto("serving")
  /\ UNCHANGED <<staged, todo, checked, faults>> /\ Inside

\* The server stores an original and then the source that refers to it.
Ingest(o) ==
  /\ pc = "serving" /\ ~vol.frozen /\ o \notin vol.db.refs
  /\ bucket' = [bucket EXCEPT ![vol.db.s3][o] = "intact"]
  /\ vol' = [vol EXCEPT !.db.refs = @ \cup {o}]
  /\ checked' = checked \cup {o}
  /\ UNCHANGED <<replica, env, pc, mode, staged, todo, opened, inits, faults>>

Replicate ==
  /\ pc = "serving" /\ replica # vol.db
  /\ replica' = vol.db
  /\ UNCHANGED <<vol, bucket, env, pc, mode, staged, todo, checked, opened, inits, faults>>

\* The maintenance route freezes or thaws the volume durably.
Maintain ==
  /\ pc = "serving"
  /\ vol' = [vol EXCEPT !.frozen = ~vol.frozen]
  /\ UNCHANGED <<replica, bucket, env, pc, mode, staged, todo, checked, opened, inits, faults>>

---------------------------------------------------------------------------
\* Faults and operators.

Fault == faults < MaxFaults /\ faults' = faults + 1

LeftByInside(v) == [v EXCEPT !.litter = @ \cup {"staging"}]

\* What a killed restore leaves in the data directory: its staging directory is
\* beside it.
LeftBy(v) == v

Kill ==
  /\ Fault /\ pc # "down" /\ Goto("down")
  /\ vol' = IF staged # None THEN LeftBy(vol) ELSE vol
  /\ staged' = None /\ todo' = {}
  /\ UNCHANGED <<checked, opened>> /\ Inside

\* A command of run_command fails, or the first synchronization times out.
CommandFails ==
  /\ Fault /\ pc \in {"restore", "restoring", "migrate", "migrating", "provision", "sync"}
  /\ Stop /\ Inside

\* The operator gives the container another environment or a fresh volume.
Reconfigure ==
  /\ Fault /\ pc = "down" /\ \E c \in Config \ {env} : env' = c
  /\ UNCHANGED <<vol, replica, bucket, pc, mode, staged, todo, checked, opened, inits>>

ReplaceVolume ==
  /\ Fault /\ pc = "down" /\ vol' = EmptyVolume
  /\ UNCHANGED <<pc, staged, todo, checked, opened>> /\ Inside

\* The database file is lost while other files of the volume remain.
LoseDatabase ==
  /\ Fault /\ pc = "down" /\ vol.db # None
  /\ vol' = [vol EXCEPT !.db = None, !.litter = @ \cup {"files"}]
  /\ UNCHANGED <<pc, staged, todo, checked, opened>> /\ Inside

DamageObject(c, o) ==
  /\ Fault /\ bucket[c][o] = "intact"
  /\ bucket' \in {[bucket EXCEPT ![c][o] = s] : s \in Object \ {"intact"}}
  /\ UNCHANGED <<vol, replica, env, pc, mode, staged, todo, checked, opened, inits>>

\* migrate_files.py: the inventory finds every file the database refers to.
Inventoried == vol.db # None /\ vol.db.whole /\ vol.db.refs \subseteq vol.local

\* A conditional upload creates an object and never replaces one.
CopyFile(o) ==
  /\ pc = "down" /\ Inventoried /\ o \in vol.db.refs
  /\ bucket[env][o] = "absent"
  /\ bucket' = [bucket EXCEPT ![env][o] = "intact"]
  /\ UNCHANGED <<vol, replica, env, pc, mode, staged, todo, checked, opened, inits, faults>>

---------------------------------------------------------------------------
Prepare ==
  \/ Restore \/ RestoreDone \/ Mark \/ Migrate \/ MigrateDone \/ Verify \/ Verified
  \/ \E o \in Original : VerifyOne(o)
  \/ Install \/ Provision \/ Finish \/ Sync \/ Boot

Next ==
  \/ \E m \in {"start", "init"} : Start(m)
  \/ Prepare
  \/ \E o \in Original : Ingest(o) \/ CopyFile(o)
  \/ Replicate \/ Maintain \/ Kill \/ CommandFails \/ Reconfigure \/ ReplaceVolume
  \/ LoseDatabase
  \/ \E c \in Config, o \in Original : DamageObject(c, o)

Spec == Init /\ [][Next]_vars

\* The platform restarts a stopped container, and a running one makes progress.
FairSpec == Spec /\ WF_vars(Start("start") \/ Prepare)

---------------------------------------------------------------------------
\* The server runs on a whole database whose initialization has ended, with
\* the object storage it was checked against, after every original was found
\* there; and what it opened can be restored from the replica.
ServedSafely ==
  pc = "serving" =>
    /\ vol.db.whole /\ ~vol.pending /\ vol.db.s3 = env
    /\ vol.db.refs \subseteq checked
    /\ replica # None /\ opened \subseteq replica.refs

\* A replica is never given over to another database, nor set back: no
\* initialization and no restart loses what only the replica has.
ReplicaKept ==
  [][replica # None => /\ replica'.origin = replica.origin
                       /\ replica.refs \subseteq replica'.refs]_vars

\* A frozen volume keeps its database as it is through every restart.
FrozenUntouched ==
  [][vol.frozen /\ vol'.frozen => vol'.db \in {vol.db, None}]_vars

\* The installation has what a start asks for, in the volume or the replica.
Servable ==
  LET db == IF vol.db = None THEN replica ELSE vol.db
  IN /\ ~vol.pending /\ db # None
     /\ vol.db = None => "files" \notin vol.litter /\ ~vol.frozen
     /\ \A o \in db.refs : bucket[env][o] = "intact"
     /\ vol.frozen => db.s3 = env

\* No kill and no failed command leaves a volume that a later start refuses:
\* an installation that remains servable serves again.
ServesAgain == <>[]Servable => []<>(pc = "serving")
=============================================================================
