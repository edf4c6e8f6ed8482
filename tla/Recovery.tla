------------------------------ MODULE Recovery ------------------------------
(* tools/checkpoint.py: a stopped, frozen checkpoint and the originals' bucket *)
(* are packaged, uploaded and recovered again.  It takes none of the delivery  *)
(* locks, so other tools, and whoever writes to the bucket, run beside it.     *)
EXTENDS Integers, FiniteSets

CONSTANTS
  Original,     \* originals that sources refer to
  None,         \* no checkpoint, package or recovery
  Damaged,      \* a remote checkpoint whose bytes changed
  MaxPackages,  \* bound on the packaging attempts
  MaxChanges    \* bound on changes of objects by others

VARIABLES
  saved,        \* the copy of the stopped data directory, or None
  archive,      \* the data in the ONCE backup beside it, or None
  objects,      \* the originals' bucket
  listing,      \* what a running packaging read: the copy, and the objects listed, or None
  packages,     \* the package of each attempt that ended, by identifier
  remote,       \* the backup bucket, by identifier
  recovered,    \* the last verified recovery, or None
  changes

recoveryVars == <<saved, archive, objects, listing, packages, remote, recovered, changes>>

Id == 1 .. MaxPackages

\* What an installation keeps: the originals it refers to, its schema, its marker.
Data == [refs: SUBSET Original, schema: {"old", "new"}, frozen: BOOLEAN, gen: Nat]

Bucket == [Original -> {"absent", "intact", "other"}]

Package == [data: Data, objects: Bucket]

ASSUME RecoveryAssumption ==
  MaxPackages \in Nat /\ MaxChanges \in Nat /\ None \notin Data \union Package

\* The type invariant of what is packaged, uploaded and recovered.
RecoveryTypeOK ==
  /\ saved \in Data \cup {None} /\ archive \in Data \cup {None}
  /\ objects \in Bucket /\ listing \in Package \cup {None}
  /\ packages \in [Id -> Package \cup {None}]
  /\ remote \in [Id -> Package \cup {None, Damaged}]
  /\ recovered \in Package \cup {None}
  /\ changes \in 0 .. MaxChanges

RecoveryInit ==
  /\ saved = None /\ archive = None /\ listing = None /\ recovered = None
  /\ objects = [o \in Original |-> "absent"]
  /\ packages = [i \in Id |-> None] /\ remote = [i \in Id |-> None]
  /\ changes = 0

\* validate_archives: the ONCE backup holds the files of the checkpoint.
ArchiveMatches == archive = saved

\* validate_databases: frozen, and every original is there as its source says.
DataValid(data, bucket) == data.frozen /\ \A o \in data.refs : bucket[o] = "intact"

\* Each packaging starts with the archives and a listing of the bucket.
List ==
  /\ listing = None /\ saved # None /\ archive # None /\ ArchiveMatches
  /\ \E i \in Id : packages[i] = None
  /\ listing' = [data |-> saved, objects |-> objects]
  /\ UNCHANGED <<saved, archive, objects, packages, remote, recovered, changes>>

\* Conditional reads and a second listing find any object that changed.
BucketUnchanged == objects = listing.objects

\* What is encrypted with its manifest and receipt, under a new identifier.
Pack(i) ==
  /\ listing # None /\ packages[i] = None
  /\ BucketUnchanged /\ DataValid(listing.data, listing.objects)
  /\ packages' = [packages EXCEPT ![i] = listing]
  /\ listing' = None
  /\ UNCHANGED <<saved, archive, objects, remote, recovered, changes>>

\* A failed attempt removes its directory; a killed one leaves it without receipt.
PackFails ==
  /\ listing # None /\ listing' = None
  /\ UNCHANGED <<saved, archive, objects, packages, remote, recovered, changes>>

\* The conditional upload never replaces a checkpoint.
Upload(i) ==
  /\ packages[i] # None /\ remote[i] = None
  /\ remote' = [remote EXCEPT ![i] = packages[i]]
  /\ UNCHANGED <<saved, archive, objects, listing, packages, recovered, changes>>

\* The ciphertext is what the receipt names and decrypts to what the manifest lists.
Authentic(i) == remote[i] = packages[i]

\* verify: download, decrypt, compare and validate; only then rename to a new
\* destination.  Which capture the package was made of, verify does not ask.
Recover(i) ==
  /\ packages[i] # None /\ remote[i] # None
  /\ Authentic(i) /\ DataValid(remote[i].data, remote[i].objects)
  /\ recovered' = remote[i]
  /\ UNCHANGED <<saved, archive, objects, listing, packages, remote, changes>>

---------------------------------------------------------------------------
\* Others: a writer of the bucket that nobody stopped, and the backup storage.

ChangeObject(o) ==
  /\ changes < MaxChanges /\ changes' = changes + 1
  /\ \E s \in {"absent", "other"} \ {objects[o]} : objects' = [objects EXCEPT ![o] = s]
  /\ UNCHANGED <<saved, archive, listing, packages, remote, recovered>>

DamageRemote(i) ==
  /\ changes < MaxChanges /\ changes' = changes + 1
  /\ remote[i] \notin {None, Damaged}
  /\ remote' = [remote EXCEPT ![i] = Damaged]
  /\ UNCHANGED <<saved, archive, objects, listing, packages, recovered>>

RecoveryNext ==
  \/ List \/ PackFails
  \/ \E i \in Id : Pack(i) \/ Upload(i) \/ Recover(i) \/ DamageRemote(i)
  \/ \E o \in Original : ChangeObject(o)
=============================================================================
