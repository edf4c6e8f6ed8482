-------------------------------- MODULE Export --------------------------------
(***************************************************************************)
(* The Markdown exporter, src/src/wikicontext_client/exporter.py, publish  *)
(* and recover: replacing the files of a vault directory by those of a     *)
(* pinned publication.  Exporters take a file lock.  Under it an exporter  *)
(* rolls back an interrupted export, checks that nobody changed the        *)
(* previous export, writes a journal of what it is about to replace, then  *)
(* replaces one file at a time.  A write may fail, the process may be      *)
(* killed at any point, and the owner of the vault edits files between     *)
(* exports (src/README.md asks not to edit during one).                    *)
(*                                                                         *)
(* A digest stands for the content it is of.  Rendering is pure: a pinned  *)
(* publication always renders to the same files.                           *)
(***************************************************************************)
EXTENDS Integers, FiniteSets

CONSTANTS
  Exporter,       \* exporting processes
  Files,          \* how many files may occur, numbered in the order of their names
  Publication,    \* publications that can be exported
  Rendered,       \* Rendered[p][f]: what publication p renders file f to, or None
  Origin,         \* Origin[p]: the server and the space of p
  CompanySpace,   \* the space that adopts exports older than spaces
  EditContent,    \* what the owner of the vault writes
  MaxExports,     \* bound on the exports started
  MaxCrashes,     \* bound on the processes killed and the writes that fail
  MaxEdits,       \* bound on the edits
  None

Manifest == 0     \* its name starts with a dot: it sorts before raw/ and wiki/
File == 1..Files
Name == {Manifest} \union File

Content == EditContent \union UNION {{Rendered[p][f] : f \in File} : p \in Publication}

ManifestType ==
  [publication: Publication, server: {Origin[p].server : p \in Publication},
   space: {Origin[p].space : p \in Publication} \union {None},
   files: [File -> Content \union {None}]]

\* A journal of these names: what the files were, and what they will be.
JournalOver(names) ==
  [before: [names -> Content \union ManifestType \union {None}],
   after: [names -> Content \union ManifestType \union {None}]]

ASSUME ConstantsAssumption ==
  /\ Files \in Nat /\ MaxExports \in Nat /\ MaxCrashes \in Nat /\ MaxEdits \in Nat
  /\ \A p \in Publication : Rendered[p] \in [File -> Content \union {None}]
  /\ None \notin EditContent \union Exporter \union ManifestType
  /\ \A names \in SUBSET Name : None \notin JournalOver(names)

\* Edits are told from exports by their content.
ASSUME EditAssumption ==
  \A p \in Publication : \A f \in File : Rendered[p][f] \notin EditContent

VARIABLES
  disk,      \* disk[n]: the content of file n of the vault, None while it does not exist
  journal,   \* the journal file: contents before and after the export, or None
  lock,      \* the exporter that holds the lock file
  pc,        \* pc[e]: what exporter e is doing
  target,    \* target[e]: the publication e exports
  left,      \* left[e]: the names e has still to write in its present loop
  spent      \* how much of the bounds on exports, crashes and edits is used

vars == <<disk, journal, lock, pc, target, left, spent>>

TypeOK ==
  /\ disk \in [Name -> Content \union ManifestType \union {None}]
  /\ disk[Manifest] \in ManifestType \union {None}
  /\ journal # None => \E names \in SUBSET Name : journal \in JournalOver(names)
  /\ lock \in Exporter \union {None}
  /\ pc \in [Exporter -> {"idle", "waiting", "locked", "recovering", "replacing", "undoing"}]
  /\ target \in [Exporter -> Publication \union {None}]
  /\ left \in [Exporter -> SUBSET Name]
  /\ spent \in [exports: 0..MaxExports, crashes: 0..MaxCrashes, edits: 0..MaxEdits]
  /\ \A e \in Exporter : pc[e] \notin {"idle", "waiting"} => lock = e

ManifestOf(p) ==
  [publication |-> p, server |-> Origin[p].server, space |-> Origin[p].space,
   files |-> Rendered[p]]

\* A vault that is new, or holds an export made before manifests named a space.
Init ==
  /\ \/ disk = [n \in Name |-> None]
     \/ \E p \in Publication :
          disk = [n \in Name |-> IF n = Manifest THEN [ManifestOf(p) EXCEPT !.space = None]
                                                 ELSE Rendered[p][n]]
  /\ journal = None
  /\ lock = None
  /\ pc = [e \in Exporter |-> "idle"]
  /\ target = [e \in Exporter |-> None]
  /\ left = [e \in Exporter |-> {}]
  /\ spent = [exports |-> 0, crashes |-> 0, edits |-> 0]

-----------------------------------------------------------------------------
(* What publish reads of the vault while it holds the lock. *)

Recorded == IF disk[Manifest] = None THEN [f \in File |-> None] ELSE disk[Manifest].files

BelongsTo(p) ==
  disk[Manifest] # None =>
    /\ disk[Manifest].server = Origin[p].server
    /\ disk[Manifest].space # None => disk[Manifest].space = Origin[p].space
    /\ disk[Manifest].space = None => Origin[p].space = CompanySpace

Replaceable(p) ==
  /\ BelongsTo(p)
  /\ \A f \in File : Recorded[f] # None => disk[f] = Recorded[f]
  /\ \A f \in File : Rendered[p][f] # None /\ disk[f] # None => Recorded[f] # None

\* What exporting p makes of name n: a file it no longer renders is removed.
After(p, n) == IF n = Manifest THEN ManifestOf(p) ELSE Rendered[p][n]

\* Mutant: files of the previous export that are gone from p are forgotten.
NamesRendered(p) == {Manifest} \union {f \in File : Rendered[p][f] # None}

Names(p) == {Manifest} \union {f \in File : Recorded[f] # None \/ Rendered[p][f] # None}

\* Mutant: the journal keeps only the files that are written, not the removed ones.
JournalOfWrites(p) ==
  LET kept == {n \in Names(p) : After(p, n) # None}
  IN [before |-> [n \in kept |-> disk[n]], after |-> [n \in kept |-> After(p, n)]]

JournalOf(p) ==
  [before |-> [n \in Names(p) |-> disk[n]], after |-> [n \in Names(p) |-> After(p, n)]]

\* Mutant: recovery does not look for edits made after the crash.
RecoverableAlways(j) == TRUE

\* Each journaled file is as it was before, or already as the export makes it.
Recoverable(j) == \A n \in DOMAIN j.before : disk[n] \in {j.before[n], j.after[n]}

\* Files are written in the order of their names.
Least(names) == CHOOSE n \in names : \A k \in names : n <= k

-----------------------------------------------------------------------------
(* The steps of an exporter. *)

At(e, label) == pc[e] = label
Goto(e, label) == pc' = [pc EXCEPT ![e] = label]

Start(e, p) ==
  /\ At(e, "idle")
  /\ spent.exports < MaxExports
  /\ Goto(e, "waiting")
  /\ target' = [target EXCEPT ![e] = p]
  /\ spent' = [spent EXCEPT !.exports = @ + 1]
  /\ UNCHANGED <<disk, journal, lock, left>>

Lock(e) ==
  /\ At(e, "waiting")
  /\ lock = None
  /\ lock' = e
  /\ Goto(e, "locked")
  /\ UNCHANGED <<disk, journal, target, left, spent>>

Unlock(e) == lock' = None /\ Goto(e, "idle") /\ target' = [target EXCEPT ![e] = None]

\* Mutant: a refused export keeps the lock.
RefuseLocked(e) ==
  /\ At(e, "locked")
  /\ IF journal # None THEN ~ Recoverable(journal) ELSE ~ Replaceable(target[e])
  /\ Goto(e, "idle") /\ target' = [target EXCEPT ![e] = None]
  /\ UNCHANGED <<disk, journal, lock, left, spent>>

\* Edits after a crash stop recovery before it writes; edits, foreign files or
\* another space stop the export before it writes.
Refuse(e) ==
  /\ At(e, "locked")
  /\ IF journal # None THEN ~ Recoverable(journal) ELSE ~ Replaceable(target[e])
  /\ Unlock(e)
  /\ UNCHANGED <<disk, journal, left, spent>>

Recover(e) ==
  /\ At(e, "locked")
  /\ journal # None
  /\ Recoverable(journal)
  /\ Goto(e, "recovering")
  /\ left' = [left EXCEPT ![e] = DOMAIN journal.before]
  /\ UNCHANGED <<disk, journal, lock, target, spent>>

Prepare(e) ==
  /\ At(e, "locked")
  /\ journal = None
  /\ Replaceable(target[e])
  /\ journal' = JournalOf(target[e])
  /\ Goto(e, "replacing")
  /\ left' = [left EXCEPT ![e] = Names(target[e])]
  /\ UNCHANGED <<disk, lock, target, spent>>

\* The next file of the loop gets its bytes, or is removed, in one step (os.replace, unlink).
WriteNext(e, contents) ==
  LET n == Least(left[e]) IN
  /\ left[e] # {}
  /\ disk' = [disk EXCEPT ![n] = contents[n]]
  /\ left' = [left EXCEPT ![e] = @ \ {n}]
  /\ UNCHANGED <<journal, lock, pc, target, spent>>

Replace(e) == At(e, "replacing") /\ WriteNext(e, [n \in left[e] |-> After(target[e], n)])

Commit(e) ==
  /\ At(e, "replacing")
  /\ left[e] = {}
  /\ journal' = None
  /\ Unlock(e)
  /\ UNCHANGED <<disk, left, spent>>

\* A write raises: the exporter itself puts the files back.
Fail(e) ==
  /\ At(e, "replacing")
  /\ spent.crashes < MaxCrashes
  /\ Recoverable(journal)
  /\ Goto(e, "undoing")
  /\ left' = [left EXCEPT ![e] = DOMAIN journal.before]
  /\ spent' = [spent EXCEPT !.crashes = @ + 1]
  /\ UNCHANGED <<disk, journal, lock, target>>

Restore(e) ==
  /\ At(e, "recovering") \/ At(e, "undoing")
  /\ WriteNext(e, journal.before)

\* Mutant: the journal outlives the recovery it was for.
RestoredKept(e) ==
  /\ left[e] = {}
  /\ \/ At(e, "recovering") /\ Goto(e, "locked") /\ UNCHANGED <<lock, target>>
     \/ At(e, "undoing") /\ Unlock(e)
  /\ UNCHANGED <<disk, journal, left, spent>>

\* Everything is back: a retry goes on with its own export, a failed export ends.
Restored(e) ==
  /\ left[e] = {}
  /\ \/ At(e, "recovering") /\ Goto(e, "locked") /\ UNCHANGED <<lock, target>>
     \/ At(e, "undoing") /\ Unlock(e)
  /\ journal' = None
  /\ UNCHANGED <<disk, left, spent>>

\* The process is killed, which releases its lock and leaves the journal behind; so
\* does a recovery that cannot write.
Crash(e) ==
  /\ pc[e] # "idle"
  /\ spent.crashes < MaxCrashes
  /\ Goto(e, "idle")
  /\ lock' = IF lock = e THEN None ELSE lock
  /\ left' = [left EXCEPT ![e] = {}]
  /\ target' = [target EXCEPT ![e] = None]
  /\ spent' = [spent EXCEPT !.crashes = @ + 1]
  /\ UNCHANGED <<disk, journal>>

\* What the owner would restore f to.
Undamaged(f) ==
  IF journal # None /\ f \in DOMAIN journal.before THEN journal.before[f] ELSE Recorded[f]

Edit(f) ==
  /\ lock = None
  /\ spent.edits < MaxEdits
  /\ \E content \in EditContent \union {None, Undamaged(f)} :
       disk' = [disk EXCEPT ![f] = content]
  /\ spent' = [spent EXCEPT !.edits = @ + 1]
  /\ UNCHANGED <<journal, lock, pc, target, left>>

Progress(e) ==
  \/ Lock(e) \/ Refuse(e) \/ Recover(e) \/ Prepare(e) \/ Replace(e) \/ Commit(e)
  \/ Restore(e) \/ Restored(e)

Next ==
  \/ \E e \in Exporter, p \in Publication : Start(e, p)
  \/ \E e \in Exporter : Progress(e)
  \/ \E e \in Exporter : Fail(e)
  \/ \E e \in Exporter : Crash(e)
  \/ \E f \in File : Edit(f)

Spec == Init /\ [][Next]_vars

\* A running process goes on until it is killed; flock grants a free lock.
FairSpec == Spec /\ \A e \in Exporter : WF_vars(Progress(e))

-----------------------------------------------------------------------------

\* With no journal left, every file of an export on disk is one the manifest records:
\* crashes, failures and retries leave nothing behind that a later export would refuse
\* to overwrite or forget to remove.
NoStrayFiles ==
  journal = None /\ lock = None =>
    \A f \in File : disk[f] \in {Recorded[f], None} \union EditContent

\* What the owner wrote is changed by nobody else, not even by the recovery of an
\* export that was interrupted before the edit ("external edits made after a crash
\* are preserved", exporter.py:308).
EditsSurvive ==
  [][\A f \in File : disk[f] \in EditContent /\ disk'[f] # disk[f] => Edit(f)]_vars

\* An export that has started ends, whoever else exports, fails or is killed.
ExportsEnd == \A e \in Exporter : pc[e] # "idle" ~> pc[e] = "idle"

\* Once crashes and edits have stopped, the next export repairs what an interrupted one
\* left, unless the owner has edited a file it had reached.
RetryRepairs ==
  \A e \in Exporter :
    (/\ spent.crashes = MaxCrashes /\ spent.edits = MaxEdits
     /\ pc[e] = "waiting" /\ journal # None /\ Recoverable(journal)) ~> journal = None

-----------------------------------------------------------------------------
(* The vault as its owner may count on it: until the journal is removed, an *)
(* export has not happened, since whoever finds the journal rolls it back.  *)

VaultNow ==
  [n \in Name |->
    IF journal # None /\ n \in DOMAIN journal.before
         /\ disk[n] \in {journal.before[n], journal.after[n]}
    THEN journal.before[n] ELSE disk[n]]

Promise == INSTANCE Vault WITH vault <- VaultNow

\* Exports are atomic across failures, crashes, recovery and retries: the vault changes
\* only by edits and by whole exports over untouched files.
ExportsAtomic == Promise!Spec

=============================================================================
