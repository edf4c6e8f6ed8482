----------------------------- MODULE ExportProofs -----------------------------
(***************************************************************************)
(* What module Export promises, for any exporters, files and publications, *)
(* and that it implements module Vault.                                    *)
(*                                                                         *)
(* While there is no journal, the manifest tells the truth about the files *)
(* that the owner has not touched (Clean).  A journal tells what they were *)
(* before (JournalFor), and each file is as it was before or as it will be *)
(* after, unless the owner has touched it (Sound).  The exporter that      *)
(* holds the lock knows which, name by name (Working).                     *)
(***************************************************************************)
EXTENDS Export, WellFoundedInduction, TLAPS

-----------------------------------------------------------------------------
(* The invariant.  It is stated of any files d and any journal j, so that its *)
(* parts can be compared before and after a step.                             *)

Anything == Content \union ManifestType \union {None}
Disk == [Name -> Anything]
Journal == UNION {JournalOver(names) : names \in SUBSET Name}

\* The manifests that exporters write, and those of exports older than spaces.
Manifests ==
  {ManifestOf(p) : p \in Publication} \union
  {[ManifestOf(p) EXCEPT !.space = None] : p \in Publication}

\* What a manifest says of the files.
FilesOf(m) == IF m = None THEN [f \in File |-> None] ELSE m.files

\* A vault with manifest m may be replaced by publication p.
Belongs(m, p) ==
  m # None => /\ m.server = Origin[p].server
              /\ Origin[p].space = IF m.space = None THEN CompanySpace ELSE m.space

\* What the owner writes, or removes.
Touched == {None} \union EditContent

Clean(d) ==
  /\ d[Manifest] \in Manifests \union {None}
  /\ \A f \in File : d[f] \in {FilesOf(d[Manifest])[f]} \union Touched

\* j is the journal of an export of p.
JournalFor(j, p) ==
  /\ j \in Journal /\ p \in Publication
  /\ j.before[Manifest] \in Manifests \union {None} /\ Belongs(j.before[Manifest], p)
  /\ DOMAIN j.before = {Manifest} \union
       {f \in File : FilesOf(j.before[Manifest])[f] # None \/ Rendered[p][f] # None}
  /\ \A f \in File : f \in DOMAIN j.before => j.before[f] = FilesOf(j.before[Manifest])[f]
  /\ j.after = [n \in DOMAIN j.before |-> After(p, n)]

Sound(d, j) ==
  /\ \E p \in Publication : JournalFor(j, p)
  /\ d[Manifest] \in {j.before[Manifest], j.after[Manifest]}
  /\ \A f \in File :
       d[f] \in Touched \union IF f \in DOMAIN j.before THEN {j.before[f], j.after[f]} ELSE {}

DiskSound(d, j) == IF j = None THEN Clean(d) ELSE Sound(d, j)

\* What an exporter at step "at" of an export of p knows of the files, while it has still
\* to write "names".
Working(d, j, at, names, p) ==
  /\ at # "idle" => p \in Publication
  /\ at \in {"replacing", "recovering", "undoing"} => j # None /\ names \subseteq DOMAIN j.before
  /\ at = "replacing" =>
       /\ JournalFor(j, p)
       /\ \A n \in DOMAIN j.before : d[n] = IF n \in names THEN j.before[n] ELSE j.after[n]
  /\ at \in {"recovering", "undoing"} =>
       \A n \in DOMAIN j.before :
         d[n] \in IF n \in names THEN {j.before[n], j.after[n]} ELSE {j.before[n]}

\* The inductive invariant.
ExportInv ==
  /\ TypeOK
  /\ DiskSound(disk, journal)
  /\ \A e \in Exporter : Working(disk, journal, pc[e], left[e], target[e])

\* The vault that d and j stand for.
VaultOf(d, j) ==
  [n \in Name |->
    IF j # None /\ n \in DOMAIN j.before /\ d[n] \in {j.before[n], j.after[n]}
    THEN j.before[n] ELSE d[n]]

-----------------------------------------------------------------------------
(* Names, manifests and journals. *)

LEMMA Names0 ==
  Files \in Nat /\ Manifest \in Name /\ Manifest \notin File /\ File \subseteq Name
  /\ Name = {Manifest} \union File /\ Name \subseteq Nat
BY ConstantsAssumption DEF Manifest, Name, File

LEMMA LeastNatural ==
  ASSUME NEW T, T \subseteq Nat, T # {}
  PROVE  \E x \in T : \A y \in T : x <= y
<1>1. \A y, z \in Nat : y < z => <<y, z>> \in OpToRel(<, Nat)
  BY DEF OpToRel
<1>2. \E R : IsWellFoundedOn(R, Nat) /\ \A y, z \in Nat : y < z => <<y, z>> \in R
  BY <1>1, NatLessThanWellFounded, Zenon
<1>3. PICK R : IsWellFoundedOn(R, Nat) /\ \A y, z \in Nat : y < z => <<y, z>> \in R
  BY <1>2
<1>4. PICK x \in T : \A y \in T : ~ (<<y, x>> \in R)
  BY <1>3, WFMin
<1>5. \A y \in T : y \in Nat /\ x \in Nat /\ ~ (y < x)
  BY <1>3, <1>4
<1>6. \A y \in T : x <= y
  BY <1>5
<1> QED BY <1>6

LEMMA JournalsAre ==
  None \notin Journal /\ \A j : j \in Journal <=> \E names \in SUBSET Name : j \in JournalOver(names)
<1>1. \A j : j \in Journal <=> \E names \in SUBSET Name : j \in JournalOver(names)
  BY Zenon DEF Journal
<1> QED BY <1>1, ConstantsAssumption

\* A set of names that is not empty has a least one.
LEMMA LeastMember ==
  ASSUME NEW names \in SUBSET Name, names # {}
  PROVE  Least(names) \in names
<1>1. \E x \in names : \A y \in names : x <= y
  BY Names0, LeastNatural
<1> QED BY <1>1 DEF Least

LEMMA RenderedTyped ==
  ASSUME NEW p \in Publication
  PROVE  /\ Rendered[p] \in [File -> Content \union {None}]
         /\ ManifestOf(p) \in ManifestType /\ ManifestOf(p).files = Rendered[p]
         /\ ManifestOf(p).server = Origin[p].server /\ ManifestOf(p).space = Origin[p].space
         /\ ManifestOf(p) # None
         /\ \A n \in Name : After(p, n) \in Anything
<1>1. Rendered[p] \in [File -> Content \union {None}]
  BY ConstantsAssumption
<1>2. ManifestOf(p) \in ManifestType
  BY <1>1 DEF ManifestOf, ManifestType
<1>3. /\ ManifestOf(p).files = Rendered[p] /\ ManifestOf(p).space = Origin[p].space
      /\ ManifestOf(p).server = Origin[p].server
  BY DEF ManifestOf
<1>4. ManifestOf(p) # None
  BY <1>2, ConstantsAssumption
<1>5. \A n \in Name : After(p, n) \in Anything
  BY <1>1, <1>2, Names0 DEF After, Anything
<1> QED BY <1>1, <1>2, <1>3, <1>4, <1>5

\* The files that a manifest names are rendered ones.
LEMMA ManifestsTyped ==
  ASSUME NEW m \in Manifests \union {None}
  PROVE  /\ m \in ManifestType \union {None}
         /\ FilesOf(m) \in [File -> Content \union {None}]
         /\ \A f \in File : FilesOf(m)[f] # None =>
              \E q \in Publication : FilesOf(m)[f] = Rendered[q][f]
<1>1. CASE m = None
  BY <1>1 DEF FilesOf
<1>2. ASSUME NEW q \in Publication, m \in {ManifestOf(q), [ManifestOf(q) EXCEPT !.space = None]}
      PROVE  m \in ManifestType /\ m.files = Rendered[q]
  BY <1>2, RenderedTyped DEF ManifestOf, ManifestType
<1>3. CASE \E q \in Publication : m \in {ManifestOf(q), [ManifestOf(q) EXCEPT !.space = None]}
  <2>1. PICK q \in Publication : m \in {ManifestOf(q), [ManifestOf(q) EXCEPT !.space = None]}
    BY <1>3
  <2>2. m \in ManifestType /\ m.files = Rendered[q] /\ m # None
    BY <1>2, <2>1, ConstantsAssumption
  <2> QED BY <2>2, RenderedTyped DEF FilesOf
<1> QED BY <1>1, <1>3 DEF Manifests

LEMMA TouchedTyped == Touched \subseteq Anything /\ Content \union {None} \subseteq Anything
<1>1. EditContent \subseteq Content
  BY Zenon DEF Content
<1> QED BY <1>1 DEF Touched, Anything

\* A journal says what the files were and what they will be.
LEMMA JournalTyped ==
  ASSUME NEW j, NEW p, JournalFor(j, p)
  PROVE  /\ j # None /\ Manifest \in DOMAIN j.before /\ DOMAIN j.before \subseteq Name
         /\ j.after[Manifest] = ManifestOf(p)
         /\ \A n \in DOMAIN j.before :
              j.before[n] \in Anything /\ j.after[n] = After(p, n) /\ j.after[n] \in Anything
         /\ \A f \in File : f \notin DOMAIN j.before =>
              FilesOf(j.before[Manifest])[f] = None /\ Rendered[p][f] = None
<1>1. p \in Publication /\ j # None
  BY JournalsAre DEF JournalFor
<1>2. Manifest \in DOMAIN j.before /\ DOMAIN j.before \subseteq Name
  BY Names0 DEF JournalFor
<1>3. PICK names \in SUBSET Name : j \in [before: [names -> Anything], after: [names -> Anything]]
  BY JournalsAre DEF JournalFor, JournalOver, Anything
<1>4. \A n \in DOMAIN j.before : j.before[n] \in Anything
  BY <1>3
<1>5. \A n \in DOMAIN j.before : j.after[n] = After(p, n)
  BY DEF JournalFor
<1>6. \A n \in DOMAIN j.before : j.after[n] \in Anything
  BY <1>1, <1>2, <1>5, RenderedTyped
<1>7. \A f \in File : f \notin DOMAIN j.before =>
              FilesOf(j.before[Manifest])[f] = None /\ Rendered[p][f] = None
  BY DEF JournalFor
<1>8. j.after[Manifest] = ManifestOf(p)
  BY <1>2, <1>5 DEF After
<1> QED BY <1>1, <1>2, <1>4, <1>5, <1>6, <1>7, <1>8
-----------------------------------------------------------------------------
(* What the steps do to the files. *)

\* Writing a name of the journal, as it was or as it will be, keeps all that is known.
LEMMA Written ==
  ASSUME NEW d \in Disk, NEW j, j # None, Sound(d, j), NEW n \in DOMAIN j.before,
         NEW v \in {j.before[n], j.after[n]}, d[n] \in {j.before[n], j.after[n]},
         NEW t, t = [d EXCEPT ![n] = v]
  PROVE  t \in Disk /\ Sound(t, j) /\ VaultOf(t, j) = VaultOf(d, j)
<1>1. PICK p : JournalFor(j, p)
  BY DEF Sound
<1>2. n \in Name /\ v \in Anything /\ DOMAIN j.before \subseteq Name
  BY <1>1, JournalTyped
<1>3. t \in Disk /\ t[n] = v /\ \A k \in Name : k # n => t[k] = d[k]
  BY <1>2 DEF Disk
<1>4. t[Manifest] \in {j.before[Manifest], j.after[Manifest]}
  BY <1>3, Names0 DEF Sound
<1>5. \A f \in File :
        t[f] \in Touched \union IF f \in DOMAIN j.before THEN {j.before[f], j.after[f]} ELSE {}
  BY <1>3, Names0 DEF Sound
<1>6. \A k \in Name : /\ k # n => VaultOf(t, j)[k] = VaultOf(d, j)[k]
                      /\ VaultOf(t, j)[n] = VaultOf(d, j)[n]
  BY <1>2, <1>3 DEF VaultOf
<1>7. VaultOf(t, j) = VaultOf(d, j)
  BY <1>6 DEF VaultOf
<1> QED BY <1>1, <1>3, <1>4, <1>5, <1>7 DEF Sound

\* When everything is back as it was, the journal may go: no export has happened.
LEMMA Undone ==
  ASSUME NEW d \in Disk, NEW j, j # None, Sound(d, j),
         \A n \in DOMAIN j.before : d[n] = j.before[n]
  PROVE  Clean(d) /\ VaultOf(d, None) = VaultOf(d, j)
<1>1. PICK p \in Publication : JournalFor(j, p)
  BY DEF Sound
<1>2. d[Manifest] = j.before[Manifest] /\ d[Manifest] \in Manifests \union {None}
  BY <1>1, JournalTyped DEF JournalFor
<1>3. ASSUME NEW f \in File PROVE d[f] \in {FilesOf(d[Manifest])[f]} \union Touched
  <2>1. CASE f \in DOMAIN j.before
    BY <1>1, <1>2, <2>1 DEF JournalFor
  <2>2. CASE f \notin DOMAIN j.before
    BY <2>2 DEF Sound
  <2> QED BY <2>1, <2>2
<1>4. \A n \in Name : VaultOf(d, None)[n] = d[n] /\ VaultOf(d, j)[n] = d[n]
  BY DEF VaultOf
<1>5. VaultOf(d, None) = VaultOf(d, j)
  BY <1>4 DEF VaultOf
<1> QED BY <1>2, <1>3, <1>5 DEF Clean

\* When everything is as it will be, removing the journal is the export.
LEMMA Done ==
  ASSUME NEW d \in Disk, NEW j, NEW p \in Publication, JournalFor(j, p), Sound(d, j),
         \A n \in DOMAIN j.before : d[n] = j.after[n],
         NEW was, was = VaultOf(d, j), NEW now, now = VaultOf(d, None)
  PROVE  /\ Clean(d)
         /\ was[Manifest] = j.before[Manifest] /\ Belongs(was[Manifest], p)
         /\ \A f \in File : FilesOf(was[Manifest])[f] # None =>
              was[f] = FilesOf(was[Manifest])[f]
         /\ now[Manifest] = ManifestOf(p)
         /\ \A f \in File :
              \/ now[f] = Rendered[p][f] /\ (was[f] = None \/ FilesOf(was[Manifest])[f] # None)
              \/ now[f] = was[f] /\ Rendered[p][f] = None /\ FilesOf(was[Manifest])[f] = None
<1>0. /\ j # None /\ Manifest \in DOMAIN j.before /\ DOMAIN j.before \subseteq Name
      /\ d[Manifest] = ManifestOf(p) /\ FilesOf(d[Manifest]) = Rendered[p]
  BY JournalTyped, RenderedTyped DEF FilesOf
<1>1. \A n \in Name : now[n] = d[n]
  BY DEF VaultOf
<1>2. \A n \in DOMAIN j.before : was[n] = j.before[n]
  BY <1>0 DEF VaultOf
<1>3. \A n \in Name : n \notin DOMAIN j.before => was[n] = d[n]
  BY DEF VaultOf
<1>4. ASSUME NEW f \in File, f \in DOMAIN j.before
      PROVE  d[f] = Rendered[p][f] /\ was[f] = FilesOf(j.before[Manifest])[f]
  BY <1>2, <1>4, Names0 DEF JournalFor, After
<1>5. ASSUME NEW f \in File, f \notin DOMAIN j.before
      PROVE  /\ d[f] \in Touched /\ was[f] = d[f]
             /\ FilesOf(j.before[Manifest])[f] = None /\ Rendered[p][f] = None
  BY <1>3, <1>5, Names0, JournalTyped DEF Sound
<1>6. Clean(d)
  BY <1>0, <1>4, <1>5 DEF Clean, Manifests
<1>7. was[Manifest] = j.before[Manifest] /\ Belongs(was[Manifest], p)
  BY <1>0, <1>2 DEF JournalFor
<1>8. now[Manifest] = ManifestOf(p)
  BY <1>0, <1>1, Names0
<1>9. \A f \in File : FilesOf(was[Manifest])[f] # None => was[f] = FilesOf(was[Manifest])[f]
  BY <1>4, <1>5, <1>7
<1>10. ASSUME NEW f \in File
       PROVE  \/ now[f] = Rendered[p][f] /\ (was[f] = None \/ FilesOf(was[Manifest])[f] # None)
              \/ now[f] = was[f] /\ Rendered[p][f] = None /\ FilesOf(was[Manifest])[f] = None
  BY <1>1, <1>4, <1>5, <1>7, Names0
<1> QED BY <1>6, <1>7, <1>8, <1>9, <1>10

\* What the owner would restore f to.
Was(d, j, f) ==
  IF j # None /\ f \in DOMAIN j.before THEN j.before[f] ELSE FilesOf(d[Manifest])[f]

EditOf(d, j, f, t) == \E v \in Touched \union {Was(d, j, f)} : t = [d EXCEPT ![f] = v]

\* The owner's edit of a file keeps what is known of the others.
LEMMA Edited ==
  ASSUME NEW d \in Disk, NEW j, DiskSound(d, j), NEW f \in File, NEW t, EditOf(d, j, f, t)
  PROVE  /\ t \in Disk /\ DiskSound(t, j)
         /\ \A n \in Name : n # f => VaultOf(t, j)[n] = VaultOf(d, j)[n]
         /\ VaultOf(t, j)[f] \in Touched \union {Rendered[q][f] : q \in Publication}
<1> PICK v \in Touched \union {Was(d, j, f)} : t = [d EXCEPT ![f] = v]
  BY DEF EditOf
<1>1. /\ f \in Name /\ f # Manifest /\ t[f] = v /\ t[Manifest] = d[Manifest]
      /\ \A n \in Name : n # f => t[n] = d[n]
  BY Names0 DEF Disk
<1>2. \A n \in Name : n # f => VaultOf(t, j)[n] = VaultOf(d, j)[n]
  BY <1>1 DEF VaultOf
<1>3. CASE j = None
  <2>1. d[Manifest] \in Manifests \union {None} /\ v \in Touched \union {FilesOf(d[Manifest])[f]}
    BY <1>3 DEF DiskSound, Clean, Was
  <2>2. Clean(t)
    BY <1>1, <1>3, <2>1, Names0 DEF DiskSound, Clean
  <2>3. VaultOf(t, j)[f] = v
    BY <1>1, <1>3 DEF VaultOf
  <2>4. v \in Touched \union {Rendered[q][f] : q \in Publication}
    BY <2>1, ManifestsTyped DEF Touched
  <2>5. v \in Anything
    BY <2>1, ManifestsTyped, TouchedTyped
  <2>6. t \in Disk
    BY <1>1, <2>5 DEF Disk
  <2> QED BY <1>2, <1>3, <2>2, <2>3, <2>4, <2>6 DEF DiskSound
<1>4. CASE j # None
  <2>1. Sound(d, j)
    BY <1>4 DEF DiskSound
  <2>2. PICK p \in Publication : JournalFor(j, p)
    BY <2>1 DEF Sound
  <2> PICK m \in Manifests \union {None} : m = j.before[Manifest]
    BY <2>2 DEF JournalFor
  <2>3. v \in Touched \union {FilesOf(m)[f]}
    <3>1. CASE f \in DOMAIN j.before
      BY <1>4, <2>2, <3>1 DEF JournalFor, Was
    <3>2. CASE f \notin DOMAIN j.before
      <4>1. FilesOf(m)[f] = None /\ Rendered[p][f] = None /\ j.after[Manifest] = ManifestOf(p)
        BY <2>2, <3>2, JournalTyped
      <4>2. FilesOf(d[Manifest])[f] = None
        BY <2>1, <4>1, RenderedTyped DEF Sound, FilesOf
      <4> QED BY <3>2, <4>2 DEF Touched, Was
    <3> QED BY <3>1, <3>2
  <2>4. f \in DOMAIN j.before => j.before[f] = FilesOf(m)[f]
    BY <2>2 DEF JournalFor
  <2>5. f \notin DOMAIN j.before => v \in Touched
    BY <2>2, <2>3, JournalTyped DEF Touched
  <2>6. Sound(t, j)
    BY <1>1, <2>1, <2>3, <2>4, <2>5, Names0 DEF Sound
  <2>7. FilesOf(m)[f] \in Touched \union {Rendered[q][f] : q \in Publication}
    BY ManifestsTyped DEF Touched
  <2>8. VaultOf(t, j)[f] \in {v} \union IF f \in DOMAIN j.before THEN {j.before[f]} ELSE {}
    BY <1>1 DEF VaultOf
  <2>9. VaultOf(t, j)[f] \in Touched \union {Rendered[q][f] : q \in Publication}
    BY <2>3, <2>4, <2>7, <2>8
  <2>10. t \in Disk
    <3>1. v \in Anything
      BY <2>3, ManifestsTyped, TouchedTyped
    <3> QED BY <1>1, <3>1 DEF Disk
  <2> QED BY <1>2, <1>4, <2>6, <2>9, <2>10 DEF DiskSound
<1> QED BY <1>3, <1>4

-----------------------------------------------------------------------------
(* Steps. *)

Label == {"idle", "waiting", "locked", "recovering", "replacing", "undoing"}
Holding == Label \ {"idle", "waiting"}
SpentType == [exports: 0..MaxExports, crashes: 0..MaxCrashes, edits: 0..MaxEdits]

\* Who does not hold the lock knows nothing of the files.
LEMMA Bystander ==
  ASSUME ExportInv, NEW e \in Exporter, NEW d \in Exporter, d # e, lock = e \/ lock = None,
         NEW t, NEW j
  PROVE  pc[d] \in {"idle", "waiting"} /\ Working(t, j, pc[d], left[d], target[d])
<1>1. pc[d] \in {"idle", "waiting"}
  BY ConstantsAssumption DEF ExportInv, TypeOK
<1> QED BY <1>1 DEF ExportInv, Working

\* Exporter e goes on at a step of an export of p, with names to write; it keeps the
\* lock as long as it holds it.
Moves(e, at, names, p) ==
  /\ pc' = [pc EXCEPT ![e] = at] /\ left' = [left EXCEPT ![e] = names]
  /\ target' = [target EXCEPT ![e] = p]
  /\ (at \in Holding /\ lock' = e) \/ (at = "idle" /\ lock' = None)

\* A step of the exporter that holds the lock.
LEMMA HolderStep ==
  ASSUME ExportInv, NEW e \in Exporter, pc[e] \in Holding,
         NEW at \in Label, NEW names \in SUBSET Name, NEW p \in Publication \union {None},
         Moves(e, at, names, p),
         disk' \in Disk, DiskSound(disk', journal'), journal' \in Journal \union {None},
         Working(disk', journal', at, names, p), spent' \in SpentType
  PROVE  ExportInv'
<1>1. /\ lock = e /\ pc \in [Exporter -> Label] /\ left \in [Exporter -> SUBSET Name]
      /\ target \in [Exporter -> Publication \union {None}]
  BY DEF ExportInv, TypeOK, Holding, Label
<1>2. disk'[Manifest] \in ManifestType \union {None}
  <2>1. CASE journal' = None
    BY <2>1, ManifestsTyped DEF DiskSound, Clean
  <2>2. CASE journal' # None
    <3>1. PICK q \in Publication : JournalFor(journal', q)
      BY <2>2 DEF DiskSound, Sound
    <3>2. disk'[Manifest] \in {journal'.before[Manifest], ManifestOf(q)}
      BY <2>2, <3>1, JournalTyped DEF DiskSound, Sound
    <3> QED BY <3>1, <3>2, ManifestsTyped, RenderedTyped DEF JournalFor
  <2> QED BY <2>1, <2>2
<1>3. /\ pc' \in [Exporter -> Label] /\ left' \in [Exporter -> SUBSET Name]
      /\ target' \in [Exporter -> Publication \union {None}] /\ lock' \in Exporter \union {None}
  BY <1>1 DEF Moves
<1>4. \A d \in Exporter : pc'[d] \notin {"idle", "waiting"} => lock' = d
  BY <1>1, Bystander DEF Holding, Moves
<1>5. TypeOK'
  BY <1>2, <1>3, <1>4, JournalsAre DEF TypeOK, Label, Disk, Anything, SpentType
<1>6. ASSUME NEW d \in Exporter PROVE Working(disk', journal', pc'[d], left'[d], target'[d])
  <2>1. CASE d = e
    BY <1>1, <2>1 DEF Moves
  <2>2. CASE d # e
    <3>1. pc'[d] = pc[d] /\ left'[d] = left[d] /\ target'[d] = target[d]
      BY <1>1, <2>2 DEF Moves
    <3> QED BY <1>1, <2>2, <3>1, Bystander
  <2> QED BY <2>1, <2>2
<1> QED BY <1>5, <1>6 DEF ExportInv

\* What is known to an exporter that holds the lock.
LEMMA HolderKnows ==
  ASSUME ExportInv, NEW e \in Exporter, pc[e] \in Holding
  PROVE  /\ lock = e /\ disk \in Disk /\ journal \in Journal \union {None}
         /\ DiskSound(disk, journal) /\ target[e] \in Publication /\ left[e] \in SUBSET Name
         /\ spent \in SpentType /\ Working(disk, journal, pc[e], left[e], target[e])
         /\ pc = [pc EXCEPT ![e] = pc[e]] /\ left = [left EXCEPT ![e] = left[e]]
         /\ target = [target EXCEPT ![e] = target[e]]
BY JournalsAre DEF ExportInv, TypeOK, Disk, Anything, SpentType, Holding, Label, Working

LEMMA StartKeeps ==
  ASSUME ExportInv, NEW e \in Exporter, NEW p \in Publication, Start(e, p)
  PROVE  ExportInv'
<1>1. /\ pc[e] = "idle" /\ disk' = disk /\ journal' = journal /\ lock' = lock /\ left' = left
      /\ pc' = [pc EXCEPT ![e] = "waiting"] /\ target' = [target EXCEPT ![e] = p]
  BY DEF Start, At, Goto
<1>2. pc \in [Exporter -> Label] /\ target \in [Exporter -> Publication \union {None}]
  BY DEF ExportInv, TypeOK, Label
<1>3. spent' \in SpentType
  BY ConstantsAssumption DEF Start, ExportInv, TypeOK, SpentType
<1>4. TypeOK'
  BY <1>1, <1>2, <1>3 DEF ExportInv, TypeOK, SpentType, Label
<1>5. ASSUME NEW d \in Exporter PROVE Working(disk', journal', pc'[d], left'[d], target'[d])
  BY <1>1, <1>2 DEF ExportInv, Working
<1> QED BY <1>1, <1>4, <1>5 DEF ExportInv

LEMMA LockKeeps ==
  ASSUME ExportInv, NEW e \in Exporter, Lock(e)
  PROVE  ExportInv'
<1>1. /\ pc[e] = "waiting" /\ lock = None /\ lock' = e /\ disk' = disk /\ journal' = journal
      /\ pc' = [pc EXCEPT ![e] = "locked"] /\ target' = target /\ left' = left /\ spent' = spent
  BY DEF Lock, At, Goto
<1>2. pc \in [Exporter -> Label]
  BY DEF ExportInv, TypeOK, Label
<1>3. \A d \in Exporter : d # e => pc[d] \in {"idle", "waiting"}
  BY <1>1, Bystander
<1>4. TypeOK'
  BY <1>1, <1>2, <1>3 DEF ExportInv, TypeOK, Label
<1>5. ASSUME NEW d \in Exporter PROVE Working(disk', journal', pc'[d], left'[d], target'[d])
  BY <1>1, <1>2 DEF ExportInv, Working
<1> QED BY <1>1, <1>4, <1>5 DEF ExportInv

LEMMA CrashKeeps ==
  ASSUME ExportInv, NEW e \in Exporter, Crash(e)
  PROVE  ExportInv'
<1>1. /\ disk' = disk /\ journal' = journal /\ pc' = [pc EXCEPT ![e] = "idle"]
      /\ left' = [left EXCEPT ![e] = {}] /\ target' = [target EXCEPT ![e] = None]
      /\ lock' = IF lock = e THEN None ELSE lock
  BY DEF Crash, Goto
<1>2. /\ pc \in [Exporter -> Label] /\ target \in [Exporter -> Publication \union {None}]
      /\ left \in [Exporter -> SUBSET Name]
  BY DEF ExportInv, TypeOK, Label
<1>3. spent' \in SpentType
  BY ConstantsAssumption DEF Crash, ExportInv, TypeOK, SpentType
<1>4. \A d \in Exporter : pc'[d] \notin {"idle", "waiting"} => lock' = d
  BY <1>1, <1>2 DEF ExportInv, TypeOK
<1>5. TypeOK'
  BY <1>1, <1>2, <1>3, <1>4 DEF ExportInv, TypeOK, SpentType, Label
<1>6. ASSUME NEW d \in Exporter PROVE Working(disk', journal', pc'[d], left'[d], target'[d])
  BY <1>1, <1>2 DEF ExportInv, Working
<1> QED BY <1>1, <1>5, <1>6 DEF ExportInv

LEMMA RefuseKeeps ==
  ASSUME ExportInv, NEW e \in Exporter, Refuse(e)
  PROVE  ExportInv'
<1>1. /\ pc[e] \in Holding /\ disk' = disk /\ journal' = journal /\ spent' = spent
      /\ lock' = None /\ pc' = [pc EXCEPT ![e] = "idle"] /\ target' = [target EXCEPT ![e] = None]
      /\ left' = left
  BY DEF Refuse, At, Unlock, Goto, Holding, Label
<1>2. Working(disk', journal', "idle", left[e], None)
  BY DEF Working
<1>3. Moves(e, "idle", left[e], None) /\ "idle" \in Label /\ left[e] \in SUBSET Name
  BY <1>1, HolderKnows DEF Moves, Label
<1>4. /\ disk' \in Disk /\ DiskSound(disk', journal') /\ journal' \in Journal \union {None}
      /\ spent' \in SpentType
  BY <1>1, HolderKnows
<1> QED BY <1>1, <1>2, <1>3, <1>4, HolderStep

\* Both ways to begin to put files back: each is as it was or as it was to be.
LEMMA BeginsToRestore ==
  ASSUME ExportInv, NEW e \in Exporter, Recover(e) \/ Fail(e)
  PROVE  ExportInv'
<1> PICK at \in {"recovering", "undoing"} : pc' = [pc EXCEPT ![e] = at]
  BY DEF Recover, Fail, Goto
<1>1. /\ pc[e] \in Holding /\ Recoverable(journal) /\ disk' = disk /\ journal' = journal
      /\ left' = [left EXCEPT ![e] = DOMAIN journal.before] /\ lock' = lock /\ target' = target
  BY DEF Recover, Fail, At, Holding, Label
<1>2. journal # None
  BY <1>1, HolderKnows DEF Recover, Fail, At, Working
<1>3. PICK p \in Publication : JournalFor(journal, p)
  BY <1>1, <1>2, HolderKnows DEF DiskSound, Sound
<1>4. DOMAIN journal.before \in SUBSET Name
  BY <1>3, JournalTyped
<1>5. Working(disk', journal', at, DOMAIN journal.before, target[e])
  BY <1>1, <1>2, HolderKnows DEF Working, Recoverable
<1>6. spent' \in SpentType
  BY <1>1, HolderKnows, ConstantsAssumption DEF Recover, Fail, SpentType
<1>7. at \in Holding /\ at \in Label
  BY DEF Holding, Label
<1>8. /\ disk' \in Disk /\ journal' \in Journal \union {None}
      /\ DiskSound(disk', journal') /\ target[e] \in Publication \union {None}
  BY <1>1, HolderKnows
<1>9. Moves(e, at, DOMAIN journal.before, target[e])
  <2>1. lock' = e /\ target' = [target EXCEPT ![e] = target[e]]
    BY <1>1, HolderKnows
  <2> QED BY <1>1, <1>7, <2>1, Zenon DEF Moves
<1> QED BY <1>1, <1>4, <1>5, <1>6, <1>7, <1>8, <1>9, HolderStep

\* Preparing an export writes down what the files are.
LEMMA PreparesWell ==
  ASSUME ExportInv, NEW e \in Exporter, Prepare(e)
  PROVE  ExportInv' /\ VaultOf(disk', journal') = VaultOf(disk, journal)
<1> PICK p \in Publication : p = target[e]
  BY HolderKnows DEF Prepare, At, Holding, Label
<1> PICK j : j = JournalOf(p)
  OBVIOUS
<1>1. /\ pc[e] \in Holding /\ journal = None /\ Replaceable(p) /\ journal' = j
      /\ disk' = disk /\ lock' = lock /\ target' = target /\ spent' = spent
      /\ pc' = [pc EXCEPT ![e] = "replacing"] /\ left' = [left EXCEPT ![e] = Names(p)]
  BY DEF Prepare, At, Goto, Holding, Label
<1>2. disk \in Disk /\ Clean(disk) /\ lock = e
  BY <1>1, HolderKnows DEF DiskSound
<1>3. Recorded = FilesOf(disk[Manifest])
  BY DEF Recorded, FilesOf
<1>4. Names(p) \in SUBSET Name
  BY Names0 DEF Names
<1>5. /\ DOMAIN j.before = Names(p) /\ j.before = [n \in Names(p) |-> disk[n]]
      /\ j.after = [n \in Names(p) |-> After(p, n)]
  BY DEF JournalOf
<1>6. j.before[Manifest] = disk[Manifest] /\ Manifest \in Names(p)
  BY <1>5 DEF Names
<1>7. JournalFor(j, p)
  <2>1. j \in Journal
    <3>1. j = [before |-> j.before, after |-> j.after]
      BY DEF JournalOf
    <3>2. j.before \in [Names(p) -> Anything] /\ j.after \in [Names(p) -> Anything]
      BY <1>2, <1>4, <1>5, RenderedTyped DEF Disk
    <3>3. j \in [before: [Names(p) -> Anything], after: [Names(p) -> Anything]]
      BY <3>1, <3>2
    <3> QED BY <1>4, <3>3, JournalsAre DEF JournalOver, Anything
  <2>2. Belongs(j.before[Manifest], p) /\ j.before[Manifest] \in Manifests \union {None}
    BY <1>1, <1>2, <1>6 DEF Replaceable, BelongsTo, Belongs, Clean
  <2>3. DOMAIN j.before = {Manifest} \union
         {f \in File : FilesOf(j.before[Manifest])[f] # None \/ Rendered[p][f] # None}
    BY <1>3, <1>5, <1>6 DEF Names
  <2>4. ASSUME NEW f \in File, f \in DOMAIN j.before
        PROVE  j.before[f] = FilesOf(j.before[Manifest])[f]
    <3>1. Recorded[f] # None => disk[f] = Recorded[f]
      BY <1>1 DEF Replaceable
    <3>2. Recorded[f] = None => disk[f] = None
      <4>1. f # Manifest /\ (Recorded[f] # None \/ Rendered[p][f] # None)
        BY <1>3, <1>6, <2>3, <2>4, Names0
      <4>2. Rendered[p][f] # None /\ disk[f] # None => Recorded[f] # None
        BY <1>1 DEF Replaceable
      <4> QED BY <4>1, <4>2
    <3>3. j.before[f] = disk[f]
      BY <1>5, <2>4
    <3> QED BY <1>3, <1>6, <3>1, <3>2, <3>3
  <2>5. j.after = [n \in DOMAIN j.before |-> After(p, n)]
    BY <1>5
  <2> QED BY <2>1, <2>2, <2>3, <2>4, <2>5 DEF JournalFor
<1>8. \A n \in DOMAIN j.before : disk[n] = j.before[n]
  BY <1>5
<1>9. Sound(disk, j)
  <2>1. \A f \in File : f \notin DOMAIN j.before => disk[f] \in Touched
    BY <1>2, <1>6, <1>7, JournalTyped DEF Clean, Touched
  <2> QED BY <1>5, <1>6, <1>7, <1>8, <2>1 DEF Sound
<1>10. j # None /\ j \in Journal
  BY <1>7, JournalTyped DEF JournalFor
<1>11. Working(disk', journal', "replacing", Names(p), p)
  BY <1>1, <1>5, <1>7, <1>8, <1>10 DEF Working
<1>12. ExportInv'
  <2>1. /\ "replacing" \in Label /\ disk' \in Disk
        /\ DiskSound(disk', journal') /\ journal' \in Journal \union {None}
        /\ spent' \in SpentType /\ p \in Publication \union {None}
    BY <1>1, <1>2, <1>9, <1>10, HolderKnows DEF DiskSound, Label
  <2>2. Moves(e, "replacing", Names(p), p)
    <3>1. lock' = e /\ target' = [target EXCEPT ![e] = p] /\ "replacing" \in Holding
      BY <1>1, <1>2, HolderKnows DEF Label, Holding
    <3> QED BY <1>1, <3>1, Zenon DEF Moves
  <2> QED BY <1>1, <1>4, <1>11, <2>1, <2>2, HolderStep
<1>13. \A n \in Name : VaultOf(disk, j)[n] = disk[n] /\ VaultOf(disk, None)[n] = disk[n]
  BY <1>8 DEF VaultOf
<1>14. VaultOf(disk, j) = VaultOf(disk, None)
  BY <1>13 DEF VaultOf
<1> QED BY <1>1, <1>12, <1>14

\* The next name of a loop is written, as it was or as it will be.
LEMMA WritesWell ==
  ASSUME ExportInv, NEW e \in Exporter, Replace(e) \/ Restore(e)
  PROVE  /\ ExportInv' /\ VaultOf(disk', journal') = VaultOf(disk, journal)
         /\ \E n \in Name : /\ \A k \in Name : k # n => disk'[k] = disk[k]
                            /\ n \in DOMAIN journal.before
                            /\ disk[n] \in {journal.before[n], journal.after[n]}
<1>1. /\ pc[e] \in {"replacing", "recovering", "undoing"} /\ pc[e] \in Holding /\ left[e] # {}
      /\ journal' = journal /\ lock' = lock /\ pc' = pc /\ target' = target /\ spent' = spent
  BY DEF Replace, Restore, WriteNext, At, Holding, Label
<1> PICK j : j = journal
  OBVIOUS
<1>2. j # None /\ left[e] \subseteq DOMAIN j.before /\ Sound(disk, j) /\ disk \in Disk
  BY <1>1, HolderKnows DEF Working, DiskSound
<1>3. PICK p \in Publication : JournalFor(j, p)
  BY <1>2 DEF Sound
<1> PICK n : n = Least(left[e])
  OBVIOUS
<1>4. n \in left[e] /\ n \in DOMAIN j.before /\ n \in Name
  BY <1>1, <1>2, HolderKnows, LeastMember
<1> PICK v : v = IF pc[e] = "replacing" THEN j.after[n] ELSE j.before[n]
  OBVIOUS
<1>5. disk' = [disk EXCEPT ![n] = v] /\ left' = [left EXCEPT ![e] = left[e] \ {n}]
  <2>1. CASE Replace(e)
    <3>1. pc[e] = "replacing" /\ JournalFor(j, target[e])
      BY <2>1, HolderKnows, <1>1 DEF Replace, At, Working
    <3>2. disk' = [disk EXCEPT ![n] = [k \in left[e] |-> After(target[e], k)][n]]
      BY <2>1 DEF Replace, WriteNext
    <3>3. [k \in left[e] |-> After(target[e], k)][n] = v
      BY <1>4, <3>1, JournalTyped
    <3>4. left' = [left EXCEPT ![e] = left[e] \ {n}]
      BY <2>1 DEF Replace, WriteNext
    <3> QED BY <3>2, <3>3, <3>4
  <2>2. CASE Restore(e)
    BY <2>2 DEF Restore, WriteNext, At
  <2> QED BY <2>1, <2>2
<1>6. disk[n] \in {j.before[n], j.after[n]}
  BY <1>1, <1>4, HolderKnows DEF Working
<1>7. disk' \in Disk /\ Sound(disk', j) /\ VaultOf(disk', j) = VaultOf(disk, j)
  BY <1>2, <1>4, <1>5, <1>6, Written
<1>8. disk'[n] = v /\ \A k \in Name : k # n => disk'[k] = disk[k]
  BY <1>2, <1>4, <1>5 DEF Disk
<1>9. Working(disk', j, pc[e], left[e] \ {n}, target[e])
  <2>1. DOMAIN j.before \subseteq Name /\ Working(disk, j, pc[e], left[e], target[e])
    BY <1>1, <1>3, HolderKnows, JournalTyped
  <2>2. CASE pc[e] = "replacing"
    BY <1>2, <1>8, <2>1, <2>2 DEF Working
  <2>3. CASE pc[e] \in {"recovering", "undoing"}
    BY <1>2, <1>8, <2>1, <2>3 DEF Working
  <2> QED BY <1>1, <2>2, <2>3
<1>10. ExportInv'
  <2>1. /\ pc[e] \in Label /\ left[e] \ {n} \in SUBSET Name
        /\ target[e] \in Publication \union {None} /\ spent' \in SpentType
        /\ journal' \in Journal \union {None} /\ DiskSound(disk', journal')
    BY <1>1, <1>2, <1>7, HolderKnows DEF Holding, DiskSound
  <2>2. Working(disk', journal', pc[e], left[e] \ {n}, target[e])
    BY <1>1, <1>9
  <2>3. Moves(e, pc[e], left[e] \ {n}, target[e])
    <3>1. /\ lock' = e /\ target' = [target EXCEPT ![e] = target[e]]
          /\ pc' = [pc EXCEPT ![e] = pc[e]]
      BY <1>1, HolderKnows
    <3> QED BY <1>1, <1>5, <3>1, Zenon DEF Moves
  <2> QED BY <1>1, <1>7, <2>1, <2>2, <2>3, HolderStep
<1> QED BY <1>1, <1>4, <1>6, <1>7, <1>8, <1>10

\* When all is back, the journal is removed and nothing has happened.
LEMMA RestoresWell ==
  ASSUME ExportInv, NEW e \in Exporter, Restored(e)
  PROVE  ExportInv' /\ VaultOf(disk', journal') = VaultOf(disk, journal)
<1>1. /\ pc[e] \in {"recovering", "undoing"} /\ pc[e] \in Holding /\ left[e] = {}
      /\ journal' = None /\ disk' = disk /\ left' = left /\ spent' = spent
  BY DEF Restored, At, Holding, Label
<1>2. journal # None /\ Sound(disk, journal) /\ disk \in Disk
      /\ \A n \in DOMAIN journal.before : disk[n] = journal.before[n]
  BY <1>1, HolderKnows DEF Working, DiskSound
<1>3. Clean(disk) /\ VaultOf(disk, None) = VaultOf(disk, journal)
  BY <1>2, Undone
<1>4. /\ left[e] \in SUBSET Name /\ spent' \in SpentType
      /\ disk' \in Disk /\ DiskSound(disk', journal') /\ journal' \in Journal \union {None}
  BY <1>1, <1>3, HolderKnows DEF DiskSound
<1>5. ASSUME NEW at \in {"locked", "idle"}, NEW p \in Publication \union {None},
             at = "locked" => p \in Publication, Moves(e, at, left[e], p)
      PROVE  ExportInv'
  <2>1. Working(disk', journal', at, left[e], p) /\ at \in Label
    BY <1>5 DEF Working, Label
  <2> QED BY <1>1, <1>4, <1>5, <2>1, HolderStep
<1>6. ExportInv'
  <2>1. CASE At(e, "recovering")
    <3>1. pc' = [pc EXCEPT ![e] = "locked"] /\ lock' = lock /\ target' = target
      BY <2>1 DEF Restored, At, Goto
    <3>2. /\ lock' = e /\ target' = [target EXCEPT ![e] = target[e]] /\ "locked" \in Holding
          /\ left' = [left EXCEPT ![e] = left[e]] /\ target[e] \in Publication
      BY <1>1, <3>1, HolderKnows DEF Label, Holding
    <3>3. Moves(e, "locked", left[e], target[e])
      BY <3>1, <3>2, Zenon DEF Moves
    <3> QED BY <1>5, <3>2, <3>3
  <2>2. CASE At(e, "undoing")
    <3>1. /\ pc' = [pc EXCEPT ![e] = "idle"] /\ lock' = None
          /\ target' = [target EXCEPT ![e] = None]
      BY <2>2 DEF Restored, At, Goto, Unlock
    <3>2. Moves(e, "idle", left[e], None)
      BY <1>1, <3>1, HolderKnows DEF Moves
    <3> QED BY <1>5, <3>2
  <2> QED BY <1>1, <2>1, <2>2 DEF At
<1> QED BY <1>1, <1>3, <1>6

\* When all is written, removing the journal is the whole export.
LEMMA CommitsWell ==
  ASSUME ExportInv, NEW e \in Exporter, Commit(e)
  PROVE  /\ ExportInv'
         /\ \E p \in Publication :
              /\ journal # None /\ JournalFor(journal, p) /\ Sound(disk, journal)
              /\ disk \in Disk /\ disk' = disk /\ journal' = None
              /\ \A n \in DOMAIN journal.before : disk[n] = journal.after[n]
<1>1. /\ pc[e] = "replacing" /\ pc[e] \in Holding /\ left[e] = {}
      /\ journal' = None /\ disk' = disk /\ left' = left /\ spent' = spent
      /\ pc' = [pc EXCEPT ![e] = "idle"] /\ lock' = None /\ target' = [target EXCEPT ![e] = None]
  BY DEF Commit, At, Goto, Unlock, Holding, Label
<1> PICK p \in Publication : p = target[e]
  BY <1>1, HolderKnows
<1>2. /\ journal # None /\ Sound(disk, journal) /\ disk \in Disk /\ JournalFor(journal, p)
      /\ \A n \in DOMAIN journal.before : disk[n] = journal.after[n]
  BY <1>1, HolderKnows DEF Working, DiskSound
<1>3. Clean(disk)
  BY <1>2, Done
<1>4. Working(disk', journal', "idle", left[e], None)
  BY DEF Working
<1>5. /\ left[e] \in SUBSET Name /\ spent' \in SpentType /\ "idle" \in Label
      /\ disk' \in Disk /\ DiskSound(disk', journal') /\ journal' \in Journal \union {None}
  BY <1>1, <1>3, HolderKnows DEF DiskSound, Label
<1>6. Moves(e, "idle", left[e], None)
  BY <1>1, HolderKnows DEF Moves
<1>7. ExportInv'
  BY <1>1, <1>4, <1>5, <1>6, HolderStep
<1> QED BY <1>1, <1>2, <1>7
\* The owner edits a file while no exporter holds the lock.
LEMMA EditsWell ==
  ASSUME ExportInv, NEW f \in File, Edit(f)
  PROVE  /\ ExportInv'
         /\ \A n \in Name : n # f => VaultOf(disk', journal')[n] = VaultOf(disk, journal)[n]
         /\ VaultOf(disk', journal')[f] \in Touched \union {Rendered[q][f] : q \in Publication}
<1>1. /\ lock = None /\ journal' = journal /\ lock' = lock /\ pc' = pc /\ target' = target
      /\ left' = left
  BY DEF Edit
<1>2. disk \in Disk /\ DiskSound(disk, journal) /\ f \in Name /\ f # Manifest
  BY Names0 DEF ExportInv, TypeOK, Disk, Anything
<1>3. PICK v \in EditContent \union {None, Undamaged(f)} : disk' = [disk EXCEPT ![f] = v]
  BY DEF Edit
<1>4. EditOf(disk, journal, f, disk')
  BY <1>3 DEF Undamaged, Recorded, FilesOf, Touched, Was, EditOf
<1>5. /\ disk' \in Disk /\ DiskSound(disk', journal)
      /\ \A n \in Name : n # f => VaultOf(disk', journal)[n] = VaultOf(disk, journal)[n]
      /\ VaultOf(disk', journal)[f] \in Touched \union {Rendered[q][f] : q \in Publication}
  BY <1>2, <1>4, Edited
<1>6. disk'[Manifest] = disk[Manifest]
  BY <1>2, <1>3, Names0 DEF Disk
<1>7. spent' \in SpentType
  BY ConstantsAssumption DEF Edit, ExportInv, TypeOK, SpentType
<1>8. TypeOK'
  BY <1>1, <1>5, <1>6, <1>7 DEF ExportInv, TypeOK, SpentType, Disk, Anything
<1>9. ASSUME NEW d \in Exporter PROVE Working(disk', journal', pc'[d], left'[d], target'[d])
  <2>1. pc[d] \in {"idle", "waiting"}
    BY <1>1, ConstantsAssumption DEF ExportInv, TypeOK
  <2> QED BY <1>1, <2>1 DEF ExportInv, Working
<1> QED BY <1>1, <1>5, <1>8, <1>9 DEF ExportInv

\* A new vault, and one as an export older than spaces left it.
LEMMA InitHolds == Init => ExportInv
<1> SUFFICES ASSUME Init PROVE ExportInv
  OBVIOUS
<1>1. disk \in Disk /\ Clean(disk)
  <2>1. CASE disk = [n \in Name |-> None]
    BY <2>1, Names0 DEF Disk, Anything, Clean, Touched
  <2>2. CASE \E p \in Publication :
          disk = [n \in Name |-> IF n = Manifest THEN [ManifestOf(p) EXCEPT !.space = None]
                                                 ELSE Rendered[p][n]]
    <3>1. PICK p \in Publication :
            disk = [n \in Name |-> IF n = Manifest THEN [ManifestOf(p) EXCEPT !.space = None]
                                                   ELSE Rendered[p][n]]
      BY <2>2
    <3> PICK m \in Manifests : m = [ManifestOf(p) EXCEPT !.space = None]
      BY DEF Manifests
    <3>2. m.files = Rendered[p]
      BY DEF ManifestOf
    <3>3. m \in ManifestType /\ m # None
      BY RenderedTyped, ConstantsAssumption DEF ManifestOf, ManifestType
    <3>4. disk[Manifest] = m /\ \A f \in File : disk[f] = Rendered[p][f]
      BY <3>1, Names0
    <3>5. \A f \in File : Rendered[p][f] \in Anything
      BY RenderedTyped, TouchedTyped
    <3>6. disk \in Disk
      BY <3>1, <3>3, <3>4, <3>5, Names0 DEF Disk, Anything
    <3> QED BY <3>2, <3>3, <3>4, <3>6 DEF Clean, FilesOf
  <2> QED BY <2>1, <2>2 DEF Init
<1>2. disk[Manifest] \in ManifestType \union {None}
  BY <1>1, ManifestsTyped DEF Clean
<1>3. TypeOK
  BY <1>1, <1>2, ConstantsAssumption DEF Init, TypeOK, Disk, Anything
<1>4. DiskSound(disk, journal)
  BY <1>1 DEF Init, DiskSound
<1>5. ASSUME NEW e \in Exporter PROVE Working(disk, journal, pc[e], left[e], target[e])
  BY DEF Init, Working
<1> QED BY <1>3, <1>4, <1>5 DEF ExportInv

LEMMA StepHolds == ExportInv /\ [Next]_vars => ExportInv'
<1> SUFFICES ASSUME ExportInv, [Next]_vars PROVE ExportInv'
  OBVIOUS
<1>1. ASSUME NEW e \in Exporter, Progress(e) PROVE ExportInv'
  BY <1>1, LockKeeps, RefuseKeeps, BeginsToRestore, PreparesWell, WritesWell, CommitsWell,
     RestoresWell DEF Progress
<1>2. ASSUME UNCHANGED vars PROVE ExportInv'
  BY <1>2 DEF vars, ExportInv, TypeOK, DiskSound, Clean, Sound, Working
<1> QED BY <1>1, <1>2, StartKeeps, BeginsToRestore, CrashKeeps, EditsWell DEF Next

LEMMA InvariantHolds == Spec => []ExportInv
BY InitHolds, StepHolds, PTL DEF Spec

-----------------------------------------------------------------------------
(* What the exporter promises. *)

\* The state keeps its types, and who works on the vault holds the lock.
THEOREM ExportTypes == Spec => []TypeOK
<1>1. ExportInv => TypeOK
  BY DEF ExportInv
<1> QED BY <1>1, InvariantHolds, PTL

\* Crashes, failures and retries leave no file of an export that the manifest does not
\* record.
THEOREM NoStraysRemain == Spec => []NoStrayFiles
<1>1. ExportInv => NoStrayFiles
  BY DEF ExportInv, DiskSound, Clean, NoStrayFiles, Recorded, FilesOf, Touched
<1> QED BY <1>1, InvariantHolds, PTL

\* A step of an exporter changes only a file that is as it was before an export or as
\* it will be after it.
LEMMA OnlyOwnFiles ==
  ASSUME ExportInv, [Next]_vars, NEW f \in File, disk'[f] # disk[f]
  PROVE  \/ Edit(f)
         \/ /\ journal # None /\ f \in DOMAIN journal.before
            /\ disk[f] \in {journal.before[f], journal.after[f]}
<1>1. ASSUME NEW e \in Exporter, NEW p \in Publication, Start(e, p) PROVE FALSE
  BY <1>1 DEF Start
<1>2. ASSUME NEW e \in Exporter, Progress(e)
      PROVE  /\ journal # None /\ f \in DOMAIN journal.before
             /\ disk[f] \in {journal.before[f], journal.after[f]}
  <2>1. Replace(e) \/ Restore(e)
    BY <1>2 DEF Progress, Lock, Refuse, Recover, Prepare, Commit, Restored
  <2>2. journal # None
    <3>1. pc[e] \in {"replacing", "recovering", "undoing"}
      BY <2>1 DEF Replace, Restore, At
    <3> QED BY <3>1 DEF ExportInv, Working
  <2> QED BY <2>1, <2>2, WritesWell, Names0
<1>3. ASSUME NEW e \in Exporter, Fail(e) \/ Crash(e) PROVE FALSE
  BY <1>3 DEF Fail, Crash
<1>4. ASSUME NEW g \in File, Edit(g) PROVE Edit(f)
  <2>1. g = f
    BY <1>4, Names0 DEF Edit, ExportInv, TypeOK
  <2> QED BY <1>4, <2>1
<1>5. ~ UNCHANGED vars
  BY DEF vars
<1> QED BY <1>1, <1>2, <1>3, <1>4, <1>5 DEF Next

\* What the owner wrote is changed by nobody else.
THEOREM EditsStay == Spec => EditsSurvive
<1>1. ASSUME ExportInv, [Next]_vars, NEW f \in File, disk[f] \in EditContent, disk'[f] # disk[f]
      PROVE  Edit(f)
  <2>1. disk[f] # None /\ \A q \in Publication : disk[f] # Rendered[q][f]
    BY <1>1, ConstantsAssumption, EditAssumption
  <2>2. ASSUME journal # None, f \in DOMAIN journal.before,
               disk[f] \in {journal.before[f], journal.after[f]}
        PROVE  FALSE
    <3>1. PICK p \in Publication : JournalFor(journal, p)
      BY <1>1, <2>2 DEF ExportInv, DiskSound, Sound
    <3> PICK m \in Manifests \union {None} : m = journal.before[Manifest]
      BY <3>1 DEF JournalFor
    <3>2. journal.before[f] = FilesOf(m)[f] /\ journal.after[f] = Rendered[p][f]
      BY <2>2, <3>1, Names0 DEF JournalFor, After
    <3> QED BY <2>1, <2>2, <3>2, ManifestsTyped
  <2> QED BY <1>1, <2>2, OnlyOwnFiles
<1>2. ExportInv /\ [Next]_vars =>
        [\A f \in File : disk[f] \in EditContent /\ disk'[f] # disk[f] => Edit(f)]_vars
  BY <1>1
<1> QED BY <1>2, InvariantHolds, PTL DEF Spec, EditsSurvive
-----------------------------------------------------------------------------
(* The refinement of module Vault. *)

LEMMA NowIs == VaultNow = VaultOf(disk, journal) /\ VaultNow' = VaultOf(disk', journal')
BY DEF VaultNow, VaultOf

\* Every vault that may exist before the first export is one that a former export left.
LEMMA InitRefines == Init => Promise!Init
<1> SUFFICES ASSUME Init PROVE Promise!Init
  OBVIOUS
<1>1. Clean(disk) /\ journal = None
  BY InitHolds DEF ExportInv, DiskSound, Init
<1>2. \A n \in Name : VaultNow[n] = disk[n]
  BY <1>1 DEF VaultNow
<1>3. \A f \in File : FilesOf(disk[Manifest])[f] # None => disk[f] = FilesOf(disk[Manifest])[f]
  <2>1. CASE disk = [n \in Name |-> None]
    BY <2>1, Names0 DEF FilesOf
  <2>2. CASE \E p \in Publication :
          disk = [n \in Name |-> IF n = Manifest THEN [ManifestOf(p) EXCEPT !.space = None]
                                                 ELSE Rendered[p][n]]
    <3>1. PICK p \in Publication :
            disk = [n \in Name |-> IF n = Manifest THEN [ManifestOf(p) EXCEPT !.space = None]
                                                   ELSE Rendered[p][n]]
      BY <2>2
    <3> PICK m : m = [ManifestOf(p) EXCEPT !.space = None]
      OBVIOUS
    <3>2. m.files = Rendered[p]
      BY DEF ManifestOf
    <3>3. disk[Manifest] = m /\ \A f \in File : disk[f] = Rendered[p][f]
      BY <3>1, Names0
    <3> QED BY <3>2, <3>3 DEF FilesOf
  <2> QED BY <2>1, <2>2 DEF Init
<1>4. \A f \in Promise!Owned :
        f \in File /\ FilesOf(disk[Manifest])[f] # None /\ VaultNow[Manifest].files = FilesOf(disk[Manifest])
  BY <1>2, Names0 DEF Promise!Owned, FilesOf
<1> QED BY <1>2, <1>3, <1>4, Names0 DEF Promise!Init, Promise!Untouched

\* The export takes place when its journal is removed.
LEMMA CommitRefines ==
  ASSUME ExportInv, NEW e \in Exporter, Commit(e)
  PROVE  \E p \in Publication : Promise!Export(p)
<1>1. PICK p \in Publication :
        /\ journal # None /\ JournalFor(journal, p) /\ Sound(disk, journal)
        /\ disk \in Disk /\ disk' = disk /\ journal' = None
        /\ \A n \in DOMAIN journal.before : disk[n] = journal.after[n]
  BY CommitsWell
<1> PICK was, now : was = VaultNow /\ now = VaultNow'
  OBVIOUS
<1>2. /\ was[Manifest] = journal.before[Manifest] /\ Belongs(was[Manifest], p)
      /\ \A f \in File : FilesOf(was[Manifest])[f] # None => was[f] = FilesOf(was[Manifest])[f]
      /\ now[Manifest] = ManifestOf(p)
      /\ \A f \in File :
           \/ now[f] = Rendered[p][f] /\ (was[f] = None \/ FilesOf(was[Manifest])[f] # None)
           \/ now[f] = was[f] /\ Rendered[p][f] = None /\ FilesOf(was[Manifest])[f] = None
  <2>1. was = VaultOf(disk, journal) /\ now = VaultOf(disk, None)
    BY <1>1, NowIs
  <2> QED BY <1>1, <2>1, Done
<1>3. \A f \in File : f \in Promise!Owned <=> FilesOf(was[Manifest])[f] # None
  BY DEF Promise!Owned, FilesOf
<1>4. Promise!Untouched
  BY <1>2, <1>3 DEF Promise!Untouched, Promise!Owned, FilesOf
<1>5. Promise!BelongsTo(p)
  BY <1>2 DEF Promise!BelongsTo, Belongs
<1>6. /\ now[Manifest].files = Rendered[p] /\ now[Manifest].server = Origin[p].server
      /\ now[Manifest].space = Origin[p].space
  BY <1>2, RenderedTyped
<1>7. \A f \in File :
        \/ VaultNow'[f] = Rendered[p][f] /\ (VaultNow[f] = None \/ f \in Promise!Owned)
        \/ VaultNow'[f] = VaultNow[f] /\ Rendered[p][f] = None /\ f \notin Promise!Owned
  BY <1>2, <1>3
<1>8. /\ VaultNow'[Manifest].files = Rendered[p] /\ VaultNow'[Manifest].server = Origin[p].server
      /\ VaultNow'[Manifest].space = Origin[p].space
  BY <1>6
<1> QED BY <1>4, <1>5, <1>7, <1>8 DEF Promise!Export

LEMMA EditRefines ==
  ASSUME ExportInv, NEW f \in File, Edit(f)
  PROVE  Promise!Edit(f)
<1> PICK was, now : was = VaultNow /\ now = VaultNow'
  OBVIOUS
<1>1. was = VaultOf(disk, journal) /\ now = VaultOf(disk', journal')
  BY NowIs
<1>2. /\ \A n \in Name : n # f => now[n] = was[n]
      /\ now[f] \in Touched \union {Rendered[q][f] : q \in Publication}
  BY <1>1, EditsWell
<1>3. now = [was EXCEPT ![f] = now[f]]
  <2>1. DOMAIN was = Name /\ DOMAIN now = Name
    BY <1>1 DEF VaultOf
  <2>2. was = [n \in Name |-> was[n]] /\ now = [n \in Name |-> now[n]]
    BY <1>1 DEF VaultOf
  <2> QED BY <1>2, <2>1, <2>2
<1>4. now[f] \in EditContent \union {None} \union {Rendered[q][f] : q \in Publication}
  BY <1>2 DEF Touched
<1> QED BY <1>3, <1>4 DEF Promise!Edit

\* Every other step leaves the vault, as its owner may count on it, as it is.
LEMMA StepRefines == ExportInv /\ [Next]_vars => [Promise!Next]_VaultNow
<1> SUFFICES ASSUME ExportInv, [Next]_vars PROVE Promise!Next \/ VaultNow' = VaultNow
  BY Zenon
<1>1. ASSUME disk' = disk, journal' = journal PROVE VaultNow' = VaultNow
  BY <1>1, NowIs
<1>2. ASSUME NEW e \in Exporter, Progress(e) PROVE Promise!Next \/ VaultNow' = VaultNow
  <2>1. ASSUME Lock(e) \/ Refuse(e) \/ Recover(e) PROVE VaultNow' = VaultNow
    BY <1>1, <2>1 DEF Lock, Refuse, Recover
  <2>2. ASSUME Prepare(e) \/ Replace(e) \/ Restore(e) \/ Restored(e) PROVE VaultNow' = VaultNow
    BY <2>2, NowIs, PreparesWell, WritesWell, RestoresWell
  <2>3. ASSUME Commit(e) PROVE Promise!Next
    BY <2>3, CommitRefines DEF Promise!Next
  <2> QED BY <1>2, <2>1, <2>2, <2>3 DEF Progress
<1>3. ASSUME NEW e \in Exporter, NEW p \in Publication, Start(e, p) PROVE VaultNow' = VaultNow
  BY <1>1, <1>3 DEF Start
<1>4. ASSUME NEW e \in Exporter, Fail(e) \/ Crash(e) PROVE VaultNow' = VaultNow
  BY <1>1, <1>4 DEF Fail, Crash
<1>5. ASSUME NEW f \in File, Edit(f) PROVE Promise!Next
  BY <1>5, EditRefines DEF Promise!Next
<1>6. ASSUME UNCHANGED vars PROVE VaultNow' = VaultNow
  BY <1>1, <1>6 DEF vars
<1> QED BY <1>2, <1>3, <1>4, <1>5, <1>6 DEF Next

\* Exports are atomic across failures, crashes, recovery and retries.
THEOREM ExportsAreAtomic == Spec => ExportsAtomic
<1>1. Spec => [][Promise!Next]_VaultNow
  BY InvariantHolds, StepRefines, PTL DEF Spec
<1> QED BY <1>1, InitRefines, PTL DEF Spec, ExportsAtomic, Promise!Spec
=============================================================================
