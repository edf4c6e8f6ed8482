# Verified models of WikiContext

WikiContext is a shared wiki for people and agents. A PocketBase server keeps
sources, passages extracted from them, and immutable page revisions that cite the
passages; agents stage revisions under an ingestion run and publish the run as a
whole. Server hooks (`pb_hooks/`) enforce the rules, a Python client
(`src/wikicontext_client/`) ingests, publishes, reads and exports, a browser reader
(`ui/src/`) shows publications, a container (`docker/`) restores and replicates the
database, and operator tools (`tools/`, `deploy/rehearsal/`) capture, recover, rehearse
and replace an installation. This directory holds TLA+ models of the parts whose
correctness depends on order, concurrency or failure, the TLC runs that check
them, and TLAPS proofs.

    tlc -workers 2 -config navigation.cfg MCPublishing.tla
    tlapm PublishingProofs.tla

## 1. Inventory

| Component | State | Operations | What is hard | What makes it correct |
|---|---|---|---|---|
| Publication hooks `pb_hooks/integrity.js` | pages, runs, revisions, citations, links, publications | create each record, PATCH a run (home choice, cancel, publish) | requests of several agents interleave over days of staging; publish compares the whole manifest | links, homes, evidence and claims of every publication hold together; no lost update; published records never change |
| Properties `pb_hooks/properties.js`, client `properties.py` | none | validate one revision | long rule lists, no concurrency | client and server agree |
| Spaces `pb_hooks/spaces.js` | spaces, memberships, audit rows | personal space, group space, membership, admission | concurrent membership changes | an active owner remains; no change lost; audit complete; personal spaces fixed |
| Account access `pb_hooks/account_access.js` | disabled flag, token key | sign-in, middleware, realtime filter, disable, enable | in-flight sign-ins and requests around a change | a revoked session stays revoked |
| Sign-in and directory routes `google_auth.js`, `user_directory.js` | none of their own | one check per request | - | not modelled |
| Serving hooks `deploy.js`, `reader.js` | settings copied from the environment | at boot; static files | a frozen volume must keep its settings | the settings served are the ones checked |
| Ingestion `ingest.py`, `transcript_bundle.py` | server: sources, renditions, passages; client: extraction cache | import a text, image review or transcript bundle | no lock, lost answers, kills, two machines that extract differently | no mixed renditions, order of storage, honest outcome, retries succeed |
| Audio workflow `audio_pipeline.py` | receipt file, recording, lock, provider's manifest | prepare, generate (billable), resume, import | kills around the provider call, concurrent commands | never generate twice unasked |
| Exporter `exporter.py` | vault files, manifest, journal, lock | export, recover | kill or failing write between files; edits between exports | exports are atomic, edits survive, retries repair |
| Command line `cli.py` | session file | every command; sign-in again and repeat | a rejected token that looks like a missing record; a repeated request | what a command writes is written once |
| Knowledge queries `knowledge.py` | none | select, count, page through, search | one publication read in several requests while memberships and the index change | a result is whole, and of one ranking |
| Semantic search experiment `tools/semantic_search_poc` | corpus file | prepare, search, count, benchmark | the corpus changes under a benchmark; partial corpora | the corpus is a whole publication |
| Browser reader `ui/src` | memory caches, histories, memberships, snapshot monitor, loaded views | load, refresh, switch account or space | revocation during reads, responses out of order, shared requests | nothing of a former access is kept or shown |
| Container startup `docker/entrypoint.py` | data directory, markers, staging directory | init, restore, verify, provision, serve | kills and failures between any two steps | serve only a whole, verified, replicated database; never refuse a servable one |
| Cutover tools `capture_checkpoint.py`, `activate_checkpoint.py` | receipts, fence, containers, volume | capture, migrate, activate, thaw | kills, reboots, commands that fail half-way, restart policies | nothing written is lost; no change without a recovered copy |
| Off-host copies `checkpoint.py` | packages, backup bucket | package, upload, verify | writers of the object storage; damaged copies | a verified recovery is the checkpoint, with its originals |
| Clones `prepare_clone.py`, `local_once.py` | clone directory, preparation receipt | prepare, pack | half-done preparations, directories touched by hand | a rehearsal admits nobody by a credential of the source |
| External: PocketBase transactions, PocketContext snapshots, Litestream, S3, Docker, ONCE, Gemini | | | | assumed |

Interaction: the client and the browser reach the server by REST requests and by
SQL over snapshots; each domain write passes the account middleware, then runs
`write` in one transaction, which reads memberships (`spaces.js`) and domain tables
(`integrity.js`). Ingestion produces the passages that revisions cite; publishing
produces the publications that the exporter, the queries and the reader read, both
immutable from then on. So these components meet in a few facts only: a committed record
does not change, and a run is closed once. The tools meet the server in its data
directory, its maintenance marker and its object storage. The hazards are listed one
by one, each at its line, in `PROJECT.json`.

## 2. Modules

| Module | What it is |
|---|---|
| `Publishing` | the publication hooks; one action per request kind |
| `PublicationHistory` | what readers are promised: a per-space, append-only sequence of closed snapshots |
| `MCPublishing` | small instances of `Publishing`: `catalog`, `evidence` |
| `MCNavigation` | two more, by one run: `navigation` |
| `Access`, `MCAccess` | accounts, sessions, spaces, memberships, and the check inside a domain write; instance `access` |
| `Export`, `MCExport` | the exporter's lock, journal, replacement and recovery, step by step; instance `export` |
| `Vault` | what the exporter promises: whole exports over untouched files, and edits |
| `Ingest`, `MCIngest` | clients storing plans of records over an unreliable network; instance `ingest` |
| `Imports` | the two plans: a text, a transcript bundle |
| `Startup`, `MCStartup` | the container of one installation, with its replica and object storage; instance `startup` |
| `Recovery` | packaging, uploading and recovering a checkpoint |
| `Clone` | preparing and packing a clone of a recovered checkpoint; extends `Recovery` |
| `Cutover`, `MCCutover` | capture, migration, activation, thaw; extends `Clone`, composes the three; instance `cutover` |
| `ClientSession` | the session file, rejected tokens and repeated requests |
| `AudioWorkflow`, `MCAudio` | the audio workflow, its requests made through `ClientSession`; instance `client` |
| `Reader` | the browser reader |
| `Snapshots` | the reader's snapshot monitor and the order of its statuses; run `status` |
| `Corpus` | queries over one publication and the prepared corpus of the experiment |
| `MCReaders` | `Reader` and `Corpus`, one at a time; instance `readers` |
| `MCCorpus` | `Corpus` where nothing fails; instance `prepared` |
| `PublishingProofs`, `AccessProofs`, `ExportProofs`, `IngestProofs`, `StartupProofs` | theorems about the module each is named for |
| `CutoverProofs` | theorems about `Cutover`, with `Recovery` and `Clone` |
| `ClientProofs` | theorems about `ClientSession` and `AudioWorkflow` |
| `ReadersProofs` | theorems about `Reader` and `Corpus` |

Each module but `Snapshots` states one type invariant. All are proved; that of `Publishing` is checked by
`evidence` as well, the others are not repeated in the configurations, where other properties
would fail first.

### Publishing

A request is one transaction (`write`, integrity.js:219), so it is one action; one
that is refused rolls back and is a stuttering step. `pages`, `runs`, `drafts`,
`links`, `citations` and `publications` are the tables; since a run has at most one
revision of a page (`idx_run_page`), a revision is the pair of run and page.
`seen[a]` is the run record agent `a` read last; its revision becomes
`expected_revision`, so that a PATCH is refused where the record has changed since
(`Expected`). Staging a revision, link or citation does not touch the run's record.
`Publishable` is `publish` check by check, with the helper
operators in the order of the code. The text of a revision is abstracted to what
`publish` compares between revisions: wiki-links, relationship properties with the
catalog type their key demands, citation markers, unique claims (audio source,
GitHub destination), the warned bundle of a recording and whether its review note
is there, and the revisions that a sync page names. What one revision's text must
satisfy alone (`properties.js`, footnote syntax) decides which elements `Content`
has. Passages are constants with their space and bundle.

`audioCatalog` compares the immutable records of one recording with each other and
is part of what contents exist; ids that are absent or foreign are refused by
`Local`. The check for the right to write is in `Access`; without it `Publishing`
has more behaviours, not fewer.

### Access

A user's request is let in by the middleware (`UserRequest`), and handled later
(`Handle`), or refused (`Decline`); an operator's skips the middleware. The request
carries the membership record its sender had read (`seen`), from which
`expected_revision` comes. Accounts may be disabled, enabled and signed in at any
moment, also between those two steps. A sign-in has two steps: loading the account
record, and `authenticate` with that record. Users reach `createGroupSpace` and
`setMembership` in the model, although their routes serve operators only at
present: the source calls the functions the reviewed enablement path, and they
are written for both. `writes` remembers under which membership each domain write
was committed. The database is new; accounts from before the migration have a
membership without an audit row, which `AuditComplete` is not about.

### Export

An exporter's program counter moves along `publish`: `Lock`, then `Refuse`,
`Recover` or `Prepare`, then `Replace` for each name in sorted order (the manifest
first), then `Commit`. `Fail` is an exception from a write, after which the
exporter rolls back itself; `Crash` kills it anywhere and the operating system
releases its lock. The owner edits while no exporter runs, as src/README.md:359
asks. A file's content and its digest are identified. `ExportsAtomic` reads the
vault through `VaultNow`: a name in the journal counts as what it was before the
export unless somebody else changed it, since whoever finds the journal rolls it
back. Under that mapping all replacing and restoring is stuttering, and removing
the journal is the export.

### Ingest and Imports

An import is a sequence of records with unique keys. For each the client looks
(`Look`), asks for its creation, and after a failure looks again (`Relook`) and
compares. The network holds requests that may be lost, or served after their
sender has stopped waiting. `Kill` stops a client, which then may start any
document again. A text is extracted after its source is stored, unless a complete
rendition is found; the result is kept in the machine's cache. `Imports[d]` has
several elements because tools on different machines extract differently. Reads are
fresh: the client asks for that consistency centrally
(docs/background-snapshots.md, "The Python client requests fresh SQL/search
reads centrally, including ingestion deduplication").

### Startup

`pc` is the next step of `prepare`, `restore_database` and `serve` (entrypoint.py);
`mode` the command. The volume keeps what the entrypoint looks at: the database, other
files and staging directories (`litter`), the initialization mark, the maintenance
marker, local originals. A restore is staged beside the data directory and put in place by one
`os.replace`; a kill leaves at most the staging directory. A database that is being restored or
migrated is not `whole`, which is what the integrity check and the table list tell. `Booted` is
`deploy.js`: every server command copies the environment into the settings, except on a
frozen volume, whose storage the entrypoint must then find equal. `replica` and `bucket` are
external: `Sync` is Litestream's first synchronization, `Replicate` a later one; a kill
between them and the server's writes loses only those writes. `origin` numbers the
initializations, so that `ReplicaKept` can tell one database from another. `CopyFile` is
`migrate_files.py`; `Maintain` is the maintenance route, which belongs to PocketContext. Lost databases, replaced volumes,
changed environments and damaged objects are faults.

### Recovery, Clone and Cutover

`Cutover` follows the two tools command by command. `files` are the receipts whose
presence the code tests, `box` the containers on the volume, `restarts` the restart policies,
`fence` the marker that holds deliveries back, `token` the maintenance generation that
`freeze` must name. Every phase may fail at any step (`Fail`, then the tool's own
clean-up, `CaptureAbort` to `ThawAbort`, each of whose commands may fail again), be killed,
or end with a reboot, after which Docker restarts what it may. `Backup` may leave production
running, which is why it is stopped once more. Locks admit one tool, so there is one `pc`.
The data are the originals that sources refer to, the schema, and the maintenance marker.

`Recovery` takes none of the locks and runs beside all of that, and so do the writers of
the object storage. A package is the captured copy with a listing of the bucket that was
the same before and after; the tool cannot see what the bucket held at the capture.

`activate_checkpoint.py` does not see a recovery. It reads a file in which the operator has
added the digest of a capture's receipt to the result of `verify`, and compares that digest
and four booleans (lines 89-93); the documentation asks to bind the recovery to the exact
capture, and no tool computes the binding. So `RecoveryVerified` compares the number of the
receipt only (`receipts`, `verification`), and `Bind` is the operator's step. Its guard, that the
recovery is of the capture at hand, is an assumption about the operator, not a check of
the code. A capture may be given up (`GiveUp`) and another made, and the file of the first
may still lie there: that is where the comparison is needed.

`Clone` works on a recovered checkpoint and shares no variable with production, so the two
are explored one after the other. Credentials are marked as the source's or the clone's: passwords,
signing secrets, external identities, the bindings in the settings. The worker's token is
valid while the password and the signing secret it was issued under are; that is why its
last two steps sign in again. `Abandon` leaves the directory wherever a failure found it,
`StartClone` and `TouchSource` are others at the two directories. `prepared_archive` verifies the
directory (`VerifyClone`), runs a container to look at the image, and reads the directory
again for the archive (`PackClone`); whatever happens between the two is packed unnoticed.

### ClientSession and AudioWorkflow

A request (`Ask`) loads or renews the session, is sent, answered and perhaps sent again.
A token of an earlier `era` is rejected: with 401 by SQL, and with 404 by the records API,
which takes it for no token at all; `RejectedToken` is the code's probe of the token after
such an answer. A proxy may replace the answer of a request that has been applied by an
error. `Retry` is `must`: only what reads is repeated. The session file is shared by the
processes of a machine without a lock.

`AudioWorkflow` follows `ingest_audio`: `task` is the step of each process, `snapshot` the
copied recording, `receipt` the file `workflow.json`, `held` the receipt the process
has read under the lock. `Provided` is what the provider's tool leaves: a completed or
failed status, with or without a manifest; "failed" stands for "uncertain" too, which the code
treats alike. `fresh` and `unasked` count what is billed. `import_bundle` is one request
here and the subject of `Ingest`. Other commands write through the same session (`Update`).

### Reader

A space stands for what the reader reads of it: its list of publications (`histories`), and
the pages of the selected one (`values`, `view`), with the validation that `listPages` makes
first. `check` is `ReconciledRead`: the membership read in flight and the one to follow;
`loads` are the runs of `load` in flight, at most one of which is active; `fetches` the
requests that `memoryCache`, the histories and the monitor share between callers. What has
changed since a request was sent is on the request: the generation of the cache, the authority of
the reader, the epoch of the monitor and the session are all fences of that kind (`Fence`,
`Keeps`, `Rejected`). A load that joins another's history request and has to refresh it asks once
more after it (`Asking`). The server answers from any earlier copy of the rows, except where the
reader asks for a fresh one. Requests and their deliveries are separate steps, in any
order. Another tab may change the account at any time. A change of identity mounts the reader anew in
the same step. `told` remembers which spaces an event was to make the reader find lost.
`status` is the account whose status is shown; which copy it names is the matter of
`Snapshots`. There a query is answered from the server's last copy and a status request
with that copy, or with none before the first one and after a restart or an eviction
(docs/background-snapshots.md:31, 53-55); responses arrive in any order, and `Observe` is `observe`,
which compares only where both statuses name a copy.

### Corpus

A command reads one publication by `select_publication`, a count, and batches by key
(`knowledge.py`); the server answers each from the rows that the account may see then.
`Page` halves the limit when an answer is too large. A search names the generation of the
index it began with (`SameIndex`). `prepare` writes the corpus, `query` stands for `search` and
`count`, and `benchmark` loads and pins the corpus, then does the same. `Described` and `Stored`
keep exactly the keys that the code keeps of a publication, since `SamePublication` compares
them. Nothing behind that comparison is modelled, because nothing reaches it (section 4).

## 3. Runs

| Run | Question | Distinct states |
|---|---|---|
| `navigation` | archiving, linking and home choices of two runs race; two agents change the same runs of two spaces | 1,013,159 |
| `catalog` | typed relationships, claims and sync pages over three runs | 918,797 |
| `evidence` | edits, citations of warned bundles and their reviews over three runs | 886,023 |
| `access` | two users and an operator change a group's memberships; one account through disabling, enabling, revocation and in-flight requests | 1,018,438 |
| `export` | two exporters, crashes, failing writes, edits: safety, refinement, termination and repair | 327,210 |
| `ingest` | two machines, two documents, a lost or killed step | 305,810 |
| `startup` | one installation through initializations, restores, faults and restarts | 497,528 |
| `cutover` | capture, off-host copy, migration, activation and thaw, repeated captures; a clone prepared, verified and packed | 2,380,557 |
| `client` | two processes share a session and an audio workflow | 6,154,933 |
| `readers` | a corpus prepared and queried; a keyword search; the browser reader | 1,376,410 |
| `prepared` | a corpus is prepared and queried, nothing fails: violated | - |
| `status` | snapshot statuses out of order: violated | - |

**navigation.** Two questions with bounds of their own (`question`). "races":
`NoBrokenLinks` and `HomeIsLive` need the loop of `publish` over the whole manifest, not only over the run's own revisions; `ImplementsHistory` shows
that what readers see only ever grows by closed snapshots although it is spread
over three tables. Two runs suffice for a race (one archives, one links); two pages
with one link between them are the smallest graph that can break. One agent closes
each run as it was created, and reads it just before, which is as good as any
time before that. "patches": one agent chooses homes, the other closes
the runs, and a run changes up to twice after its creation, so that a close may be based on a
reading from before the choice: `PatchedAsRead` is about the agent whose PATCH
changes the record, who must have read the one it replaces. It promises nothing of the
revisions, links and citations that another has staged, which are no part of the run's record in
the code either. Each space has a passage, one page cites and the other links, so
that `SpaceIsolation` has something to confuse.

**catalog.** One run has published a document and a destination of it; two others may
change both and add a third page, either a sync record of the destination as one of
them stages it, or a second claim to the same path. So one can retype or replace what
the other relies on, and a revision can be named before it is published. Three more
revisions let one run do two things and the other one.

**evidence.** `LinearLineage` needs three runs: two that share a base, and one whose base
the second produced. For `WarningsReviewed` one publishes the review, one archives it, one cites
(it counts reviews of earlier publications, the published history
the code loads in lines 98-110). `EvidenceComplete` is what a late citation would
break.

**access.** One instance with two sets of bounds, chosen at the start (`question`).
"membership": two accounts are enough for mutual removal (`GroupsKeepAnOwner`) and for
two changes based on one reading (`MembershipsChangedAsSeen`, `AuditComplete`); six
changes let both happen more than once; only the group `s1` is managed, to keep company
memberships to admission. "sessions": one account, both spaces, three token keys: before
disabling, while disabled, enabled again. `RevokedSessionsStayRevoked` is about the sign-in
that was half done at the change; `WritesAuthorised` about the write that was let in before
a revocation; `PersonalSpacesFixed` about membership changes that name a personal space.
Two requests are under way at a time. Accounts are interchangeable, so TLC may use that
symmetry.

**export.** Three files that one publication changes, drops and adds, a third
publication of another space, a vault that is new or predates spaces. Four
exports, three crashes and two edits allow a crash, a crash in the recovery from
it, an edit between the two, and a success after them.

**ingest.** A text with two possible extractions of different length, and a bundle with
a transcript, a file and the link record. One failure at any point is the smallest
number that separates a retry from a first attempt; two machines give concurrency
besides.

**startup.** Two initializations, so that one could replace the other's replica; two
environments, so that a frozen volume can be started with the wrong one; two originals, so
that one can be intact and the other not. Four faults reach a replaced volume, a kill in
its restore, a damaged original and a lost database together. `ServesAgain` is what a
staging directory inside the volume, or a mark that is set too early, would break.

**cutover.** Two questions again. "production": two packaging attempts and one change by others
put an original at risk between a listing and an upload, or damage one of two copies. Two
maintenance generations are enough for a freeze based on a stale one, and two captures for a
verification that is left from the first. "rehearsal": one package of one capture is recovered
and cloned. Two accounts, one with a test password, two operators, one of
them the worker's own, are one of each kind that `prepare_clone` treats differently. Two
touches: one makes a receipt stale, another falls into a preparation or between verification and
packing. `CloneRevoked` speaks of a clone that is packed as it was verified (section 4).

**client.** Two processes, three commands, one revocation, one repetition: a process is
killed while it generates and another takes the workflow up; a token is rejected between
two requests of a command. A command that is repeated and one that signs in again can be the same.

**readers.** The programs share no state and are explored one at a time (`program`). Two
publications of up to two pages, read two at a time or one, with two generations of the
index; two processes, one of which prepares while the other queries. The browser has two accounts, two
spaces, two loads and two requests in flight, a cache of one entry, so that it overflows, and
two changes of account or membership. Histories are kept for eight spaces in the code, a
bound that two spaces do not reach. `NothingKept` is safety of what is kept; `NoLoadStranded`
says that a load which waits for a read or request has one to wait for, which a
follower that is forgotten when the read before it fails would break.

**status.** Two copies and three responses on their way: one status asked before the first copy,
one query answered from each.

Deadlock is not checked in any run: bounds on runs, changes, exports and failures are
finite, and a system that has used them up stops.

Each property of a passing run has a mutant, a plausible mistake in the definition it
replaces, under which the property fails in the same run. The mutant is a definition of the
same module that no other uses, placed before the one it stands in for.

## 4. What the code does differently

`prepared` is violated. A corpus that was just prepared is refused by every query:
`verify_publication` (tools/semantic_search_poc/cli.py:222) compares what
`select_publication` returns (`id`, `space` and `sequence`) with what `prepare` stored (`id` and
`sequence`), and the two are never equal. The experiment's README.md:7-8 says that
`search` and `benchmark` send the corpus to the provider. The counterexample has no concurrency and no failure.

`status` is violated. The comment in `observe` (ui/src/snapshotStatus.ts:49-50) says "Do not
regress a completed generation or lose a newer refresh status to an older response." The code
compares only where both statuses have a generation. A status asked for before the first copy
has none; delivered after the second copy it replaces that, and then a late answer from
the first copy is accepted, since the current status names nothing to compare with. The
caches are not cleared by that; the age shown is wrong until the next status.

`prepared_archive` (deploy/rehearsal/local_once.py:157, 160, 176) reads the directory again
after it has verified it. If the clone is started in between, with the source's environment,
the archive holds what that provisions. `CloneRevoked` excludes it by its hypothesis
`packed = verified`; nothing in the code does.

One more limit shows in `OneWholeCorpus`: if the membership ends between the selection and the
count, the count finds no rows, the pages agree, and an empty corpus is written. The
property admits it; a count of zero is not told apart from a publication without pages.

## 5. Fairness

Safety runs assume none. `Export!FairSpec` has weak fairness of each exporter's own
step: a process that is not killed goes on, and the operating system grants a free
lock. Who is granted it is not fair: an exporter may be overtaken as long as others
come, which `MaxExports` bounds. `Ingest!FairSpec` has weak fairness of each client's
own step and of the server's answers. `Startup!FairSpec` has weak fairness of starting a
stopped container and of its steps of preparation together: production runs under ONCE
with a restart policy (the capture has to remove it before it stops the container,
tools/capture_checkpoint.py:207), and the entrypoint is one sequential process. Nothing is assumed of crashes, losses and edits: the liveness properties speak of
attempts in which no more of them happen, and the bound `MaxCrashes`, `MaxFailures`
or `MaxFaults` is what says so. `ServesAgain` asks besides that the installation
remains servable: its database or its replica is there, every original is intact, nothing
is left that the code refuses on purpose.

## 6. Proofs

The eight `...Proofs` modules prove every safety property that the passing runs check,
invariants and action properties, the type invariants, and the two refinements, for all values
of the constants under the modules' assumptions. Few of the properties are inductive; what
follows says what had to be added, and why.

**Publishing** (`IInv`, `HInv`). The properties speak of publications, and a later step could
change what an old publication refers to. So:

1. No step changes a record of a closed run: `StageRevision`, `StageLink` and
   `StageCitation` need the run in staging, and a closed run cannot be patched
   (`ClosedRunFixed`, `ClosedRunsFrozen`).
2. `PublicationsSound` says of every publication that what it selects belongs to
   published runs of its space, and that its manifest passed the checks. By 1
   it keeps being true (`SoundKept`).
3. Only `Publish` adds a publication, and its checks are `Publishable` (`SoundNew`).
4. `DraftsLocal` and `RecordsLocal` say that staged records refer to their own space;
   `RunsDistinct` that no run is published twice.

`IInv` is the conjunction of these with `TypeOK`; it gives `NoBrokenLinks`, `HomeIsLive`,
`RelationTargetsTyped`, `LinearLineage`, `EvidenceComplete` and `SpaceIsolation`. The
refinement `ImplementsHistory` follows from 1 as well: what `History` shows of
an old publication stays, so each step appends one snapshot or nothing. `HInv` adds what the
other properties say of the past. `PublicationsVouched` states claims, reviews and sync
records of each publication by what earlier publications show. `PublishedShown` is the
bridge to the code, which does not look at publications there but at the status of runs: every
revision of a published run was selected by some publication. `SeenCurrent` is the optimistic
lock of `PatchedAsRead`: an agent knows a run as it is, or at a lower revision, so that equal
revisions are equal records.

**Access** (`AInv`). The transaction compares revision numbers, the properties speak of records.
The audit log connects the two: rows are numbered without gap or repetition, so two rows of a
membership with one number are one row (`AuditUnique`), and what a request remembers is such a
row (`RequestsAudited`). So equal numbers mean that the membership is as its sender had seen
it, which is `MembershipsChangedAsSeen` and is needed for `AuditComplete`. `UnbornEmpty` and
`OperatorAsks` keep personal spaces out of reach. `SessionsSound` says that keys only grow and
that a sign-in that knows the current key knows the current account; the sign-in that was
half done when an account was disabled is then refused.

**ClientSession, AudioWorkflow** (`SInv`, `WInv`). `CallSound` counts for each stage of a request how
often it has been applied: a request that is sent again was refused, or only reads.
`WorkSound` says that past the lock the receipt in memory is the one on disk, and that a
receipt "running" is written before anything is started, so that a process that comes after a
kill knows.

**Ingest** (`IngestInv`). Passages of one rendition could come from two extractions. The
argument is about who asked: every record, stored or on its way, was asked for by an import
that had stored all before it in its plan (`Backed`). The notes of a rendition name the
import, a later import finds them different and stops; so whoever stored a passage stored
its rendition (`PassageOfImport`), and a text whose last passage is there is `Whole`. Stored
records never change, so all of this stays (`Extends`).

**Export** (`ExportInv`). Without a journal the manifest tells the truth about the files that the
owner has not touched (`Clean`); a journal tells what they were (`JournalFor`), and each file is as
before or as after (`Sound`); the exporter that holds the lock knows which, name by name
(`Working`). It gives `NoStrayFiles` and `EditsSurvive`, and the refinement of `Vault`: under
`VaultOf`, replacing and restoring change nothing, removing the journal is an export
(`CommitRefines`), and the owner's edit is one (`EditRefines`).

**Startup** (`StInv`). `StagedSound`, `ChecksSound` and `ModeSound` say for each step what the
preparation has established before it; a server that opens has been through all of them, however
often it was killed before. `Descends` says that the database of the volume continues the
one in the replica, which is why a synchronization never sets the replica back.

**Cutover, Recovery, Clone** (`ProductionInv`, `CloneInv`). Production and the rehearsal write no
variable in common, so there are two invariants. That of production follows the phases: from
the receipt of a capture to the thaw, nobody outside can write (`CheckpointSound`), and nothing runs the
new schema but on a recovered checkpoint (`MigrationSound`, `PhaseSound`), whichever of the
clean-up commands fail. `VerificationSound` says that a verification which names the current receipt
is of what was captured then: that holds at `Bind`, by its guard, and the next receipt has
another number. That of the clone says what has been replaced at each step
(`Replaced`), of all accounts but those still to come; the receipt is written when
nothing of the source is left (`ReplacedIsRevoked`), and only what equals the receipt is verified.

**Reader** (`ReaderInv`). That nothing of another account is kept depends on the requests that
are still out. `FetchesSound`: one that was not fenced since it was sent is for a known space of this
account, and a load waits for one request at most. `LoadsSound`: one load at most is active, and
goes on from memberships that are still known. `TellingSound`: a space that an event has told
of is not in what the server answers now, so that a check that ends cannot bring it back.
`KeptSound` is the property itself, with the selected space. `NoLoadStranded` needs, of the loads,
that one which waits for the membership read or its follower has it (`CheckAwaited`) and that one which waits
for data is named by a request in flight (`RequestAwaited`); a request ends only in steps
that move all its loads on, or hand them to the next.

**Corpus** (`CorpusInv`). `PagesSound`: what a command has read and counted is of the publication it
selected, which later publications leave alone; with equal counts the pages are all of them, or
none (`AllOrNone`). `HitsSound`: the hits that were sent follow those the caller has, in one ranking. The
ranking of an index generation puts each row of a publication at the position that the number
of rows before it gives; `RankingOf` shows by counting that each position has a row.

The theorems on `Reader` and `Corpus` are about `ReaderSpec` and `CorpusSpec`; the run
`readers` explores both under a program counter.

*Assumptions.* `MigratedRecoverable` rests on the operator's word in `Bind` (section 2), which the
code cannot check. Bounds are natural numbers, functions have their domains, and `None` (`NoSpace`, `Nobody`,
`Unknown`, `Damaged`) is none of the values it stands beside, as absence in the code is none
either. The others are facts of the code: sources, renditions and passages are
records of different collections (`KeyAssumption`); plans store originals under their digest and
everything else once, a rendition before its passages, and the passages that the notes announce
(`PlanAssumption`, `TextAssumption`; `Imports` makes such plans and TLC evaluates the
assumptions on them); what an owner writes is told from what is rendered
(`EditAssumption`, which only makes edits visible to the properties).

*Corrections.* The proofs found three places where the models could not be reasoned about. Two
guards of a CASE in `Reader!Deliver` overlapped, so that its value was open, although TLC takes the
first; it is an IF now. A union in its type invariant could be read in two ways. `Corpus`
ordered its rows by an operator of the library that cannot be expanded in a proof; `Ranking`
and `Ranked` say the same.

*Model-checked only.* Liveness (`ExportsEnd`, `RetryRepairs`, `RetriesSucceed`, `ServesAgain`) is
beyond the prover. That TLC's symmetry sets are sound is an argument about the constants only.
`PreparedIsSearched` and `GenerationForward` are violated (section 4).

## 7. Not modelled, and why

- Pure functions: property validation, rendering, extraction, hashing, the checks
  of transcript bundles before anything is sent, the audio catalog and settings; `lint`,
  prompts, relationships and repository files, which compute from what queries return.
- Sign-in and directory routes: one check of one request each.
- Renaming a space; audit rows other than those of memberships; accounts older than
  the migration to spaces.
- Image reviews, audio conversion, and the merging of audio provenance between imports.
- Temporary files that a kill inside `atomic_write` leaves next to its target: no later
  step reads them. Edits of the vault during an export, which the documentation excludes.
  What a membership that ends while `render` reads does to an export: a record that is
  missing fails it, citations and links are not counted.
- The disabled flag is read at the start of a request only: a request that is
  already under way still commits, in the model and in the code.
- In the reader: links to a pinned publication or an evidence record, the search box, the
  rendering of views, and the ninth history.
- What the experiment would send to its provider, since no query gets there, and its
  checks of files by themselves.
- `verify_checkpoint_replica.py` and the rest of the rehearsals and smoke tests: they only read,
  or drive what is modelled here.

## 8. Plan

1. Done: `Publishing` with `PublicationHistory` and proofs; `Access`; `Export` with
   `Vault`; `Ingest` with `Imports`; `Startup`; `Recovery`, `Clone` and `Cutover`;
   `ClientSession` with `AudioWorkflow`; `Reader`, `Snapshots` and `Corpus`.
2. Done: every safety property and both refinements proved.
3. Proofs that remain worth having: the shape of each `Plan` from the definitions in `Imports`
   instead of from `PlanAssumption`; that `Clone` and `Recovery` alone, without the cutover,
   keep what they promise; an abstract specification of a membership (a register changed only
   by whoever has read it) that `Access` implements, and one of a whole cutover.
4. Modelling that remains: image reviews in `Ingest`, pinned publications in
   `Reader`, renaming of spaces in `Access`.
