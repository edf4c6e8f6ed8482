-------------------------------- MODULE Ingest --------------------------------
(***************************************************************************)
(* Ingestion by the command line client: ingest.py (ingest,                *)
(* upload_source) and transcript_bundle.py (import_bundle), both under     *)
(* src/src/wikicontext_client.                                             *)
(*                                                                         *)
(* An import stores a plan of immutable records one request at a time:     *)
(* originals, renditions, and the numbered passages of a rendition.  For   *)
(* each it looks the record up by its unique key, creates it when absent,  *)
(* looks again when the creation failed, and compares what it found with   *)
(* what it wanted.  Clients do so concurrently, requests get lost or are   *)
(* served after their sender has given up, and clients are killed and      *)
(* started again.  Nothing is ever locked.                                 *)
(*                                                                         *)
(* Reads are fresh: they see every record created before them.             *)
(***************************************************************************)
EXTENDS Integers, Sequences, FiniteSets

CONSTANTS
  Client,        \* machines that run the client, one import at a time each
  Source,        \* original bytes: their digest is the key of their record
  Rendition,     \* <source, kind, version> of a rendition, its unique key
  MaxPassages,   \* bound on the passages of a rendition
  Body,          \* what passages hold
  Import,        \* extractions and bundles; an import's plan depends on nothing else
  Plan,          \* Plan[x]: the records of import x in the order they are stored
  Document,      \* what clients are asked to import
  Imports,       \* Imports[d]: a text's possible extractions, or the one bundle
  MaxFailures,   \* bound on lost requests, lost answers and kills
  None

Passage == Rendition \X (1..MaxPassages)
Key == Source \union Rendition \union Passage

\* The notes of a rendition: its number of passages and the digest of them all, in a
\* bundle also that of the bundle, so that they tell which import they are of.
Notes == [passages: 0..MaxPassages, import: Import]

Value == Source \union Body \union Notes
Record == [key: Key, value: Value]

\* A text has one rendition and its extraction depends on the tools of the machine.
DocumentType == [source: Source, text: Rendition \union {None}]

ASSUME ConstantsAssumption ==
  /\ MaxPassages \in Nat /\ MaxFailures \in Nat
  /\ Plan \in [Import -> Seq(Record)]
  /\ Document \subseteq DocumentType
  /\ Imports \in [Document -> SUBSET Import]
  /\ None \notin Value \union Import \union Document \union Rendition

\* Sources, renditions and passages are records of different collections.
ASSUME KeyAssumption ==
  Source \intersect Rendition = {} /\ (Source \union Rendition) \intersect Passage = {}

\* A plan stores originals under their digest and everything else once.  It says whose
\* notes a rendition has, and stores a rendition before its passages.
ASSUME PlanAssumption ==
  \A x \in Import : \A i \in DOMAIN Plan[x] :
    /\ Plan[x][i].key \in Source => Plan[x][i].value = Plan[x][i].key
    /\ Plan[x][i].key \notin Source =>
         \A j \in DOMAIN Plan[x] : Plan[x][j].key = Plan[x][i].key => j = i
    /\ Plan[x][i].key \in Rendition =>
         Plan[x][i].value \in Notes /\ Plan[x][i].value.import = x
    /\ Plan[x][i].key \in Passage =>
         /\ Plan[x][i].value \in Body
         /\ \E j \in 1..(i - 1) : Plan[x][j].key = Plan[x][i].key[1]

\* A text ends with the last of the passages that its notes announce.
ASSUME TextAssumption ==
  \A d \in Document, x \in Import : \A i \in DOMAIN Plan[x] :
    Plan[x][i].key = d.text =>
      Plan[x][Len(Plan[x])].key = <<d.text, Plan[x][i].value.passages>>

ASSUME SourceAssumption ==
  \A d \in Document : \A x \in Imports[d] :
    Len(Plan[x]) > 1 /\ Plan[x][1] = [key |-> d.source, value |-> d.source]

VARIABLES
  stored,   \* stored[k]: the value of the record with key k, None before it is created
  net,      \* requests on their way to the server
  job,      \* job[c]: the import that client c is running, or how its last one ended
  cache,    \* cache[c][d]: the extraction client c has kept of d, or None
  failures  \* how much of MaxFailures is used

vars == <<stored, net, job, cache, failures>>

Running == {"look", "wait", "relook", "extract"}
Ended == {"done", "reused", "conflict", "failed"}

JobType ==
  [doc: Document \union {None}, import: Import \union {None}, at: Nat \ {0},
   mode: Running \union Ended, attempt: 0..MaxFailures]

RequestType == [client: Client, record: Record, attempt: 0..MaxFailures]

TypeOK ==
  /\ stored \in [Key -> Value \union {None}]
  /\ net \subseteq RequestType
  /\ job \in [Client -> JobType]
  /\ cache \in [Client -> [Document -> Import \union {None}]]
  /\ failures \in 0..MaxFailures
  /\ \A c \in Client : job[c].import # None => job[c].at <= Len(Plan[job[c].import])

Idle == [doc |-> None, import |-> None, at |-> 1, mode |-> "failed", attempt |-> 0]

Init ==
  /\ stored = [k \in Key |-> None]
  /\ net = {}
  /\ job = [c \in Client |-> Idle]
  /\ cache = [c \in Client |-> [d \in Document |-> None]]
  /\ failures = 0

-----------------------------------------------------------------------------

Active(c) == job[c].mode \in Running

Mode(c, m) == job' = [job EXCEPT ![c].mode = m]

\* The record that c is about to store.  The source comes first, before a text is extracted.
Wanted(c) ==
  IF job[c].import = None THEN [key |-> job[c].doc.source, value |-> job[c].doc.source]
  ELSE Plan[job[c].import][job[c].at]

\* The job of c once its wanted record is known to be stored.
Advanced(c) ==
  LET j == job[c] IN
  IF j.import = None THEN [j EXCEPT !.mode = "extract"]
  ELSE IF j.at = Len(Plan[j.import]) THEN [j EXCEPT !.mode = "done"]
  ELSE [j EXCEPT !.at = @ + 1, !.mode = "look"]

\* The job of c when the lookup of its wanted record finds one: is it the same?
Compared(c) ==
  IF stored[Wanted(c).key] = Wanted(c).value THEN Advanced(c)
  ELSE [job[c] EXCEPT !.mode = "conflict"]

\* Mutant: the first passages are enough.
CompleteBegun(r) == stored[r] # None /\ stored[r].passages > 0 /\ stored[<<r, 1>>] # None

\* All passages that the notes of rendition r announce are there, and at least one.
Complete(r) ==
  /\ stored[r] # None
  /\ stored[r].passages > 0
  /\ {n \in 1..MaxPassages : stored[<<r, n>>] # None} = 1..stored[r].passages

\* A text is extracted on the way; a bundle is checked as a whole before anything is sent.
Start(c, d) ==
  /\ ~ Active(c)
  /\ \E x \in IF d.text # None THEN {None} ELSE Imports[d] :
       job' = [job EXCEPT ![c] = [Idle EXCEPT !.doc = d, !.import = x, !.mode = "look"]]
  /\ UNCHANGED <<stored, net, cache, failures>>

Send(c) ==
  /\ net' = net \union {[client |-> c, record |-> Wanted(c), attempt |-> failures]}
  /\ job' = [job EXCEPT ![c].mode = "wait", ![c].attempt = failures]

\* Mutant: a record with the same key is taken for the same record.
LookByKey(c) ==
  /\ job[c].mode = "look"
  /\ IF stored[Wanted(c).key] = None THEN Send(c)
     ELSE job' = [job EXCEPT ![c] = Advanced(c)] /\ UNCHANGED net
  /\ UNCHANGED <<stored, cache, failures>>

\* A record that is not there is asked for; others can create it before it arrives.
Look(c) ==
  /\ job[c].mode = "look"
  /\ IF stored[Wanted(c).key] = None THEN Send(c)
     ELSE job' = [job EXCEPT ![c] = Compared(c)] /\ UNCHANGED net
  /\ UNCHANGED <<stored, cache, failures>>

\* Mutant: a failed creation ends the import.
RelookNever(c) ==
  /\ job[c].mode = "relook"
  /\ Mode(c, "failed")
  /\ UNCHANGED <<stored, net, cache, failures>>

\* Mutant: a creation that failed is taken for one that lost its answer.
RelookTrusting(c) ==
  /\ job[c].mode = "relook"
  /\ job' = [job EXCEPT ![c] =
       IF stored[Wanted(c).key] = None THEN Advanced(c) ELSE Compared(c)]
  /\ UNCHANGED <<stored, net, cache, failures>>

\* After a failed creation: somebody else, or this client's own request, may have
\* created the record.
Relook(c) ==
  /\ job[c].mode = "relook"
  /\ job' = [job EXCEPT ![c] =
       IF stored[Wanted(c).key] = None THEN [@ EXCEPT !.mode = "failed"] ELSE Compared(c)]
  /\ UNCHANGED <<stored, net, cache, failures>>

\* A rendition that is complete on the server is reused.  Otherwise the text is extracted,
\* unless an earlier attempt on this machine has kept its extraction.
Extract(c) ==
  LET d == job[c].doc IN
  /\ job[c].mode = "extract"
  /\ IF Complete(d.text) THEN Mode(c, "reused") /\ UNCHANGED cache
     ELSE \E x \in Imports[d] :
       /\ cache[c][d] \in {None, x}
       /\ cache' = [cache EXCEPT ![c][d] = x]
       /\ job' = [job EXCEPT ![c].import = x, ![c].at = 2, ![c].mode = "look"]
  /\ UNCHANGED <<stored, net, failures>>

-----------------------------------------------------------------------------
(* The server, and what goes wrong between it and the clients. *)

Awaits(c, request) ==
  /\ job[c].mode = "wait"
  /\ request = [client |-> c, record |-> Wanted(c), attempt |-> job[c].attempt]

\* The server creates the record, or refuses it as its key exists.  The sender learns
\* of that if it still waits for this request.
Serve(request) ==
  LET key == request.record.key
      c == request.client
  IN /\ net' = net \ {request}
     /\ stored' = IF stored[key] = None THEN [stored EXCEPT ![key] = request.record.value]
                                        ELSE stored
     /\ job' = IF ~ Awaits(c, request) THEN job
               ELSE [job EXCEPT ![c] =
                 IF stored[key] = None THEN Advanced(c) ELSE [@ EXCEPT !.mode = "relook"]]
     /\ UNCHANGED <<cache, failures>>

Failure == failures < MaxFailures /\ failures' = failures + 1

\* A request is lost before it is served.
Lose(request) ==
  LET c == request.client IN
  /\ Failure
  /\ net' = net \ {request}
  /\ job' = IF Awaits(c, request) THEN [job EXCEPT ![c].mode = "relook"] ELSE job
  /\ UNCHANGED <<stored, cache>>

\* The sender gives up while its request, or the answer, is still on its way.
GiveUp(c) ==
  /\ job[c].mode = "wait"
  /\ Failure
  /\ Mode(c, "relook")
  /\ UNCHANGED <<stored, net, cache>>

\* The process is killed, or cannot reach the server for a lookup.
Kill(c) ==
  /\ Active(c)
  /\ Failure
  /\ job' = [job EXCEPT ![c] = Idle]
  /\ UNCHANGED <<stored, net, cache>>

Progress(c) == Look(c) \/ Relook(c) \/ Extract(c)

Next ==
  \/ \E c \in Client, d \in Document : Start(c, d)
  \/ \E c \in Client : Progress(c)
  \/ \E request \in net : Serve(request)
  \/ \E request \in net : Lose(request)
  \/ \E c \in Client : GiveUp(c)
  \/ \E c \in Client : Kill(c)

Spec == Init /\ [][Next]_vars

\* A client that is not killed goes on, and the server answers what reaches it.
FairSpec ==
  /\ Spec
  /\ \A c \in Client : WF_vars(Progress(c))
  /\ WF_vars(\E request \in net : Serve(request))

-----------------------------------------------------------------------------

\* Every passage is one that the import named by its rendition's notes has at that
\* place: concurrent or interrupted imports never mix their passages in a rendition.
UnmixedRenditions ==
  \A r \in Rendition, n \in 1..MaxPassages :
    stored[<<r, n>>] # None =>
      /\ stored[r] # None
      /\ \E i \in DOMAIN Plan[stored[r].import] :
           Plan[stored[r].import][i] = [key |-> <<r, n>>, value |-> stored[<<r, n>>]]

\* Record i of the plan of x was stored for x.
StoredFor(x, i) ==
  LET key == Plan[x][i].key IN
  /\ stored[key] # None
  /\ \/ key \in Rendition /\ stored[key].import = x
     \/ key \in Passage /\ stored[key[1]] # None /\ stored[key[1]].import = x

\* An import is stored in the order of its plan, across interruptions and retries: the
\* transcript-bundle rendition, its "final link record" (transcript_bundle.py:387), exists
\* only when everything that it links is complete.
StoredInOrder ==
  \A x \in Import : \A i \in DOMAIN Plan[x] : StoredFor(x, i) =>
    \A j \in 1..(i - 1) : stored[Plan[x][j].key] = Plan[x][j].value

\* An import that reports success has all of its own records on the server, or reused a
\* rendition with all of its passages; one that reports a conflict did meet a record of
\* another import.  "Its different immutable extraction must never be silently reused"
\* by a client that has extracted the text itself (src/tests/ingest_concurrency.py:90).
HonestOutcomes ==
  \A c \in Client :
    /\ job[c].mode = "done" =>
         \A i \in DOMAIN Plan[job[c].import] :
           stored[Plan[job[c].import][i].key] = Plan[job[c].import][i].value
    /\ job[c].mode = "reused" =>
         LET r == job[c].doc.text
             x == stored[r].import
         IN \A i \in DOMAIN Plan[x] : stored[Plan[x][i].key] = Plan[x][i].value
    /\ job[c].mode = "conflict" =>
         \E i \in DOMAIN Plan[job[c].import] :
           stored[Plan[job[c].import][i].key] \notin {None, Plan[job[c].import][i].value}

\* Ingestion can be tried again: an attempt during which nothing more is lost or killed
\* stores the import, or tells of a conflict, whatever earlier attempts left behind.
RetriesSucceed ==
  \A c \in Client :
    (Active(c) /\ job[c].mode # "relook" /\ failures = MaxFailures)
      ~> job[c].mode \in {"done", "reused", "conflict"}

=============================================================================
