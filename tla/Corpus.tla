------------------------------- MODULE Corpus -------------------------------
(* knowledge.py and tools/semantic_search_poc/cli.py: commands that read one     *)
(* immutable publication in several requests, each answered from the rows of     *)
(* the spaces where the account is then a member.  One prepares a corpus in a    *)
(* file, some are meant to send the prepared corpus to a provider, and one asks  *)
(* for the ranked pages of a keyword search.  No prepared corpus ever passes the *)
(* comparison with its publication, so what would follow it is not modelled.     *)
EXTENDS Integers, FiniteSets, SequencesExt

CONSTANTS
  Process,          \* processes of one user on one machine
  Task,             \* the commands each process may be given
  Revision,         \* page revisions: numbers, in the order of their identifiers
  None,             \* no corpus
  Damaged,          \* a corpus file that was edited or cut short
  BatchSize,        \* rows of the first request of a paged query
  SearchLimit,      \* hits of a page of search results
  MaxPublications,  \* bound on the publications
  MaxIndexes,       \* bound on the generations of the search index
  MaxEvents         \* bound on changes of the account, killed commands and damage

VARIABLES
  published,  \* the revisions of each publication that are not archived
  account,    \* what the server makes of the account
  index,      \* the generation of the search index
  cache,      \* the corpus file
  proc,       \* the command each process runs
  found,      \* what the caller of each keyword search has been given so far
  report,     \* how the last query of each process ended
  events

corpusVars == <<published, account, index, cache, proc, found, report, events>>

Publication == 1 .. MaxPublications
Prepared == [pub : Publication, pages : SUBSET Revision]

ASSUME CorpusAssumption ==
  /\ Task \in [Process -> SUBSET {"prepare", "query", "benchmark", "find"}]
  /\ IsFiniteSet(Revision) /\ Revision \subseteq Nat \ {0}
  /\ BatchSize \in Nat \ {0} /\ SearchLimit \in Nat \ {0}
  /\ MaxPublications \in Nat /\ MaxIndexes \in Nat \ {0} /\ MaxEvents \in Nat
  /\ None \notin Prepared /\ Damaged \notin Prepared

Idle == [task |-> "idle", at |-> "idle", pub |-> 0, hits |-> <<>>, index |-> 0, rows |-> {},
         limit |-> BatchSize, active |-> 0, corpus |-> None, pinned |-> None]

Nothing == [pub |-> 0, index |-> 0, hits |-> <<>>]

Command ==
  [task : {"idle", "prepare", "query", "benchmark", "find"},
   at : {"idle", "auth", "load", "select", "count", "search", "page", "write"},
   pub : 0 .. MaxPublications, hits : Seq(Revision), index : 0 .. MaxIndexes,
   rows : SUBSET Revision, limit : 1 .. BatchSize, active : 0 .. Cardinality(Revision),
   corpus : Prepared \cup {None}, pinned : Prepared \cup {None}]

\* The type invariant of the publications, the commands and their results.
CorpusTypeOK ==
  /\ published \in Seq(SUBSET Revision) /\ Len(published) <= MaxPublications
  /\ account \in {"member", "removed", "disabled"} /\ index \in 1 .. MaxIndexes
  /\ cache \in Prepared \cup {None, Damaged} /\ proc \in [Process -> Command]
  /\ found \in [Process -> [pub : 0 .. MaxPublications, index : 0 .. MaxIndexes,
                            hits : Seq(Revision)]]
  /\ report \in [Process -> {"none", "changed", "mismatch", "compared"}]
  /\ events \in 0 .. MaxEvents

CorpusInit ==
  /\ published = <<>> /\ account = "member" /\ index = 1 /\ cache = None
  /\ proc = [p \in Process |-> Idle] /\ found = [p \in Process |-> Nothing]
  /\ report = [p \in Process |-> "none"] /\ events = 0

World == UNCHANGED <<published, account, index, events>>
Becomes(p, r) == proc' = [proc EXCEPT ![p] = r]
Goes(p, at) == Becomes(p, [proc[p] EXCEPT !.at = at])
Ends(p) == Becomes(p, Idle)
Reports(p, outcome) == report' = [report EXCEPT ![p] = outcome]
Queries(p) == proc[p].task \in {"query", "benchmark"}

---------------------------------------------------------------------------
\* What the server answers.

\* SQL shows the rows of the spaces of an active member, and nobody else's.
Visible == account = "member"

Rows(p) == IF Visible THEN published[proc[p].pub] ELSE {}

\* Each generation of the index may rank the pages of a publication differently.
Before(a, b, generation) == IF generation % 2 = 0 THEN a > b ELSE a < b

Ranking(pages, generation) ==
  [i \in 1 .. Cardinality(pages) |->
     CHOOSE r \in pages : Cardinality({q \in pages : Before(q, r, generation)}) = i - 1]

Ranked(pub, generation) == Ranking(published[pub], generation)

---------------------------------------------------------------------------
\* The commands.

Run(p) ==
  /\ proc[p].task = "idle"
  /\ \E task \in Task[p] :
       Becomes(p, [Idle EXCEPT !.task = task, !.at = IF task = "find" THEN "select" ELSE "auth"])
  /\ Reports(p, "none")
  /\ UNCHANGED <<cache, found>> /\ World

\* authenticate: the server knows the account, whatever its memberships.
Authenticate(p) ==
  /\ proc[p].at = "auth"
  /\ IF account = "disabled" THEN Ends(p)
     ELSE Goes(p, IF proc[p].task = "prepare" THEN "select" ELSE "load")
  /\ UNCHANGED <<cache, found, report>> /\ World

\* A benchmark goes on only with the corpus it began with.
SamePin(p) == proc[p].pinned \in {None, cache}

\* load_snapshot: a corpus whose digest matches.  A benchmark pins it, and each of its
\* searches authenticates and loads the corpus again.
Load(p) ==
  /\ proc[p].at = "load"
  /\ IF cache \notin Prepared THEN Ends(p) /\ UNCHANGED report
     ELSE IF ~SamePin(p) THEN Ends(p) /\ Reports(p, "changed")
     ELSE /\ UNCHANGED report
          /\ IF proc[p].task = "benchmark" /\ proc[p].pinned = None
               THEN Becomes(p, [proc[p] EXCEPT !.at = "auth", !.pinned = cache])
               ELSE Becomes(p, [proc[p] EXCEPT !.at = "select", !.corpus = cache])
  /\ UNCHANGED <<cache, found>> /\ World

\* The publication a command reads: the prepared one, that of the search being
\* continued, or any: the latest, or the one asked for by identifier or sequence.
Selectable(p) ==
  IF Queries(p) THEN {proc[p].corpus.pub}
  ELSE IF proc[p].task = "find" /\ found[p] # Nothing THEN {found[p].pub, Len(published)}
  ELSE DOMAIN published

\* What select_publication tells of a publication, and what build_snapshot keeps of it.
Described(pub) == [id |-> pub, space |-> "company", sequence |-> pub]
Stored(description) == [id |-> description.id, sequence |-> description.sequence]

\* verify_publication: the selected publication is the one the corpus was made of.
SamePublication(p, pub) == Described(pub) = Stored(Described(proc[p].corpus.pub))

\* select_publication; a query then compares it with its corpus, and a search of another
\* publication starts again.
Select(p) ==
  /\ proc[p].at = "select"
  /\ \/ /\ Visible
        /\ \E pub \in Selectable(p) :
             /\ IF Queries(p)
                  THEN /\ Ends(p)
                       /\ Reports(p, IF SamePublication(p, pub) THEN "compared" ELSE "mismatch")
                  ELSE /\ Becomes(p, [proc[p] EXCEPT !.at = "count", !.pub = pub, !.rows = {}])
                       /\ UNCHANGED report
             /\ found' = IF proc[p].task = "find" /\ pub # found[p].pub
                           THEN [found EXCEPT ![p] = Nothing] ELSE found
     \/ (~Visible \/ Selectable(p) = {}) /\ Ends(p) /\ UNCHANGED <<found, report>>
  /\ UNCHANGED cache /\ World

\* validate_manifest counts the rows; where none is visible it counts none.
Count(p) ==
  /\ proc[p].at = "count"
  /\ Becomes(p, [proc[p] EXCEPT !.active = Cardinality(Rows(p)),
                                !.at = IF proc[p].task = "find" THEN "search" ELSE "page"])
  /\ UNCHANGED <<cache, found, report>> /\ World

\* A mutant: the index may have changed since the first page of results.
SameIndexAny(p) == TRUE

\* expectedGeneration: a continuation names the generation of the first page.
SameIndex(p) == found[p] = Nothing \/ found[p].index = index

\* The hits of the next page, or a conflict, after which the caller starts again.
Search(p) ==
  LET from == Len(found[p].hits)
      upto == IF from + SearchLimit < Cardinality(published[proc[p].pub])
                THEN from + SearchLimit ELSE Cardinality(published[proc[p].pub])
  IN /\ proc[p].at = "search"
     /\ IF ~Visible THEN Ends(p) /\ UNCHANGED found
        ELSE IF ~SameIndex(p) THEN Ends(p) /\ found' = [found EXCEPT ![p] = Nothing]
        ELSE /\ Becomes(p, [proc[p] EXCEPT !.at = "page", !.index = index,
                              !.hits = SubSeq(Ranked(proc[p].pub, index), from + 1, upto)])
             /\ UNCHANGED found
     /\ UNCHANGED <<cache, report>> /\ World

\* batches: the rows after the last key, no more than the limit; an answer that is
\* too large halves the limit and asks again.
After(p) == {r \in Rows(p) : \A q \in proc[p].rows : r > q}
                \cap (IF proc[p].task = "find" THEN Range(proc[p].hits) ELSE Revision)

Batch(p) == {r \in After(p) : Cardinality({q \in After(p) : q < r}) < proc[p].limit}

Page(p) ==
  /\ proc[p].at = "page" /\ After(p) # {}
  /\ \/ Becomes(p, [proc[p] EXCEPT !.rows = @ \cup Batch(p)])
     \/ proc[p].limit > 1 /\ Becomes(p, [proc[p] EXCEPT !.limit = @ \div 2])
     \/ proc[p].limit = 1 /\ Ends(p)
  /\ UNCHANGED <<cache, found, report>> /\ World

\* A mutant: what has been read is taken for all there is.
ReadAllAnyway(p) == TRUE

\* A preparation needs as many rows as were counted, a search its hits.
ReadAll(p) ==
  IF proc[p].task = "prepare" THEN Cardinality(proc[p].rows) = proc[p].active
                              ELSE proc[p].rows = Range(proc[p].hits)

\* An empty batch is the last; the caller of a search is given its hits, in order.
LastBatch(p) ==
  /\ proc[p].at = "page" /\ After(p) = {}
  /\ IF ReadAll(p) /\ proc[p].task = "prepare" THEN Goes(p, "write") ELSE Ends(p)
  /\ found' = IF ReadAll(p) /\ proc[p].task = "find"
                THEN [found EXCEPT ![p] = [pub |-> proc[p].pub, index |-> proc[p].index,
                                           hits |-> @.hits \o proc[p].hits]]
                ELSE found
  /\ UNCHANGED <<cache, report>> /\ World

\* atomic_write
WriteCorpus(p) ==
  /\ proc[p].at = "write"
  /\ cache' = [pub |-> proc[p].pub, pages |-> proc[p].rows] /\ Ends(p)
  /\ UNCHANGED <<found, report>> /\ World

---------------------------------------------------------------------------
\* Others: agents publish, the index is built again, the account is removed from
\* the space, disabled and restored, commands are killed and files are damaged.

Publish ==
  /\ Len(published) < MaxPublications
  /\ \E pages \in (SUBSET Revision) \ {{}} : published' = Append(published, pages)
  /\ UNCHANGED <<account, index, cache, proc, found, report, events>>

Reindex ==
  /\ index < MaxIndexes /\ index' = index + 1
  /\ UNCHANGED <<published, account, cache, proc, found, report, events>>

Event == events < MaxEvents /\ events' = events + 1

ChangeAccount(a) ==
  /\ Event /\ account # a /\ account' = a
  /\ UNCHANGED <<published, index, cache, proc, found, report>>

KillCommand(p) ==
  /\ Event /\ proc[p].task # "idle" /\ Ends(p)
  /\ UNCHANGED <<published, account, index, cache, found, report>>

DamageCache ==
  /\ Event /\ cache \in Prepared /\ cache' = Damaged
  /\ UNCHANGED <<published, account, index, proc, found, report>>

CorpusNext ==
  \/ \E p \in Process :
       \/ Run(p) \/ Authenticate(p) \/ Load(p) \/ Select(p) \/ Count(p) \/ Search(p)
       \/ Page(p) \/ LastBatch(p) \/ WriteCorpus(p) \/ KillCommand(p)
  \/ Publish \/ Reindex \/ DamageCache
  \/ \E a \in {"member", "removed", "disabled"} : ChangeAccount(a)

CorpusSpec == CorpusInit /\ [][CorpusNext]_corpusVars

---------------------------------------------------------------------------
\* A corpus file is never partial, whatever is published, killed or prepared meanwhile:
\* it has all pages of its publication or, where the membership ended between the
\* selection and the count, none.
OneWholeCorpus == cache \in Prepared => cache.pages \in {published[cache.pub], {}}

\* "`search` and `benchmark` send that snapshot and the query to OpenAI"
\* (src/tools/semantic_search_poc/README.md:7-8): a query whose corpus was prepared from
\* the publication of that identifier is not refused as if it were of another.
PreparedIsSearched == \A p \in Process : report[p] # "mismatch"

\* The pages of results a caller has put together are the beginning of one ranking:
\* no hit is missing or repeated, whatever is published or indexed between them.
SearchContinues ==
  \A p \in Process :
    found[p] # Nothing => IsPrefix(found[p].hits, Ranked(found[p].pub, found[p].index))
=============================================================================
