------------------------------ MODULE Publishing ------------------------------
(***************************************************************************)
(* The server's publication hook, src/pb_hooks/integrity.js.               *)
(*                                                                         *)
(* Agents stage immutable page revisions, citations and page links under   *)
(* an ingestion run, one REST request at a time, then close the run with a *)
(* revision-checked PATCH.  Closing it as "published" appends one          *)
(* publication to the run's space: a manifest that selects a revision for  *)
(* each page, and an optional home page.  write(e) runs each request in    *)
(* one database transaction, so a request is one step here; a refused      *)
(* request rolls back and is a stuttering step.  Requests of different     *)
(* agents interleave freely between those steps.                           *)
(*                                                                         *)
(* Membership is the subject of the module Access: here any request may    *)
(* come from a member, which only allows more behaviours.                  *)
(***************************************************************************)
EXTENDS Integers, Sequences, FiniteSets

CONSTANTS
  Space,          \* the spaces that partition every domain record
  Page,           \* page identities
  Run,            \* ingestion runs
  Agent,          \* clients that close runs
  Marker,         \* citation markers
  Passage,        \* extracted passages, written by ingestion
  PassageSpace,   \* [Passage -> Space]: each passage's space
  PassageBundle,  \* [Passage -> Bundle or None]: the transcript bundle behind it
  Bundle,         \* transcript bundles whose timing carries warnings
  Catalog,        \* values of the property catalog_type
  Claim,          \* what one live page at most may claim: an audio source, a GitHub destination
  Content,        \* Content[p]: the bodies and properties that fit page p and its kind
  Choice,         \* the home choices an agent may stage
  MaxRevision,    \* bound on the optimistic revision of a run
  MaxDrafts,      \* bound on the page revisions staged in all
  MaxLinks,       \* bound on the page_links records of one revision
  PageBudget,     \* the most pages a manifest may hold (10000 in the code)
  None

RevisionId == Run \X Page   \* one revision per page and run: index idx_run_page

ChoiceType == [home: Page \union {None}, base: Page \union {None}, clear: BOOLEAN]

(***************************************************************************)
(* What publish reads of a revision.  "links" are the pages its wiki-links *)
(* name, "relations" its relationship properties with the catalog type     *)
(* their key demands (None: any), "markers" the citation markers of body   *)
(* and property evidence, "synced" the pair of revisions a repository_sync *)
(* page records, "bundle" the warned bundle an audio recording selects.    *)
(* Checks of one revision's text or properties by themselves               *)
(* (properties.js, footnote syntax) decide which contents exist at all.    *)
(***************************************************************************)
ContentType ==
  [archived: BOOLEAN, catalog: Catalog \union {None}, links: SUBSET Page,
   relations: SUBSET (Page \X (Catalog \union {None})), markers: SUBSET Marker,
   claims: SUBSET Claim, bundle: Bundle \union {None}, reviewed: BOOLEAN,
   synced: (RevisionId \X RevisionId) \union {None}]

RunType ==
  [space: Space, status: {"staging", "published", "cancelled"},
   choice: ChoiceType, revision: 1..MaxRevision, updated_by: Agent \union {None}]

\* What a reader is shown of a selected revision.
ShownType ==
  [revision: RevisionId, archived: BOOLEAN, links: SUBSET Page,
   citations: [Marker -> Passage \union {None}]]

ASSUME ConstantsAssumption ==
  /\ None \notin Space \union Page \union Bundle \union Catalog \union RevisionId \union Passage
  /\ None \notin Agent
  /\ PassageSpace \in [Passage -> Space]
  /\ PassageBundle \in [Passage -> Bundle \union {None}]
  /\ Content \in [Page -> SUBSET ContentType]
  /\ Choice \subseteq ChoiceType
  /\ MaxRevision \in Nat \ {0} /\ MaxDrafts \in Nat /\ MaxLinks \in Nat
  /\ None \notin RunType /\ None \notin ShownType
  /\ None \notin [base: RevisionId \union {None}, content: ContentType]
  /\ None \notin [run: Run, record: RunType]

VARIABLES
  pages,         \* pages[p]: the space of page p, None while it does not exist
  runs,          \* runs[r]: the ingestion_runs record, None while it does not exist
  drafts,        \* drafts[<<r, p>>]: the page_revisions record of r for p, or None
  links,         \* links[v]: targets of the page_links records of revision v
  citations,     \* citations[v][m]: passage of the citation with marker m, or None
  publications,  \* publications[s]: the publications of s, indexed by sequence
  seen           \* seen[a]: the run record agent a read last, or None

vars == <<pages, runs, drafts, links, citations, publications, seen>>
staged == <<drafts, links, citations>>

Publication ==
  [run: Run, manifest: [Page -> RevisionId \union {None}], home: Page \union {None}]

TypeOK ==
  /\ pages \in [Page -> Space \union {None}]
  /\ runs \in [Run -> RunType \union {None}]
  /\ drafts \in [RevisionId -> [base: RevisionId \union {None}, content: ContentType] \union {None}]
  /\ links \in [RevisionId -> SUBSET Page]
  /\ citations \in [RevisionId -> [Marker -> Passage \union {None}]]
  /\ publications \in [Space -> Seq(Publication)]
  /\ seen \in [Agent -> [run: Run, record: RunType] \union {None}]

-----------------------------------------------------------------------------
(* Reading the database inside a transaction. *)

Body(v) == drafts[v].content

Live(m) == {p \in Page : m[p] # None /\ ~ Body(m[p]).archived}


Prior(s) ==
  LET n == Len(publications[s])
  IN IF n = 0 THEN [manifest |-> [p \in Page |-> None], home |-> None]
              ELSE [manifest |-> publications[s][n].manifest, home |-> publications[s][n].home]

Draft(r) == runs[r] # None /\ runs[r].status = "staging"

\* Mutant: a reference resolves to a record of any space.
LocalAnywhere(p, s) == pages[p] # None

Local(p, s) == pages[p] = s

RevisionsOf(r) == {v \in RevisionId : v[1] = r /\ drafts[v] # None}

\* Mutant: a staged revision counts as published.
PublishedRevisionStaged(v) == drafts[v] # None

PublishedRevision(v) ==
  drafts[v] # None /\ runs[v[1]].status = "published"

-----------------------------------------------------------------------------
(* publish(app, run): the checks, in the order of the code. *)

ChangesHome(c) == c.home # None \/ c.clear

\* The home choice was staged against the home that is still published.
HomeBaseCurrent(c, s) == ChangesHome(c) => c.base = Prior(s).home

NewHome(c, s) ==
  IF c.clear THEN None ELSE IF c.home # None THEN c.home ELSE Prior(s).home

\* Mutant: only edits of published pages are compared, new pages are not.
BasesCurrentForEdits(r, s) ==
  \A v \in RevisionsOf(r) : drafts[v].base # None => drafts[v].base = Prior(s).manifest[v[2]]

\* Each revision was synthesised from the revision that is still published.
BasesCurrent(r, s) == \A v \in RevisionsOf(r) : drafts[v].base = Prior(s).manifest[v[2]]

NewManifest(r, s) ==
  [p \in Page |-> IF drafts[<<r, p>>] # None THEN <<r, p>> ELSE Prior(s).manifest[p]]

\* Mutant: the home page must be selected, archived or not.
HomeServableSelected(h, m) == h # None => m[h] # None

HomeServable(h, m) == h # None => h \in Live(m)

\* Markers used and citations recorded are the same set.
CitationsMatch(v) == {mk \in Marker : citations[v][mk] # None} = Body(v).markers

\* Wiki-links and relationship properties have their page_links records.
MentionsRecorded(v) ==
  Body(v).links \union {t[1] : t \in Body(v).relations} \subseteq links[v]

LinksLive(v, m) == links[v] \subseteq Live(m)

RelationsTyped(v, m) ==
  \A t \in Body(v).relations :
    t[2] # None => t[1] \in Live(m) /\ Body(m[t[1]]).catalog = t[2]

\* A warned bundle is selected only together with its review note.
ReviewGiven(v) == Body(v).bundle # None => Body(v).reviewed

\* Mutant: claims are compared only within the run being published.
ClaimsDistinctInRun(m) ==
  \A p, q \in Live(m) :
    p # q /\ m[p][1] = m[q][1] => Body(m[p]).claims \intersect Body(m[q]).claims = {}

ClaimsDistinct(m) ==
  \A p, q \in Live(m) : p # q => Body(m[p]).claims \intersect Body(m[q]).claims = {}

\* A sync page names the published revisions of its destination and document.
SyncPublished(v) ==
  Body(v).synced # None =>
    LET dst == Body(v).synced[1]
        doc == Body(v).synced[2]
    IN /\ PublishedRevision(dst) /\ PublishedRevision(doc)
       /\ runs[dst[1]].space = runs[v[1]].space /\ runs[doc[1]].space = runs[v[1]].space
       /\ ~ Body(dst).archived /\ ~ Body(doc).archived
       /\ <<dst[2], "repository_destination">> \in Body(v).relations
       /\ Body(dst).catalog = "repository_destination"
       /\ <<doc[2], "repository_document">> \in Body(dst).relations
       /\ Body(doc).catalog = "repository_document"

\* Mutant: a review that is only staged counts.
ReviewedStaged(s, m) ==
  {Body(v).bundle :
     v \in {w \in RevisionId : /\ drafts[w] # None /\ ~ Body(w).archived /\ Body(w).reviewed
                               /\ runs[w[1]].space = s}}

\* Reviews that count: in the new manifest, or in the space's published history.
Reviewed(s, m) ==
  {Body(v).bundle :
     v \in {w \in RevisionId :
              /\ drafts[w] # None /\ ~ Body(w).archived /\ Body(w).reviewed
              /\ runs[w[1]].space = s
              /\ runs[w[1]].status = "published" \/ m[w[2]] = w}}

EvidenceReviewed(s, m) ==
  \A p \in Live(m) : \A mk \in Marker :
    LET psg == citations[m[p]][mk]
    IN psg # None =>
         PassageSpace[psg] = s /\ PassageBundle[psg] \in Reviewed(s, m) \union {None}

\* Mutant: the manifest's other pages are not checked again.
PublishableOwnPages(r, s, c) ==
  LET m == NewManifest(r, s) IN
  /\ RevisionsOf(r) # {} \/ ChangesHome(c)
  /\ HomeBaseCurrent(c, s)
  /\ BasesCurrent(r, s)
  /\ HomeServable(NewHome(c, s), m)
  /\ \A v \in RevisionsOf(r) :
       /\ CitationsMatch(v) /\ MentionsRecorded(v) /\ LinksLive(v, m)
       /\ ~ Body(v).archived => RelationsTyped(v, m) /\ ReviewGiven(v) /\ SyncPublished(v)
  /\ ClaimsDistinct(m)
  /\ EvidenceReviewed(s, m)

Publishable(r, s, c) ==
  LET m == NewManifest(r, s) IN
  /\ RevisionsOf(r) # {} \/ ChangesHome(c)
  /\ HomeBaseCurrent(c, s)
  /\ BasesCurrent(r, s)
  /\ HomeServable(NewHome(c, s), m)
  /\ \A v \in RevisionsOf(r) : CitationsMatch(v) /\ MentionsRecorded(v) /\ LinksLive(v, m)
  /\ \A p \in Live(m) :
       /\ RelationsTyped(m[p], m)
       /\ ReviewGiven(m[p])
       /\ SyncPublished(m[p])
       /\ LinksLive(m[p], m)
  /\ ClaimsDistinct(m)
  /\ EvidenceReviewed(s, m)
  /\ Cardinality({p \in Page : m[p] # None}) <= PageBudget

-----------------------------------------------------------------------------
(* The requests: write(e) on each collection. *)

Init ==
  /\ pages = [p \in Page |-> None]
  /\ runs = [r \in Run |-> None]
  /\ drafts = [v \in RevisionId |-> None]
  /\ links = [v \in RevisionId |-> {}]
  /\ citations = [v \in RevisionId |-> [mk \in Marker |-> None]]
  /\ publications = [s \in Space |-> <<>>]
  /\ seen = [a \in Agent |-> None]

CreatePage(p, s) ==
  /\ pages[p] = None
  /\ pages' = [pages EXCEPT ![p] = s]
  /\ UNCHANGED <<runs, staged, publications, seen>>

\* validate: home and clear exclude each other, and the home page is local.
ChoiceAllowed(c, s) == ~ (c.home # None /\ c.clear) /\ (c.home # None => Local(c.home, s))

\* Mutant: new runs carry no revision number yet.
CreateRunUnnumbered(r, s, c) ==
  /\ runs[r] = None
  /\ ChoiceAllowed(c, s)
  /\ runs' = [runs EXCEPT ![r] =
       [space |-> s, status |-> "staging", choice |-> c, revision |-> 0,
        updated_by |-> None]]
  /\ UNCHANGED <<pages, staged, publications, seen>>

\* New runs start in staging, possibly with a home choice.  Who creates a run is left
\* out: updated_by is None until the first PATCH.
CreateRun(r, s, c) ==
  /\ runs[r] = None
  /\ ChoiceAllowed(c, s)
  /\ runs' = [runs EXCEPT ![r] =
       [space |-> s, status |-> "staging", choice |-> c, revision |-> 1,
        updated_by |-> None]]
  /\ UNCHANGED <<pages, staged, publications, seen>>

\* A revision joins a staging run; its base is any revision of the same page and space.
StageRevision(r, p, base, content) ==
  /\ Draft(r)
  /\ Local(p, runs[r].space)
  /\ drafts[<<r, p>>] = None
  /\ Cardinality({v \in RevisionId : drafts[v] # None}) < MaxDrafts
  /\ base # None =>
       /\ drafts[base] # None
       /\ base[2] = p
       /\ runs[base[1]].space = runs[r].space
  /\ drafts' = [drafts EXCEPT ![<<r, p>>] = [base |-> base, content |-> content]]
  /\ UNCHANGED <<pages, runs, links, citations, publications, seen>>

\* Mutant: links can still be added after the run has closed.
StageLinkLate(v, target) ==
  /\ drafts[v] # None
  /\ Local(target, runs[v[1]].space)
  /\ target \notin links[v]
  /\ Cardinality(links[v]) < MaxLinks
  /\ links' = [links EXCEPT ![v] = @ \union {target}]
  /\ UNCHANGED <<pages, runs, drafts, citations, publications, seen>>

StageLink(v, target) ==
  /\ drafts[v] # None
  /\ Draft(v[1])
  /\ Local(target, runs[v[1]].space)
  /\ target \notin links[v]
  /\ Cardinality(links[v]) < MaxLinks
  /\ links' = [links EXCEPT ![v] = @ \union {target}]
  /\ UNCHANGED <<pages, runs, drafts, citations, publications, seen>>

\* Mutant: citations can still be added after the run has closed.
StageCitationLate(v, mk, psg) ==
  /\ drafts[v] # None
  /\ PassageSpace[psg] = runs[v[1]].space
  /\ citations[v][mk] = None
  /\ citations' = [citations EXCEPT ![v][mk] = psg]
  /\ UNCHANGED <<pages, runs, drafts, links, publications, seen>>

StageCitation(v, mk, psg) ==
  /\ drafts[v] # None
  /\ Draft(v[1])
  /\ PassageSpace[psg] = runs[v[1]].space
  /\ citations[v][mk] = None
  /\ citations' = [citations EXCEPT ![v][mk] = psg]
  /\ UNCHANGED <<pages, runs, drafts, links, publications, seen>>

\* An agent reads an open run, to send its revision back as expected_revision.
ReadRun(a, r) ==
  /\ Draft(r)
  /\ seen' = [seen EXCEPT ![a] = [run |-> r, record |-> runs[r]]]
  /\ UNCHANGED <<pages, runs, staged, publications>>

\* Mutant: the revision sent back is not compared.
ExpectedAny(a, r) ==
  /\ seen[a] # None
  /\ seen[a].run = r

\* PATCH of a run: the revision the agent read must still be the current one.
Expected(a, r) ==
  /\ seen[a] # None
  /\ seen[a].run = r
  /\ seen[a].record.revision = runs[r].revision

\* The record a PATCH saves; without home fields its choice is the stored one.
Patched(a, r, status, c) ==
  [runs[r] EXCEPT !.status = status, !.choice = c, !.revision = @ + 1, !.updated_by = a]

PatchRun(a, r, status, c) ==
  /\ Draft(r)
  /\ runs[r].revision < MaxRevision
  /\ Expected(a, r)
  /\ ChoiceAllowed(c, runs[r].space)
  /\ runs' = [runs EXCEPT ![r] = Patched(a, r, status, c)]
  /\ seen' = [seen EXCEPT ![a] = None]
  /\ UNCHANGED <<pages, staged>>

StageHome(a, r, c) ==
  /\ PatchRun(a, r, "staging", c)
  /\ UNCHANGED publications

Cancel(a, r) ==
  /\ PatchRun(a, r, "cancelled", runs[r].choice)
  /\ UNCHANGED publications

\* The PATCH that publishes may also carry a home choice of its own.
Publish(a, r, c) ==
  /\ PatchRun(a, r, "published", c)
  /\ Publishable(r, runs[r].space, c)
  /\ LET s == runs[r].space IN
     publications' = [publications EXCEPT ![s] = Append(@,
       [run |-> r, manifest |-> NewManifest(r, s), home |-> NewHome(c, s)])]

Next ==
  \/ \E p \in Page, s \in Space : CreatePage(p, s)
  \/ \E r \in Run, s \in Space, c \in Choice : CreateRun(r, s, c)
  \/ \E r \in Run, p \in Page, base \in RevisionId \union {None} :
       \E content \in Content[p] : StageRevision(r, p, base, content)
  \/ \E v \in RevisionId, target \in Page : StageLink(v, target)
  \/ \E v \in RevisionId, mk \in Marker, psg \in Passage : StageCitation(v, mk, psg)
  \/ \E a \in Agent, r \in Run : ReadRun(a, r)
  \/ \E a \in Agent, r \in Run, c \in Choice : StageHome(a, r, c)
  \/ \E a \in Agent, r \in Run : Cancel(a, r)
  \/ \E a \in Agent, r \in Run, c \in Choice : Publish(a, r, c)

Spec == Init /\ [][Next]_vars

-----------------------------------------------------------------------------
(* What readers rely on: every publication, for as long as it is kept. *)

Published(s) == {publications[s][n] : n \in DOMAIN publications[s]}

\* The revision of p that publication n of s selects; before the first, none.
Selection(s, n, p) == IF n = 0 THEN None ELSE publications[s][n].manifest[p]

\* In every publication each link of a live page leads to a live page, whichever
\* run archived the target or wrote the link (the two link loops of publish).
NoBrokenLinks ==
  \A s \in Space : \A pub \in Published(s) : \A p \in Live(pub.manifest) :
    \A q \in links[pub.manifest[p]] \union Body(pub.manifest[p]).links :
      pub.manifest[q] # None /\ ~ Body(pub.manifest[q]).archived

\* A publication's home page can be opened: it is selected and not archived, even
\* when the home was carried forward past a run that archived the page.
HomeIsLive ==
  \A s \in Space : \A pub \in Published(s) :
    pub.home # None => pub.manifest[pub.home] # None /\ ~ Body(pub.manifest[pub.home]).archived

\* No update is lost: a page changes only to a revision of the run being published,
\* synthesised from the revision it replaces, and no run is published twice; so a
\* page's published revisions form one chain (the base check answers 409 otherwise).
LinearLineage ==
  \A s \in Space :
    /\ \A n \in DOMAIN publications[s] : \A p \in Page :
         Selection(s, n, p) # Selection(s, n - 1, p) =>
           /\ Selection(s, n, p) = <<publications[s][n].run, p>>
           /\ drafts[Selection(s, n, p)].base = Selection(s, n - 1, p)
    /\ \A n, k \in DOMAIN publications[s] :
         publications[s][n].run = publications[s][k].run => n = k

\* Whatever a publication shows comes from its own space: its run, pages, home,
\* revisions, link targets and cited passages (local and scope).
SpaceIsolation ==
  \A s \in Space : \A pub \in Published(s) :
    /\ runs[pub.run].space = s
    /\ pub.home # None => pages[pub.home] = s
    /\ \A p \in Page : pub.manifest[p] # None =>
         /\ pages[p] = s
         /\ runs[pub.manifest[p][1]].space = s
         /\ \A q \in links[pub.manifest[p]] : pages[q] = s
         /\ \A mk \in Marker : citations[pub.manifest[p]][mk] # None =>
              PassageSpace[citations[pub.manifest[p]][mk]] = s

\* Every marker of a selected revision has its citation and no other citation is
\* kept, however late after publication a reader looks.
EvidenceComplete ==
  \A s \in Space : \A pub \in Published(s) : \A p \in Live(pub.manifest) :
    \A mk \in Marker :
      citations[pub.manifest[p]][mk] # None <=> mk \in Body(pub.manifest[p]).markers

\* Timestamp-warned evidence is cited by a live page only once a review of its
\* bundle has been published in the space, in this publication or an earlier one.
WarningsReviewed ==
  \A s \in Space : \A n \in DOMAIN publications[s] : \A p \in Live(publications[s][n].manifest) :
    \A mk \in Marker :
      LET psg == citations[publications[s][n].manifest[p]][mk] IN
      psg # None /\ PassageBundle[psg] # None =>
        \E k \in 1..n : \E q \in Live(publications[s][k].manifest) :
          LET body == Body(publications[s][k].manifest[q])
          IN body.bundle = PassageBundle[psg] /\ body.reviewed

\* No audio source has two live recordings, no GitHub path two live destinations.
NoDuplicateClaims ==
  \A s \in Space : \A pub \in Published(s) : \A claim \in Claim :
    Cardinality({p \in Live(pub.manifest) : claim \in Body(pub.manifest[p]).claims}) <= 1

\* A relationship property whose key demands a catalog type leads to a live page of
\* that type, also after another run has changed the target page.
RelationTargetsTyped ==
  \A s \in Space : \A pub \in Published(s) : \A p \in Live(pub.manifest) :
    \A t \in Body(pub.manifest[p]).relations :
      /\ t[1] \in Live(pub.manifest)
      /\ t[2] # None => Body(pub.manifest[t[1]]).catalog = t[2]

\* A live sync page names revisions that readers could already see: each was
\* selected by an earlier publication than the one that first shows the sync page.
SyncNamesEarlier ==
  \A s \in Space : \A n \in DOMAIN publications[s] : \A p \in Live(publications[s][n].manifest) :
    LET body == Body(publications[s][n].manifest[p]) IN
    body.synced # None =>
      \A i \in {1, 2} : \E k \in 1..(n - 1) :
        publications[s][k].manifest[body.synced[i][2]] = body.synced[i]

\* The agent whose PATCH changes a run had read the very record it replaces, so a home
\* choice, cancellation or publication by another agent is never overwritten by one
\* who did not know of it.  (Staged revisions, links and citations are records of
\* their own and leave the run's revision alone: of those it promises nothing.)
PatchedAsRead ==
  [][\A r \in Run :
       runs[r] # None /\ runs'[r] # runs[r] =>
         /\ runs'[r].updated_by # None
         /\ seen[runs'[r].updated_by] = [run |-> r, record |-> runs[r]]]_vars

-----------------------------------------------------------------------------
(* Readers see a history of closed snapshots: the revisions, links and      *)
(* citations live in tables of their own, written request by request, yet   *)
(* the history they make up together only ever grows by whole publications. *)

Shown(v) ==
  [revision |-> v, archived |-> Body(v).archived, links |-> links[v], citations |-> citations[v]]

History ==
  [s \in Space |-> [n \in DOMAIN publications[s] |->
    [pages |-> [p \in Page |-> LET v == publications[s][n].manifest[p]
                               IN IF v = None THEN None ELSE Shown(v)],
     home |-> publications[s][n].home]]]

Abstract == INSTANCE PublicationHistory WITH history <- History

\* Publishing implements PublicationHistory.
ImplementsHistory == Abstract!Spec

=============================================================================
