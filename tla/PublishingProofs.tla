--------------------------- MODULE PublishingProofs ---------------------------
(***************************************************************************)
(* Theorems about Publishing, for every set of spaces, pages, runs, agents *)
(* and contents.  The argument: no step touches the records of a closed    *)
(* run (ClosedRunFixed, ClosedRunsFrozen); whatever a publication selects  *)
(* belongs to closed runs (EntrySound), so a sound publication stays sound *)
(* (SoundKept); and only Publish adds a publication, which its checks make *)
(* sound (SoundNew).  IInv is that argument as one inductive invariant.    *)
(***************************************************************************)
EXTENDS Publishing, FiniteSetTheorems, TLAPS

RunRecord == RunType \union {None}
DraftType == [base: RevisionId \union {None}, content: ContentType]

-----------------------------------------------------------------------------
(* Types. *)

\* The manifest and home that publish computes have the types of a publication.
LEMMA PriorType ==
  ASSUME TypeOK, NEW s \in Space
  PROVE  /\ Prior(s).manifest \in [Page -> RevisionId \union {None}]
         /\ Prior(s).home \in Page \union {None}
<1>1. CASE Len(publications[s]) = 0
  BY <1>1 DEF Prior
<1>2. CASE Len(publications[s]) # 0
  <2>1. publications[s] \in Seq(Publication)
    BY DEF TypeOK
  <2>2. Len(publications[s]) \in DOMAIN publications[s]
    BY <1>2, <2>1
  <2>3. publications[s][Len(publications[s])] \in Publication
    BY <2>1, <2>2
  <2> QED BY <1>2, <2>3 DEF Prior, Publication
<1> QED BY <1>1, <1>2

LEMMA NewManifestType ==
  ASSUME TypeOK, NEW r \in Run, NEW s \in Space
  PROVE  NewManifest(r, s) \in [Page -> RevisionId \union {None}]
BY PriorType DEF NewManifest, RevisionId

LEMMA NewHomeType ==
  ASSUME TypeOK, NEW s \in Space, NEW c \in ChoiceType
  PROVE  NewHome(c, s) \in Page \union {None}
BY PriorType DEF NewHome, ChoiceType

LEMMA DraftRecord ==
  ASSUME TypeOK, NEW r \in Run, Draft(r)
  PROVE  runs[r] \in RunType /\ runs[r].space \in Space /\ runs[r].status = "staging"
BY DEF TypeOK, Draft, RunType

\* A PATCH of a run keeps the types and the space of the run.
LEMMA PatchRunType ==
  ASSUME TypeOK, NEW a \in Agent, NEW r \in Run, NEW c \in ChoiceType,
         NEW status \in {"staging", "published", "cancelled"},
         PatchRun(a, r, status, c)
  PROVE  /\ runs' \in [Run -> RunRecord]
         /\ runs'[r] \in RunType
         /\ runs'[r].status = status /\ runs'[r].space = runs[r].space
         /\ runs'[r].choice = c
         /\ \A q \in Run \ {r} : runs'[q] = runs[q]
         /\ seen' \in [Agent -> [run: Run, record: RunType] \union {None}]
<1>1. runs[r] \in RunType
  BY DraftRecord DEF PatchRun
<1>2. runs[r].revision + 1 \in 1..MaxRevision
  BY <1>1, ConstantsAssumption DEF PatchRun, RunType
<1>3. Patched(a, r, status, c) \in RunType
  BY <1>1, <1>2 DEF Patched, RunType
<1>4. runs \in [Run -> RunRecord] /\ runs' = [runs EXCEPT ![r] = Patched(a, r, status, c)]
  BY DEF TypeOK, RunRecord, PatchRun
<1>5. /\ Patched(a, r, status, c).status = status
      /\ Patched(a, r, status, c).space = runs[r].space
      /\ Patched(a, r, status, c).choice = c
  BY <1>1 DEF Patched, RunType
<1>6. seen' \in [Agent -> [run: Run, record: RunType] \union {None}]
  BY DEF PatchRun, TypeOK
<1> QED BY <1>3, <1>4, <1>5, <1>6 DEF RunRecord

LEMMA InitType == Init => TypeOK
BY DEF Init, TypeOK

LEMMA NextType == TypeOK /\ [Next]_vars => TypeOK'
<1> SUFFICES ASSUME TypeOK, [Next]_vars PROVE TypeOK'
  OBVIOUS
<1>1. ASSUME NEW p \in Page, NEW s \in Space, CreatePage(p, s)
      PROVE  TypeOK'
  BY <1>1 DEF CreatePage, TypeOK, staged
<1>2. ASSUME NEW r \in Run, NEW s \in Space, NEW c \in Choice, CreateRun(r, s, c)
      PROVE  TypeOK'
  <2>1. [space |-> s, status |-> "staging", choice |-> c, revision |-> 1,
        updated_by |-> None] \in RunType
    BY ConstantsAssumption DEF RunType
  <2> QED BY <1>2, <2>1 DEF CreateRun, TypeOK, staged
<1>3. ASSUME NEW r \in Run, NEW p \in Page, NEW base \in RevisionId \union {None},
             NEW content \in Content[p], StageRevision(r, p, base, content)
      PROVE  TypeOK'
  <2>1. [base |-> base, content |-> content] \in [base: RevisionId \union {None}, content: ContentType]
    BY ConstantsAssumption
  <2> QED BY <1>3, <2>1 DEF StageRevision, TypeOK
<1>4. ASSUME NEW v \in RevisionId, NEW target \in Page, StageLink(v, target)
      PROVE  TypeOK'
  BY <1>4 DEF StageLink, TypeOK
<1>5. ASSUME NEW v \in RevisionId, NEW mk \in Marker, NEW psg \in Passage,
             StageCitation(v, mk, psg)
      PROVE  TypeOK'
  BY <1>5 DEF StageCitation, TypeOK
<1>6. ASSUME NEW a \in Agent, NEW r \in Run, ReadRun(a, r)
      PROVE  TypeOK'
  <2>1. [run |-> r, record |-> runs[r]] \in [run: Run, record: RunType]
    BY <1>6, DraftRecord DEF ReadRun
  <2> QED BY <1>6, <2>1 DEF ReadRun, TypeOK, staged
<1>7. ASSUME NEW a \in Agent, NEW r \in Run, NEW c \in Choice, StageHome(a, r, c)
      PROVE  TypeOK'
  BY <1>7, PatchRunType, ConstantsAssumption DEF StageHome, PatchRun, TypeOK, RunRecord, staged
<1>8. ASSUME NEW a \in Agent, NEW r \in Run, Cancel(a, r)
      PROVE  TypeOK'
  <2>1. runs[r].choice \in ChoiceType
    BY <1>8, DraftRecord DEF Cancel, PatchRun, RunType
  <2> QED BY <1>8, <2>1, PatchRunType DEF Cancel, PatchRun, TypeOK, RunRecord, staged
<1>9. ASSUME NEW a \in Agent, NEW r \in Run, NEW c \in Choice, Publish(a, r, c)
      PROVE  TypeOK'
  <2> DEFINE s == runs[r].space
             pub == [run |-> r, manifest |-> NewManifest(r, s), home |-> NewHome(c, s)]
  <2>1. s \in Space /\ c \in ChoiceType
    BY <1>9, DraftRecord, ConstantsAssumption DEF Publish, PatchRun
  <2>2. pub \in Publication
    BY <2>1, NewManifestType, NewHomeType DEF Publication
  <2>3. publications' = [publications EXCEPT ![s] = Append(@, pub)]
    BY <1>9 DEF Publish
  <2>4. publications[s] \in Seq(Publication)
    BY <2>1 DEF TypeOK
  <2>5. publications' \in [Space -> Seq(Publication)]
    BY <2>1, <2>2, <2>3, <2>4 DEF TypeOK
  <2> QED BY <1>9, <2>1, <2>5, PatchRunType DEF Publish, PatchRun, TypeOK, RunRecord, staged
<1>10. CASE UNCHANGED vars
  BY <1>10 DEF vars, TypeOK
<1> QED BY <1>1, <1>2, <1>3, <1>4, <1>5, <1>6, <1>7, <1>8, <1>9, <1>10 DEF Next

\* Every record keeps its type: in particular no manifest selects anything but
\* revisions, and no run's revision number leaves its bound.
THEOREM PublishingTypes == Spec => []TypeOK
BY InitType, NextType, PTL DEF Spec

-----------------------------------------------------------------------------
(* What steps leave alone. *)

Closed(r) == runs[r] # None /\ runs[r].status # "staging"

\* The record of a closed run never changes again.
LEMMA ClosedRunFixed ==
  ASSUME TypeOK, [Next]_vars, NEW r \in Run, Closed(r)
  PROVE  runs'[r] = runs[r]
BY DEF Next, vars, TypeOK, Closed, Draft, CreatePage, CreateRun, StageRevision, StageLink,
       StageCitation, ReadRun, StageHome, Cancel, Publish, PatchRun, staged

\* Nor do the revisions, links and citations staged under it.
LEMMA ClosedRunsFrozen ==
  ASSUME TypeOK, [Next]_vars, NEW v \in RevisionId, Closed(v[1])
  PROVE  drafts'[v] = drafts[v] /\ links'[v] = links[v] /\ citations'[v] = citations[v]
<1> v[1] \in Run /\ v[2] \in Page /\ v = <<v[1], v[2]>>
  BY DEF RevisionId
<1>1. ASSUME NEW r \in Run, NEW p \in Page, NEW base \in RevisionId \union {None},
             NEW content \in Content[p], StageRevision(r, p, base, content)
      PROVE  drafts'[v] = drafts[v] /\ links' = links /\ citations' = citations
  BY <1>1 DEF StageRevision, Draft, TypeOK, Closed
<1>2. ASSUME NEW w \in RevisionId, NEW target \in Page, StageLink(w, target)
      PROVE  drafts' = drafts /\ links'[v] = links[v] /\ citations' = citations
  BY <1>2 DEF StageLink, Draft, TypeOK, Closed
<1>3. ASSUME NEW w \in RevisionId, NEW mk \in Marker, NEW psg \in Passage,
             StageCitation(w, mk, psg)
      PROVE  drafts' = drafts /\ links' = links /\ citations'[v] = citations[v]
  BY <1>3 DEF StageCitation, Draft, TypeOK, Closed
<1> QED
  BY <1>1, <1>2, <1>3
  DEF Next, vars, staged, CreatePage, CreateRun, ReadRun, StageHome, Cancel, Publish, PatchRun

\* Only Publish changes publications.
LEMMA OnlyPublishPublishes ==
  ASSUME [Next]_vars
  PROVE  \/ publications' = publications
         \/ \E a \in Agent, r \in Run, c \in Choice : Publish(a, r, c)
BY DEF Next, vars, CreatePage, CreateRun, StageRevision, StageLink, StageCitation,
       ReadRun, StageHome, Cancel

\* Run r is closed as published, and its publication becomes number n + 1 of s.
Appends(r, s, n, manifest, home) ==
  /\ s \in Space /\ n \in Nat /\ DOMAIN publications[s] = 1..n
  /\ DOMAIN publications'[s] = 1..(n + 1)
  /\ \A k \in 1..n : publications'[s][k] = publications[s][k]
  /\ publications'[s][n + 1] = [run |-> r, manifest |-> manifest, home |-> home]
  /\ \A t \in Space \ {s} : publications'[t] = publications[t]
  /\ runs'[r] \in RunType /\ runs'[r].status = "published" /\ runs'[r].space = s
  /\ \A q \in Run \ {r} : runs'[q] = runs[q]
  /\ UNCHANGED <<pages, drafts, links, citations>>

LEMMA PublishAppends ==
  ASSUME TypeOK, NEW a \in Agent, NEW r \in Run, NEW c \in Choice, Publish(a, r, c)
  PROVE  Appends(r, runs[r].space, Len(publications[runs[r].space]),
                 NewManifest(r, runs[r].space), NewHome(c, runs[r].space))
<1>0. PICK s : s = runs[r].space
  OBVIOUS
<1>1. c \in ChoiceType
  BY ConstantsAssumption
<1>2. s \in Space
  BY <1>0, DraftRecord DEF Publish, PatchRun
<1>3. publications[s] \in Seq(Publication)
  BY <1>2 DEF TypeOK
<1> DEFINE pub == [run |-> r, manifest |-> NewManifest(r, s), home |-> NewHome(c, s)]
<1>4. publications' = [publications EXCEPT ![s] = Append(publications[s], pub)]
  BY <1>0 DEF Publish
<1>5. publications'[s] = Append(publications[s], pub)
      /\ \A t \in Space \ {s} : publications'[t] = publications[t]
  BY <1>2, <1>4 DEF TypeOK
<1>6. pub \in Publication
  BY <1>1, <1>2, NewManifestType, NewHomeType DEF Publication
<1>7. /\ Len(publications[s]) \in Nat
      /\ DOMAIN publications[s] = 1..Len(publications[s])
      /\ DOMAIN publications'[s] = 1..(Len(publications[s]) + 1)
      /\ \A k \in 1..Len(publications[s]) : publications'[s][k] = publications[s][k]
      /\ publications'[s][Len(publications[s]) + 1] = pub
  BY <1>3, <1>5, <1>6
<1>8. /\ runs'[r] \in RunType /\ runs'[r].status = "published" /\ runs'[r].space = s
      /\ \A q \in Run \ {r} : runs'[q] = runs[q]
  BY <1>0, <1>1, PatchRunType DEF Publish
<1>9. UNCHANGED <<pages, drafts, links, citations>>
  BY DEF Publish, PatchRun, staged
<1> HIDE DEF pub
<1>10. pub = [run |-> r, manifest |-> NewManifest(r, s), home |-> NewHome(c, s)]
  BY DEF pub
<1> QED BY <1>0, <1>2, <1>5, <1>7, <1>8, <1>9, <1>10 DEF Appends

-----------------------------------------------------------------------------
(* The inductive invariant: what a staged record refers to is local to its *)
(* space, and every publication is sound.                                  *)

DraftsLocal ==
  \A v \in RevisionId : drafts[v] # None =>
    /\ runs[v[1]] # None
    /\ pages[v[2]] = runs[v[1]].space

RecordsLocal ==
  \A v \in RevisionId :
    /\ links[v] # {} => drafts[v] # None
    /\ \A q \in links[v] : pages[q] = runs[v[1]].space
    /\ \A mk \in Marker : citations[v][mk] # None =>
         drafts[v] # None /\ PassageSpace[citations[v][mk]] = runs[v[1]].space

\* A selected revision is a published one of the page and space, with the links and
\* citations its body needs.
EntrySound(s, n, p) ==
  LET v == Selection(s, n, p) IN
  v # None =>
    /\ v \in RevisionId /\ v[2] = p /\ drafts[v] # None
    /\ runs[v[1]] # None /\ runs[v[1]].status = "published" /\ runs[v[1]].space = s
    /\ MentionsRecorded(v)
    /\ \A mk \in Marker : citations[v][mk] # None <=> mk \in Body(v).markers

LinksSound(s, n) ==
  LET m == publications[s][n].manifest
  IN \A p \in Live(m) : links[m[p]] \subseteq Live(m)

RelationsSound(s, n) ==
  LET m == publications[s][n].manifest
  IN \A p \in Live(m) : RelationsTyped(m[p], m)

HomeSound(s, n) ==
  publications[s][n].home # None =>
    publications[s][n].home \in Live(publications[s][n].manifest)

RunSound(s, n) ==
  LET r == publications[s][n].run
  IN runs[r] # None /\ runs[r].status = "published" /\ runs[r].space = s

ChainSound(s, n) ==
  \A p \in Page :
    Selection(s, n, p) # Selection(s, n - 1, p) =>
      /\ Selection(s, n, p) = <<publications[s][n].run, p>>
      /\ drafts[Selection(s, n, p)].base = Selection(s, n - 1, p)

Sound(s, n) ==
  /\ \A p \in Page : EntrySound(s, n, p)
  /\ LinksSound(s, n)
  /\ RelationsSound(s, n)
  /\ HomeSound(s, n)
  /\ RunSound(s, n)
  /\ ChainSound(s, n)

RunsDistinct ==
  \A s \in Space : \A n, k \in DOMAIN publications[s] :
    publications[s][n].run = publications[s][k].run => n = k

PublicationsSound == \A s \in Space : \A n \in DOMAIN publications[s] : Sound(s, n)

IInv == TypeOK /\ DraftsLocal /\ RecordsLocal /\ PublicationsSound /\ RunsDistinct

\* Publications of a space are numbered from 1 and have the type of a publication.
LEMMA PublicationType ==
  ASSUME TypeOK, NEW s \in Space, NEW n \in DOMAIN publications[s]
  PROVE  /\ n \in Nat \ {0}
         /\ publications[s][n] \in Publication
         /\ n # 1 => n - 1 \in DOMAIN publications[s]
<1>1. publications[s] \in Seq(Publication)
  BY DEF TypeOK
<1> QED BY <1>1

\* A space never moves a page, and a run keeps its space.
LEMMA PagesFixed ==
  ASSUME TypeOK, [Next]_vars, NEW p \in Page, pages[p] # None
  PROVE  pages'[p] = pages[p]
BY DEF Next, vars, TypeOK, CreatePage, CreateRun, StageRevision, StageLink, StageCitation,
       ReadRun, StageHome, Cancel, Publish, PatchRun, staged

LEMMA RunSpaceFixed ==
  ASSUME TypeOK, [Next]_vars, NEW r \in Run, runs[r] # None
  PROVE  runs'[r] # None /\ runs'[r].space = runs[r].space
<1>1. ASSUME NEW a \in Agent, NEW q \in Run, NEW c \in ChoiceType,
             NEW status \in {"staging", "published", "cancelled"}, PatchRun(a, q, status, c)
      PROVE  runs'[r] # None /\ runs'[r].space = runs[r].space
  <2>1. runs'[q] # None /\ runs'[q].space = runs[q].space
        /\ \A x \in Run \ {q} : runs'[x] = runs[x]
    BY <1>1, PatchRunType, ConstantsAssumption
  <2> QED BY <2>1
<1>2. ASSUME NEW q \in Run, NEW s \in Space, NEW c \in Choice, CreateRun(q, s, c)
      PROVE  runs'[r] = runs[r]
  BY <1>2 DEF CreateRun, TypeOK
<1>3. ASSUME NEW a \in Agent, NEW q \in Run, Cancel(a, q)
      PROVE  runs[q].choice \in ChoiceType
  BY <1>3, DraftRecord DEF Cancel, PatchRun, RunType
<1> QED
  BY <1>1, <1>2, <1>3, ConstantsAssumption
  DEF Next, vars, CreatePage, StageRevision, StageLink, StageCitation, ReadRun,
      StageHome, Cancel, Publish

\* A publication that was sound stays sound through every step.
LEMMA SoundKept ==
  ASSUME IInv, [Next]_vars, NEW s \in Space, NEW n \in DOMAIN publications[s],
         DOMAIN publications'[s] # {}, publications'[s][n] = publications[s][n],
         n # 1 => publications'[s][n - 1] = publications[s][n - 1]
  PROVE  Sound(s, n)'
<1> DEFINE m == publications[s][n].manifest
<1>1. TypeOK /\ Sound(s, n) /\ n \in Nat \ {0} /\ publications[s][n] \in Publication
  BY PublicationType DEF IInv, PublicationsSound
<1>2. \A p \in Page : Selection(s, n, p)' = Selection(s, n, p) /\ Selection(s, n, p) = m[p]
  BY <1>1 DEF Selection
<1>3. \A p \in Page : Selection(s, n - 1, p)' = Selection(s, n - 1, p)
  BY <1>1 DEF Selection
<1>4. ASSUME NEW p \in Page, m[p] # None
      PROVE  /\ m[p] \in RevisionId
             /\ runs'[m[p][1]] = runs[m[p][1]]
             /\ drafts'[m[p]] = drafts[m[p]]
             /\ links'[m[p]] = links[m[p]]
             /\ citations'[m[p]] = citations[m[p]]
  <2>1. m[p] \in RevisionId /\ m[p][1] \in Run /\ Closed(m[p][1])
    BY <1>1, <1>2, <1>4 DEF Sound, EntrySound, Closed, RevisionId
  <2> QED BY <1>1, <2>1, ClosedRunsFrozen, ClosedRunFixed
<1>5. Live(m)' = Live(m) /\ m' = m
  BY <1>4 DEF Live, Body
<1>6. \A p \in Page : EntrySound(s, n, p)'
  BY <1>1, <1>2, <1>4 DEF Sound, EntrySound, MentionsRecorded, Body
<1>7. LinksSound(s, n)'
  BY <1>1, <1>4, <1>5 DEF Sound, LinksSound, Live
<1>8. HomeSound(s, n)'
  BY <1>1, <1>5 DEF Sound, HomeSound
<1>9. RunSound(s, n)'
  <2>1. publications[s][n].run \in Run /\ Closed(publications[s][n].run)
    BY <1>1 DEF Sound, RunSound, Closed, Publication
  <2> QED BY <1>1, <2>1, ClosedRunFixed DEF Sound, RunSound
<1>10. ASSUME NEW p \in Page, Selection(s, n, p)' # Selection(s, n - 1, p)'
       PROVE  /\ Selection(s, n, p)' = <<publications'[s][n].run, p>>
              /\ drafts'[Selection(s, n, p)'].base = Selection(s, n - 1, p)'
  <2>1. m[p] = <<publications[s][n].run, p>> /\ drafts[m[p]].base = Selection(s, n - 1, p)
    BY <1>1, <1>2, <1>3, <1>10 DEF Sound, ChainSound
  <2>2. m[p] # None
    BY <1>1, <2>1, ConstantsAssumption DEF Publication, RevisionId
  <2>3. drafts'[m[p]] = drafts[m[p]]
    BY <1>4, <2>2
  <2> HIDE DEF m
  <2>4. Selection(s, n, p)' = m[p] /\ Selection(s, n - 1, p)' = Selection(s, n - 1, p)
    BY <1>2, <1>3
  <2> QED BY <2>1, <2>3, <2>4
<1>11. ChainSound(s, n)'
  BY <1>10 DEF ChainSound
<1>12. RelationsSound(s, n)'
  BY <1>1, <1>4, <1>5 DEF Sound, RelationsSound, RelationsTyped, Live, Body
<1> QED BY <1>6, <1>7, <1>8, <1>9, <1>11, <1>12 DEF Sound

\* The publication that Publish appends is sound: its checks cover it.
LEMMA SoundNew ==
  ASSUME IInv, NEW a \in Agent, NEW r \in Run, NEW c \in Choice, Publish(a, r, c),
         NEW s, s = runs[r].space, NEW n, n = Len(publications[s])
  PROVE  Sound(s, n + 1)'
<1>m. PICK m : m = NewManifest(r, s)
  OBVIOUS
<1>old. PICK old : old = Prior(s).manifest
  OBVIOUS
<1>home. PICK home : home = NewHome(c, s)
  OBVIOUS
<1>1. /\ s \in Space /\ n \in Nat /\ DOMAIN publications[s] = 1..n
      /\ \A k \in 1..n : publications'[s][k] = publications[s][k]
      /\ publications'[s][n + 1] = [run |-> r, manifest |-> m, home |-> home]
      /\ runs'[r] \in RunType /\ runs'[r].status = "published" /\ runs'[r].space = s
      /\ \A q \in Run \ {r} : runs'[q] = runs[q]
      /\ UNCHANGED <<pages, drafts, links, citations>>
  <2>1. Appends(r, s, n, m, home)
    BY PublishAppends, <1>m, <1>home DEF IInv
  <2> QED BY <2>1 DEF Appends
<1>2. Publishable(r, s, c) /\ Draft(r) /\ runs[r].status = "staging"
  BY DraftRecord DEF IInv, Publish, PatchRun
<1>3. /\ m \in [Page -> RevisionId \union {None}]
      /\ old \in [Page -> RevisionId \union {None}]
  BY <1>1, <1>m, <1>old, NewManifestType, PriorType DEF IInv
<1>4. \A p \in Page : old[p] = IF n = 0 THEN None ELSE publications[s][n].manifest[p]
  BY <1>1, <1>old DEF Prior
<1>5. \A p \in Page : m[p] = IF drafts[<<r, p>>] # None THEN <<r, p>> ELSE old[p]
  BY <1>m, <1>old DEF NewManifest
<1>6. \A p \in Page : old[p] = Selection(s, n, p)
  BY <1>4 DEF Selection
<1>7. ASSUME NEW p \in Page, old[p] # None
      PROVE  /\ old[p][2] = p /\ drafts[old[p]] # None
             /\ runs[old[p][1]] # None /\ runs[old[p][1]].status = "published"
             /\ runs[old[p][1]].space = s
             /\ MentionsRecorded(old[p])
             /\ \A mk \in Marker : citations[old[p]][mk] # None <=> mk \in Body(old[p]).markers
  <2>1. n \in DOMAIN publications[s]
    BY <1>1, <1>4, <1>7
  <2>2. EntrySound(s, n, p)
    BY <1>1, <2>1 DEF IInv, PublicationsSound, Sound
  <2> QED BY <1>6, <1>7, <2>2 DEF EntrySound
<1>8. Publishable(r, s, c) => /\ \A v \in RevisionsOf(r) : CitationsMatch(v) /\ MentionsRecorded(v)
                              /\ HomeServable(home, m) /\ BasesCurrent(r, s)
                              /\ \A p \in Live(m) : RelationsTyped(m[p], m) /\ LinksLive(m[p], m)
  BY <1>m, <1>home DEF Publishable
<1>9. ASSUME NEW p \in Page, drafts[<<r, p>>] # None
      PROVE  /\ <<r, p>> \in RevisionsOf(r) /\ m[p] = <<r, p>>
             /\ MentionsRecorded(m[p])
             /\ \A mk \in Marker : citations[m[p]][mk] # None <=> mk \in Body(m[p]).markers
             /\ drafts[m[p]].base = old[p]
  <2>1. <<r, p>> \in RevisionId /\ <<r, p>>[1] = r /\ <<r, p>>[2] = p
    BY DEF RevisionId
  <2>2. <<r, p>> \in RevisionsOf(r) /\ m[p] = <<r, p>>
    BY <1>5, <1>9, <2>1 DEF RevisionsOf
  <2>3. CitationsMatch(m[p]) /\ MentionsRecorded(m[p])
    BY <1>2, <1>8, <2>2
  <2>4. drafts[m[p]].base = Prior(s).manifest[p]
    BY <1>2, <1>8, <2>1, <2>2 DEF BasesCurrent
  <2>5. m[p] \in RevisionId /\ drafts[m[p]] \in DraftType
    BY <1>9, <2>1, <2>2 DEF IInv, TypeOK, DraftType
  <2>6. \A mk \in Marker : citations[m[p]][mk] # None <=> mk \in Body(m[p]).markers
    BY <2>3, <2>5 DEF CitationsMatch, Body, DraftType, ContentType
  <2> QED BY <1>old, <2>2, <2>3, <2>4, <2>6
<1>10. \A p \in Page : Selection(s, n + 1, p)' = m[p] /\ Selection(s, n, p)' = old[p]
  BY <1>1, <1>4 DEF Selection
<1>11. publications'[s][n + 1].manifest = m /\ publications'[s][n + 1].home = home
       /\ publications'[s][n + 1].run = r
  BY <1>1
<1>12. /\ Live(m)' = Live(m)
       /\ \A v : Body(v)' = Body(v) /\ MentionsRecorded(v)' = MentionsRecorded(v)
  BY <1>1 DEF Live, Body, MentionsRecorded
<1>13. ASSUME NEW p \in Page PROVE EntrySound(s, n + 1, p)'
  <2>1. CASE drafts[<<r, p>>] # None
    <3>1. m[p] \in RevisionId /\ m[p][1] = r /\ m[p][2] = p /\ drafts[m[p]] # None
      BY <1>9, <2>1 DEF RevisionId
    <3>2. runs'[r] # None
      BY <1>1, ConstantsAssumption
    <3> QED BY <1>1, <1>9, <1>10, <1>12, <2>1, <3>1, <3>2 DEF EntrySound
  <2>2. CASE drafts[<<r, p>>] = None /\ old[p] # None
    <3>1. m[p] = old[p] /\ m[p] \in RevisionId /\ m[p][1] \in Run
      BY <1>3, <1>5, <2>2 DEF RevisionId
    <3>2. runs[m[p][1]] # None /\ m[p][1] # r
      BY <1>2, <1>7, <2>2, <3>1
    <3> QED BY <1>1, <1>7, <1>10, <1>12, <2>2, <3>1, <3>2 DEF EntrySound
  <2>3. CASE drafts[<<r, p>>] = None /\ old[p] = None
    BY <1>5, <1>10, <2>3 DEF EntrySound
  <2> QED BY <2>1, <2>2, <2>3
<1>14. LinksSound(s, n + 1)'
  BY <1>1, <1>2, <1>8, <1>11, <1>12 DEF LinksSound, LinksLive
<1>15. RelationsSound(s, n + 1)'
  BY <1>1, <1>2, <1>8, <1>11, <1>12 DEF RelationsSound, RelationsTyped, Body
<1>16. HomeSound(s, n + 1)'
  BY <1>1, <1>2, <1>8, <1>11, <1>12 DEF HomeSound, HomeServable
<1>17. RunSound(s, n + 1)'
  BY <1>1, <1>11, ConstantsAssumption DEF RunSound
<1>18. ChainSound(s, n + 1)'
  <2>1. n + 1 - 1 = n
    BY <1>1
  <2>2. \A p \in Page : m[p] # old[p] => m[p] = <<r, p>> /\ drafts'[m[p]].base = old[p]
    BY <1>1, <1>5, <1>9
  <2>3. \A p \in Page :
          Selection(s, n + 1, p)' # Selection(s, n, p)' =>
            /\ Selection(s, n + 1, p)' = <<publications'[s][n + 1].run, p>>
            /\ drafts'[Selection(s, n + 1, p)'].base = Selection(s, n, p)'
    BY <1>10, <1>11, <2>2
  <2> QED BY <2>1, <2>3 DEF ChainSound
<1> QED BY <1>13, <1>14, <1>15, <1>16, <1>17, <1>18 DEF Sound

-----------------------------------------------------------------------------
(* The invariant is inductive. *)

LEMMA DraftsLocalKept == IInv /\ [Next]_vars => DraftsLocal'
<1> SUFFICES ASSUME IInv, [Next]_vars, NEW v \in RevisionId, drafts'[v] # None
             PROVE  runs'[v[1]] # None /\ pages'[v[2]] = runs'[v[1]].space
  BY DEF DraftsLocal
<1> v[1] \in Run /\ v[2] \in Page /\ v = <<v[1], v[2]>>
  BY DEF RevisionId
<1>1. CASE drafts[v] # None
  <2>1. runs[v[1]] # None /\ pages[v[2]] = runs[v[1]].space
    BY <1>1 DEF IInv, DraftsLocal
  <2>2. pages[v[2]] # None
    BY <2>1, ConstantsAssumption DEF IInv, TypeOK, RunType
  <2> QED BY <2>1, <2>2, PagesFixed, RunSpaceFixed DEF IInv
<1>2. CASE drafts[v] = None
  <2>1. ASSUME NEW r \in Run, NEW p \in Page, NEW base \in RevisionId \union {None},
               NEW content \in Content[p], StageRevision(r, p, base, content)
        PROVE  runs'[v[1]] # None /\ pages'[v[2]] = runs'[v[1]].space
    <3>1. v = <<r, p>>
      BY <1>2, <2>1 DEF StageRevision, IInv, TypeOK
    <3> QED BY <2>1, <3>1 DEF StageRevision, Draft, Local
  <2>2. \/ drafts' = drafts
        \/ \E r \in Run, p \in Page, base \in RevisionId \union {None} :
             \E content \in Content[p] : StageRevision(r, p, base, content)
    BY DEF Next, vars, staged, CreatePage, CreateRun, StageLink, StageCitation, ReadRun,
           StageHome, Cancel, Publish, PatchRun
  <2> QED BY <1>2, <2>1, <2>2
<1> QED BY <1>1, <1>2

LEMMA RecordsLocalKept == IInv /\ [Next]_vars => RecordsLocal'
<1> SUFFICES ASSUME IInv, [Next]_vars, NEW v \in RevisionId
             PROVE  /\ links'[v] # {} => drafts'[v] # None
                    /\ \A q \in links'[v] : pages'[q] = runs'[v[1]].space
                    /\ \A mk \in Marker : citations'[v][mk] # None =>
                         drafts'[v] # None /\ PassageSpace[citations'[v][mk]] = runs'[v[1]].space
  BY DEF RecordsLocal
<1> v[1] \in Run /\ v[2] \in Page /\ v = <<v[1], v[2]>>
  BY DEF RevisionId
<1>1. drafts[v] # None => drafts'[v] # None
  <2>1. ASSUME NEW r \in Run, NEW p \in Page, NEW base \in RevisionId \union {None},
               NEW content \in Content[p], StageRevision(r, p, base, content), drafts[v] # None
        PROVE  drafts'[v] # None
    BY <2>1 DEF StageRevision, IInv, TypeOK
  <2> QED
    BY <2>1 DEF Next, vars, staged, CreatePage, CreateRun, StageLink, StageCitation, ReadRun,
                StageHome, Cancel, Publish, PatchRun
<1>2. drafts[v] # None => runs'[v[1]].space = runs[v[1]].space
  BY RunSpaceFixed DEF IInv, DraftsLocal
<1>3. ASSUME NEW q \in links'[v]
      PROVE  drafts[v] # None /\ q \in Page /\ pages[q] = runs[v[1]].space
  <2>1. ASSUME NEW w \in RevisionId, NEW target \in Page, StageLink(w, target)
        PROVE  drafts[v] # None /\ q \in Page /\ pages[q] = runs[v[1]].space
    <3>1. CASE q \in links[v]
      BY <3>1 DEF IInv, RecordsLocal, TypeOK
    <3>2. CASE q \notin links[v]
      BY <1>3, <2>1, <3>2 DEF StageLink, Local, IInv, TypeOK
    <3> QED BY <3>1, <3>2
  <2>2. CASE links' = links
    BY <1>3, <2>2 DEF IInv, RecordsLocal, TypeOK
  <2> QED
    BY <2>1, <2>2 DEF Next, vars, staged, CreatePage, CreateRun, StageRevision, StageCitation,
                      ReadRun, StageHome, Cancel, Publish, PatchRun
<1>4. ASSUME NEW mk \in Marker, citations'[v][mk] # None
      PROVE  drafts[v] # None /\ PassageSpace[citations'[v][mk]] = runs[v[1]].space
  <2>1. ASSUME NEW w \in RevisionId, NEW x \in Marker, NEW psg \in Passage, StageCitation(w, x, psg)
        PROVE  drafts[v] # None /\ PassageSpace[citations'[v][mk]] = runs[v[1]].space
    <3>1. CASE w = v /\ x = mk
      BY <2>1, <3>1 DEF StageCitation, IInv, TypeOK
    <3>2. CASE ~ (w = v /\ x = mk)
      <4>1. citations'[v][mk] = citations[v][mk]
        BY <2>1, <3>2 DEF StageCitation, IInv, TypeOK
      <4> QED BY <1>4, <4>1 DEF IInv, RecordsLocal
    <3> QED BY <3>1, <3>2
  <2>2. CASE citations' = citations
    BY <1>4, <2>2 DEF IInv, RecordsLocal
  <2> QED
    BY <2>1, <2>2 DEF Next, vars, staged, CreatePage, CreateRun, StageRevision, StageLink,
                      ReadRun, StageHome, Cancel, Publish, PatchRun
<1>5. ASSUME NEW q \in links'[v] PROVE pages'[q] = runs'[v[1]].space
  <2>1. pages[q] # None
    BY <1>3, <1>5, ConstantsAssumption DEF IInv, DraftsLocal, TypeOK, RunType
  <2> QED BY <1>2, <1>3, <1>5, <2>1, PagesFixed DEF IInv
<1> QED BY <1>1, <1>2, <1>3, <1>4, <1>5

\* What happens to the publications of a space in one step.
LEMMA PublicationsStep ==
  ASSUME IInv, [Next]_vars, NEW s \in Space
  PROVE  \/ publications'[s] = publications[s]
         \/ \E a \in Agent, r \in Run, c \in Choice : Publish(a, r, c) /\ s = runs[r].space
<1>1. ASSUME NEW a \in Agent, NEW r \in Run, NEW c \in Choice, Publish(a, r, c), s # runs[r].space
      PROVE  publications'[s] = publications[s]
  BY <1>1, PublishAppends DEF IInv, Appends
<1> QED BY <1>1, OnlyPublishPublishes

LEMMA PublicationsSoundKept == IInv /\ [Next]_vars => PublicationsSound'
<1> SUFFICES ASSUME IInv, [Next]_vars, NEW s \in Space, NEW k \in DOMAIN publications'[s]
             PROVE  Sound(s, k)'
  BY DEF PublicationsSound
<1>1. CASE publications'[s] = publications[s]
  BY <1>1, SoundKept
<1>2. ASSUME NEW a \in Agent, NEW r \in Run, NEW c \in Choice, Publish(a, r, c), s = runs[r].space
      PROVE  Sound(s, k)'
  <2>1. PICK n : n = Len(publications[s])
    OBVIOUS
  <2>2. /\ n \in Nat /\ DOMAIN publications[s] = 1..n /\ DOMAIN publications'[s] = 1..(n + 1)
        /\ \A i \in 1..n : publications'[s][i] = publications[s][i]
    <3>1. Appends(r, s, n, NewManifest(r, s), NewHome(c, s))
      BY <1>2, <2>1, PublishAppends DEF IInv
    <3> QED BY <3>1 DEF Appends
  <2>3. CASE k = n + 1
    BY <1>2, <2>1, <2>3, SoundNew
  <2>4. CASE k # n + 1
    <3>1. k \in 1..n /\ (k # 1 => k - 1 \in 1..n)
      BY <2>2, <2>4
    <3> QED BY <2>2, <3>1, SoundKept
  <2> QED BY <2>3, <2>4
<1> QED BY <1>1, <1>2, PublicationsStep

\* The run that Publish closes was open, and every published run had been closed.
LEMMA RunsDistinctKept == IInv /\ [Next]_vars => RunsDistinct'
<1> SUFFICES ASSUME IInv, [Next]_vars, NEW s \in Space,
                    NEW i \in DOMAIN publications'[s], NEW k \in DOMAIN publications'[s],
                    publications'[s][i].run = publications'[s][k].run
             PROVE  i = k
  BY DEF RunsDistinct
<1>1. CASE publications'[s] = publications[s]
  BY <1>1 DEF IInv, RunsDistinct
<1>2. ASSUME NEW a \in Agent, NEW r \in Run, NEW c \in Choice, Publish(a, r, c), s = runs[r].space
      PROVE  i = k
  <2>1. PICK n : n = Len(publications[s])
    OBVIOUS
  <2>2. /\ n \in Nat /\ DOMAIN publications[s] = 1..n /\ DOMAIN publications'[s] = 1..(n + 1)
        /\ \A j \in 1..n : publications'[s][j] = publications[s][j]
        /\ publications'[s][n + 1].run = r
    <3>1. Appends(r, s, n, NewManifest(r, s), NewHome(c, s))
      BY <1>2, <2>1, PublishAppends DEF IInv
    <3> QED BY <3>1 DEF Appends
  <2>3. \A j \in 1..n : publications[s][j].run # r
    <3>1. runs[r].status = "staging"
      BY <1>2, DraftRecord DEF IInv, Publish, PatchRun
    <3> QED BY <2>2, <3>1 DEF IInv, PublicationsSound, Sound, RunSound
  <2>4. i \in 1..n \/ i = n + 1
    BY <2>2
  <2>5. k \in 1..n \/ k = n + 1
    BY <2>2
  <2> QED BY <2>2, <2>3, <2>4, <2>5 DEF IInv, RunsDistinct
<1> QED BY <1>1, <1>2, PublicationsStep

LEMMA InvariantHolds == Spec => []IInv
<1>1. Init => IInv
  BY InitType DEF Init, IInv, DraftsLocal, RecordsLocal, PublicationsSound, RunsDistinct
<1>2. IInv /\ [Next]_vars => IInv'
  BY NextType, DraftsLocalKept, RecordsLocalKept, PublicationsSoundKept, RunsDistinctKept
  DEF IInv
<1> QED BY <1>1, <1>2, PTL DEF Spec

-----------------------------------------------------------------------------
(* What readers rely on. *)

\* Publications of a space, seen as a set, are sound.
LEMMA PublishedSound ==
  ASSUME IInv, NEW s \in Space, NEW pub \in Published(s)
  PROVE  \E n \in DOMAIN publications[s] :
           /\ pub = publications[s][n] /\ n # 0 /\ pub \in Publication
           /\ Sound(s, n)
           /\ \A p \in Page : Selection(s, n, p) = pub.manifest[p]
<1>1. PICK n \in DOMAIN publications[s] : pub = publications[s][n]
  BY DEF Published
<1>2. n # 0 /\ pub \in Publication
  BY <1>1, PublicationType DEF IInv
<1> QED BY <1>1, <1>2 DEF IInv, PublicationsSound, Selection

\* No publication, old or new, shows a link to a page it does not show.
THEOREM LinksNeverBreak == Spec => []NoBrokenLinks
<1>1. IInv => NoBrokenLinks
  <2> SUFFICES ASSUME IInv, NEW s \in Space, NEW pub \in Published(s), NEW p \in Live(pub.manifest),
                      NEW q \in links[pub.manifest[p]] \union Body(pub.manifest[p]).links
               PROVE  q \in Live(pub.manifest)
    BY DEF NoBrokenLinks, Live
  <2>1. p \in Page /\ pub.manifest[p] # None
    BY DEF Live
  <2>2. PICK n \in DOMAIN publications[s] :
          /\ pub = publications[s][n] /\ Sound(s, n)
          /\ \A x \in Page : Selection(s, n, x) = pub.manifest[x]
    BY PublishedSound
  <2>3. links[pub.manifest[p]] \subseteq Live(pub.manifest)
    BY <2>2 DEF Sound, LinksSound
  <2>4. MentionsRecorded(pub.manifest[p])
    BY <2>1, <2>2 DEF Sound, EntrySound
  <2> QED BY <2>3, <2>4 DEF MentionsRecorded
<1> QED BY <1>1, InvariantHolds, PTL

\* The home of every publication is a page it shows.
THEOREM HomeAlwaysOpens == Spec => []HomeIsLive
<1>1. IInv => HomeIsLive
  BY PublishedSound DEF HomeIsLive, Sound, HomeSound, Live
<1> QED BY <1>1, InvariantHolds, PTL

\* A relationship property with a demanded type always leads to a live page of it.
THEOREM RelationsStayTyped == Spec => []RelationTargetsTyped
<1>1. IInv => RelationTargetsTyped
  <2> SUFFICES ASSUME IInv, NEW s \in Space, NEW pub \in Published(s), NEW p \in Live(pub.manifest),
                      NEW t \in Body(pub.manifest[p]).relations
               PROVE  /\ t[1] \in Live(pub.manifest)
                      /\ t[2] # None => Body(pub.manifest[t[1]]).catalog = t[2]
    BY DEF RelationTargetsTyped
  <2>1. p \in Page /\ pub.manifest[p] # None
    BY DEF Live
  <2>2. PICK n \in DOMAIN publications[s] :
          /\ pub = publications[s][n] /\ Sound(s, n)
          /\ \A x \in Page : Selection(s, n, x) = pub.manifest[x]
    BY PublishedSound
  <2>3. links[pub.manifest[p]] \subseteq Live(pub.manifest)
        /\ RelationsTyped(pub.manifest[p], pub.manifest)
    BY <2>2 DEF Sound, LinksSound, RelationsSound
  <2>4. MentionsRecorded(pub.manifest[p])
    BY <2>1, <2>2 DEF Sound, EntrySound
  <2> QED BY <2>3, <2>4 DEF MentionsRecorded, RelationsTyped
<1> QED BY <1>1, InvariantHolds, PTL

\* Every page has one chain of published revisions: no agent's publication is lost.
THEOREM LineageIsLinear == Spec => []LinearLineage
<1>1. IInv => LinearLineage
  BY DEF IInv, PublicationsSound, Sound, ChainSound, RunsDistinct, LinearLineage
<1> QED BY <1>1, InvariantHolds, PTL

\* Markers and citations of what is published agree for ever.
THEOREM EvidenceStaysComplete == Spec => []EvidenceComplete
<1>1. IInv => EvidenceComplete
  BY PublishedSound DEF EvidenceComplete, Sound, EntrySound, Live
<1> QED BY <1>1, InvariantHolds, PTL

\* Nothing of another space is ever shown.
THEOREM SpacesStayIsolated == Spec => []SpaceIsolation
<1>1. IInv => SpaceIsolation
  <2> SUFFICES ASSUME IInv, NEW s \in Space, NEW pub \in Published(s)
               PROVE  /\ runs[pub.run].space = s
                      /\ pub.home # None => pages[pub.home] = s
                      /\ \A p \in Page : pub.manifest[p] # None =>
                           /\ pages[p] = s
                           /\ runs[pub.manifest[p][1]].space = s
                           /\ \A q \in links[pub.manifest[p]] : pages[q] = s
                           /\ \A mk \in Marker : citations[pub.manifest[p]][mk] # None =>
                                PassageSpace[citations[pub.manifest[p]][mk]] = s
    BY DEF SpaceIsolation
  <2>1. PICK n \in DOMAIN publications[s] :
          /\ pub = publications[s][n] /\ Sound(s, n)
          /\ \A x \in Page : Selection(s, n, x) = pub.manifest[x]
    BY PublishedSound
  <2>2. ASSUME NEW p \in Page, pub.manifest[p] # None
        PROVE  /\ pages[p] = s
               /\ runs[pub.manifest[p][1]].space = s
               /\ \A q \in links[pub.manifest[p]] : pages[q] = s
               /\ \A mk \in Marker : citations[pub.manifest[p]][mk] # None =>
                    PassageSpace[citations[pub.manifest[p]][mk]] = s
    <3>1. /\ pub.manifest[p] \in RevisionId /\ pub.manifest[p][2] = p
          /\ drafts[pub.manifest[p]] # None /\ runs[pub.manifest[p][1]].space = s
      BY <2>1, <2>2 DEF Sound, EntrySound
    <3> QED BY <3>1 DEF IInv, DraftsLocal, RecordsLocal
  <2>3. pub.home # None => pub.home \in Page /\ pub.manifest[pub.home] # None
    BY <2>1 DEF Sound, HomeSound, Live
  <2>4. runs[pub.run].space = s
    BY <2>1 DEF Sound, RunSound
  <2> QED BY <2>2, <2>3, <2>4
<1> QED BY <1>1, InvariantHolds, PTL

-----------------------------------------------------------------------------
(* The hook implements the history of closed snapshots. *)

Snapshot(s, n) ==
  [pages |-> [p \in Page |-> LET v == publications[s][n].manifest[p]
                             IN IF v = None THEN None ELSE Shown(v)],
   home |-> publications[s][n].home]

\* The history has as many snapshots as the space has publications.
HistoryShape ==
  \A s \in Space :
    /\ Len(publications[s]) \in Nat
    /\ DOMAIN publications[s] = 1..Len(publications[s])
    /\ Len(History[s]) = Len(publications[s])
    /\ \A n \in DOMAIN publications[s] : History[s][n] = Snapshot(s, n)
    /\ History[s] = [n \in DOMAIN publications[s] |-> Snapshot(s, n)]

LEMMA HistoryType == TypeOK => HistoryShape
<1> SUFFICES ASSUME TypeOK, NEW s \in Space
             PROVE  /\ Len(publications[s]) \in Nat
                    /\ DOMAIN publications[s] = 1..Len(publications[s])
                    /\ Len(History[s]) = Len(publications[s])
                    /\ \A n \in DOMAIN publications[s] :
                         History[s][n] = Snapshot(s, n)
                    /\ History[s] = [n \in DOMAIN publications[s] |-> Snapshot(s, n)]
  BY DEF HistoryShape
<1>1. publications[s] \in Seq(Publication)
  BY DEF TypeOK
<1>2. History[s] = [n \in DOMAIN publications[s] |-> Snapshot(s, n)]
  BY DEF History, Snapshot
<1>3. Len(publications[s]) \in Nat /\ DOMAIN publications[s] = 1..Len(publications[s])
  BY <1>1
<1>4. DOMAIN History[s] = 1..Len(publications[s])
  BY <1>2, <1>3
<1>5. Len(History[s]) = Len(publications[s])
  BY <1>3, <1>4
<1> QED BY <1>2, <1>3, <1>5

LEMMA HistoryTypeNext == TypeOK' => HistoryShape'
BY HistoryType, PTL

\* What a publication shows does not change.
LEMMA SnapshotKept ==
  ASSUME IInv, [Next]_vars, NEW s \in Space, NEW n \in DOMAIN publications[s],
         publications'[s][n] = publications[s][n]
  PROVE  Snapshot(s, n)' = Snapshot(s, n)
<1>1. PICK pub : pub = publications[s][n]
  OBVIOUS
<1>2. n # 0 /\ pub \in Publication /\ Sound(s, n)
  BY <1>1, PublicationType DEF IInv, PublicationsSound
<1>3. ASSUME NEW p \in Page, pub.manifest[p] # None
      PROVE  Shown(pub.manifest[p])' = Shown(pub.manifest[p])
  <2>1. Selection(s, n, p) = pub.manifest[p] /\ EntrySound(s, n, p)
    BY <1>1, <1>2 DEF Sound, Selection
  <2>2. pub.manifest[p] \in RevisionId /\ Closed(pub.manifest[p][1])
    BY <1>3, <2>1 DEF EntrySound, Closed
  <2> QED BY <2>2, ClosedRunsFrozen DEF Shown, Body, IInv
<1> QED BY <1>1, <1>3 DEF Snapshot

\* A space that gets no publication keeps its history.
LEMMA HistoryKept ==
  ASSUME IInv, IInv', [Next]_vars, NEW s \in Space, publications'[s] = publications[s]
  PROVE  History'[s] = History[s]
<1>1. HistoryShape /\ HistoryShape'
  BY HistoryType, HistoryTypeNext DEF IInv
<1>2. \A n \in DOMAIN publications[s] : Snapshot(s, n)' = Snapshot(s, n)
  BY SnapshotKept
<1>3. [n \in DOMAIN publications[s] |-> Snapshot(s, n)'] =
      [n \in DOMAIN publications[s] |-> Snapshot(s, n)]
  BY <1>2
<1> QED BY <1>1, <1>3 DEF HistoryShape

\* Publish releases one snapshot, closed under links, that drops no page.
LEMMA PublishReleases ==
  ASSUME IInv, IInv', NEW a \in Agent, NEW r \in Run, NEW c \in Choice, Publish(a, r, c),
         NEW s, s = runs[r].space
  PROVE  s \in Space /\ Abstract!Release(s)
<1>n. PICK n : n = Len(publications[s])
  OBVIOUS
<1>m. PICK m : m = NewManifest(r, s)
  OBVIOUS
<1>home. PICK home : home = NewHome(c, s)
  OBVIOUS
<1>0. [Next]_vars
  BY DEF Next
<1>1. Appends(r, s, n, m, home)
  BY <1>n, <1>m, <1>home, PublishAppends DEF IInv
<1>2. HistoryShape /\ HistoryShape'
  BY HistoryType, HistoryTypeNext DEF IInv
<1>3. n \in Nat /\ s \in Space /\ n + 1 \in DOMAIN publications'[s]
      /\ publications'[s][n + 1] = [run |-> r, manifest |-> m, home |-> home]
  BY <1>1 DEF Appends
<1>4. Len(publications'[s]) = n + 1 /\ Len(History[s]) = n /\ Len(History'[s]) = n + 1
  <2>1. Len(publications'[s]) \in Nat /\ DOMAIN publications'[s] = 1..Len(publications'[s])
        /\ Len(History'[s]) = Len(publications'[s])
    BY <1>2, <1>3 DEF HistoryShape
  <2>2. 1..Len(publications'[s]) = 1..(n + 1)
    BY <1>1, <2>1 DEF Appends
  <2>3. Len(publications'[s]) = n + 1
    BY <1>3, <2>1, <2>2
  <2> QED BY <1>2, <1>3, <1>n, <2>1, <2>3 DEF HistoryShape
<1>5. \A k \in 1..n : History'[s][k] = History[s][k]
  <2> SUFFICES ASSUME NEW k \in 1..n PROVE History'[s][k] = History[s][k]
    OBVIOUS
  <2>1. k \in DOMAIN publications[s] /\ k \in DOMAIN publications'[s]
        /\ publications'[s][k] = publications[s][k]
    BY <1>1 DEF Appends
  <2>2. Snapshot(s, k)' = Snapshot(s, k)
    BY <1>0, <1>3, <2>1, SnapshotKept
  <2>3. History[s][k] = Snapshot(s, k) /\ History'[s][k] = Snapshot(s, k)'
    BY <1>2, <1>3, <2>1 DEF HistoryShape
  <2> QED BY <2>2, <2>3
<1>6. \A t \in Space \ {s} : History'[t] = History[t]
  BY <1>0, <1>1, HistoryKept DEF Appends
<1>7. History'[s][n + 1] = Snapshot(s, n + 1)'
  BY <1>2, <1>3 DEF HistoryShape
<1>8. Sound(s, n + 1)'
  BY <1>n, SoundNew
<1>snap. PICK snap : snap = History'[s][n + 1]
  OBVIOUS
<1>9. /\ snap.home = home
      /\ \A p \in Page : snap.pages[p] = IF m[p] = None THEN None ELSE Shown(m[p])'
  <2>1. publications'[s][n + 1].manifest = m /\ publications'[s][n + 1].home = home
    BY <1>3
  <2>2. snap = [pages |-> [p \in Page |-> IF m[p] = None THEN None ELSE Shown(m[p])'],
                home |-> home]
    BY <1>7, <1>snap, <2>1 DEF Snapshot
  <2>3. snap.pages = [p \in Page |-> IF m[p] = None THEN None ELSE Shown(m[p])']
        /\ snap.home = home
    BY <2>2
  <2> QED BY <2>3
<1>10. ASSUME NEW p \in Page, m[p] # None
       PROVE  /\ snap.pages[p] # None
              /\ snap.pages[p].archived = drafts'[m[p]].content.archived
              /\ snap.pages[p].links = links'[m[p]]
  <2>1. m[p] \in RevisionId /\ drafts'[m[p]] # None
    BY <1>3, <1>8, <1>10 DEF Sound, EntrySound, Selection
  <2>2. Shown(m[p])' \in ShownType
    BY <2>1 DEF Shown, ShownType, Body, IInv, TypeOK, ContentType
  <2>3. snap.pages[p] = Shown(m[p])'
    BY <1>9, <1>10
  <2> QED BY <2>2, <2>3, ConstantsAssumption DEF Shown, Body
<1>11. Abstract!Rendered(snap) = Live(m)'
  <2>1. \A p \in Page : snap.pages[p] # None <=> m[p] # None
    BY <1>9, <1>10
  <2>2. \A p \in Page : (snap.pages[p] # None /\ ~ snap.pages[p].archived)
                          <=> (m[p] # None /\ ~ drafts'[m[p]].content.archived)
    BY <1>10, <2>1
  <2>3. Live(m)' = {p \in Page : m[p] # None /\ ~ drafts'[m[p]].content.archived}
    BY DEF Live, Body
  <2> QED BY <2>2, <2>3 DEF Abstract!Rendered
<1>12. Abstract!Closed(snap)
  <2>1. (home # None => home \in Live(m)') /\ \A p \in Live(m)' : links'[m[p]] \subseteq Live(m)'
    <3>1. publications'[s][n + 1].manifest = m /\ publications'[s][n + 1].home = home
      BY <1>3
    <3> QED BY <1>8, <3>1 DEF Sound, HomeSound, LinksSound
  <2>2. \A p \in Live(m)' : snap.pages[p].links = links'[m[p]]
    BY <1>10 DEF Live
  <2> QED BY <1>9, <1>11, <2>1, <2>2 DEF Abstract!Closed
<1>13. n > 0 => Abstract!Retains(History[s][n], snap)
  <2> SUFFICES ASSUME n > 0, NEW p \in Page, History[s][n].pages[p] # None
               PROVE  snap.pages[p] # None
    BY DEF Abstract!Retains
  <2>1. n \in DOMAIN publications[s] /\ History[s][n] = Snapshot(s, n)
    <3>1. n \in DOMAIN publications[s]
      BY <1>1 DEF Appends
    <3> QED BY <1>2, <1>3, <3>1 DEF HistoryShape
  <2>2. publications[s][n].manifest[p] # None
    BY <2>1 DEF Snapshot
  <2>3. Prior(s).manifest[p] # None
    BY <1>3, <1>n, <2>2 DEF Prior
  <2>4. m[p] # None
    BY <1>m, <2>3, ConstantsAssumption DEF NewManifest, RevisionId
  <2> QED BY <1>10, <2>4
<1> QED BY <1>n, <1>3, <1>4, <1>5, <1>6, <1>snap, <1>12, <1>13 DEF Abstract!Release

LEMMA HistoryGrows ==
  ASSUME IInv, IInv', [Next]_vars
  PROVE  Abstract!Next \/ History' = History
<1>1. CASE publications' = publications
  <2>1. \A s \in Space : History'[s] = History[s]
    BY <1>1, HistoryKept
  <2> QED BY <2>1 DEF History
<1>2. ASSUME NEW a \in Agent, NEW r \in Run, NEW c \in Choice, Publish(a, r, c)
      PROVE  Abstract!Next
  BY <1>2, PublishReleases DEF Abstract!Next
<1> QED BY <1>1, <1>2, OnlyPublishPublishes

\* Readers see a history that only grows, by whole snapshots closed under links,
\* although its parts are staged one request at a time by many agents.
THEOREM PublishingImplementsHistory == Spec => ImplementsHistory
<1>1. Init => Abstract!Init
  BY DEF Init, Abstract!Init, History
<1>2. IInv /\ IInv' /\ [Next]_vars => [Abstract!Next]_History
  BY HistoryGrows
<1> QED BY <1>1, <1>2, InvariantHolds, PTL DEF Spec, ImplementsHistory, Abstract!Spec

-----------------------------------------------------------------------------
(* What publications owe to each other, and runs to their readers.           *)

\* Every revision of a published run was selected by a publication of its space.
PublishedShown ==
  \A v \in RevisionId : drafts[v] # None /\ runs[v[1]].status = "published" =>
    \E k \in DOMAIN publications[runs[v[1]].space] :
      publications[runs[v[1]].space][k].manifest[v[2]] = v

ClaimsSound(s, n) == ClaimsDistinct(publications[s][n].manifest)

\* Publication k of s shows a review of bundle b.
ReviewShown(s, k, b) ==
  \E q \in Live(publications[s][k].manifest) :
    /\ Body(publications[s][k].manifest[q]).bundle = b
    /\ Body(publications[s][k].manifest[q]).reviewed

ReviewsSound(s, n) ==
  LET m == publications[s][n].manifest IN
  \A p \in Live(m) : \A mk \in Marker :
    citations[m[p]][mk] # None /\ PassageBundle[citations[m[p]][mk]] # None =>
      \E k \in 1..n : ReviewShown(s, k, PassageBundle[citations[m[p]][mk]])

SyncsSound(s, n) ==
  LET m == publications[s][n].manifest IN
  \A p \in Live(m) : Body(m[p]).synced # None =>
    \A i \in {1, 2} : \E k \in 1..(n - 1) :
      publications[s][k].manifest[Body(m[p]).synced[i][2]] = Body(m[p]).synced[i]

Vouched(s, n) == ClaimsSound(s, n) /\ ReviewsSound(s, n) /\ SyncsSound(s, n)

PublicationsVouched == \A s \in Space : \A n \in DOMAIN publications[s] : Vouched(s, n)

\* An agent knows a run as it is, or as it was at a lower revision number.
SeenCurrent ==
  \A a \in Agent : seen[a] # None =>
    /\ runs[seen[a].run] # None
    /\ seen[a].record.revision <= runs[seen[a].run].revision
    /\ seen[a].record.revision = runs[seen[a].run].revision => seen[a].record = runs[seen[a].run]

HInv == IInv /\ PublishedShown /\ PublicationsVouched /\ SeenCurrent

\* A step only appends to the publications of a space.
LEMMA PublicationsPrefix ==
  ASSUME IInv, [Next]_vars, NEW s \in Space, NEW k \in DOMAIN publications[s]
  PROVE  k \in DOMAIN publications'[s] /\ publications'[s][k] = publications[s][k]
<1>1. ASSUME NEW a \in Agent, NEW r \in Run, NEW c \in Choice, Publish(a, r, c), s = runs[r].space
      PROVE  k \in DOMAIN publications'[s] /\ publications'[s][k] = publications[s][k]
  <2>1. Appends(r, s, Len(publications[s]), NewManifest(r, s), NewHome(c, s))
    BY <1>1, PublishAppends DEF IInv
  <2> QED BY <2>1 DEF Appends
<1> QED BY <1>1, PublicationsStep

\* A revision that some publication selects does not change.
LEMMA SelectedFixed ==
  ASSUME IInv, [Next]_vars, NEW s \in Space, NEW n \in DOMAIN publications[s], NEW p \in Page,
         publications[s][n].manifest[p] # None
  PROVE  LET v == publications[s][n].manifest[p]
         IN /\ v \in RevisionId /\ v[1] \in Run /\ drafts[v] # None
            /\ runs[v[1]] # None /\ runs[v[1]].space = s
            /\ drafts'[v] = drafts[v] /\ citations'[v] = citations[v]
<1> DEFINE v == publications[s][n].manifest[p]
<1>1. n # 0 /\ TypeOK
  BY PublicationType DEF IInv
<1>2. EntrySound(s, n, p) /\ Selection(s, n, p) = v
  BY <1>1 DEF IInv, PublicationsSound, Sound, Selection
<1>3. /\ v \in RevisionId /\ v[1] \in Run /\ drafts[v] # None /\ Closed(v[1])
      /\ runs[v[1]] # None /\ runs[v[1]].space = s
  BY <1>2 DEF EntrySound, Closed, RevisionId
<1> QED BY <1>1, <1>3, ClosedRunsFrozen

LEMMA LiveFixed ==
  ASSUME IInv, [Next]_vars, NEW s \in Space, NEW n \in DOMAIN publications[s]
  PROVE  /\ Live(publications[s][n].manifest)' = Live(publications[s][n].manifest)
         /\ publications'[s][n] = publications[s][n]
<1>1. publications'[s][n] = publications[s][n]
  BY PublicationsPrefix
<1>2. \A p \in Page : publications[s][n].manifest[p] # None =>
        drafts'[publications[s][n].manifest[p]] = drafts[publications[s][n].manifest[p]]
  BY SelectedFixed
<1> QED BY <1>1, <1>2 DEF Live, Body

\* A review that a publication shows stays shown.
LEMMA ReviewKept ==
  ASSUME IInv, [Next]_vars, NEW s \in Space, NEW k \in DOMAIN publications[s], NEW b,
         ReviewShown(s, k, b)
  PROVE  ReviewShown(s, k, b)'
<1>1. PICK q \in Live(publications[s][k].manifest) :
        /\ Body(publications[s][k].manifest[q]).bundle = b
        /\ Body(publications[s][k].manifest[q]).reviewed
  BY DEF ReviewShown
<1>2. q \in Page /\ publications[s][k].manifest[q] # None
  BY DEF Live
<1>3. drafts'[publications[s][k].manifest[q]] = drafts[publications[s][k].manifest[q]]
  BY <1>2, SelectedFixed
<1> QED BY <1>1, <1>3, LiveFixed DEF ReviewShown, Body

LEMMA VouchedKept ==
  ASSUME IInv, [Next]_vars, NEW s \in Space, NEW n \in DOMAIN publications[s], Vouched(s, n)
  PROVE  Vouched(s, n)'
<1>m. PICK m : m = publications[s][n].manifest
  OBVIOUS
<1>0. n \in Nat \ {0} /\ publications[s] \in Seq(Publication)
  BY PublicationType DEF IInv, TypeOK
<1>1. publications'[s][n].manifest = m /\ Live(m)' = Live(m)
  BY <1>m, LiveFixed
<1>2. \A k \in 1..n : k \in DOMAIN publications[s]
  BY <1>0
<1>3. ASSUME NEW p \in Live(m)
      PROVE  drafts'[m[p]] = drafts[m[p]] /\ citations'[m[p]] = citations[m[p]]
  <2>1. p \in Page /\ m[p] # None
    BY DEF Live
  <2> QED BY <1>m, <2>1, SelectedFixed
<1>4. ClaimsSound(s, n)'
  BY <1>1, <1>3, <1>m DEF Vouched, ClaimsSound, ClaimsDistinct, Body
<1>5. ReviewsSound(s, n)'
  <2> SUFFICES ASSUME NEW p \in Live(m), NEW mk \in Marker,
                      citations'[m[p]][mk] # None, PassageBundle[citations'[m[p]][mk]] # None,
                      NEW b, b = PassageBundle[citations'[m[p]][mk]]
               PROVE  \E k \in 1..n : ReviewShown(s, k, b)'
    BY <1>1 DEF ReviewsSound
  <2>1. citations'[m[p]] = citations[m[p]]
    BY <1>3
  <2>2. PICK k \in 1..n : ReviewShown(s, k, b)
    BY <1>m, <2>1 DEF Vouched, ReviewsSound
  <2> QED BY <1>2, <2>1, <2>2, ReviewKept
<1>6. SyncsSound(s, n)'
  <2> SUFFICES ASSUME NEW p \in Live(m), Body(m[p])'.synced # None, NEW i \in {1, 2}
               PROVE  \E k \in 1..(n - 1) :
                        publications'[s][k].manifest[Body(m[p])'.synced[i][2]] = Body(m[p])'.synced[i]
    BY <1>1 DEF SyncsSound, Body
  <2>1. Body(m[p])' = Body(m[p])
    BY <1>3 DEF Body
  <2>2. PICK k \in 1..(n - 1) : publications[s][k].manifest[Body(m[p]).synced[i][2]] = Body(m[p]).synced[i]
    BY <1>m, <2>1 DEF Vouched, SyncsSound
  <2>3. k \in 1..n
    BY <1>0
  <2>4. publications'[s][k] = publications[s][k]
    BY <1>2, <2>3, LiveFixed
  <2> QED BY <2>1, <2>2, <2>4
<1> QED BY <1>4, <1>5, <1>6 DEF Vouched

\* A revision of a published run, of this space, is selected by one of its publications.
LEMMA ShownBefore ==
  ASSUME IInv, PublishedShown, NEW v \in RevisionId, drafts[v] # None,
         runs[v[1]].status = "published", NEW s, s = runs[v[1]].space
  PROVE  \E k \in DOMAIN publications[s] : publications[s][k].manifest[v[2]] = v
BY DEF PublishedShown

\* The publication that Publish appends owes nothing: its claims are its own, its
\* reviews and synced revisions are there or were there before.
LEMMA VouchedNew ==
  ASSUME IInv, PublishedShown, NEW a \in Agent, NEW r \in Run, NEW c \in Choice,
         Publish(a, r, c), NEW s, s = runs[r].space, NEW n, n = Len(publications[s])
  PROVE  Vouched(s, n + 1)'
<1>m. PICK m : m = NewManifest(r, s)
  OBVIOUS
<1>1. /\ s \in Space /\ n \in Nat /\ DOMAIN publications[s] = 1..n
      /\ DOMAIN publications'[s] = 1..(n + 1)
      /\ \A k \in 1..n : publications'[s][k] = publications[s][k]
      /\ publications'[s][n + 1].manifest = m
      /\ UNCHANGED <<pages, drafts, links, citations>>
  <2>1. Appends(r, s, n, m, NewHome(c, s))
    BY PublishAppends, <1>m DEF IInv
  <2> QED BY <2>1 DEF Appends
<1>2. Publishable(r, s, c) /\ Draft(r)
  BY DEF Publish, PatchRun
<1>3. /\ ClaimsDistinct(m) /\ EvidenceReviewed(s, m)
      /\ \A p \in Live(m) : SyncPublished(m[p])
  BY <1>2, <1>m DEF Publishable
<1>4. [Next]_vars
  BY DEF Next
<1>5. m \in [Page -> RevisionId \union {None}]
  BY <1>1, <1>m, NewManifestType DEF IInv
<1>6. ASSUME NEW p \in Page, m[p] # None
      PROVE  m[p] \in RevisionId /\ drafts[m[p]] # None /\ runs[m[p][1]].space = s
  <2>1. CASE drafts[<<r, p>>] # None
    BY <1>m, <2>1 DEF NewManifest, RevisionId
  <2>2. CASE drafts[<<r, p>>] = None
    <3>1. m[p] = Prior(s).manifest[p]
      BY <1>m, <2>2 DEF NewManifest
    <3>2. n \in DOMAIN publications[s] /\ m[p] = publications[s][n].manifest[p]
      BY <1>1, <1>6, <3>1 DEF Prior
    <3> QED BY <1>1, <1>4, <1>6, <3>2, SelectedFixed
  <2> QED BY <2>1, <2>2
<1>7. Live(m)' = Live(m) /\ \A v : Body(v)' = Body(v)
  BY <1>1 DEF Live, Body
<1>8. ClaimsSound(s, n + 1)'
  BY <1>1, <1>3, <1>7 DEF ClaimsSound, ClaimsDistinct, Body
<1>9. ReviewsSound(s, n + 1)'
  <2> SUFFICES ASSUME NEW p \in Live(m), NEW mk \in Marker,
                      citations[m[p]][mk] # None,
                      NEW b, b = PassageBundle[citations[m[p]][mk]], b # None
               PROVE  \E k \in 1..(n + 1) : ReviewShown(s, k, b)'
    BY <1>1, <1>7 DEF ReviewsSound
  <2>1. b \in Reviewed(s, m)
    BY <1>3 DEF EvidenceReviewed
  <2>2. PICK w \in RevisionId :
          /\ drafts[w] # None /\ ~ Body(w).archived /\ Body(w).reviewed /\ Body(w).bundle = b
          /\ runs[w[1]].space = s
          /\ runs[w[1]].status = "published" \/ m[w[2]] = w
    BY <2>1 DEF Reviewed
  <2>3. w[2] \in Page /\ w # None
    BY <2>2, ConstantsAssumption DEF RevisionId
  <2>4. CASE m[w[2]] = w
    <3>1. w[2] \in Live(m)'
      BY <1>7, <2>2, <2>3, <2>4 DEF Live
    <3>2. ReviewShown(s, n + 1, b)'
      BY <1>1, <1>7, <2>2, <2>4, <3>1 DEF ReviewShown, Body
    <3> QED BY <1>1, <3>2
  <2>5. CASE runs[w[1]].status = "published"
    <3>1. PICK k \in DOMAIN publications[s] : publications[s][k].manifest[w[2]] = w
      BY <2>2, <2>5, ShownBefore
    <3>2. w[2] \in Live(publications[s][k].manifest)
      BY <2>2, <2>3, <3>1 DEF Live
    <3>3. ReviewShown(s, k, b)
      BY <2>2, <3>1, <3>2 DEF ReviewShown
    <3>4. k \in 1..(n + 1)
      BY <1>1
    <3> QED BY <1>1, <1>4, <3>3, <3>4, ReviewKept
  <2> QED BY <2>2, <2>4, <2>5
<1>10. SyncsSound(s, n + 1)'
  <2>0. (n + 1) - 1 = n
    BY <1>1
  <2> SUFFICES ASSUME NEW p \in Live(m), Body(m[p]).synced # None, NEW i \in {1, 2}
               PROVE  \E k \in 1..n :
                        publications'[s][k].manifest[Body(m[p]).synced[i][2]] = Body(m[p]).synced[i]
    <3>1. publications'[s][n + 1].manifest = m /\ Live(m)' = Live(m)
      BY <1>1, <1>7
    <3>2. \A p \in Live(m) : Body(m[p])' = Body(m[p])
      BY <1>7
    <3>3. \A p \in Live(m) : Body(m[p]).synced # None =>
            \A i \in {1, 2} : \E k \in 1..((n + 1) - 1) :
              publications'[s][k].manifest[Body(m[p])'.synced[i][2]] = Body(m[p])'.synced[i]
      BY <2>0, <3>2
    <3> QED BY <3>1, <3>2, <3>3 DEF SyncsSound
  <2>1. p \in Page /\ m[p] # None
    BY DEF Live
  <2>2. PICK w : w = Body(m[p]).synced[i]
    OBVIOUS
  <2>3. /\ drafts[w] # None /\ runs[w[1]].status = "published" /\ runs[w[1]].space = s
    BY <1>3, <1>6, <2>1, <2>2 DEF SyncPublished, PublishedRevision
  <2>4. w \in RevisionId
    <3>1. drafts[m[p]].content \in ContentType
      BY <1>6, <2>1 DEF IInv, TypeOK
    <3>2. Body(m[p]).synced \in RevisionId \X RevisionId
      BY <3>1 DEF Body, ContentType
    <3> QED BY <2>2, <3>2
  <2>5. PICK k \in DOMAIN publications[s] : publications[s][k].manifest[w[2]] = w
    BY <2>3, <2>4, ShownBefore
  <2>6. k \in 1..n /\ publications'[s][k] = publications[s][k]
    BY <1>1, <2>5
  <2> QED BY <2>2, <2>5, <2>6
<1> QED BY <1>8, <1>9, <1>10 DEF Vouched

LEMMA PublicationsVouchedKept == HInv /\ [Next]_vars => PublicationsVouched'
<1> SUFFICES ASSUME HInv, [Next]_vars, NEW s \in Space, NEW k \in DOMAIN publications'[s]
             PROVE  Vouched(s, k)'
  BY DEF PublicationsVouched
<1>1. CASE k \in DOMAIN publications[s]
  BY <1>1, VouchedKept DEF HInv, PublicationsVouched
<1>2. CASE k \notin DOMAIN publications[s]
  <2>1. PICK a \in Agent, r \in Run, c \in Choice : Publish(a, r, c) /\ s = runs[r].space
    BY <1>2, PublicationsStep DEF HInv
  <2>2. Appends(r, s, Len(publications[s]), NewManifest(r, s), NewHome(c, s))
    BY <2>1, PublishAppends DEF HInv, IInv
  <2>3. k = Len(publications[s]) + 1
    BY <1>2, <2>2 DEF Appends
  <2> QED BY <2>1, <2>3, VouchedNew DEF HInv
<1> QED BY <1>1, <1>2

\* A run becomes published only by the step that shows all its revisions.
LEMMA PublishedShownKept == HInv /\ [Next]_vars => PublishedShown'
<1> SUFFICES ASSUME HInv, [Next]_vars, NEW v \in RevisionId, drafts'[v] # None,
                    runs'[v[1]].status = "published", NEW s, s = runs'[v[1]].space
             PROVE  \E k \in DOMAIN publications'[s] : publications'[s][k].manifest[v[2]] = v
  BY DEF PublishedShown
<1>0. v[1] \in Run /\ v[2] \in Page /\ v = <<v[1], v[2]>> /\ TypeOK
  BY DEF RevisionId, HInv, IInv
<1>1. ASSUME NEW a \in Agent, NEW r \in Run, NEW c \in Choice, Publish(a, r, c), r = v[1]
      PROVE  \E k \in DOMAIN publications'[s] : publications'[s][k].manifest[v[2]] = v
  <2>1. PICK t : t = runs[r].space
    OBVIOUS
  <2>2. PICK n : n = Len(publications[t])
    OBVIOUS
  <2>3. Appends(r, t, n, NewManifest(r, t), NewHome(c, t))
    BY <1>0, <1>1, <2>1, <2>2, PublishAppends
  <2>4. s = t /\ drafts' = drafts
    BY <1>1, <2>3 DEF Appends
  <2>5. NewManifest(r, t)[v[2]] = v
    BY <1>0, <1>1, <2>4 DEF NewManifest
  <2>6. n + 1 \in DOMAIN publications'[s] /\ publications'[s][n + 1].manifest[v[2]] = v
    BY <2>3, <2>4, <2>5 DEF Appends
  <2> QED BY <2>6
<1>2. CASE Draft(v[1])
  <2>1. ASSUME NEW a \in Agent, NEW r \in Run, NEW c \in Choice,
               StageHome(a, r, c) \/ Cancel(a, r) \/ Publish(a, r, c), r # v[1]
        PROVE  runs'[v[1]] = runs[v[1]]
    BY <1>0, <2>1 DEF StageHome, Cancel, Publish, PatchRun, TypeOK
  <2>2. ASSUME NEW a \in Agent, NEW c \in Choice,
               StageHome(a, v[1], c) \/ Cancel(a, v[1])
        PROVE  runs'[v[1]].status # "published"
    <3>1. runs[v[1]].choice \in ChoiceType /\ c \in ChoiceType
      BY <1>0, <1>2, DraftRecord, ConstantsAssumption DEF RunType
    <3> QED BY <1>0, <2>2, <3>1, PatchRunType DEF StageHome, Cancel
  <2>3. ASSUME NEW r \in Run, NEW t \in Space, NEW c \in Choice, CreateRun(r, t, c)
        PROVE  runs'[v[1]] = runs[v[1]]
    BY <1>0, <1>2, <2>3 DEF CreateRun, Draft, TypeOK
  <2>4. \/ runs' = runs
        \/ \E r \in Run, t \in Space, c \in Choice : CreateRun(r, t, c)
        \/ \E a \in Agent, r \in Run, c \in Choice : StageHome(a, r, c) \/ Publish(a, r, c)
        \/ \E a \in Agent, r \in Run : Cancel(a, r)
    BY DEF Next, vars, CreatePage, StageRevision, StageLink, StageCitation, ReadRun
  <2>5. runs[v[1]].status # "published"
    BY <1>2 DEF Draft
  <2>6. ASSUME NEW a \in Agent, NEW r \in Run, Cancel(a, r)
        PROVE  runs'[v[1]].status # "published"
    <3>1. CASE r # v[1]
      BY <1>0, <2>5, <2>6, <3>1 DEF Cancel, PatchRun, TypeOK
    <3>2. CASE r = v[1]
      <4>1. runs[v[1]].choice \in ChoiceType
        BY <1>0, <1>2, DraftRecord DEF RunType
      <4> QED BY <1>0, <2>6, <3>2, <4>1, PatchRunType DEF Cancel
    <3> QED BY <3>1, <3>2
  <2> QED BY <1>1, <2>1, <2>2, <2>3, <2>4, <2>5, <2>6
<1>3. CASE runs[v[1]] = None
  <2>1. runs'[v[1]].status # "published" \/ runs'[v[1]] = None
    <3>1. ASSUME NEW a \in Agent, NEW r \in Run, NEW status, NEW c, PatchRun(a, r, status, c)
          PROVE  runs'[v[1]] = None
      BY <1>0, <1>3, <3>1 DEF PatchRun, Draft, TypeOK
    <3>2. ASSUME NEW r \in Run, NEW t \in Space, NEW c \in Choice, CreateRun(r, t, c)
          PROVE  runs'[v[1]].status = "staging" \/ runs'[v[1]] = None
      BY <1>0, <1>3, <3>2 DEF CreateRun, TypeOK
    <3> QED BY <1>3, <3>1, <3>2
            DEF Next, vars, CreatePage, StageRevision, StageLink, StageCitation, ReadRun,
                StageHome, Cancel, Publish
  <2>2. runs'[v[1]] # None
    <3>1. DraftsLocal'
      BY DraftsLocalKept DEF HInv
    <3> QED BY <3>1 DEF DraftsLocal
  <2> QED BY <2>1, <2>2
<1>4. CASE Closed(v[1])
  <2>1. runs'[v[1]] = runs[v[1]] /\ drafts'[v] = drafts[v]
    BY <1>0, <1>4, ClosedRunFixed, ClosedRunsFrozen
  <2>2. PICK k \in DOMAIN publications[s] : publications[s][k].manifest[v[2]] = v
    BY <2>1 DEF HInv, PublishedShown
  <2>3. s \in Space
    BY <1>0, <1>4, <2>1 DEF Closed, TypeOK, RunType
  <2> QED BY <2>2, <2>3, PublicationsPrefix DEF HInv
<1> QED BY <1>2, <1>3, <1>4 DEF Draft, Closed

\* Whoever changes a run numbers it anew, so an equal number means an equal record.
LEMMA SeenCurrentKept == HInv /\ [Next]_vars => SeenCurrent'
<1> SUFFICES ASSUME HInv, [Next]_vars, NEW a \in Agent, seen'[a] # None
             PROVE  /\ runs'[seen'[a].run] # None
                    /\ seen'[a].record.revision <= runs'[seen'[a].run].revision
                    /\ seen'[a].record.revision = runs'[seen'[a].run].revision =>
                         seen'[a].record = runs'[seen'[a].run]
  BY DEF SeenCurrent
<1>0. TypeOK /\ SeenCurrent
  BY DEF HInv, IInv
<1>1. ASSUME NEW b \in Agent, NEW q \in Run, NEW c \in ChoiceType,
             NEW status \in {"staging", "published", "cancelled"}, PatchRun(b, q, status, c)
      PROVE  /\ seen'[a] = seen[a] /\ seen[a].run \in Run /\ seen[a].record \in RunType
             /\ runs'[q] # None /\ runs'[q].revision = runs[q].revision + 1
             /\ runs[q].revision \in Nat
             /\ \A x \in Run \ {q} : runs'[x] = runs[x]
  <2>1. runs'[q] \in RunType /\ \A x \in Run \ {q} : runs'[x] = runs[x]
    BY <1>0, <1>1, PatchRunType
  <2>2. runs[q] \in RunType /\ runs' = [runs EXCEPT ![q] = Patched(b, q, status, c)]
    BY <1>0, <1>1, DraftRecord DEF PatchRun
  <2>3. runs'[q].revision = runs[q].revision + 1
    BY <1>0, <2>2 DEF TypeOK, Patched, RunType
  <2>4. seen'[a] = seen[a] /\ seen[a] \in [run: Run, record: RunType]
    BY <1>0, <1>1 DEF PatchRun, TypeOK
  <2> QED BY <2>1, <2>2, <2>3, <2>4, ConstantsAssumption DEF RunType
<1>2. ASSUME NEW b \in Agent, NEW q \in Run, NEW c \in ChoiceType,
             NEW status \in {"staging", "published", "cancelled"}, PatchRun(b, q, status, c)
      PROVE  /\ runs'[seen'[a].run] # None
             /\ seen'[a].record.revision <= runs'[seen'[a].run].revision
             /\ seen'[a].record.revision = runs'[seen'[a].run].revision =>
                  seen'[a].record = runs'[seen'[a].run]
  <2>1. seen[a].record.revision \in Nat
    BY <1>1, <1>2, ConstantsAssumption DEF RunType
  <2> QED BY <1>0, <1>1, <1>2, <2>1 DEF SeenCurrent
<1>3. ASSUME NEW q \in Run, NEW s \in Space, NEW c \in Choice, CreateRun(q, s, c)
      PROVE  seen' = seen /\ \A x \in Run : runs[x] # None => runs'[x] = runs[x]
  BY <1>0, <1>3 DEF CreateRun, TypeOK
<1>4. ASSUME NEW b \in Agent, NEW q \in Run, ReadRun(b, q)
      PROVE  /\ runs'[seen'[a].run] # None
             /\ seen'[a].record.revision <= runs'[seen'[a].run].revision
             /\ seen'[a].record.revision = runs'[seen'[a].run].revision =>
                  seen'[a].record = runs'[seen'[a].run]
  <2>1. CASE a = b
    <3>1. seen'[a] = [run |-> q, record |-> runs[q]] /\ runs' = runs
      BY <1>0, <1>4, <2>1 DEF ReadRun, TypeOK
    <3>2. runs[q] \in RunType /\ runs[q].revision \in Nat /\ runs[q] # None
      BY <1>0, <1>4, DraftRecord, ConstantsAssumption DEF ReadRun, RunType, Draft
    <3> QED BY <3>1, <3>2
  <2>2. CASE a # b
    <3>1. seen'[a] = seen[a] /\ runs' = runs
      BY <1>0, <1>4, <2>2 DEF ReadRun, TypeOK
    <3> QED BY <1>0, <3>1 DEF SeenCurrent
  <2> QED BY <2>1, <2>2
<1>5. CASE seen' = seen /\ runs' = runs
  BY <1>0, <1>5 DEF SeenCurrent
<1>6. ASSUME NEW b \in Agent, NEW q \in Run, Cancel(b, q)
      PROVE  runs[q].choice \in ChoiceType
  BY <1>0, <1>6, DraftRecord DEF Cancel, PatchRun, RunType
<1>7. seen[a] # None => seen[a].run \in Run
  BY <1>0 DEF TypeOK
<1>8. CASE \E q \in Run, s \in Space, c \in Choice : CreateRun(q, s, c)
  BY <1>0, <1>3, <1>7, <1>8 DEF SeenCurrent
<1>9. \/ seen' = seen /\ runs' = runs
      \/ \E q \in Run, s \in Space, c \in Choice : CreateRun(q, s, c)
      \/ \E b \in Agent, q \in Run : ReadRun(b, q) \/ Cancel(b, q)
      \/ \E b \in Agent, q \in Run, c \in Choice : StageHome(b, q, c) \/ Publish(b, q, c)
  BY DEF Next, vars, CreatePage, StageRevision, StageLink, StageCitation
<1>10. ASSUME NEW b \in Agent, NEW q \in Run, NEW c \in Choice,
              StageHome(b, q, c) \/ Publish(b, q, c)
       PROVE  \E status \in {"staging", "published", "cancelled"} : PatchRun(b, q, status, c)
  BY <1>10 DEF StageHome, Publish
<1>11. ASSUME NEW b \in Agent, NEW q \in Run, Cancel(b, q)
       PROVE  \E c \in ChoiceType : PatchRun(b, q, "cancelled", c)
  BY <1>6, <1>11 DEF Cancel
<1> QED BY <1>2, <1>4, <1>5, <1>8, <1>9, <1>10, <1>11, ConstantsAssumption

LEMMA HistoryInvariant == Spec => []HInv
<1>1. Init => PublishedShown /\ PublicationsVouched /\ SeenCurrent
  BY DEF Init, PublishedShown, PublicationsVouched, SeenCurrent
<1>2. HInv /\ [Next]_vars /\ IInv' => HInv'
  BY PublishedShownKept, PublicationsVouchedKept, SeenCurrentKept DEF HInv
<1>3. IInv /\ PublishedShown /\ PublicationsVouched /\ SeenCurrent <=> HInv
  BY DEF HInv
<1> QED BY <1>1, <1>2, <1>3, InvariantHolds, PTL DEF Spec

\* Warned evidence is never cited before a review of its bundle has been published.
THEOREM WarningsAreReviewed == Spec => []WarningsReviewed
<1>1. HInv => WarningsReviewed
  BY DEF HInv, PublicationsVouched, Vouched, ReviewsSound, ReviewShown, WarningsReviewed
<1> QED BY <1>1, HistoryInvariant, PTL

\* A sync page names revisions that an earlier publication selected.
THEOREM SyncedWasPublished == Spec => []SyncNamesEarlier
<1>1. HInv => SyncNamesEarlier
  BY DEF HInv, PublicationsVouched, Vouched, SyncsSound, SyncNamesEarlier
<1> QED BY <1>1, HistoryInvariant, PTL

\* No two live pages of a publication claim the same recording or destination.
THEOREM ClaimsStayDistinct == Spec => []NoDuplicateClaims
<1>1. HInv => NoDuplicateClaims
  <2> SUFFICES ASSUME HInv, NEW s \in Space, NEW pub \in Published(s), NEW claim \in Claim
               PROVE  Cardinality({p \in Live(pub.manifest) : claim \in Body(pub.manifest[p]).claims}) <= 1
    BY DEF NoDuplicateClaims
  <2> DEFINE S == {p \in Live(pub.manifest) : claim \in Body(pub.manifest[p]).claims}
  <2>1. ClaimsDistinct(pub.manifest)
    BY DEF HInv, PublicationsVouched, Vouched, ClaimsSound, Published
  <2>2. \A p, q \in S : p = q
    BY <2>1 DEF ClaimsDistinct
  <2>3. S = {} \/ \E p : S = {p}
    BY <2>2
  <2> HIDE DEF S
  <2>4. Cardinality(S) <= 1
    BY <2>3, FS_EmptySet, FS_Singleton
  <2> QED BY <2>4 DEF S
<1> QED BY <1>1, HistoryInvariant, PTL

\* The agent whose PATCH changes a run knows the very record it replaces.
THEOREM RunsPatchedAsRead == Spec => PatchedAsRead
<1>1. ASSUME HInv, [Next]_vars, NEW r \in Run, runs[r] # None, runs'[r] # runs[r]
      PROVE  /\ runs'[r].updated_by # None
             /\ seen[runs'[r].updated_by] = [run |-> r, record |-> runs[r]]
  <2>1. ASSUME NEW a \in Agent, NEW q \in Run, NEW status, NEW c, PatchRun(a, q, status, c)
        PROVE  q = r /\ Expected(a, r) /\ runs'[r].updated_by = a
    <3>1. q = r
      BY <1>1, <2>1 DEF PatchRun, HInv, IInv, TypeOK
    <3>2. TypeOK /\ Draft(r) /\ runs' = [runs EXCEPT ![r] = Patched(a, r, status, c)]
      BY <1>1, <2>1, <3>1 DEF PatchRun, HInv, IInv
    <3>3. runs[r] \in RunType /\ runs'[r] = Patched(a, r, status, c)
      BY <3>2, DraftRecord DEF TypeOK
    <3> QED BY <2>1, <3>1, <3>3 DEF PatchRun, Patched, RunType
  <2>2. ~ \E q \in Run, s \in Space, c \in Choice : CreateRun(q, s, c)
    BY <1>1 DEF CreateRun, HInv, IInv, TypeOK
  <2>3. PICK a \in Agent : Expected(a, r) /\ runs'[r].updated_by = a
    BY <1>1, <2>1, <2>2 DEF Next, vars, CreatePage, StageRevision, StageLink, StageCitation,
                            ReadRun, StageHome, Cancel, Publish
  <2>4. seen[a] \in [run: Run, record: RunType]
    BY <1>1, <2>3 DEF Expected, HInv, IInv, TypeOK
  <2>5. seen[a].run = r /\ seen[a].record = runs[r]
    BY <1>1, <2>3 DEF Expected, HInv, SeenCurrent
  <2>6. seen[a] = [run |-> r, record |-> runs[r]]
    BY <2>4, <2>5
  <2> QED BY <2>3, <2>6, ConstantsAssumption
<1>2. HInv /\ [Next]_vars =>
        [\A r \in Run : runs[r] # None /\ runs'[r] # runs[r] =>
           /\ runs'[r].updated_by # None
           /\ seen[runs'[r].updated_by] = [run |-> r, record |-> runs[r]]]_vars
  BY <1>1
<1> QED BY <1>2, HistoryInvariant, PTL DEF Spec, PatchedAsRead

=============================================================================
