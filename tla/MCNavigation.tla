---------------------------- MODULE MCNavigation ----------------------------
(* Two questions that need runs, links and home pages, each within bounds of its *)
(* own: how two runs of one space race to archive, link and choose pages, and    *)
(* how two agents change the same runs, of two spaces.                           *)
EXTENDS MCPublishing

CONSTANTS a1, a2

VARIABLE question

AnyContent == [p \in Page |-> NavigationContent[p] \union PatchesContent[p]]
AnyChoice == NavigationChoice \union PatchesChoice

\* One agent closes runs of s1 as they were created, so that reading one earlier than
\* just before it is closed makes no difference; the pages are there, and nothing is cited.
RacesNext ==
  \/ /\ seen[a1] = None
     /\ \/ \E r \in Run, c \in NavigationChoice : CreateRun(r, s1, c)
        \/ \E r \in Run, p \in Page, base \in RevisionId \union {None} :
             \E content \in NavigationContent[p] : StageRevision(r, p, base, content)
        \/ \E v \in RevisionId, target \in Page : StageLink(v, target)
        \/ \E r \in Run : ReadRun(a1, r)
  \/ \E r \in Run : Cancel(a1, r) \/ \E c \in NavigationChoice : Publish(a1, r, c)

Drafted == {v \in RevisionId : drafts[v] # None}

\* The pages are created first, of either space; two revisions in all cite and link.
\* One agent chooses homes and the other closes, so that a run changes once or twice.
PatchesNext ==
  \/ /\ \A r \in Run : runs[r] = None
     /\ \E p \in Page, s \in Space : CreatePage(p, s)
  \/ /\ \A p \in Page : pages[p] # None
     /\ \/ \E r \in Run, s \in Space : CreateRun(r, s, Keep)
        \/ /\ Cardinality(Drafted) < 2
           /\ \E r \in Run, p \in Page, base \in RevisionId \union {None} :
                \E content \in PatchesContent[p] : StageRevision(r, p, base, content)
        \/ \E v \in RevisionId, target \in Page : StageLink(v, target)
        \/ \E v \in RevisionId, mk \in Marker, psg \in Passage : StageCitation(v, mk, psg)
        \/ \E a \in Agent, r \in Run : ReadRun(a, r)
        \/ \E r \in Run, c \in PatchesChoice : StageHome(a2, r, c) \/ Publish(a1, r, c)
        \/ \E r \in Run : Cancel(a1, r)

QuestionsInit ==
  \/ question = "races" /\ PagesInit
  \/ question = "patches" /\ Init

QuestionsNext ==
  /\ UNCHANGED question
  /\ \/ question = "races" /\ RacesNext
     \/ question = "patches" /\ PatchesNext

QuestionsSpec == QuestionsInit /\ [][QuestionsNext]_<<vars, question>>
=============================================================================
