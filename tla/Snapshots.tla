------------------------------ MODULE Snapshots ------------------------------
(* SnapshotMonitor (ui/src/snapshotStatus.ts) and its callers in api.ts: what   *)
(* the browser says of the age of its data.  The server copies the requester's  *)
(* rows again and again; a query is answered from its last copy, and both a     *)
(* query and a status request tell which copy that was.  A status names none    *)
(* before the first copy, or once the server has lost it by a restart or an     *)
(* eviction (docs/background-snapshots.md).  Responses come in any order.       *)
EXTENDS Integers, FiniteSets

CONSTANTS
  MaxCopies,   \* bound on the copies the server completes
  MaxAnswers   \* bound on the responses on their way together

VARIABLES
  made,     \* copies completed so far, numbered in the order of capturedAt (external)
  held,     \* whether the server still has the last of them (external)
  answers,  \* responses on their way to the browser
  current,  \* the copy named by snapshots.current: 0 where it names none, -1 without status
  newest    \* the newest copy observed since the last reset

snapshotVars == <<made, held, answers, current, newest>>
server == <<made, held>>

Init == made = 0 /\ held = FALSE /\ answers = {} /\ current = -1 /\ newest = -1

Complete ==
  /\ made < MaxCopies /\ made' = made + 1 /\ held' = TRUE
  /\ UNCHANGED <<answers, current, newest>>

Lose == held /\ held' = FALSE /\ UNCHANGED <<made, answers, current, newest>>

Respond(kind, n) ==
  /\ Cardinality(answers) < MaxAnswers
  /\ answers' = answers \cup {[kind |-> kind, copied |-> n]}
  /\ UNCHANGED <<server, current, newest>>

\* Queries run in parallel; each waits until there is a copy.
AnswerQuery == held /\ Respond("query", made)

\* refresh shares the status request in flight.
AnswerStatus ==
  /\ \A a \in answers : a.kind # "status"
  /\ Respond("status", IF held THEN made ELSE 0)

\* observe: an older copy is skipped, where both statuses name one.
Observe(was, n) == IF was > 0 /\ n > 0 /\ n < was THEN was ELSE n

Deliver(a) ==
  /\ answers' = answers \ {a} /\ current' = Observe(current, a.copied)
  /\ newest' = IF current' > newest THEN current' ELSE newest
  /\ UNCHANGED server

\* reset: a status asked for before it is discarded by its epoch; the response of a query
\* is not after a generation conflict, but it is rejected in another session.
Reset ==
  /\ current' = -1 /\ newest' = -1 /\ answers' \in {{a \in answers : a.kind = "query"}, {}}
  /\ UNCHANGED server

Next ==
  \/ Complete \/ Lose \/ AnswerQuery \/ AnswerStatus \/ Reset
  \/ \E a \in answers : Deliver(a)

Spec == Init /\ [][Next]_snapshotVars

---------------------------------------------------------------------------
\* "Parallel queries can finish out of order. Do not regress a completed generation or
\* lose a newer refresh status to an older response" (the comment in observe): between
\* two resets no status names an older copy than one observed before.
GenerationForward == current > 0 => current >= newest
=============================================================================
