------------------------------ MODULE MCCutover ------------------------------
(* A small instance of Cutover for TLC, which asks two questions of it, each *)
(* within bounds of its own: what production goes through, without a clone,  *)
(* and what becomes of a clone of the first recovered checkpoint.            *)
EXTENDS Cutover, TLC

VARIABLE question

\* One original, one package, one capture, and nothing else in its way.
RehearsalNext ==
  /\ Cardinality(data'.refs) <= 1 /\ data'.gen <= 1
  /\ \A i \in Id \ {1} : packages'[i] = None
  /\ changes' = 0 /\ receipts' <= 1 /\ "activation" \notin files'

QuestionsInit == Init /\ question \in {"production", "rehearsal"}

QuestionsNext ==
  /\ Next /\ UNCHANGED question
  /\ IF question = "production" THEN ~Rehearsing' ELSE RehearsalNext

QuestionsSpec == QuestionsInit /\ [][QuestionsNext]_<<vars, question>>

OriginalSymmetry == Permutations(Original)
=============================================================================
