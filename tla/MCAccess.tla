------------------------------- MODULE MCAccess -------------------------------
(* A small instance of Access for TLC, which asks two questions of it, each within   *)
(* bounds of its own: how two users and an operator change the memberships of a      *)
(* group, and what the changes of one account do to its sessions and its requests.   *)
(* Accounts are interchangeable; spaces are not, as requests name only some of them. *)
EXTENDS Access, TLC

CONSTANTS s1, s2

VARIABLE question

Requests == {requests'[x] : x \in Actor} \ {None}
Created == {users'[a] : a \in Account} \ {None}

\* No account changes after its creation; the group is s1.
MembershipNext ==
  /\ \A u \in Created : u.key = 1
  /\ spaces'[s2] = None
  /\ \A r \in Requests : r.kind \in {"group", "member"} /\ r.space # s2 /\ r.role # "reader"
                         /\ (r.kind = "member" => r.space = s1)

\* One account, two spaces that may become its personal ones, fewer changes, and one role
\* of those that may write.
SessionsNext ==
  /\ Cardinality({a \in Account : users'[a] # None}) <= 1
  /\ Cardinality(audit') <= 3
  /\ \A r \in Requests : r.kind # "group" /\ r.role # "editor" /\ users'[r.account] # None

QuestionsInit == Init /\ question \in {"membership", "sessions"}

QuestionsNext ==
  /\ Next /\ UNCHANGED question
  /\ IF question = "membership" THEN MembershipNext ELSE SessionsNext

QuestionsSpec == QuestionsInit /\ [][QuestionsNext]_<<vars, question>>

Symmetry == Permutations(Account)

===============================================================================
