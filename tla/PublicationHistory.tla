-------------------------- MODULE PublicationHistory --------------------------
(***************************************************************************)
(* What the server promises the readers of a space: its publications form  *)
(* a history that only grows, one closed snapshot at a time.  A snapshot   *)
(* never changes once it is shown, so a reader or an export that pins a    *)
(* publication sees the same pages, links and evidence for ever            *)
(* (src/docs/data-model.md, "Publication").                                *)
(***************************************************************************)
EXTENDS Integers, Sequences

CONSTANTS
  Space,   \* spaces, each with a history of its own
  Page,    \* page identities
  None

VARIABLE history   \* history[s][n]: the pages and the home page of publication n of s

\* Pages a snapshot renders; an archived page stays in it as history only.
Rendered(snapshot) == {p \in Page : snapshot.pages[p] # None /\ ~ snapshot.pages[p].archived}

\* Every link and the home page of a snapshot lead to a page it renders.
Closed(snapshot) ==
  /\ \A p \in Rendered(snapshot) : snapshot.pages[p].links \subseteq Rendered(snapshot)
  /\ snapshot.home # None => snapshot.home \in Rendered(snapshot)

\* A page that was ever published stays in every later snapshot.
Retains(old, new) == \A p \in Page : old.pages[p] # None => new.pages[p] # None

Init == history = [s \in Space |-> <<>>]

Release(s) ==
  LET n == Len(history[s]) IN
  /\ Len(history'[s]) = n + 1
  /\ \A k \in 1..n : history'[s][k] = history[s][k]
  /\ Closed(history'[s][n + 1])
  /\ n > 0 => Retains(history[s][n], history'[s][n + 1])
  /\ \A t \in Space \ {s} : history'[t] = history[t]

Next == \E s \in Space : Release(s)

Spec == Init /\ [][Next]_history

=============================================================================
