------------------------------ MODULE MCReaders ------------------------------
(* The programs that read publications, each alone: the reader shares no state    *)
(* with the commands, nor a keyword search with those that prepare a corpus.      *)
EXTENDS Corpus, Reader, TLC

CONSTANTS x1, x2

Tasks == x1 :> {"prepare", "query", "benchmark"} @@ x2 :> {"prepare", "find"}

VARIABLE program

Init ==
  /\ program \in {"corpus", "search", "browser"} /\ CorpusInit /\ ReaderInit
  /\ program # "browser" => memberships = <<[u \in User |-> Space]>>

Next ==
  \/ /\ program # "browser" /\ CorpusNext /\ UNCHANGED <<readerVars, program>>
     /\ \A p \in Process : proc'[p].task \in
          IF program = "search" THEN {"idle", "find"} ELSE {"idle", "prepare", "query", "benchmark"}
  \/ program = "browser" /\ ReaderNext /\ UNCHANGED <<corpusVars, program>>

Spec == Init /\ [][Next]_<<corpusVars, readerVars, program>>

Symmetry == Permutations(User) \cup Permutations(Space) \cup Permutations(Slot)
=============================================================================
