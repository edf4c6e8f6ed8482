------------------------------ MODULE MCCorpus ------------------------------
(* A small instance of Corpus for TLC, in which nothing fails. *)
EXTENDS Corpus, TLC

CONSTANT x1

Tasks == x1 :> {"prepare", "query"}
=============================================================================
