------------------------------ MODULE MCAudio ------------------------------
(* A small instance of AudioWorkflow for TLC. *)
EXTENDS AudioWorkflow, TLC

ClientSymmetry == Permutations(Client)
=============================================================================
