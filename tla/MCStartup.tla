------------------------------ MODULE MCStartup ------------------------------
(* A small instance of Startup for TLC. *)
EXTENDS Startup, TLC
=============================================================================
