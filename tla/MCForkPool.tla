------------------------------ MODULE MCForkPool ------------------------------
(* An instance of ForkPool for TLC. *)
EXTENDS ForkPool

CONSTANTS j1, j2, j3
=============================================================================
