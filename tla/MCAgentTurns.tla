---------------------------- MODULE MCAgentTurns ----------------------------
(* An instance of AgentTurns for TLC. *)
EXTENDS AgentTurns
=============================================================================
