---------------------------- MODULE MCProbeFlight ----------------------------
(* An instance of ProbeFlight for TLC. *)
EXTENDS ProbeFlight

CONSTANTS c1, c2, c3, c4, r1

\* Three calls of one run, one of no run.
ThreeAndOne == [c \in Callers |-> IF c = c4 THEN None ELSE r1]
=============================================================================
