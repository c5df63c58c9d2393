------------------------------ MODULE MCEngine ------------------------------
(* Instances of CompileEngine for TLC. *)
EXTENDS CompileEngine, TLC

CONSTANTS c1, c2

Symmetry == Permutations(Cases)

\* What submit_attribution accepts, by where the engine sends it.
Submitted == {"none", "reflow", "fixed", "terminal"}
=============================================================================
