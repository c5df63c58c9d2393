---------------------------- MODULE CaseLifecycle ----------------------------
(***************************************************************************)
(* What the engine's ledger promises of a batch of cases, whatever node    *)
(* runs, crashes or is resumed: a case moves only along the table of       *)
(* ledger.py, it enters "passed" only for a sheet the device bed has       *)
(* passed, and a case that passed, failed for good or was escalated is     *)
(* never touched again.                                                    *)
(* CompileEngine is shown to implement this specification.                 *)
(***************************************************************************)
EXTENDS EngineLedger

CONSTANT Cases

VARIABLES
  state,      \* the ledger on disk
  lock,       \* the version of the sheet a passed case is locked to
  evidence    \* <<case, version>> the device bed has passed

vars == <<state, lock, evidence>>

Init ==
  /\ state = [c \in Cases |-> ""]
  /\ lock = [c \in Cases |-> 0]
  /\ evidence = {}

\* The device bed runs a volume and passes some of the sheets in it.
Run ==
  /\ evidence \subseteq evidence'
  /\ UNCHANGED <<state, lock>>

\* What one save may do to one case: leave it, or make one legal move; a case
\* that enters "passed" is locked to a version there is evidence for.
Moves(c) ==
  /\ state'[c] # state[c] => <<state[c], state'[c]>> \in Legal
  /\ IF state'[c] = "passed" /\ state[c] # "passed"
       THEN <<c, lock'[c]>> \in evidence
       ELSE lock'[c] = lock[c]

\* One save of the ledger, which may move several cases.
Save ==
  /\ state' \in [Cases -> CaseStates]
  /\ \A c \in Cases : Moves(c)
  /\ UNCHANGED evidence

Next == Run \/ Save

Spec == Init /\ [][Next]_vars
=============================================================================
