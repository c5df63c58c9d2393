---------------------------- MODULE EngineLedger ----------------------------
(***************************************************************************)
(* The vocabulary of compile_engine/ledger.py: the states of a case, the   *)
(* transition table _LEGAL, and the questions the graph asks of a ledger.  *)
(* A ledger is a function from cases to states; "" is a case the ledger    *)
(* has no record of yet.                                                   *)
(***************************************************************************)

CaseStates ==
  {"", "pending_compile", "dispatched", "produced", "pending_decision",
   "awaiting_user", "passed", "failed_active", "failed_terminal", "escalated"}

Terminal == {"passed", "failed_terminal", "awaiting_user", "escalated"}

\* The non-pass terminal states, the ones a delivery labels.
Labelled == {"failed_terminal", "awaiting_user", "escalated"}

\* _LEGAL, as the set of moves a case may make.
Legal ==
       {"" } \X {"pending_compile"}
  \cup {"pending_compile"} \X {"dispatched"}
  \cup {"dispatched"} \X
         {"produced", "pending_decision", "escalated", "pending_compile"}
  \cup {"pending_decision"} \X {"awaiting_user", "pending_compile", "escalated"}
  \cup {"awaiting_user"} \X {"pending_compile"}
  \cup {"produced"} \X {"passed", "failed_active", "produced"}
  \cup {"failed_active"} \X
         {"pending_compile", "failed_terminal", "produced", "failed_active",
          "passed", "escalated"}

\* EngineLedger.in_state
InState(s, states) == {c \in DOMAIN s : s[c] \in states}

\* counts_update()[state] > 0
Some(s, state) == \E c \in DOMAIN s : s[c] = state
=============================================================================
