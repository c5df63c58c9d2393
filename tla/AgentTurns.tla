------------------------------ MODULE AgentTurns ------------------------------
(***************************************************************************)
(* The graph around the main agent, on one thread: an agent run, the gate  *)
(* for reviews, the gate for goals, and the loops by which they send the   *)
(* agent back. The thread's checkpoint keeps messages and counters across  *)
(* attempts and turns. Three programs drive it: the print mode of the      *)
(* terminal client (one turn, perhaps with a goal), the runner (turns on a *)
(* thread that is kept), both of which try again after a connection error, *)
(* and the terminal, whose turns can be cancelled. Of the messages we keep *)
(* what the gates look for; what the agent does is its own choice.         *)
(***************************************************************************)
EXTENDS Naturals

CONSTANTS
  Cap,      \* rounds a goal gets, IST_GOAL_MAX_ROUNDS
  Retries,  \* attempts after a connection error, IST_MAINLOOP_RETRIES
  MaxTurns  \* bound: turns of a thread

ASSUME TurnAssumption ==
  Cap \in Nat \ {0} /\ Retries \in Nat /\ MaxTurns \in Nat \ {0}

VARIABLES
  mode,     \* the program that drives the thread, and whether it has a goal
  node,     \* the node to run next
  turn,     \* turns begun
  attempt,  \* attempts of this turn after its first
  steps,    \* supersteps of this invocation
  asked,    \* gate_retry_count
  pushed,   \* goal_retry_count
  seen,     \* what of the messages the gates see
  answer,   \* final_answer: whose it is
  outcome,  \* the answer this turn returned
  stale,    \* history: a review was called in a later run than the last verdict
  runs,     \* history: agent runs
  starts    \* history: invocations

counters == <<asked, pushed>>
history == <<runs, starts>>
vars == <<mode, node, turn, attempt, steps, counters, seen, stale, answer, outcome, history>>

Modes == {"goal", "print", "runner", "terminal"}
Nodes == {"idle", "normalize_input", "qa_node", "review_gate", "goal_gate", "finalize", "raised"}
Answers == {"none", "agent", "error", "gate", "goal"}

\* A review was called; the verifier's last call ended with a verdict; a
\* tool's return is among the last messages.
Views == [review : BOOLEAN, verdict : BOOLEAN, evidence : BOOLEAN]

TypeOK ==
  /\ mode \in Modes /\ node \in Nodes
  /\ turn \in 0..MaxTurns /\ attempt \in 0..Retries
  /\ steps \in Nat /\ runs \in Nat /\ starts \in Nat
  /\ asked \in 0..2 /\ pushed \in 0..Cap
  /\ seen \in Views /\ stale \in BOOLEAN
  /\ answer \in Answers /\ outcome \in Answers

Init ==
  /\ mode \in Modes
  /\ node = "idle" /\ turn = 0 /\ attempt = 0 /\ steps = 0
  /\ asked = 0 /\ pushed = 0
  /\ seen = [review |-> FALSE, verdict |-> FALSE, evidence |-> FALSE]
  /\ stale = FALSE
  /\ answer = "none" /\ outcome = "none"
  /\ runs = 0 /\ starts = 0

-----------------------------------------------------------------------------
(* Invocations. Definitions named Mutant... are faulty variants that no    *)
(* definition uses.                                                        *)

Turns == IF mode \in {"goal", "print"} THEN 1 ELSE MaxTurns

\* The number of supersteps langgraph allows: its default, or the runner's.
MutantLimit == 25
Limit == IF mode = "goal" /\ Cap * 4 + 20 > 25 THEN Cap * 4 + 20 ELSE 25

Goto(n) == node' = n /\ steps' = steps + 1

Invoke == node' = "normalize_input" /\ steps' = 0 /\ starts' = starts + 1

\* A turn starts on what the checkpoint holds, counters included.
Start ==
  /\ node = "idle" /\ turn < Turns
  /\ Invoke
  /\ turn' = turn + 1 /\ attempt' = 0
  /\ outcome' = "none"
  /\ UNCHANGED <<mode, counters, seen, stale, answer, runs>>

Normalize ==
  /\ node = "normalize_input"
  /\ Goto("qa_node")
  /\ UNCHANGED <<mode, turn, attempt, counters, seen, stale, answer, outcome, history>>

\* run_with_resilience: only connection errors are tried again, and the new
\* attempt finds the checkpoint of the last.
MutantKeepsCounters == asked' = 0 /\ pushed' = 0
KeepsCounters == UNCHANGED counters

Retry ==
  /\ node = "raised"
  /\ IF mode # "terminal" /\ attempt < Retries
       THEN Invoke /\ attempt' = attempt + 1 /\ KeepsCounters
       ELSE node' = "idle" /\ UNCHANGED <<steps, attempt, starts, counters>>
  /\ UNCHANGED <<mode, turn, seen, stale, answer, outcome, runs>>

\* The user interrupts the turn: what its node would have written is lost.
Cancel ==
  /\ mode = "terminal" /\ node \notin {"idle", "raised"}
  /\ node' = "idle"
  /\ UNCHANGED <<mode, turn, attempt, steps, counters, seen, stale, answer, outcome, history>>

-----------------------------------------------------------------------------
(* Nodes.                                                                  *)

\* What the gates find after an agent run that called the review or not, the
\* verifier with or without a verdict, and tools or none.
MutantFound(review, verifier, tool) ==
  [review |-> seen.review \/ review,
   verdict |-> seen.verdict \/ verifier # "none",
   evidence |-> tool]
Found(review, verifier, tool) ==
  [review |-> seen.review \/ review,
   verdict |-> IF verifier = "none" THEN seen.verdict ELSE verifier = "verdict",
   evidence |-> tool]

\* A run without tools may push the older returns out of the tail.
Reply ==
  \E review, tool \in BOOLEAN, verifier \in {"none", "failed", "verdict"} :
    \E old \in BOOLEAN :
      /\ review \/ verifier # "none" => tool
      /\ old => seen.evidence
      /\ seen' = Found(review, verifier, tool \/ old)
      /\ stale' = (verifier # "verdict" /\ (stale \/ review))

QaAnswers ==
  /\ node = "qa_node"
  /\ Goto("review_gate")
  /\ Reply /\ answer' = "agent"
  /\ runs' = runs + 1
  /\ UNCHANGED <<mode, turn, attempt, counters, outcome, starts>>

\* An error of the agent becomes the answer, and a message; one that passes
\* ends the invocation and commits nothing: tried again if the connection
\* broke, raised to the caller if the endpoint was overloaded.
QaFails ==
  /\ node = "qa_node"
  /\ Goto("review_gate")
  /\ answer' = "error"
  /\ \E old \in BOOLEAN :
       (old => seen.evidence) /\ seen' = [seen EXCEPT !.evidence = old]
  /\ runs' = runs + 1
  /\ UNCHANGED <<mode, turn, attempt, counters, stale, outcome, starts>>

QaRaises ==
  /\ node = "qa_node"
  /\ node' \in {"raised", "idle"}
  /\ runs' = runs + 1
  /\ UNCHANGED <<mode, turn, attempt, steps, counters, seen, stale, answer, outcome, starts>>

MutantTooOften(n) == n > 3
TooOften(n) == n > 2

GateAnswer == "gate"

ReviewGate ==
  /\ node = "review_gate"
  /\ IF ~seen.review \/ seen.verdict
       THEN Goto("goal_gate") /\ UNCHANGED <<asked, answer>>
       ELSE IF TooOften(asked + 1)
         THEN Goto("finalize") /\ answer' = GateAnswer /\ UNCHANGED asked
         ELSE Goto("qa_node") /\ asked' = asked + 1 /\ UNCHANGED answer
  /\ UNCHANGED <<mode, turn, attempt, pushed, seen, stale, outcome, history>>

\* The evaluator's judgement counts as met only beside a tool's return; an
\* evaluator that fails has judged it unmet.
GoalGate ==
  /\ node = "goal_gate"
  /\ \/ /\ mode # "goal" \/ seen.evidence
        /\ Goto("finalize") /\ UNCHANGED <<pushed, answer>>
     \/ /\ mode = "goal" /\ pushed = Cap
        /\ Goto("finalize") /\ answer' = "goal" /\ UNCHANGED pushed
     \/ /\ mode = "goal" /\ pushed < Cap
        /\ Goto("qa_node") /\ pushed' = pushed + 1 /\ UNCHANGED answer
  /\ UNCHANGED <<mode, turn, attempt, asked, seen, stale, outcome, history>>

Finalize ==
  /\ node = "finalize"
  /\ Goto("idle")
  /\ outcome' = answer
  /\ UNCHANGED <<mode, turn, attempt, counters, seen, stale, answer, history>>

-----------------------------------------------------------------------------

Next ==
  \/ Start \/ Normalize \/ QaAnswers \/ QaFails \/ QaRaises
  \/ ReviewGate \/ GoalGate \/ Finalize \/ Retry \/ Cancel

Spec == Init /\ [][Next]_vars

-----------------------------------------------------------------------------
(* Properties.                                                             *)

\* An invocation ends before langgraph cuts it off, however the two gates
\* take turns and whatever earlier turns left in their counters, so that the
\* cut is not modelled (runner.py:150-158).
StepsWithinLimit == steps <= Limit

\* The gates together send the agent back at most twice for a review and Cap
\* times for a goal, over all attempts and turns of a thread
\* (goal_gate.py:55-77, review_gate.py:34-58).
RunsBounded == runs <= starts + 2 + IF mode = "goal" THEN Cap ELSE 0

\* On a thread with a review the agent's own words go out only beside a
\* verdict; but it may be the verdict of an earlier review, and the last one
\* unjudged, once a goal has sent the agent back or an earlier turn has left
\* its verdict in the thread. The gate's own message allows no review without
\* a verdict at all (review_gate.py:31-58, 72-101).
VerdictBehindReview ==
  outcome = "agent" /\ seen.review =>
    seen.verdict /\ (stale => turn > 1 \/ pushed > 0)
=============================================================================
