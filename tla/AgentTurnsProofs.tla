--------------------------- MODULE AgentTurnsProofs ---------------------------
(* Proofs about AgentTurns, for any caps, retries and number of turns.      *)
EXTENDS AgentTurns, TLAPS

-----------------------------------------------------------------------------
(* The inductive invariant.                                                *)

\* The number of supersteps in which a node is reached without going back.
Depth ==
  CASE node = "normalize_input" -> 0
    [] node = "qa_node" -> 1
    [] node = "review_gate" -> 2
    [] node = "goal_gate" -> 3
    [] node = "finalize" -> 4
    [] OTHER -> 5

\* Each of the others was paid for by a counter: two steps a review's, three
\* a goal's.
StepsPaid == steps <= Depth + 2 * asked + 3 * pushed

\* Each agent run was the first of its invocation or paid for by a counter.
RunsPaid ==
  runs + (IF node \in {"normalize_input", "qa_node"} THEN 1 ELSE 0)
    <= starts + asked + pushed

\* Only a goal counts rounds of a goal.
PushedByGoal == mode # "goal" => pushed = 0

\* Between the gates and the end of the turn what they saw still holds.
Vouched ==
  /\ VerdictBehindReview
  /\ node # "idle" => outcome = "none"
  /\ node = "goal_gate" => (seen.review => seen.verdict)
  /\ node = "finalize" /\ answer = "agent" => (seen.review => seen.verdict)

\* In a first turn that no goal has sent back, an agent run begins without a
\* verdict, so that a verdict is never older than the review.
FirstVerdict ==
  /\ turn = 0 => node = "idle"
  /\ turn <= 1 /\ pushed = 0 =>
       /\ seen.verdict => ~stale
       /\ turn = 0 \/ node \in {"normalize_input", "qa_node", "raised"} => ~seen.verdict

TurnInv == TypeOK /\ StepsPaid /\ RunsPaid /\ PushedByGoal /\ Vouched /\ FirstVerdict

-----------------------------------------------------------------------------

\* The initial states satisfy the invariant (state.py:17-45).
LEMMA InitTurns == Init => TurnInv
<1> SUFFICES ASSUME Init PROVE TurnInv
  OBVIOUS
<1>1. TypeOK
  <2>1. seen \in Views /\ stale \in BOOLEAN
    BY DEF Init, Views
  <2>2. asked \in 0..2 /\ pushed \in 0..Cap /\ turn \in 0..MaxTurns /\ attempt \in 0..Retries
    BY TurnAssumption DEF Init
  <2>3. /\ mode \in Modes /\ node \in Nodes /\ answer \in Answers /\ outcome \in Answers
        /\ steps \in Nat /\ runs \in Nat /\ starts \in Nat
    BY DEF Init, Nodes, Answers
  <2> QED BY <2>1, <2>2, <2>3 DEF TypeOK
<1>2. StepsPaid /\ RunsPaid /\ PushedByGoal
  BY DEF Init, StepsPaid, Depth, RunsPaid, PushedByGoal
<1>3. Vouched /\ FirstVerdict
  BY DEF Init, Vouched, FirstVerdict, VerdictBehindReview
<1> QED BY <1>1, <1>2, <1>3 DEF TurnInv

\* Invocations keep the invariant (runner.py:142-197, resilience.py:150-173).
LEMMA InvocationKeeps ==
  ASSUME TurnInv, Start \/ Retry \/ Cancel
  PROVE  TurnInv'
<1> USE TurnAssumption
    DEF TurnInv, TypeOK, StepsPaid, Depth, RunsPaid, PushedByGoal, Vouched, FirstVerdict,
        VerdictBehindReview, Views, Modes, Nodes, Answers, counters, history
<1>1. CASE Start
  <2>1. /\ node = "idle" /\ turn < MaxTurns /\ node' = "normalize_input"
        /\ turn' = turn + 1 /\ attempt' = 0 /\ steps' = 0 /\ starts' = starts + 1
        /\ outcome' = "none" /\ UNCHANGED <<mode, asked, pushed, seen, stale, answer, runs>>
    BY <1>1 DEF Start, Invoke, Turns
  <2>2. TypeOK'
    BY <2>1
  <2>3. StepsPaid' /\ RunsPaid' /\ PushedByGoal'
    BY <2>1
  <2>4. Vouched' /\ FirstVerdict'
    BY <2>1
  <2> QED BY <2>2, <2>3, <2>4
<1>2. CASE Retry
  <2>1. CASE mode # "terminal" /\ attempt < Retries
    BY <1>2, <2>1 DEF Retry, Invoke, KeepsCounters
  <2>2. CASE ~(mode # "terminal" /\ attempt < Retries)
    BY <1>2, <2>2 DEF Retry
  <2> QED BY <2>1, <2>2
<1>3. CASE Cancel  BY <1>3 DEF Cancel
<1> QED BY <1>1, <1>2, <1>3

\* An agent run keeps the invariant (graph.py:461-537).
LEMMA AgentKeeps ==
  ASSUME TurnInv, Normalize \/ QaAnswers \/ QaFails \/ QaRaises
  PROVE  TurnInv'
<1> USE DEF TurnInv, TypeOK, StepsPaid, Depth, RunsPaid, PushedByGoal, Vouched, FirstVerdict,
            VerdictBehindReview, Modes, Nodes, Answers, counters, history, Goto
<1>1. CASE Normalize  BY <1>1 DEF Normalize
<1>2. CASE QaAnswers
  <2>1. seen' \in Views
    <3>1. PICK review \in BOOLEAN, tool \in BOOLEAN, old \in BOOLEAN,
               verifier \in {"none", "failed", "verdict"} :
            seen' = Found(review, verifier, tool \/ old)
      BY <1>2 DEF QaAnswers, Reply
    <3>2. /\ (seen.review \/ review) \in BOOLEAN
          /\ (IF verifier = "none" THEN seen.verdict ELSE verifier = "verdict") \in BOOLEAN
          /\ (tool \/ old) \in BOOLEAN
      BY DEF Views
    <3> QED BY <3>1, <3>2 DEF Found, Views
  <2>2. stale' \in BOOLEAN /\ (FirstVerdict => FirstVerdict')
    <3>1. PICK review \in BOOLEAN, tool \in BOOLEAN, old \in BOOLEAN,
               verifier \in {"none", "failed", "verdict"} :
            /\ seen' = Found(review, verifier, tool \/ old)
            /\ stale' = (verifier # "verdict" /\ (stale \/ review))
      BY <1>2 DEF QaAnswers, Reply
    <3>2. seen'.verdict = IF verifier = "none" THEN seen.verdict ELSE verifier = "verdict"
      BY <3>1 DEF Found
    <3>3. node = "qa_node" /\ node' = "review_gate" /\ UNCHANGED <<turn, pushed>>
      BY <1>2 DEF QaAnswers
    <3>4. stale' \in BOOLEAN
      BY <3>1
    <3>5. ASSUME FirstVerdict, turn <= 1, pushed = 0  PROVE seen'.verdict => ~stale'
      BY <3>1, <3>2, <3>3, <3>5
    <3>6. FirstVerdict => turn # 0
      BY <3>3
    <3> QED BY <3>3, <3>4, <3>5, <3>6
  <2>3. TypeOK' /\ StepsPaid' /\ RunsPaid' /\ PushedByGoal' /\ Vouched'
    BY <1>2, <2>1, <2>2 DEF QaAnswers
  <2> QED BY <2>2, <2>3
<1>3. CASE QaFails
  <2>1. seen' \in Views
    BY <1>3 DEF QaFails, Views
  <2> QED BY <1>3, <2>1 DEF QaFails
<1>4. CASE QaRaises   BY <1>4 DEF QaRaises
<1> QED BY <1>1, <1>2, <1>3, <1>4

\* The gates keep the invariant (review_gate.py:19-58, goal_gate.py:44-77).
LEMMA GatesKeep ==
  ASSUME TurnInv, ReviewGate \/ GoalGate \/ Finalize
  PROVE  TurnInv'
<1> USE TurnAssumption
    DEF TurnInv, TypeOK, StepsPaid, Depth, RunsPaid, PushedByGoal, Vouched, FirstVerdict,
        VerdictBehindReview, Views, Modes, Nodes, Answers, counters, history, Goto
<1>1. CASE ReviewGate
  <2>1. TypeOK'
    BY <1>1 DEF ReviewGate, TooOften, GateAnswer
  <2>2. StepsPaid' /\ RunsPaid' /\ PushedByGoal'
    BY <1>1 DEF ReviewGate, TooOften
  <2>3. Vouched'
    BY <1>1 DEF ReviewGate, TooOften, GateAnswer
  <2>4. FirstVerdict'
    BY <1>1 DEF ReviewGate
  <2> QED BY <2>1, <2>2, <2>3, <2>4
<1>2. CASE GoalGate    BY <1>2 DEF GoalGate
<1>3. CASE Finalize    BY <1>3 DEF Finalize
<1> QED BY <1>1, <1>2, <1>3

\* Every step keeps the invariant.
LEMMA StepKeeps == TurnInv /\ [Next]_vars => TurnInv'
<1> SUFFICES ASSUME TurnInv, [Next]_vars PROVE TurnInv'
  OBVIOUS
<1>1. CASE UNCHANGED vars
  BY <1>1
  DEF vars, counters, history, TurnInv, TypeOK, StepsPaid, Depth, RunsPaid,
      PushedByGoal, Vouched, FirstVerdict, VerdictBehindReview
<1>2. CASE Next
  BY <1>2, InvocationKeeps, AgentKeeps, GatesKeep DEF Next
<1> QED BY <1>1, <1>2

\* Counters stay within their caps on a thread that is kept over any number
\* of turns (review_gate.py:35-46, goal_gate.py:59-65).
THEOREM TurnsTypeCorrect == Spec => []TypeOK
<1>1. TurnInv => TypeOK
  BY DEF TurnInv
<1> QED BY InitTurns, StepKeeps, <1>1, PTL DEF Spec

\* For every cap the runner's limit of supersteps is enough (runner.py:158).
THEOREM LimitEnough == Spec => []StepsWithinLimit
<1>1. TurnInv => StepsWithinLimit
  BY TurnAssumption
  DEF TurnInv, TypeOK, StepsPaid, Depth, PushedByGoal, StepsWithinLimit, Limit, Modes, Nodes
<1> QED BY InitTurns, StepKeeps, <1>1, PTL DEF Spec

\* The agent runs once for each invocation, at most twice more for a review
\* and at most Cap times more for a goal, whatever is tried again
\* (goal_gate.py:55-77, review_gate.py:34-58).
THEOREM RunsAreBounded == Spec => []RunsBounded
<1>1. TurnInv => RunsBounded
  BY TurnAssumption DEF TurnInv, TypeOK, RunsPaid, PushedByGoal, RunsBounded
<1> QED BY InitTurns, StepKeeps, <1>1, PTL DEF Spec

\* The agent's own answer leaves a thread with a review only beside a verdict,
\* which is older than the review only after a goal's round or an earlier turn
\* (review_gate.py:31-58, 72-101).
THEOREM ReviewsVouched == Spec => []VerdictBehindReview
<1>1. TurnInv => VerdictBehindReview
  BY DEF TurnInv, Vouched
<1> QED BY InitTurns, StepKeeps, <1>1, PTL DEF Spec
=============================================================================
