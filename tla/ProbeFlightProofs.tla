-------------------------- MODULE ProbeFlightProofs --------------------------
(* Proofs about ProbeFlight, for any callers and runs.                      *)
EXTENDS ProbeFlight, TLAPS

-----------------------------------------------------------------------------
(* The inductive invariant.                                                *)

\* Who has not called yet has left nothing behind, and who leads does so in a
\* run.
Fresh ==
  \A c \in Callers :
    /\ pc[c] = "away" => c \notin event /\ raw[c] = "none" /\ result[c] = "none"
    /\ pc[c] = "probe" => raw[c] = "none"
    /\ Leads(c) => Owner[c] \in Runs

\* While the run lasts, a leader that has not sorted its answer, and one whose
\* answer is no failure, has the entry in the bucket.
Standing ==
  \A c \in Callers :
    Leads(c) /\ Owner[c] \notin over /\ (pc[c] = "sort" \/ raw[c] # "failed")
      => bucket[Owner[c]] = c

\* An entry that will hold, or holds, a failure is in no bucket.
Removed ==
  \A c \in Callers :
    result[c] = "failed" \/ (pc[c] = "fill" /\ raw[c] = "failed")
      => \A r \in Runs : bucket[r] # c

\* How far a leader's entry is: an answer before it is sorted, a result before
\* the event. Who was answered, or has set an event, is done.
Stepwise ==
  \A c \in Callers :
    /\ pc[c] \in {"sort", "fill"} => raw[c] # "none"
    /\ pc[c] = "set" => result[c] # "none"
    /\ got[c] # None \/ c \in event => pc[c] = "done"
    /\ c \in event /\ got[c] = c => result[c] # "none"

\* A call of a run that probes without leading has a reason.
Alone ==
  \A c \in Callers :
    Owner[c] \in Runs /\ (pc[c] = "bare" \/ got[c] = c) /\ c \notin event => Excused(c)

FlightInv == TypeOK /\ Fresh /\ Standing /\ Removed /\ Stepwise /\ Alone

-----------------------------------------------------------------------------

\* The initial states satisfy the invariant (run_case.py:200-210).
LEMMA InitFlight == Init => FlightInv
  BY FlightAssumption
  DEF Init, FlightInv, TypeOK, Fresh, Standing, Removed, Stepwise, Alone, Leads, Leading, Stages, Answers

\* Entering a call keeps the invariant (run_case.py:388-400).
LEMMA EnterKeeps ==
  ASSUME FlightInv, NEW c \in Callers, Enter(c)
  PROVE  FlightInv'
<1> USE FlightAssumption
<1>1. TypeOK'
  BY DEF FlightInv, TypeOK, Enter, First, Goto, Stages, Leading, Answers
<1>2. Fresh'
  BY DEF FlightInv, TypeOK, Fresh, Enter, First, Goto, Leads, Leading
<1>3. Standing'
  BY DEF FlightInv, TypeOK, Fresh, Standing, Enter, First, Goto, Leads, Leading
<1>4. Removed'
  BY DEF FlightInv, TypeOK, Fresh, Removed, Enter, First, Goto
<1>5. Stepwise'
  BY DEF FlightInv, TypeOK, Stepwise, Enter, First, Goto
<1>6. Alone'
  BY DEF FlightInv, TypeOK, Stepwise, Alone, Excused, Died, Enter, First, Goto
<1> QED BY <1>1, <1>2, <1>3, <1>4, <1>5, <1>6 DEF FlightInv

\* The answer of a probe keeps the invariant (run_case.py:404).
LEMMA ProbedKeeps ==
  ASSUME FlightInv, NEW c \in Callers, Probed(c)
  PROVE  FlightInv'
  BY FlightAssumption
  DEF FlightInv, TypeOK, Fresh, Standing, Removed, Stepwise, Alone, Excused, Died, Probed, Goto, Leads, Leading, Stages, Answers

\* Taking a failure out of the bucket keeps the invariant (run_case.py:405-407).
LEMMA SortKeeps ==
  ASSUME FlightInv, NEW c \in Callers, Sort(c)
  PROVE  FlightInv'
<1> USE FlightAssumption
<1>1. Owner[c] \in Runs
  BY DEF FlightInv, Fresh, Sort, Leads, Leading
<1>2. TypeOK'
  BY <1>1 DEF FlightInv, TypeOK, Sort, Kept, Goto, Stages, Leading, Answers
<1>3. Fresh'
  BY DEF FlightInv, TypeOK, Fresh, Sort, Goto, Leads, Leading
<1>4. Standing'
  BY <1>1 DEF FlightInv, TypeOK, Fresh, Standing, Sort, Kept, Goto, Leads, Leading
<1>5. Removed'
  BY <1>1 DEF FlightInv, TypeOK, Removed, Sort, Kept, Goto
<1>6. Stepwise'
  BY DEF FlightInv, TypeOK, Stepwise, Sort, Goto
<1>7. Alone'
  BY DEF FlightInv, TypeOK, Stepwise, Alone, Excused, Died, Sort, Goto
<1> QED BY <1>2, <1>3, <1>4, <1>5, <1>6, <1>7 DEF FlightInv

\* The rest of a call leaves the bucket alone (run_case.py:408-416).
LEMMA RestKeeps ==
  ASSUME FlightInv, NEW c \in Callers,
         Fill(c) \/ SetEvent(c) \/ Dies(c) \/ Wake(c) \/ TimeOut(c) \/ Bare(c)
  PROVE  FlightInv'
<1> USE FlightAssumption DEF FlightInv, TypeOK, Fresh, Standing, Removed, Stepwise, Alone, Excused, Died,
           Goto, Leads, Leading, Stages, Answers
<1>1. CASE Fill(c)      BY <1>1 DEF Fill
<1>2. CASE SetEvent(c)  BY <1>2 DEF SetEvent
<1>3. CASE Dies(c)      BY <1>3 DEF Dies, Released
<1>4. CASE Wake(c)      BY <1>4 DEF Wake
<1>5. CASE TimeOut(c)   BY <1>5 DEF TimeOut
<1>6. CASE Bare(c)      BY <1>6 DEF Bare
<1> QED BY <1>1, <1>2, <1>3, <1>4, <1>5, <1>6

\* Clearing a run's bucket keeps the invariant (run_case.py:222-225).
LEMMA EndRunKeeps ==
  ASSUME FlightInv, NEW r \in Runs, EndRun(r)
  PROVE  FlightInv'
  BY FlightAssumption
  DEF FlightInv, TypeOK, Fresh, Standing, Removed, Stepwise, Alone, Excused, Died, EndRun, Leads, Leading, Stages, Answers

\* Every step keeps the invariant.
LEMMA NextKeeps == FlightInv /\ [Next]_vars => FlightInv'
<1> SUFFICES ASSUME FlightInv, [Next]_vars PROVE FlightInv'
  OBVIOUS
<1>1. ASSUME NEW c \in Callers, Enter(c) \/ Work(c) \/ Dies(c) \/ TimeOut(c)
      PROVE  FlightInv'
  BY <1>1, EnterKeeps, ProbedKeeps, SortKeeps, RestKeeps DEF Work
<1>2. ASSUME NEW r \in Runs, EndRun(r) PROVE FlightInv'
  BY <1>2, EndRunKeeps
<1>3. CASE UNCHANGED vars
  BY <1>3 DEF vars, FlightInv, TypeOK, Fresh, Standing, Removed, Stepwise, Alone, Excused, Died, Leads
<1> QED BY <1>1, <1>2, <1>3 DEF Next

\* The invariant holds of every behaviour.
LEMMA FlightInvariant == Spec => []FlightInv
  BY InitFlight, NextKeeps, PTL DEF Spec

-----------------------------------------------------------------------------

\* Types, for any number of callers and runs: a call that waits waits at a
\* leader of its own run, and what stands in the bucket is a call that led
\* (run_case.py:188, 394-407).
THEOREM ProbeTypeCorrect == Spec => []TypeOK
<1>1. FlightInv => TypeOK
  BY DEF FlightInv
<1> QED BY <1>1, FlightInvariant, PTL

\* In every run, however many calls it makes, one call asks the device, leading
\* or alone, and beside it only who has an excuse (run_case.py:187-192, 394-416).
THEOREM ProbesOnce == Spec => []OneProbe
<1>1. FlightInv => OneProbe
  <2> SUFFICES ASSUME FlightInv, NEW c \in Callers, NEW d \in Callers,
                      Owner[c] = Owner[d], Owner[c] \in Runs \ over,
                      Asks(c), Asks(d), ~Excused(c), ~Excused(d)
               PROVE  c = d
    BY DEF OneProbe
  <2>0. Leads(c) /\ Leads(d)
    BY DEF FlightInv, Alone, Asks, Leads
  <2>1. bucket[Owner[c]] = c
    BY <2>0 DEF FlightInv, Standing, Excused
  <2>2. bucket[Owner[d]] = d
    BY <2>0 DEF FlightInv, Standing, Excused
  <2> QED BY <2>1, <2>2
<1> QED BY <1>1, FlightInvariant, PTL

\* No failure that was handed out is handed out again to a later call
\* (run_case.py:405-407).
THEOREM FailuresAskedAgain == Spec => FailuresNotServed
<1>1. ASSUME FlightInv, [Next]_vars, NEW c \in Callers, pc[c] = "away", pc'[c] = "wait"
      PROVE  ~(at'[c] \in event /\ result[at'[c]] = "failed")
  <2>1. Enter(c)
    <3>1. ASSUME NEW d \in Callers, d # c, Enter(d) \/ Work(d) \/ Dies(d) \/ TimeOut(d)
          PROVE  FALSE
      BY <1>1, <3>1
      DEF Enter, Work, Probed, Sort, Fill, SetEvent, Dies, Wake, TimeOut, Bare, Goto, FlightInv, TypeOK
    <3>2. ~(Work(c) \/ Dies(c) \/ TimeOut(c))
      BY <1>1 DEF Work, Probed, Sort, Fill, SetEvent, Dies, Wake, TimeOut, Bare
    <3>3. ~(\E r \in Runs : EndRun(r)) /\ ~UNCHANGED vars
      BY <1>1 DEF EndRun, vars
    <3> QED BY <1>1, <3>1, <3>2, <3>3 DEF Next
  <2>2. Owner[c] \in Runs /\ at'[c] = bucket[Owner[c]] /\ bucket[Owner[c]] \in Callers
    BY <1>1, <2>1, FlightAssumption DEF Enter, First, Goto, FlightInv, TypeOK
  <2>3. result[bucket[Owner[c]]] # "failed"
    BY <1>1, <2>2 DEF FlightInv, Removed
  <2> QED BY <2>2, <2>3
<1>2. FlightInv /\ [Next]_vars =>
        [\A c \in Callers :
           pc[c] = "away" /\ pc'[c] = "wait" =>
             ~(at'[c] \in event /\ result[at'[c]] = "failed")]_vars
  BY <1>1
<1> QED BY <1>2, FlightInvariant, PTL DEF Spec, FailuresNotServed
=============================================================================
