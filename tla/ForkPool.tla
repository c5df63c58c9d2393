------------------------------- MODULE ForkPool -------------------------------
(***************************************************************************)
(* The forks of one wave: the threads of worker_fanout, the limiter that   *)
(* admits them (AdaptiveLimiter), the executor that calls one fork with a  *)
(* wall clock and retries it (ForkExecutor), and the watchdog pool the     *)
(* forks run in (resilience.py). A fork whose caller gave up keeps its     *)
(* place in the pool.                                                      *)
(***************************************************************************)
EXTENDS Integers, FiniteSets, Sequences, Functions

CONSTANTS
  Jobs,        \* the cases of the wave, one thread each
  Start, MinLimit, MaxLimit,    \* the limiter's arguments
  Retries,     \* transient_retries
  Reworks,     \* _MAX_REWORK: how often a suspect sheet sends its case back
  Watchdogs    \* threads of the watchdog pool

ASSUME PoolAssumption ==
  /\ IsFiniteSet(Jobs)
  /\ {Start, MinLimit, MaxLimit} \subseteq Int
  /\ {Retries, Reworks, Watchdogs} \subseteq Nat

VARIABLES
  lim,        \* the limiter: limit, active calls, successes in a row
  pc,         \* what the thread of each job does
  dispatch,   \* which call of the executor it makes, from 0
  attempt,    \* which attempt of that call
  out,        \* what the attempt returned
  queue,      \* forks waiting for a watchdog thread
  running,    \* forks in one, awaited or not
  won         \* history: successes reported since the limit last moved or an
              \* overload was reported

vars == <<lim, pc, dispatch, attempt, out, queue, running, won>>

AtLeast(a, b) == IF a < b THEN b ELSE a
AtMost(a, b) == IF a < b THEN a ELSE b

Lo == AtLeast(1, MinLimit)
Hi == AtLeast(Lo, MaxLimit)

Init ==
  /\ lim = [limit |-> AtLeast(Lo, AtMost(Start, Hi)), active |-> 0, succ |-> 0]
  /\ pc = [j \in Jobs |-> "start"]
  /\ dispatch = [j \in Jobs |-> 0]
  /\ attempt = [j \in Jobs |-> 0]
  /\ out = [j \in Jobs |-> "none"]
  /\ queue = <<>>
  /\ running = {}
  /\ won = 0

-----------------------------------------------------------------------------
(* The limiter's methods, as functions of the limiter l. Definitions named *)
(* Mutant... are faulty variants that no definition uses.                  *)

MutantAdmitsOneMore(l) == l.active <= l.limit
Admits(l) == l.active < l.limit
Acquired(l) == [limit |-> l.limit, active |-> l.active + 1, succ |-> l.succ]

MutantReleasedNone(l) == l
Released(l) ==
  [limit |-> l.limit, active |-> AtLeast(0, l.active - 1), succ |-> l.succ]

MutantSuccessKeeps(l) ==
  IF l.succ + 1 >= l.limit /\ l.limit < Hi
    THEN [limit |-> l.limit + 1, active |-> l.active, succ |-> l.succ + 1]
    ELSE [limit |-> l.limit, active |-> l.active, succ |-> l.succ + 1]

\* As many successes in a row as the limit raise it by one.
Success(l) ==
  IF l.succ + 1 >= l.limit /\ l.limit < Hi
    THEN [limit |-> l.limit + 1, active |-> l.active, succ |-> 0]
    ELSE [limit |-> l.limit, active |-> l.active, succ |-> l.succ + 1]

MutantOverloadToZero(l) ==
  [limit |-> l.limit \div 2, active |-> l.active, succ |-> 0]

\* An overload halves the limit; calls above the new one run to their end.
Overload(l) ==
  [limit |-> AtLeast(Lo, l.limit \div 2), active |-> l.active, succ |-> 0]

-----------------------------------------------------------------------------
(* A thread of the wave.                                                   *)

Fork(j) == <<j, dispatch[j], attempt[j]>>
Live == Range(queue) \cup running

Acquire(j) ==
  /\ pc[j] = "start"
  /\ Admits(lim)
  /\ lim' = Acquired(lim)
  /\ pc' = [pc EXCEPT ![j] = "call"]
  /\ UNCHANGED <<dispatch, attempt, out, queue, running, won>>

Submit(j) ==
  /\ pc[j] = "call"
  /\ pc' = [pc EXCEPT ![j] = "waiting"]
  /\ queue' = Append(queue, Fork(j))
  /\ UNCHANGED <<lim, dispatch, attempt, out, running, won>>

\* The fork is not done within its wall clock, in a watchdog or still queued
\* for one. Nothing cancels it.
TimeOut(j) ==
  /\ pc[j] = "waiting"
  /\ pc' = [pc EXCEPT ![j] = "record"]
  /\ out' = [out EXCEPT ![j] = "wallclock"]
  /\ UNCHANGED <<lim, dispatch, attempt, queue, running, won>>

MutantRetriableWallclock(result) == result \in {"transient", "wallclock"}
Retriable(result) == result = "transient"

\* The limiter hears of the result; a transient error is tried again while
\* attempts and time are left.
Record(j) ==
  /\ pc[j] = "record"
  /\ lim' = IF out[j] = "transient" THEN Overload(lim) ELSE Success(lim)
  /\ \/ pc' = [pc EXCEPT ![j] = "release"]
     \/ /\ Retriable(out[j])
        /\ attempt[j] < Retries
        /\ pc' = [pc EXCEPT ![j] = "backoff"]
  /\ won' = IF out[j] = "transient" \/ lim'.limit # lim.limit THEN 0 ELSE won + 1
  /\ UNCHANGED <<dispatch, attempt, out, queue, running>>

TryAgain(j) ==
  /\ pc[j] = "backoff"
  /\ pc' = [pc EXCEPT ![j] = "call"]
  /\ attempt' = [attempt EXCEPT ![j] = @ + 1]
  /\ UNCHANGED <<lim, dispatch, out, queue, running, won>>

\* A fork of this case has been in a watchdog, so there may be a sheet.
MayHaveSheet(j) == dispatch[j] > 0 \/ attempt[j] > 0 \/ Fork(j) \notin Range(queue)

\* The permit is given back. The case is done, or its sheet is suspect and
\* a new call is made for it.
Release(j) ==
  /\ pc[j] = "release"
  /\ lim' = Released(lim)
  /\ \/ /\ pc' = [pc EXCEPT ![j] = "done"]
        /\ UNCHANGED <<dispatch, attempt>>
     \/ /\ dispatch[j] < Reworks
        /\ MayHaveSheet(j)
        /\ pc' = [pc EXCEPT ![j] = "start"]
        /\ dispatch' = [dispatch EXCEPT ![j] = @ + 1]
        /\ attempt' = [attempt EXCEPT ![j] = 0]
  /\ UNCHANGED <<out, queue, running, won>>

-----------------------------------------------------------------------------
(* The watchdog pool.                                                      *)

StartFork ==
  /\ queue # <<>>
  /\ Cardinality(running) < Watchdogs
  /\ queue' = Tail(queue)
  /\ running' = running \cup {Head(queue)}
  /\ UNCHANGED <<lim, pc, dispatch, attempt, out, won>>

\* A fork ends; its caller gets the result if it still waits for this fork.
EndFork(f) ==
  /\ f \in running
  /\ running' = running \ {f}
  /\ LET j == f[1]
     IN  IF pc[j] = "waiting" /\ f = Fork(j)
           THEN /\ pc' = [pc EXCEPT ![j] = "record"]
                /\ \E result \in {"transient", "answer"} :
                     out' = [out EXCEPT ![j] = result]
           ELSE UNCHANGED <<pc, out>>
  /\ UNCHANGED <<lim, dispatch, attempt, queue, won>>

-----------------------------------------------------------------------------

Thread(j) ==
  Acquire(j) \/ Submit(j) \/ TimeOut(j) \/ Record(j) \/ TryAgain(j) \/ Release(j)

Next ==
  \/ \E j \in Jobs : Thread(j)
  \/ StartFork
  \/ \E f \in running : EndFork(f)

Spec == Init /\ [][Next]_vars

\* The threads of the wave run; forks may hang for ever.
FairSpec == Spec /\ \A j \in Jobs : WF_vars(Thread(j))

-----------------------------------------------------------------------------
(* Properties.                                                             *)

Steps == {"start", "call", "waiting", "record", "backoff", "release", "done"}
Forks == Jobs \X Nat \X Nat

\* Every variable has its type; the limit stays within its bounds and a call
\* within its attempts (resilience.py:87-91, 364).
TypeOK ==
  /\ lim \in [limit : Lo .. Hi, active : Nat, succ : Nat]
  /\ pc \in [Jobs -> Steps]
  /\ dispatch \in [Jobs -> 0 .. Reworks]
  /\ attempt \in [Jobs -> 0 .. Retries]
  /\ out \in [Jobs -> {"none", "transient", "answer", "wallclock"}]
  /\ queue \in Seq(Forks)
  /\ running \subseteq Forks
  /\ won \in Nat

Holders == {j \in Jobs : pc[j] \notin {"start", "done"}}

\* The limiter counts the threads that hold a permit, whatever limit they were
\* admitted under, and a thread is admitted only where that leaves no more of
\* them than the limit of that moment (resilience.py:96-105,
\* compile_pipeline.py:819).
PermitsCounted ==
  /\ [](lim.active = Cardinality(Holders))
  /\ [][Holders' \subseteq Holders \/ Cardinality(Holders') <= lim.limit]_vars

\* A raise is earned under the limit it raises: that many successes were
\* reported since it last moved, none of them from before an overload, whatever
\* the order in which the threads report (resilience.py:117-131).
GrowthEarned == [][lim'.limit > lim.limit => won + 1 >= lim.limit]_vars

\* In one call of the executor no fork starts while another lives: two forks of
\* one case write the same sheet (resilience.py:297-298).
OneForkPerCall ==
  \A f, g \in Live : f[1] = g[1] /\ f[2] = g[2] => f = g

\* Every thread of the wave gets its permit and returns, even when every fork
\* hangs (resilience.py:294-300).
AllReturn == <>(\A j \in Jobs : pc[j] = "done")
=============================================================================
