------------------------------ MODULE ProbeFlight ------------------------------
(***************************************************************************)
(* dev_probe: the drafts of a compile run ask the device one and the same  *)
(* read-only command. The first of a run leads and probes, the others wait *)
(* at its entry of the run's bucket; a failed answer is taken out of the   *)
(* bucket. An entry is named by the caller that made it. Callers stand for *)
(* calls: a draft that asks again is another caller.                       *)
(***************************************************************************)
EXTENDS Naturals, FiniteSets

CONSTANTS
  Callers,
  Runs,   \* run tokens
  None,   \* no entry; the token of a caller outside of any run
  Owner   \* the run each caller is made in

ASSUME FlightAssumption ==
  /\ None \notin Callers \cup Runs
  /\ Owner \in [Callers -> Runs \cup {None}]

VARIABLES
  pc,      \* the stage of each call
  bucket,  \* _PROBE_RUN_CACHE at the command: the entry of each run
  at,      \* the entry a waiter waits at
  raw,     \* what the probe of a leader answered
  result,  \* the result in a leader's entry
  event,   \* entries whose event is set
  got,     \* whose probe answered a call
  over,    \* runs whose bucket was cleared
  late     \* history: calls that waited too long for their leader

vars == <<pc, bucket, at, raw, result, event, got, over, late>>

Leading == {"probe", "sort", "fill", "set"}
Stages == {"away", "wait", "bare", "done"} \cup Leading
Answers == {"none", "echo", "failed"}

\* Types; the entry in a bucket, and the one a waiter waits at, is of the run
\* (run_case.py:394-400).
TypeOK ==
  /\ pc \in [Callers -> Stages]
  /\ bucket \in [Runs -> Callers \cup {None}]
  /\ at \in [Callers -> Callers \cup {None}]
  /\ raw \in [Callers -> Answers]
  /\ result \in [Callers -> Answers]
  /\ event \subseteq Callers
  /\ got \in [Callers -> Callers \cup {None}]
  /\ over \subseteq Runs /\ late \subseteq Callers
  /\ \A r \in Runs : bucket[r] # None => Owner[bucket[r]] = r
  /\ \A c \in Callers : pc[c] = "wait" => at[c] # None /\ Owner[at[c]] = Owner[c]

Init ==
  /\ pc = [c \in Callers |-> "away"]
  /\ bucket = [r \in Runs |-> None]
  /\ at = [c \in Callers |-> None]
  /\ raw = [c \in Callers |-> "none"]
  /\ result = [c \in Callers |-> "none"]
  /\ event = {}
  /\ got = [c \in Callers |-> None]
  /\ over = {} /\ late = {}

Goto(c, s) == pc' = [pc EXCEPT ![c] = s]

-----------------------------------------------------------------------------
(* A call. Definitions named Mutant... are faulty variants that no         *)
(* definition uses.                                                        *)

MutantFirstAgain(c) == bucket[Owner[c]] = None \/ bucket[Owner[c]] \in event
MutantFirstInTime(c) == bucket[Owner[c]] = None /\ Owner[c] \notin over
First(c) == bucket[Owner[c]] = None

\* Outside of a run the device is asked at once. In a run the entry is looked
\* up, and made if there is none, under the lock.
Enter(c) ==
  /\ pc[c] = "away"
  /\ IF Owner[c] = None
       THEN Goto(c, "bare") /\ UNCHANGED <<bucket, at>>
       ELSE IF First(c)
       THEN /\ Goto(c, "probe")
            /\ bucket' = [bucket EXCEPT ![Owner[c]] = c]
            /\ UNCHANGED at
       ELSE /\ Goto(c, "wait")
            /\ at' = [at EXCEPT ![c] = bucket[Owner[c]]]
            /\ UNCHANGED bucket
  /\ UNCHANGED <<raw, result, event, got, over, late>>

Probed(c) ==
  /\ pc[c] = "probe"
  /\ \E answer \in {"echo", "failed"} : raw' = [raw EXCEPT ![c] = answer]
  /\ Goto(c, "sort")
  /\ UNCHANGED <<bucket, at, result, event, got, over, late>>

\* _probe_uncacheable: a failed answer makes room for another probe, whatever
\* entry stands in the bucket by then.
MutantKept(c) == bucket
Kept(c) ==
  IF raw[c] = "failed" THEN [bucket EXCEPT ![Owner[c]] = None] ELSE bucket

Sort(c) ==
  /\ pc[c] = "sort"
  /\ bucket' = Kept(c)
  /\ Goto(c, "fill")
  /\ UNCHANGED <<at, raw, result, event, got, over, late>>

Fill(c) ==
  /\ pc[c] = "fill"
  /\ result' = [result EXCEPT ![c] = raw[c]]
  /\ Goto(c, "set")
  /\ UNCHANGED <<bucket, at, raw, event, got, over, late>>

SetEvent(c) ==
  /\ pc[c] = "set"
  /\ event' = event \cup {c}
  /\ got' = [got EXCEPT ![c] = c]
  /\ Goto(c, "done")
  /\ UNCHANGED <<bucket, at, raw, result, over, late>>

\* An exception that no handler takes ends the leader anywhere before its
\* result is in the entry: the event is set over no result.
MutantReleased(c) == event
Released(c) == event \cup {c}

Dies(c) ==
  /\ pc[c] \in {"probe", "sort", "fill"}
  /\ event' = Released(c)
  /\ Goto(c, "done")
  /\ UNCHANGED <<bucket, at, raw, result, got, over, late>>

\* A waiter takes the result, and probes for itself if there is none.
Wake(c) ==
  /\ pc[c] = "wait"
  /\ at[c] \in event
  /\ IF result[at[c]] = "none"
       THEN Goto(c, "bare") /\ UNCHANGED got
       ELSE Goto(c, "done") /\ got' = [got EXCEPT ![c] = at[c]]
  /\ UNCHANGED <<bucket, at, raw, result, event, over, late>>

TimeOut(c) ==
  /\ pc[c] = "wait"
  /\ at[c] \notin event
  /\ late' = late \cup {c}
  /\ Goto(c, "bare")
  /\ UNCHANGED <<bucket, at, raw, result, event, got, over>>

Bare(c) ==
  /\ pc[c] = "bare"
  /\ got' = [got EXCEPT ![c] = c]
  /\ Goto(c, "done")
  /\ UNCHANGED <<bucket, at, raw, result, event, over, late>>

-----------------------------------------------------------------------------

\* The pipeline is done with the run; forks it gave up may still call.
EndRun(r) ==
  /\ r \notin over
  /\ over' = over \cup {r}
  /\ bucket' = [bucket EXCEPT ![r] = None]
  /\ UNCHANGED <<pc, at, raw, result, event, got, late>>

\* What a call does of itself, the wait's clock apart.
Work(c) == Probed(c) \/ Sort(c) \/ Fill(c) \/ SetEvent(c) \/ Wake(c) \/ Bare(c)

Next ==
  \/ \E c \in Callers : Enter(c) \/ Work(c) \/ Dies(c) \/ TimeOut(c)
  \/ \E r \in Runs : EndRun(r)

Spec == Init /\ [][Next]_vars

\* The device answers or the client gives up; no clock is relied on.
FairSpec == Spec /\ \A c \in Callers : WF_vars(Work(c))

-----------------------------------------------------------------------------
(* Properties.                                                             *)

\* A call has put the question to the device itself, as a leader or alone.
Leads(c) == pc[c] \in Leading \/ c \in event
Asks(c) == Leads(c) \/ pc[c] = "bare" \/ got[c] = c

\* A leader that died left an entry with no result, which stays in the bucket.
Died(d) == d \in event /\ got[d] # d

\* Why a call may ask beside another one of its run: its own answer failed, it
\* waited too long, or it woke to the entry of a leader that died.
Excused(c) == raw[c] = "failed" \/ c \in late \/ (at[c] # None /\ Died(at[c]))

\* While a run lasts, no two of its calls ask the device but for these three
\* reasons. The comment of the code promises one real probe of a run without
\* an exception (run_case.py:187-192); the code has the last two
\* (run_case.py:413-416).
OneProbe ==
  \A c, d \in Callers :
    /\ Owner[c] = Owner[d] /\ Owner[c] \in Runs \ over
    /\ Asks(c) /\ Asks(d)
    /\ ~Excused(c) /\ ~Excused(d)
    => c = d

\* No call joins an entry whose failure was already handed out: who asks
\* after a failure asks the device again (run_case.py:405-407).
FailuresNotServed ==
  [][\A c \in Callers :
       pc[c] = "away" /\ pc'[c] = "wait" =>
         ~(at'[c] \in event /\ result[at'[c]] = "failed")]_vars

\* No waiter needs its clock: whatever becomes of the leader, every call
\* returns (run_case.py:409-410).
CallsAnswered == \A c \in Callers : pc[c] # "away" ~> pc[c] = "done"
=============================================================================
