------------------------------- MODULE DeviceBed -------------------------------
(***************************************************************************)
(* Calls of dev_run_batch that share the test beds: the mutex of their     *)
(* process, the claim of an environment (env_pool), the search for a run   *)
(* left on the bed, the delivery of the volume, the lock file and the      *)
(* detached runner on the jump host, and the logs the verdicts are read    *)
(* from. Each call delivers a volume of its own into the same staging      *)
(* directory, so a volume is named by its call.                            *)
(***************************************************************************)
EXTENDS FiniteSets

CONSTANTS
  Calls,     \* calls of dev_run_batch, each made once
  Procs,     \* the processes of the host that make them
  ProcOf,    \* [Calls -> Procs]
  Envs,      \* environments: a jump host with a bed of its own
  None,
  Faults     \* which of FaultKinds may happen

FaultKinds == {
  "unpooled",   \* the environment is used without a claim: pool off or failing
  "blind",      \* the search for a run left on the bed may fail
  "epoch",      \* the clock of the jump host is not read, or within its slack
  "submit",     \* a call may end before its submission does: its process dies, or
                \* the answer of the script is lost or late
  "setsid" }    \* setsid(1) forks, so the pid in the lock file is that of a dead process

ASSUME BedAssumption ==
  /\ ProcOf \in [Calls -> Procs]
  /\ Envs # {}
  /\ None \notin Calls \cup Envs
  /\ Faults \subseteq FaultKinds

VARIABLES
  pc,       \* the stage of each call
  script,   \* the stage of its submission script on the jump host
  mutex,    \* _RUN_MUTEX of each process: the call that holds it
  claim,    \* the call that holds the lock of each environment
  at,       \* the environment a call uses
  staged,   \* the volume in the staging directory of an environment
  lock,     \* its lock file: who created it, and whether the pid is in it
  run,      \* the runner started for a call
  loaded,   \* the volume the pytest of that runner has read
  log,      \* the run that wrote the log of an environment last
  fresh,    \* calls for which that log is not older than their delivery
  got       \* the run whose log gave a call its verdicts

client == <<mutex, claim, at, got>>
remote == <<script, staged, lock, loaded, log, fresh, run>>
vars == <<pc, client, remote>>

Held == {"claim", "probe", "reprobe", "deliver", "epoch", "submit", "wait", "fetch"}
Starting == {"try", "read", "unlink", "retry", "reread", "reunlink", "spawn"}
Ended == {"busy", "refused", "error", "done", "dead"}
Placed == Held \ {"claim"}
Stages == {"idle"} \cup Held \cup Ended

RunStates == {"none", "spawned", "pytest", "exited", "reported", "over"}
Locks == [by : Calls, pid : BOOLEAN]

(* Types, and: an environment is claimed by a call that is at work in it.  *)
TypeOK ==
  /\ pc \in [Calls -> Stages]
  /\ script \in [Calls -> {"none", "stamp", "over"} \cup Starting]
  /\ mutex \in [Procs -> Calls \cup {None}]
  /\ claim \in [Envs -> Calls \cup {None}]
  /\ at \in [Calls -> Envs \cup {None}]
  /\ staged \in [Envs -> Calls \cup {None}]
  /\ lock \in [Envs -> Locks \cup {None}]
  /\ run \in [Calls -> RunStates]
  /\ loaded \in [Calls -> Calls \cup {None}]
  /\ log \in [Envs -> Calls \cup {None}]
  /\ fresh \subseteq Calls
  /\ got \in [Calls -> Calls \cup {None}]
  /\ \A e \in Envs : claim[e] # None => at[claim[e]] = e /\ pc[claim[e]] \in Placed

Init ==
  /\ pc = [c \in Calls |-> "idle"]
  /\ script = [c \in Calls |-> "none"]
  /\ mutex = [p \in Procs |-> None]
  /\ claim = [e \in Envs |-> None]
  /\ at = [c \in Calls |-> None]
  /\ staged = [e \in Envs |-> None]
  /\ lock = [e \in Envs |-> None]
  /\ run = [c \in Calls |-> "none"]
  /\ loaded = [c \in Calls |-> None]
  /\ log = [e \in Envs |-> None]
  /\ fresh = {}
  /\ got = [c \in Calls |-> None]

-----------------------------------------------------------------------------
(* A call in its process. Definitions named Mutant... are faulty variants  *)
(* that no definition uses.                                                *)

Goto(c, s) == pc' = [pc EXCEPT ![c] = s]
Script(c, s) == script' = [script EXCEPT ![c] = s]

(* The call returns: its ExitStack gives back the environment and the mutex. *)
MutantReturnsKeepsClaim(c, s) ==
  /\ Goto(c, s)
  /\ mutex' = [mutex EXCEPT ![ProcOf[c]] = IF @ = c THEN None ELSE @]
  /\ UNCHANGED claim
Returns(c, s) ==
  /\ Goto(c, s)
  /\ claim' = [e \in Envs |-> IF claim[e] = c THEN None ELSE claim[e]]
  /\ mutex' = [mutex EXCEPT ![ProcOf[c]] = IF @ = c THEN None ELSE @]

Enter(c) ==
  /\ pc[c] = "idle"
  /\ IF mutex[ProcOf[c]] = None
     THEN /\ mutex' = [mutex EXCEPT ![ProcOf[c]] = c]
          /\ Goto(c, "claim")
     ELSE Goto(c, "busy") /\ UNCHANGED mutex
  /\ UNCHANGED <<claim, at, got, remote>>

(* acquire tries the environments found healthy, or the first of all when  *)
(* none is; health is looked up per environment and cached, so any answer  *)
(* may be seen.                                                            *)
Home == CHOOSE e \in Envs : TRUE
Candidates == (SUBSET Envs \ {{}}) \cup {{Home}}

Free(e) == claim[e] = None

(* With the pool off or failing the home bed is used without a claim.      *)
Pooled == {TRUE} \cup (IF "unpooled" \in Faults THEN {FALSE} ELSE {})

Claim(c) ==
  /\ pc[c] = "claim"
  /\ \E e \in Envs, pooled \in Pooled :
       /\ IF pooled THEN Free(e) ELSE e = Home
       /\ claim' = [claim EXCEPT ![e] = IF pooled THEN c ELSE @]
       /\ at' = [at EXCEPT ![c] = e]
  /\ Goto(c, "probe")
  /\ UNCHANGED <<mutex, got, remote>>

ClaimTimesOut(c) ==
  /\ pc[c] = "claim"
  /\ \E ready \in Candidates : \A e \in ready : ~Free(e)
  /\ Returns(c, "busy")
  /\ UNCHANGED <<at, got, remote>>

(* ps on the jump host shows a pytest once its runner has started it.      *)
Visible(e) == \E r \in Calls : at[r] = e /\ run[r] = "pytest"
MutantProbed(e) == {FALSE}
Probed(e) == {Visible(e)} \cup (IF "blind" \in Faults THEN {FALSE} ELSE {})

(* With force_clean the pytests are killed, which may fail, and the search *)
(* is repeated once; their runners live on.                                *)
Probe(c) ==
  /\ pc[c] = "probe"
  /\ \E seen \in Probed(at[c]), clean, killed \in BOOLEAN :
       \/ ~seen /\ Goto(c, "deliver") /\ UNCHANGED <<mutex, claim, run>>
       \/ seen /\ ~clean /\ Returns(c, "refused") /\ UNCHANGED run
       \/ /\ seen /\ clean
          /\ Goto(c, "reprobe")
          /\ run' = [r \in Calls |-> IF killed /\ at[r] = at[c] /\ run[r] = "pytest"
                                     THEN "exited" ELSE run[r]]
          /\ UNCHANGED <<mutex, claim>>
  /\ UNCHANGED <<at, got, script, staged, lock, loaded, log, fresh>>

Reprobe(c) ==
  /\ pc[c] = "reprobe"
  /\ \E seen \in Probed(at[c]) :
       IF seen THEN Returns(c, "refused")
       ELSE Goto(c, "deliver") /\ UNCHANGED <<mutex, claim>>
  /\ UNCHANGED <<at, got, remote>>

Deliver(c) ==
  /\ pc[c] = "deliver"
  /\ \/ Goto(c, "epoch") /\ staged' = [staged EXCEPT ![at[c]] = c] /\ UNCHANGED <<mutex, claim>>
     \/ Returns(c, "error") /\ UNCHANGED staged
  /\ UNCHANGED <<at, got, script, lock, loaded, log, fresh, run>>

(* From here on a log counts as this run's only when written later.        *)
Rebased(c) == {fresh \ {c}} \cup (IF "epoch" \in Faults THEN {fresh \cup {c}} ELSE {})
TakeEpoch(c) ==
  /\ pc[c] = "epoch"
  /\ fresh' \in Rebased(c)
  /\ Goto(c, "submit")
  /\ Script(c, "try")
  /\ UNCHANGED <<client, staged, lock, loaded, log, run>>

-----------------------------------------------------------------------------
(* The submission, a script on the jump host. It runs to its end whatever  *)
(* becomes of its call.                                                    *)

(* The script ends; if its call still waits for the answer, it goes on.    *)
Answers(c, s) ==
  /\ Script(c, "over")
  /\ IF pc[c] # "submit" THEN UNCHANGED <<pc, mutex, claim>>
     ELSE IF s = "busy" THEN Returns(c, s)
     ELSE Goto(c, s) /\ UNCHANGED <<mutex, claim>>

(* O_CREAT with O_EXCL: the file is created empty.                         *)
CreateLock(c, again) ==
  /\ script[c] = (IF again THEN "retry" ELSE "try")
  /\ IF lock[at[c]] = None
     THEN /\ lock' = [lock EXCEPT ![at[c]] = [by |-> c, pid |-> FALSE]]
          /\ Script(c, "spawn")
     ELSE Script(c, IF again THEN "reread" ELSE "read") /\ UNCHANGED lock
  /\ UNCHANGED <<pc, client, staged, loaded, log, fresh, run>>

(* What kill(pid, 0) says of the holder; an empty or missing file reads as *)
(* no holder.                                                              *)
Alive(e) ==
  LET l == lock[e]
  IN IF l # None /\ l.pid /\ run[l.by] \in {"spawned", "pytest", "exited", "reported"}
     THEN {TRUE} \cup (IF "setsid" \in Faults THEN {FALSE} ELSE {})
     ELSE {FALSE}

(* To the call a lost answer is a submission that failed.                  *)
ReadLock(c, again) ==
  /\ script[c] = (IF again THEN "reread" ELSE "read")
  /\ \E alive \in Alive(at[c]) :
       IF alive THEN \E s \in {"busy", "fetch"} : Answers(c, s)
       ELSE /\ Script(c, IF again THEN "reunlink" ELSE "unlink")
            /\ UNCHANGED <<pc, mutex, claim>>
  /\ UNCHANGED <<at, got, staged, lock, loaded, log, fresh, run>>

Unlink(c, again) ==
  /\ script[c] = (IF again THEN "reunlink" ELSE "unlink")
  /\ lock' = [lock EXCEPT ![at[c]] = None]
  /\ IF again THEN \E s \in {"busy", "fetch"} : Answers(c, s)
     ELSE Script(c, "retry") /\ UNCHANGED <<pc, mutex, claim>>
  /\ UNCHANGED <<at, got, staged, loaded, log, fresh, run>>

Spawn(c) ==
  /\ script[c] = "spawn"
  /\ run' = [run EXCEPT ![c] = "spawned"]
  /\ Script(c, "stamp")
  /\ UNCHANGED <<pc, client, staged, lock, loaded, log, fresh>>

(* The pid goes to the file this script created, which may be unlinked.    *)
Stamp(c) ==
  /\ script[c] = "stamp"
  /\ lock' = IF lock[at[c]] = [by |-> c, pid |-> FALSE]
             THEN [lock EXCEPT ![at[c]] = [by |-> c, pid |-> TRUE]] ELSE lock
  /\ Answers(c, "wait")
  /\ UNCHANGED <<at, got, staged, loaded, log, fresh, run>>

(* The script does not start, or fails before it spawns and leaves the     *)
(* lock empty. The call looks for logs all the same.                       *)
ScriptFails(c) ==
  /\ script[c] \in {"try", "spawn"}
  /\ Answers(c, "fetch")
  /\ UNCHANGED <<at, got, staged, lock, loaded, log, fresh, run>>

(* The connection drops, or says nothing for a minute: to the call its     *)
(* submission failed, and what is on the jump host goes on.                *)
OnTheWay(c) == script[c] \in Starting \/ run[c] = "spawned"
AnswerLost(c) ==
  /\ pc[c] = "submit"
  /\ "submit" \in Faults \/ ~OnTheWay(c)
  /\ Goto(c, "fetch")
  /\ UNCHANGED <<client, remote>>

-----------------------------------------------------------------------------
(* The wait for the run, and the verdicts.                                 *)

(* The status file says done, or the deadline of the whole run has passed, *)
(* which a start that is still under way does not reach.                   *)
MutantStopsWaiting(c) == run[c] \in {"reported", "over"}
StopsWaiting(c) == run[c] # "spawned"
Poll(c) ==
  /\ pc[c] = "wait"
  /\ StopsWaiting(c)
  /\ Goto(c, "fetch")
  /\ UNCHANGED <<client, remote>>

MutantVerdicts(c) == log[at[c]]
Verdicts(c) == IF c \in fresh THEN log[at[c]] ELSE None

Fetch(c) ==
  /\ pc[c] = "fetch"
  /\ got' = [got EXCEPT ![c] = Verdicts(c)]
  /\ Returns(c, "done")
  /\ UNCHANGED <<at, remote>>

(* The process dies: its mutex is gone and the system drops its claims.    *)
Die(p) ==
  LET c == mutex[p]
  IN /\ c # None
     /\ "submit" \in Faults \/ ~OnTheWay(c)
     /\ Goto(c, "dead")
     /\ mutex' = [mutex EXCEPT ![p] = None]
     /\ claim' = [e \in Envs |-> IF claim[e] = c THEN None ELSE claim[e]]
     /\ UNCHANGED <<at, got, remote>>

-----------------------------------------------------------------------------
(* The runner on the jump host: pytest reads the volume that is staged     *)
(* when it starts, writes logs, ends or is killed; then the runner writes  *)
(* the status and removes the lock file, whoever created it.               *)

RunStarts(r) ==
  /\ run[r] = "spawned"
  /\ run' = [run EXCEPT ![r] = "pytest"]
  /\ loaded' = [loaded EXCEPT ![r] = staged[at[r]]]
  /\ UNCHANGED <<pc, client, script, staged, lock, log, fresh>>

WriteLog(r) ==
  /\ run[r] = "pytest"
  /\ log' = [log EXCEPT ![at[r]] = r]
  /\ fresh' = fresh \cup {c \in Calls : at[c] = at[r]}
  /\ UNCHANGED <<pc, client, script, staged, lock, loaded, run>>

PytestEnds(r) ==
  /\ run[r] = "pytest"
  /\ run' = [run EXCEPT ![r] = "exited"]
  /\ UNCHANGED <<pc, client, script, staged, lock, loaded, log, fresh>>

WriteStatus(r) ==
  /\ run[r] = "exited"
  /\ run' = [run EXCEPT ![r] = "reported"]
  /\ UNCHANGED <<pc, client, script, staged, lock, loaded, log, fresh>>

RemoveLock(r) ==
  /\ run[r] = "reported"
  /\ run' = [run EXCEPT ![r] = "over"]
  /\ lock' = [lock EXCEPT ![at[r]] = None]
  /\ UNCHANGED <<pc, client, script, staged, loaded, log, fresh>>

-----------------------------------------------------------------------------
Submission(c) ==
  \/ \E again \in BOOLEAN : CreateLock(c, again) \/ ReadLock(c, again) \/ Unlink(c, again)
  \/ Spawn(c) \/ Stamp(c) \/ ScriptFails(c)

Call(c) ==
  \/ Claim(c) \/ ClaimTimesOut(c) \/ Probe(c) \/ Reprobe(c) \/ Deliver(c) \/ TakeEpoch(c)
  \/ AnswerLost(c) \/ Poll(c) \/ Fetch(c)

Runner(r) ==
  RunStarts(r) \/ WriteLog(r) \/ PytestEnds(r) \/ WriteStatus(r) \/ RemoveLock(r)

Next ==
  \/ \E c \in Calls : Enter(c) \/ Call(c) \/ Submission(c) \/ Runner(c)
  \/ \E p \in Procs : Die(p)

Spec == Init /\ [][Next]_vars

(* Live processes take their calls' next steps, scripts their own, and     *)
(* runners that were started start pytest. There are finitely many such    *)
(* steps, so it is enough that not all of them are put off for ever.       *)
(* Nothing promises that a pytest ends.                                    *)
FairSpec ==
  /\ Spec
  /\ WF_vars(\E c \in Calls : Call(c) \/ Submission(c) \/ RunStarts(c))

-----------------------------------------------------------------------------
(* Properties.                                                             *)

(* At most one pytest runs on a bed: two would overwrite each other's      *)
(* configuration of the device (batch_tools.py:48-52).                     *)
OneRunAtATime ==
  \A r, q \in Calls :
    run[r] = "pytest" /\ run[q] = "pytest" /\ at[r] = at[q] => r = q

(* The verdicts a call returns come from a run of the volume it delivered, *)
(* whatever ran on the bed before, was interrupted or was killed.          *)
VerdictsOfOwnVolume ==
  \A c \in Calls : got[c] # None => loaded[got[c]] = c

(* BedService, of the volumes that the pytests on a bed have read. A call  *)
(* names the volume it delivers.                                           *)
Started == {r \in Calls : run[r] \notin {"none", "spawned"}}
Testing ==
  [e \in Envs |-> {loaded[r] : r \in {q \in Calls : run[q] = "pytest" /\ at[q] = e}}]
Tested == {loaded[r] : r \in Started}
Heard == [c \in Calls |-> IF got[c] = None THEN None ELSE loaded[got[c]]]

Service == INSTANCE BedService
  WITH Volumes <- Calls, Beds <- Envs, testing <- Testing, tested <- Tested, heard <- Heard

(* A bed tests one volume at a time and each once, and a call hears the    *)
(* verdicts of its own, however calls and runs overlap, are killed, die or *)
(* are refused (batch_tools.py:48-52, 515-532).                            *)
ServesVolumes == Service!Spec

(* Every call that is made returns or dies with its process, however long  *)
(* the bed stays occupied: in the end none is at work                      *)
(* (batch_tools.py:515-532).                                               *)
CallsReturn == <>[](\A c \in Calls : pc[c] \notin Held)
=============================================================================
