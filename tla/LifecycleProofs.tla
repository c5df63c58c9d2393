--------------------------- MODULE LifecycleProofs ---------------------------
(***************************************************************************)
(* CompileEngine implements CaseLifecycle as long as no fork writes a      *)
(* sheet past its wall clock (LifecycleImplemented), and a call that       *)
(* reports "all passed" delivers what was run, when also the emitter does  *)
(* what it is asked and a failed device run leaves no older last_run.json. *)
(*                                                                         *)
(* What has to be shown first is that a case enters "passed" only with a   *)
(* sheet the bed has passed: that what this round has merged and run is of *)
(* the sheets on disk, or of cases no verdict is awaited for (StaleInv).   *)
(* What a delivery may say rests on more: that the volume to run holds all *)
(* the sheets that wait for a verdict (OrderlyInv), and that passed cases  *)
(* keep the sheets they are locked to (LockInv).                           *)
(*                                                                         *)
(* That a call which nothing disturbs decides every case needs no such     *)
(* hypothesis: whatever fails, what waits for a verdict is in the volume   *)
(* that merge hands to the bed, and that run is the first of its round     *)
(* (FirstRunInv, NoCaseInLimbo).                                           *)
(***************************************************************************)
EXTENDS CompileEngineProofs

\* Forks stop at their wall clock, and the emitter does what it is asked.
Orderly == ~Zombies /\ ~ToolFaults

Faultless == Orderly /\ ~DigestFaults

\* Where a call is when nothing is left to do for the batch.
Closing == {"END", "prep", "worker_fanout", "report"}

\* A case waiting for a verdict has its sheet. Sheets of passed cases go only
\* when the batch is done, and a done batch never merges again. The deployed
\* emitter never writes a subset volume.
HeldInv ==
  /\ OutNameFromEnv => vol["sub"].stamp = 0
  /\ \A c \in Cases : st[c] \in Retried \/ got[c] \in {"produced", "fresh"}
                      => xlsx[c] # 0
  /\ (\E c \in Cases : st[c] = "passed" /\ xlsx[c] = 0)
       => next \in Closing /\ \A d \in Cases : st[d] \in Terminal

-----------------------------------------------------------------------------
(* Sheets: HeldInv, late forks or not.                                     *)

\* Into a state that waits for a verdict a case comes with a sheet.
LEMMA RetriedHasSheet ==
  ASSUME EngineInv, HeldInv, [Next]_vars, NEW c \in Cases, st'[c] \in Retried
  PROVE  xlsx[c] # 0
<1>1. CASE st[c] \in Retried
  BY <1>1 DEF HeldInv
<1>2. CASE st[c] \notin Retried
  <2>1. <<st[c], st'[c]>> \in Legal
    BY <1>2, StepMoves DEF Move
  <2>2. st[c] = "dispatched" /\ st'[c] = "produced"
    BY <1>2, <2>1 DEF Legal, Retried
  <2>3. CASE Prep
    BY <2>2, <2>3 DEF Prep, Recovered
  <2>4. CASE Collect
    BY <2>2, <2>4 DEF Collect, HeldInv
  <2>5. ~(Dispatch \/ AskNobody \/ AskUser \/ Consume \/ Attribute)
    <3>1. Dispatch => st'[c] = st[c] \/ st'[c] = "dispatched"
      BY DEF Dispatch
    <3>2. AskNobody \/ AskUser => st'[c] = st[c]
      BY <2>2 DEF AskNobody, AskUser, Presettled, Undecided
    <3>3. Consume => st'[c] = st[c]
      BY <2>2 DEF Consume, JudgedState
    <3>4. Attribute => st'[c] = st[c]
      BY <2>2, AttributeOutcomes
    <3>5. QED
      BY <2>2, <3>1, <3>2, <3>3, <3>4
  <2>6. QED
    BY <2>2, <2>3, <2>4, <2>5, StatelessSteps
<1>3. QED
  BY <1>1, <1>2

\* Sheets are written by forks, and go with a batch that is done.
LEMMA SheetSteps ==
  ASSUME EngineInv, [Next]_vars
  PROVE  \/ xlsx' = xlsx /\ \A c \in Cases : got'[c] \in {got[c], "idle", "running"}
         \/ \E c \in Cases : Worker(c) \/ ZombieWrites(c)
         \/ /\ next = "report" /\ st' = st /\ (\A c \in Cases : st[c] \in Terminal)
            /\ next' \in Closing /\ \A c \in Cases : got'[c] = "idle"
<1>1. CASE Report
  <2>1. /\ next = "report" /\ st' = st /\ \A c \in Cases : got'[c] = "idle"
        /\ next' \in Closing
    BY <1>1 DEF Report, At, Leave, Die, After, Closing
  <2>2. xlsx' = xlsx \/ \A c \in Cases : st[c] \in Terminal
    <3>1. Outcome \in {"delivered_all_pass", "delivered_with_labels"}
            => \A c \in Cases : st[c] \in Terminal
      BY DEF Outcome, Terminal
    <3>2. QED
      BY <1>1, <3>1 DEF Report, KeepTemp, caseFiles
  <2>3. QED
    BY <2>1, <2>2
<1>2. CASE Step /\ ~Report /\ ~ \E c \in Cases : Worker(c)
  <2>1. xlsx' = xlsx
    BY <1>2 DEF Step, Prep, FanoutEmpty, Dispatch, Collect, AskNobody, AskUser,
       MergeRefused, Merge, DeviceRun, KeepRun, RunFails, Consume, AttributeNothing,
       Attribute, Writeback, caseFiles
  <2>2. ASSUME NEW n, NEW k, Leave(n, k) \/ Die PROVE \A c \in Cases : got'[c] = "idle"
    BY <2>2 DEF Leave, Die
  <2>3. \A c \in Cases : got'[c] \in {got[c], "idle", "running"}
    BY <1>2, <2>2 DEF Step, Prep, FanoutEmpty, Dispatch, Collect, AskNobody, AskUser,
       MergeRefused, Merge, DeviceRun, KeepRun, RunFails, Consume, AttributeNothing,
       Attribute, Writeback
  <2>4. QED
    BY <2>1, <2>3
<1>3. CASE Call \/ Crash \/ UNCHANGED vars
  BY <1>3 DEF Call, Crash, Die, vars, caseFiles
<1>4. QED
  BY <1>1, <1>2, <1>3 DEF Next

\* A passed case without its sheet is of a batch that is done, which can only
\* close.
LEMMA DoneCloses ==
  ASSUME EngineInv, EngineInv', [Next]_vars, next \in Closing,
         \A d \in Cases : st[d] \in Terminal \cup {"awaiting_user"}
  PROVE  next' \in Closing /\ \A d \in Cases : st'[d] = st[d]
<1>1. \A d \in Cases : st[d] # "dispatched"
  BY DEF Terminal
<1>2. \A d \in Cases : st'[d] = st[d]
  <2>1. CASE Prep
    BY <2>1 DEF Prep, Recovered, Terminal
  <2>2. CASE Dispatch
    BY <2>2 DEF Dispatch, InState, Terminal
  <2>3. CASE Collect
    BY <1>1, <2>3 DEF Collect, EngineInv, Inside
  <2>4. ~(AskNobody \/ AskUser \/ Consume \/ Attribute)
    BY DEF Closing, AskNobody, AskUser, Consume, Attribute, At, EngineInv, Inside
  <2>5. QED
    BY <2>1, <2>2, <2>3, <2>4, StatelessSteps
<1>3. next' \in Closing
  <2>1. DOMAIN st' = Cases
    BY DEF EngineInv, TypeOK, LedgerType, Maps
  <2>2. ~Some(st', "pending_decision") /\ ~Some(st', "produced") /\ ~Some(st', "failed_active")
    BY <1>2, <2>1 DEF Some, Terminal
  <2>3. ~Merge /\ ~Consume
    BY DEF Closing, Merge, Consume, At, EngineInv, Inside
  <2>4. QED
    BY <2>2, <2>3, QuietChannels DEF Closing, After, AfterPrep, AfterFanout, Nodes
<1>4. QED
  BY <1>2, <1>3

LEMMA SubsetNeverNamed ==
  ASSUME EngineInv, [Next]_vars, OutNameFromEnv, vol["sub"].stamp = 0
  PROVE  vol'["sub"].stamp = 0
<1>1. vol \in [Slots -> Volumes]
  BY DEF EngineInv, TypeOK, FilesType
<1>2. CASE Merge
  BY <1>1, <1>2 DEF Merge, Emit, EmitTo, volumes, Slots
<1>3. CASE Report
  <2>1. ASSUME NEW v \in Archived \cup {vol} PROVE v["sub"] = vol["sub"] /\ v \in [Slots -> Volumes]
    <3>1. Archived \subseteq [Slots -> Volumes]
      BY ArchivedType DEF EngineInv, TypeOK
    <3>2. QED
      BY <1>1, <3>1 DEF Archived, Slots
  <2>2. PICK v \in Archived \cup {vol} : CleanUp(v) \/ KeepTemp(v) \/ CleanUpStarts(v)
    BY <1>3 DEF Report
  <2>3. QED
    BY <2>1, <2>2 DEF CleanUp, KeepTemp, CleanUpStarts, NoVolume, Slots
<1>4. UNCHANGED vol \/ Merge \/ Report
  BY DEF Next, Step, Call, Crash, ZombieWrites, Prep, FanoutEmpty, Dispatch, Worker,
     Collect, AskNobody, AskUser, MergeRefused, DeviceRun, KeepRun, RunFails, Consume,
     AttributeNothing, Attribute, Writeback, vars, volumes
<1>5. QED
  BY <1>2, <1>3, <1>4

LEMMA NextKeepsHeld ==
  ASSUME EngineInv, EngineInv', HeldInv, [Next]_vars PROVE HeldInv'
<1>1. OutNameFromEnv => vol'["sub"].stamp = 0
  BY SubsetNeverNamed DEF HeldInv
<1>2. ASSUME NEW c \in Cases, Worker(c) \/ ZombieWrites(c) PROVE HeldInv'
  <2>1. st' = st /\ next' = next
    BY <1>2 DEF Worker, ZombieWrites, ledgerVars
  <2>2. xlsx \in Maps(Nat) /\ got \in Maps(Results)
    BY DEF EngineInv, TypeOK, FilesType, ProcessType
  <2>3. /\ \A d \in Cases : xlsx'[d] = xlsx[d] \/ xlsx'[d] # 0
        /\ \A d \in Cases : got'[d] \in {"produced", "fresh"} => xlsx'[d] # 0
    BY <1>2, <2>2 DEF Worker, WorkerProduces, WorkerUndecided, WorkerFails, ZombieWrites,
       HeldInv, Maps
  <2>4. QED
    BY <1>1, <2>1, <2>3 DEF HeldInv
<1>3. CASE /\ next = "report" /\ st' = st /\ (\A c \in Cases : st[c] \in Terminal)
           /\ next' \in Closing /\ \A c \in Cases : got'[c] = "idle"
  BY <1>1, <1>3 DEF HeldInv, Retried, Terminal
<1>4. CASE xlsx' = xlsx /\ \A c \in Cases : got'[c] \in {got[c], "idle", "running"}
  <2>1. \A c \in Cases : st'[c] \in Retried \/ got'[c] \in {"produced", "fresh"} => xlsx'[c] # 0
    BY <1>4, RetriedHasSheet DEF HeldInv
  <2>2. ASSUME NEW c \in Cases, st'[c] = "passed", xlsx'[c] = 0
        PROVE  next' \in Closing /\ \A d \in Cases : st'[d] \in Terminal
    <3>1. st[c] = "passed"
      <4>1. Move(st[c], st'[c])
        BY StepMoves
      <4>2. st[c] \in Retried \cup {"passed"}
        BY <2>2, <4>1 DEF Move, Legal, Retried
      <4>3. QED
        BY <1>4, <2>2, <4>2 DEF HeldInv
    <3>2. next \in Closing /\ \A d \in Cases : st[d] \in Terminal
      BY <1>4, <2>2, <3>1 DEF HeldInv
    <3>3. QED
      BY <3>2, DoneCloses
  <2>3. QED
    BY <1>1, <2>1, <2>2 DEF HeldInv
<1>5. QED
  BY <1>2, <1>3, <1>4, SheetSteps

LEMMA InitHeld == Init => HeldInv
<1> SUFFICES ASSUME Init PROVE HeldInv
  OBVIOUS
<1>1. vol["sub"].stamp = 0
  BY DEF Init, Slots, NoVolume
<1>2. \A c \in Cases : st[c] = "" /\ got[c] = "idle"
  BY DEF Init
<1>3. QED
  BY <1>1, <1>2 DEF HeldInv, Retried

-----------------------------------------------------------------------------
(* The merge.                                                              *)

\* Every case of the target has its sheet, so an orderly emitter writes the
\* volume it was asked for.
LEMMA TargetHasSheets ==
  ASSUME EngineInv, HeldInv, next = "merge"
  PROVE  \A c \in Plan.target : c \in Cases /\ xlsx[c] # 0
<1>1. \A c \in Cases : st[c] \in Retried \cup {"passed"} => xlsx[c] # 0
  BY DEF HeldInv, Closing
<1>2. Plan.target \subseteq {c \in Cases : st[c] \in Retried \cup {"passed"}}
  BY PlanCases DEF Retried
<1>3. QED
  BY <1>1, <1>2

\* Then a run is of a volume that holds the whole target.
LEMMA MergeOutcomes ==
  ASSUME EngineInv, HeldInv, ~ToolFaults, Merge, next' = "run_digest"
  PROVE  /\ Plan.target # {} /\ ch'.vref = Plan.name
         /\ \A c \in Cases : vol'[Plan.name].has[c] = IF c \in Plan.target THEN xlsx[c] ELSE 0
<1>1. /\ Plan.target # {} /\ ch'.vref = Plan.name /\ Present(vol', Plan.name)
      /\ Emit(EmitName, Plan.target) /\ next = "merge"
  BY MergeChannels
<1>2. EmitTo(EmitName, Plan.target)
  BY <1>1, TargetHasSheets DEF Emit
<1>3. EmitName = Plan.name
  <2>1. ASSUME OutNameFromEnv, Plan.name = "sub" PROVE FALSE
    <3>1. vol'["sub"] = vol["sub"]
      BY <1>2, <2>1, EmitEffect DEF EmitName, Slots
    <3>2. QED
      BY <1>1, <2>1, <3>1 DEF HeldInv, Present
  <2>2. QED
    BY <2>1, PlanType DEF EmitName, Slots
<1>4. QED
  BY <1>1, <1>2, <1>3, EmitEffect

-----------------------------------------------------------------------------
(* Late forks.                                                             *)

\* VolumeHoldsLocked, for as long as the checkpoint is at the run.
HoldsInv ==
  next = "run_digest" =>
    \A c \in Cases : st[c] = "passed" => vol[ch.vref].has[c] \in {lock[c], 0}

LEMMA MergeHolds ==
  ASSUME EngineInv, HeldInv, ~ToolFaults, Merge PROVE HoldsInv'
<1>1. next = "merge" /\ Tampered = {} /\ UNCHANGED <<st, lock>>
  BY MergeChannels DEF Merge, At, ledgerVars
<1>2. ASSUME next' = "run_digest", NEW c \in Cases, st[c] = "passed"
      PROVE  vol'[ch'.vref].has[c] \in {lock[c], 0}
  <2>1. vol'[ch'.vref].has[c] = IF c \in Plan.target THEN xlsx[c] ELSE 0
    BY <1>1, <1>2, MergeOutcomes
  <2>2. QED
    BY <1>1, <1>2, <2>1 DEF Tampered
<1>3. QED
  BY <1>1, <1>2 DEF HoldsInv

\* A late fork never gets into a volume that is run for a passed case: the merge
\* compares the sheets with the locks, and what it wrote stays until the verdicts
\* are saved (verify_phase.py:38-48). No call may die meanwhile: after a death at the
\* save the run would be entered again with a lock taken from the late sheet.
THEOREM LateForksStayOut ==
  ASSUME ~ToolFaults, MaxCrashes = 0 PROVE Spec => []VolumeHoldsLocked
<1>1. Init => HeldInv /\ HoldsInv
  BY InitHeld DEF Init, HoldsInv
<1>2. EngineInv /\ EngineInv' /\ HeldInv /\ [Next]_vars => HeldInv'
  BY NextKeepsHeld
<1>3. ASSUME EngineInv, HeldInv, HoldsInv, [Next]_vars PROVE HoldsInv'
  <2>1. CASE Merge
    BY <1>3, <2>1, MergeHolds
  <2>2. CASE Consume
    <3>1. crashes' # crashes + 1
      BY <1>3, NextKeepsInv, BoundsAreNat DEF EngineInv, TypeOK, ProcessType
    <3>2. next' # "run_digest"
      BY <1>3, <2>2, <3>1, ConsumeOutcomes DEF AfterRun
    <3>3. QED
      BY <3>2 DEF HoldsInv
  <2>3. CASE ~Merge /\ ~Consume
    BY <1>3, <2>3, AtRunFrame, OnlyVerdictsLock DEF HoldsInv
  <2>4. QED
    BY <2>1, <2>2, <2>3
<1>4. HoldsInv => VolumeHoldsLocked
  BY DEF HoldsInv, VolumeHoldsLocked, At
<1>5. QED
  BY <1>1, <1>2, <1>3, <1>4, EngineInvariant, PTL DEF Spec

-----------------------------------------------------------------------------
(* What this round has left on disk, whatever the emitter and digest do. A *)
(* failed emit or digest may leave an older volume or an older             *)
(* last_run.json in place, but never one of a sheet written since: a sheet *)
(* changes only while its case is dispatched, and a dispatched case is in  *)
(* nothing this round has written.                                         *)

\* The states of a case the bed has no verdict to give to: no record of it, or
\* somebody still works on its sheet.
Unbuilt == {"", "pending_compile", "dispatched", "pending_decision"}

\* What a volume and its last run hold of a case: of one waiting for a verdict
\* nothing but its sheet on disk and a pass of that, of one not built nothing.
HoldsNoOther(name, c) ==
  /\ st[c] \in Retried =>
       /\ vol[name].has[c] \in {0, xlsx[c]}
       /\ lr[name][c].v = "pass" => <<c, xlsx[c]>> \in evidence
  /\ st[c] \in Unbuilt => vol[name].has[c] = 0 /\ lr[name][c].v = "none"

CurrentInv == \A name \in Slots : Current(name) => \A c \in Cases : HoldsNoOther(name, c)

StaleInv == zombie = {} /\ CurrentInv

LEMMA InitStale == Init => StaleInv
<1> SUFFICES ASSUME Init PROVE StaleInv
  OBVIOUS
<1>1. \A name \in Slots : vol[name] = NoVolume /\ lr[name] = [c \in Cases |-> NoRecord]
  BY DEF Init
<1>2. \A name \in Slots, c \in Cases : HoldsNoOther(name, c)
  BY <1>1 DEF Init, HoldsNoOther, NoVolume, NoRecord, Retried
<1>3. zombie = {}
  BY DEF Init
<1>4. QED
  BY <1>2, <1>3 DEF StaleInv, CurrentInv

\* But for a verdict and an attribution, a case is built from nothing and never
\* taken apart.
LEMMA BuiltOnce ==
  ASSUME EngineInv, [Next]_vars, ~Consume, ~Attribute, NEW c \in Cases
  PROVE  /\ st'[c] \in Retried => st[c] \in Retried \cup Unbuilt
         /\ st'[c] \in Unbuilt => st[c] \in Unbuilt
<1>1. st'[c] \in Retried => st[c] \in Retried \cup Unbuilt
  BY StepMoves DEF Move, Legal, Retried, Unbuilt
<1>2. st'[c] \in Unbuilt => st[c] \in Unbuilt \cup {"awaiting_user", "failed_active"}
  BY StepMoves DEF Move, Legal, Unbuilt
<1>3. ASSUME st[c] \in {"awaiting_user", "failed_active"} PROVE st'[c] = st[c]
  <2>1. Prep => st'[c] = st[c]
    BY <1>3 DEF Prep, Recovered
  <2>2. Dispatch => st'[c] = st[c]
    <3>1. DOMAIN st = Cases
      BY DEF EngineInv, TypeOK, LedgerType, Maps
    <3>2. QED
      BY <1>3, <3>1 DEF Dispatch, InState
  <2>3. Collect => st'[c] = st[c]
    BY <1>3 DEF Collect, EngineInv, Inside
  <2>4. AskNobody \/ AskUser => st'[c] = st[c]
    BY <1>3 DEF AskNobody, AskUser, Presettled, Undecided
  <2>5. QED
    BY <2>1, <2>2, <2>3, <2>4, StatelessSteps
<1>4. QED
  BY <1>1, <1>2, <1>3 DEF Unbuilt

\* A case keeps what this round holds of it while its volume and its run stay,
\* and its sheet too, unless a fork works on it.
LEMMA HoldingKept ==
  ASSUME NEW name \in Slots, NEW c \in Cases, HoldsNoOther(name, c),
         vol'[name] = vol[name], lr'[name] = lr[name], evidence \subseteq evidence',
         xlsx'[c] = xlsx[c] \/ st'[c] = "dispatched",
         st'[c] \in Retried => st[c] \in Retried \cup Unbuilt,
         st'[c] \in Unbuilt => st[c] \in Unbuilt
  PROVE  HoldsNoOther(name, c)'
<1>1. st'[c] \in Unbuilt => vol'[name].has[c] = 0 /\ lr'[name][c].v = "none"
  BY DEF HoldsNoOther
<1>2. ASSUME st'[c] \in Retried
      PROVE  /\ vol'[name].has[c] \in {0, xlsx'[c]}
             /\ lr'[name][c].v = "pass" => <<c, xlsx'[c]>> \in evidence'
  BY <1>2 DEF HoldsNoOther, Retried
<1>3. QED
  BY <1>1, <1>2 DEF HoldsNoOther

\* Forks that stop at their wall clock leave nobody to write late.
LEMMA NoLateForks ==
  ASSUME ~Zombies, zombie = {}, [Next]_vars PROVE zombie' = {}
  BY DEF Next, Step, Call, Crash, Die, Leave, ZombieWrites, Prep, FanoutEmpty,
     Dispatch, Worker, WorkerProduces, WorkerUndecided, WorkerFails, Outlives,
     Collect, AskNobody, AskUser, MergeRefused, Merge, DeviceRun, KeepRun, RunFails,
     Consume, AttributeNothing, Attribute, Writeback, Report, vars

\* A step that neither writes a volume nor runs one, ends no round and attributes
\* nothing.
LEMMA QuietKeepsCurrent ==
  ASSUME EngineInv, StaleInv, [Next]_vars,
         ~Merge, ~Report, ~DeviceRun, ~Consume, ~Attribute
  PROVE  CurrentInv'
<1>1. /\ UNCHANGED <<vol, lr, evidence>>
      /\ \A c \in Cases : xlsx'[c] = xlsx[c] \/ st'[c] = "dispatched"
  <2>1. CASE \E c \in Cases : Worker(c)
    <3>1. PICK c \in Cases : Worker(c)
      BY <2>1
    <3>2. /\ UNCHANGED <<vol, lr, evidence, st>> /\ st[c] = "dispatched"
          /\ xlsx' = xlsx \/ xlsx' = [xlsx EXCEPT ![c] = @ + 1]
      BY <3>1 DEF Worker, WorkerProduces, WorkerUndecided, WorkerFails, volumes,
         history, ledgerVars, Busy, EngineInv, Inside
    <3>3. xlsx \in Maps(Nat)
      BY DEF EngineInv, TypeOK, FilesType
    <3>4. QED
      BY <3>2, <3>3 DEF Maps
  <2>2. CASE ~ \E c \in Cases : Worker(c)
    <3>1. ~ \E c \in Cases : ZombieWrites(c)
      BY DEF ZombieWrites, StaleInv
    <3>2. UNCHANGED <<vol, lr, evidence, xlsx>>
      BY <2>2, <3>1 DEF Next, Step, Call, Crash, Prep, FanoutEmpty, Dispatch, Collect,
         AskNobody, AskUser, MergeRefused, KeepRun, RunFails, AttributeNothing,
         Writeback, vars, volumes, caseFiles, history
    <3>3. QED
      BY <3>2
  <2>3. QED
    BY <2>1, <2>2
<1>2. ch'.round = ch.round
  BY QuietChannels
<1>3. \A c \in Cases : /\ st'[c] \in Retried => st[c] \in Retried \cup Unbuilt
                       /\ st'[c] \in Unbuilt => st[c] \in Unbuilt
  BY BuiltOnce
<1>4. \A name \in Slots : Current(name)' => Current(name)
  BY <1>1, <1>2 DEF Current
<1>5. QED
  BY <1>1, <1>3, <1>4, HoldingKept DEF StaleInv, CurrentInv

\* A merge writes this round's volume with the sheets on disk, or the main one
\* of a later round; a new subset directory has no last run.
LEMMA MergeKeepsCurrent == ASSUME EngineInv, CurrentInv, Merge PROVE CurrentInv'
<1>1. /\ UNCHANGED <<st, xlsx, evidence>> /\ ch'.round = ch.round
      /\ UNCHANGED <<vol, lr>> \/ EmitTo(EmitName, Plan.target)
  BY MergeChannels DEF ledgerVars
<1>2. ASSUME NEW n \in Slots, NEW c \in Cases, Current(n)', vol'[n] = vol[n], lr'[n] = lr[n]
      PROVE  HoldsNoOther(n, c)'
  <2>1. HoldsNoOther(n, c)
    BY <1>1, <1>2 DEF Current, CurrentInv, Slots
  <2>2. QED
    BY <1>1, <1>2, <2>1, HoldingKept
<1>3. CASE UNCHANGED <<vol, lr>>
  BY <1>2, <1>3 DEF CurrentInv
<1>4. CASE EmitTo(EmitName, Plan.target)
  <2>1. PICK n \in Slots : n = EmitName
    BY <1>4, EmitEffect
  <2>2. \A other \in Slots : other # n => vol'[other] = vol[other] /\ lr'[other] = lr[other]
    BY <1>4, <2>1, EmitEffect
  <2>3. ASSUME NEW c \in Cases, Current(n)' PROVE HoldsNoOther(n, c)'
    <3>1. vol'[n].has[c] = IF c \in Plan.target THEN xlsx[c] ELSE 0
      BY <1>4, <2>1, EmitEffect
    <3>2. c \in Plan.target => st[c] \notin Unbuilt
      <4>1. Plan.target \subseteq {d \in Cases : st[d] \in Retried \cup {"passed"}}
        BY PlanCases DEF Retried
      <4>2. QED
        BY <4>1 DEF Retried, Unbuilt
    <3>3. lr'[n][c].v = "none" \/ (lr'[n] = lr[n] /\ HoldsNoOther(n, c))
      <4>1. CASE n = "main"
        BY <1>1, <1>4, <2>1, <2>3, <4>1, EmitEffect DEF CurrentInv, Current
      <4>2. CASE n = "sub" /\ vol["sub"].round # ch.round
        BY <1>4, <2>1, <4>2, EmitEffect DEF NoRecord
      <4>3. CASE n = "sub" /\ vol["sub"].round = ch.round
        BY <1>4, <2>1, <4>3, EmitEffect DEF CurrentInv, Current
      <4>4. QED
        BY <4>1, <4>2, <4>3 DEF Slots
    <3>4. QED
      BY <1>1, <3>1, <3>2, <3>3 DEF HoldsNoOther
  <2>4. QED
    BY <1>2, <2>2, <2>3 DEF CurrentInv
<1>5. QED
  BY <1>1, <1>3, <1>4

\* The bed runs this round's volume, so it passes the sheets on disk, or nobody
\* waits for it.
LEMMA DeviceRunKeepsCurrent ==
  ASSUME EngineInv, CurrentInv, DeviceRun PROVE CurrentInv'
<1> DEFINE sheets == vol[ch.vref].has
           inVol  == {c \in Cases : sheets[c] # 0}
<1>1. PICK verdict \in [inVol -> Verdicts] :
        /\ lr' = [lr EXCEPT ![ch.vref] =
             [c \in Cases |-> IF c \in inVol THEN [v |-> verdict[c], attr |-> "none"]
                              ELSE @[c]]]
        /\ evidence' = evidence \cup
             {<<c, sheets[c]>> : c \in {d \in inVol : verdict[d] = "pass"}}
  BY DEF DeviceRun
<1>2. /\ next = "run_digest" /\ UNCHANGED <<st, xlsx, vol, ch>>
  BY DEF DeviceRun, At, ledgerVars, caseFiles
<1>3. ch.vref \in Slots /\ lr \in [Slots -> Maps(Records)]
  BY <1>2, MarkType DEF EngineInv, TypeOK, FilesType
<1>4. /\ \A n \in Slots : n # ch.vref => lr'[n] = lr[n]
      /\ \A c \in inVol : lr'[ch.vref][c].v = verdict[c]
      /\ \A c \in Cases \ inVol : lr'[ch.vref][c] = lr[ch.vref][c]
  BY <1>1, <1>3
<1>5. \A n \in Slots : Current(n)' <=> Current(n)
  BY <1>2 DEF Current
<1>6. ASSUME NEW n \in Slots, NEW c \in Cases, Current(n) PROVE HoldsNoOther(n, c)'
  <2>1. HoldsNoOther(n, c)
    BY <1>6 DEF CurrentInv
  <2>2. evidence \subseteq evidence'
    BY <1>1
  <2>3. CASE n # ch.vref
    BY <1>2, <1>4, <2>1, <2>2, <2>3 DEF HoldsNoOther
  <2>4. CASE n = ch.vref /\ c \notin inVol
    BY <1>2, <1>4, <2>1, <2>2, <2>4 DEF HoldsNoOther
  <2>5. CASE n = ch.vref /\ c \in inVol
    <3>1. vol[n].has[c] # 0
      BY <2>5
    <3>2. st[c] \notin Unbuilt
      BY <2>1, <3>1 DEF HoldsNoOther
    <3>3. st[c] \in Retried => vol[n].has[c] = xlsx[c]
      BY <2>1, <3>1 DEF HoldsNoOther
    <3>4. lr'[n][c].v = "pass" => <<c, vol[n].has[c]>> \in evidence'
      BY <1>1, <1>4, <2>5
    <3>5. QED
      BY <1>2, <3>2, <3>3, <3>4 DEF HoldsNoOther
  <2>6. QED
    BY <2>3, <2>4, <2>5
<1>7. QED
  BY <1>5, <1>6 DEF CurrentInv

\* A consumed run ends its round, and with it what its volumes were current for;
\* a call that dies at it only moves cases that wait for a verdict.
LEMMA ConsumeKeepsCurrent ==
  ASSUME EngineInv, RoundInv, CurrentInv, Consume PROVE CurrentInv'
<1>1. UNCHANGED <<xlsx, vol, lr, evidence>>
  BY ConsumeOutcomes DEF Consume, history
<1>2. \A c \in Cases : /\ st'[c] \in Retried => st[c] \in Retried
                       /\ st'[c] \in Unbuilt => st[c] \in Unbuilt
  BY ConsumeStates DEF Retried, Unbuilt
<1>3. CASE ch' = ch
  <2>1. \A n : Current(n)' <=> Current(n)
    BY <1>1, <1>3 DEF Current
  <2>2. QED
    BY <1>1, <1>2, <2>1, HoldingKept DEF CurrentInv
<1>4. CASE ch'.round = ch.round + 1
  <2>1. ch.round \in Nat /\ vol["sub"].round \in Nat
    BY DEF EngineInv, TypeOK, FilesType, ProcessType, Channels, Volumes, Slots
  <2>2. \A n \in Slots : ~Current(n)'
    BY <1>1, <1>4, <2>1 DEF RoundInv, Current, Slots
  <2>3. QED
    BY <2>2 DEF CurrentInv
<1>5. QED
  BY <1>3, <1>4, ConsumeOutcomes

\* When failures are attributed the round has ended and no volume is current.
LEMMA AttributeKeepsCurrent ==
  ASSUME EngineInv, RoundInv, Attribute, [Next]_vars PROVE CurrentInv'
<1>1. next = "attribute" /\ vol' = vol
  BY DEF Attribute, At
<1>2. ~Merge /\ ~Consume
  BY <1>1 DEF Merge, Consume, At, EngineInv, Inside
<1>3. ch'.round = ch.round
  BY <1>2, QuietChannels
<1>4. ch.round > 0 /\ vol["sub"].round # ch.round
  BY <1>1 DEF RoundInv, EngineInv, TypeOK, FilesType, ProcessType, Channels, Volumes, Slots
<1>5. \A n \in Slots : ~Current(n)'
  BY <1>1, <1>3, <1>4 DEF Current, Slots
<1>6. QED
  BY <1>5 DEF CurrentInv

\* A report touches volumes and sheets of batches that are done only.
LEMMA ReportKeepsCurrent == ASSUME EngineInv, CurrentInv, Report PROVE CurrentInv'
<1>1. UNCHANGED <<st, evidence>> /\ ch'.round = ch.round
  BY ReportRounds DEF Report, history
<1>2. CASE UNCHANGED <<vol, lr, xlsx>>
  <2>1. \A n : Current(n)' <=> Current(n)
    BY <1>1, <1>2 DEF Current
  <2>2. QED
    BY <1>1, <1>2, <2>1, HoldingKept DEF CurrentInv
<1>3. CASE Outcome \in {"delivered_all_pass", "delivered_with_labels"}
  <2>1. \A c \in Cases : st[c] \in Terminal
    BY <1>3 DEF Outcome, Terminal
  <2>2. QED
    BY <1>1, <2>1 DEF CurrentInv, HoldsNoOther, Terminal, Retried, Unbuilt
<1>4. QED
  BY <1>2, <1>3 DEF Report, KeepTemp, caseFiles

LEMMA NextKeepsStale ==
  ASSUME ~Zombies, EngineInv, RoundInv, StaleInv, [Next]_vars PROVE StaleInv'
<1>1. zombie' = {}
  BY NoLateForks DEF StaleInv
<1>2. CurrentInv'
  BY QuietKeepsCurrent, MergeKeepsCurrent, DeviceRunKeepsCurrent, ConsumeKeepsCurrent,
     AttributeKeepsCurrent, ReportKeepsCurrent DEF StaleInv
<1>3. QED
  BY <1>1, <1>2 DEF StaleInv

\* The strengthening the refinement rests on: what this round has merged and run
\* is of the sheets on disk, or of cases the bed has no verdict for.
LEMMA StaleInvariant == ASSUME ~Zombies PROVE Spec => []StaleInv
<1>1. EngineInv /\ RunsInv /\ StaleInv /\ [Next]_vars => StaleInv'
  BY NextKeepsStale DEF RunsInv
<1>2. QED
  BY <1>1, InitStale, EngineInvariant, RunsInvariant, PTL DEF Spec

-----------------------------------------------------------------------------
(* Every step of the engine is a step of the lifecycle, or a stutter.      *)

\* A verdict is a save: a case that enters "passed" does so with the sheet the
\* bed has passed.
LEMMA VerdictIsASave ==
  ASSUME EngineInv, RoundInv, StaleInv, Consume, NEW c \in Cases
  PROVE  IF st'[c] = "passed" /\ st[c] # "passed"
           THEN <<c, lock'[c]>> \in evidence
           ELSE lock'[c] = lock[c]
<1>1. lock'[c] = IF st'[c] = "passed" /\ st[c] # "passed" THEN xlsx[c] ELSE lock[c]
  BY DEF Consume
<1>2. CASE st'[c] = "passed" /\ st[c] # "passed"
  <2>1. st[c] \in Retried /\ lr[ch.vref][c].v = "pass"
    BY <1>2, ConsumeStates
  <2>2. next = "run_digest" /\ ch.vref \in Slots
    BY ConsumeOutcomes, MarkType
  <2>3. HoldsNoOther(ch.vref, c)
    BY <2>1, <2>2 DEF RoundInv, StaleInv, CurrentInv
  <2>4. <<c, xlsx[c]>> \in evidence
    BY <2>1, <2>3 DEF HoldsNoOther
  <2>5. QED
    BY <1>1, <1>2, <2>4
<1>3. QED
  BY <1>1, <1>2

LEMMA StepsMap ==
  ASSUME EngineInv, EngineInv', RoundInv, StaleInv, [Next]_vars
  PROVE  [Lifecycle!Next]_(Lifecycle!vars)
<1>1. CASE DeviceRun
  <2>1. evidence \subseteq evidence'
    BY <1>1 DEF DeviceRun
  <2>2. UNCHANGED <<st, lock>>
    BY <1>1 DEF DeviceRun, ledgerVars
  <2>3. QED
    BY <2>1, <2>2 DEF Lifecycle!Next, Lifecycle!Run
<1>2. CASE ~DeviceRun
  <2>1. UNCHANGED evidence
    BY <1>2, OnlyRunsShow
  <2>2. st' \in [Cases -> CaseStates]
    BY DEF EngineInv, TypeOK, LedgerType, Maps
  <2>3. ASSUME NEW c \in Cases PROVE Lifecycle!Moves(c)
    <3>1. st'[c] # st[c] => <<st[c], st'[c]>> \in Legal
      BY StepMoves DEF Move
    <3>2. IF st'[c] = "passed" /\ st[c] # "passed"
            THEN <<c, lock'[c]>> \in evidence
            ELSE lock'[c] = lock[c]
      BY VerdictIsASave, OnlyVerdictsLock, OnlyVerdictsJudge
    <3>3. QED
      BY <3>1, <3>2 DEF Lifecycle!Moves, Lifecycle!Legal, Legal
  <2>4. QED
    BY <2>1, <2>2, <2>3 DEF Lifecycle!Next, Lifecycle!Save, Lifecycle!CaseStates, CaseStates
<1>3. QED
  BY <1>1, <1>2

\* Whatever nodes run, die and are resumed, and however often, a case moves along
\* _LEGAL only and enters "passed" only locked to a sheet the device bed has
\* passed (ledger.py:34-49, verify_phase.py:116-147).
THEOREM LifecycleImplemented ==
  ASSUME ~Zombies PROVE Spec => LedgerRefines
<1>1. Init => Lifecycle!Init
  BY DEF Init, Lifecycle!Init
<1>2. EngineInv /\ EngineInv' /\ RunsInv /\ StaleInv /\ [Next]_vars
        => [Lifecycle!Next]_(Lifecycle!vars)
  BY StepsMap DEF RunsInv
<1>3. QED
  BY <1>1, <1>2, EngineInvariant, RunsInvariant, StaleInvariant, PTL
  DEF Spec, LedgerRefines, Lifecycle!Spec

-----------------------------------------------------------------------------
(* Orderly runs: what is run is all that waits for a verdict.              *)

SheetsInv == zombie = {} /\ HeldInv

\* The marker is of an earlier round, and so is every failure, but for a run
\* that is about to be consumed again.
MarkerInv ==
  /\ marker.round <= ch.round \/ Repeated
  /\ \A c \in Cases : st[c] = "failed_active" => ch.round > 0 \/ Repeated

\* The volume to run holds the sheets on disk of all cases waiting for a verdict.
VolumeInv ==
  next = "run_digest" =>
    /\ \E c \in Cases : vol[ch.vref].has[c] # 0
    /\ \A c \in Cases : st[c] \in Retried => vol[ch.vref].has[c] = xlsx[c]

\* Verdicts about to be consumed are there.
VerdictInv == pc = "consume" => HasRun(ch.vref)

OrderlyInv == SheetsInv /\ MarkerInv /\ VolumeInv /\ VerdictInv

LEMMA InitOrderly == Init => OrderlyInv
<1> SUFFICES ASSUME Init PROVE OrderlyInv
  OBVIOUS
<1>1. SheetsInv
  BY InitHeld DEF Init, SheetsInv
<1>2. marker.round = 0 /\ ch.round = 0 /\ \A c \in Cases : st[c] # "failed_active"
  BY DEF Init
<1>3. MarkerInv
  BY <1>2 DEF MarkerInv
<1>4. VolumeInv /\ VerdictInv
  BY DEF Init, VolumeInv, VerdictInv
<1>5. QED
  BY <1>1, <1>3, <1>4 DEF OrderlyInv

\* The merge takes every case that waits for a verdict.
LEMMA TargetTakesRetried ==
  ASSUME EngineInv, MarkerInv, next = "merge"
  PROVE  \A c \in Cases : st[c] \in Retried => c \in Plan.target
<1>1. ch.round = 0 => \A c \in Cases : st[c] # "failed_active"
  BY DEF MarkerInv, Repeated
<1>2. QED
  BY <1>1, PlanCases DEF Retried

LEMMA NextKeepsMarker ==
  ASSUME EngineInv, OrderlyInv, [Next]_vars PROVE MarkerInv'
<1>1. ch.round \in Nat
  BY DEF EngineInv, TypeOK, ProcessType, Channels
<1>2. CASE Merge
  BY <1>2, MergeChannels DEF OrderlyInv, MarkerInv, Repeated, ledgerVars
<1>3. CASE Consume
  <2>1. marker' = Mark /\ Mark.round = ch.round + 1 /\ HasRun(ch.vref)
    BY <1>3 DEF Consume, Mark, OrderlyInv, VerdictInv
  <2>2. QED
    BY <1>1, <1>3, <2>1, ConsumeOutcomes, DiedRepeated DEF MarkerInv
<1>4. CASE ~Merge /\ ~Consume
  <2>1. ch'.round = ch.round /\ marker' = marker /\ (Repeated => Repeated')
    BY <1>4, QuietChannels, OnlyVerdictsLock, RepeatedStays
  <2>2. \A c \in Cases : st'[c] = "failed_active" => st[c] = "failed_active"
    BY <1>4, OnlyVerdictsJudge
  <2>3. QED
    BY <2>1, <2>2 DEF OrderlyInv, MarkerInv
<1>5. QED
  BY <1>2, <1>3, <1>4

LEMMA NextKeepsVolume ==
  ASSUME ~ToolFaults, EngineInv, OrderlyInv, [Next]_vars PROVE VolumeInv'
<1> SUFFICES ASSUME next' = "run_digest"
             PROVE  /\ \E c \in Cases : vol'[ch'.vref].has[c] # 0
                    /\ \A c \in Cases : st'[c] \in Retried => vol'[ch'.vref].has[c] = xlsx'[c]
  BY DEF VolumeInv
<1>1. CASE Merge
  <2>1. next = "merge" /\ HeldInv /\ MarkerInv /\ UNCHANGED <<st, xlsx>>
    BY <1>1, MergeChannels DEF OrderlyInv, SheetsInv, ledgerVars
  <2>2. /\ Plan.target # {} /\ ch'.vref = Plan.name
        /\ \A c \in Cases : vol'[Plan.name].has[c] = IF c \in Plan.target THEN xlsx[c] ELSE 0
    BY <1>1, <2>1, MergeOutcomes
  <2>3. QED
    BY <2>1, <2>2, TargetHasSheets, TargetTakesRetried
<1>2. CASE Consume
  <2>1. /\ next = "run_digest" /\ UNCHANGED <<xlsx, vol>> /\ ch' = ch
    BY <1>2, ConsumeOutcomes DEF AfterRun
  <2>2. \A c \in Cases : st'[c] \in Retried => st[c] \in Retried
    BY <1>2, ConsumeStates DEF Retried
  <2>3. QED
    BY <2>1, <2>2 DEF OrderlyInv, VolumeInv
<1>3. CASE ~Merge /\ ~Consume
  BY <1>3, AtRunFrame DEF OrderlyInv, SheetsInv, VolumeInv
<1>4. QED
  BY <1>1, <1>2, <1>3

\* Only the bed's run, or the one kept, leads to the save of verdicts.
LEMMA OnlyRunsConsume ==
  ASSUME [Next]_vars
  PROVE  DeviceRun \/ KeepRun \/ pc' # "consume" \/ UNCHANGED <<pc, ch, vol, lr>>
<1>1. ASSUME NEW n, NEW k, Leave(n, k) \/ Die PROVE pc' # "consume"
  BY <1>1 DEF Leave, Die
<1>2. CASE Step
  BY <1>1, <1>2 DEF Step, Prep, FanoutEmpty, Dispatch, Worker, Collect, AskNobody,
     AskUser, MergeRefused, Merge, RunFails, Consume, AttributeNothing, Attribute,
     Writeback, Report, volumes
<1>3. QED
  BY <1>1, <1>2 DEF Next, Call, Crash, ZombieWrites, vars, volumes

\* The records a run of the bed leaves.
LEMMA DeviceRunRecords ==
  ASSUME EngineInv, DeviceRun
  PROVE  /\ next = "run_digest" /\ ch.vref \in Slots
         /\ UNCHANGED <<st, xlsx, vol, ch, next, marker>>
         /\ \A c \in Cases : vol[ch.vref].has[c] # 0 => lr'[ch.vref][c].v # "none"
<1> DEFINE inVol == {c \in Cases : vol[ch.vref].has[c] # 0}
<1>1. PICK verdict \in [inVol -> Verdicts] :
        lr' = [lr EXCEPT ![ch.vref] =
           [c \in Cases |-> IF c \in inVol THEN [v |-> verdict[c], attr |-> "none"]
                            ELSE @[c]]]
  BY DEF DeviceRun
<1>2. /\ next = "run_digest" /\ UNCHANGED <<st, xlsx, vol, ch, next, marker>>
  BY DEF DeviceRun, At, ledgerVars, caseFiles
<1>3. ch.vref \in Slots /\ lr \in [Slots -> Maps(Records)]
  BY <1>2, MarkType DEF EngineInv, TypeOK, FilesType
<1>4. \A c \in inVol : lr'[ch.vref][c].v = verdict[c] /\ verdict[c] # "none"
  BY <1>1, <1>3 DEF Verdicts
<1>5. QED
  BY <1>2, <1>3, <1>4

LEMMA NextKeepsVerdict ==
  ASSUME EngineInv, OrderlyInv, [Next]_vars PROVE VerdictInv'
<1>1. CASE DeviceRun
  BY <1>1, DeviceRunRecords DEF OrderlyInv, VolumeInv, VerdictInv, HasRun
<1>2. CASE KeepRun
  <2>1. HasRun(ch.vref) /\ ch' = ch /\ lr' = lr
    BY <1>2 DEF KeepRun, Already, volumes
  <2>2. QED
    BY <2>1 DEF VerdictInv, HasRun
<1>3. CASE pc' # "consume" \/ UNCHANGED <<pc, ch, vol, lr>>
  BY <1>3 DEF OrderlyInv, VerdictInv, HasRun
<1>4. QED
  BY <1>1, <1>2, <1>3, OnlyRunsConsume

\* Sheets on disk, marker, volume and verdicts agree whenever a run is made, kept
\* or consumed again, also when a failed run left an older last_run.json in place
\* (verify_phase.py:82-151).
THEOREM OrderlyInvariant == ASSUME Orderly PROVE Spec => []OrderlyInv
<1>1. ASSUME EngineInv, EngineInv', OrderlyInv, [Next]_vars PROVE OrderlyInv'
  <2>1. SheetsInv'
    BY <1>1, NoLateForks, NextKeepsHeld DEF Orderly, OrderlyInv, SheetsInv
  <2>2. QED
    BY <1>1, <2>1, NextKeepsMarker, NextKeepsVolume, NextKeepsVerdict
    DEF Orderly, OrderlyInv
<1>2. QED
  BY <1>1, InitOrderly, EngineInvariant, PTL DEF Spec

-----------------------------------------------------------------------------
(* Locks.                                                                  *)

\* A passed case's sheet is the locked one, gone only with the batch, and the
\* volume that runs holds it in that version, the main volume always does.
LockInv ==
  \A c \in Cases : st[c] = "passed" =>
    /\ lock[c] # 0 /\ xlsx[c] \in {0, lock[c]}
    /\ ch.round > 0 \/ Repeated
    /\ next = "run_digest" =>
         /\ vol[ch.vref].has[c] \in {lock[c], 0}
         /\ ch.vref = "main" => vol[ch.vref].has[c] = lock[c]

\* No step writes the sheet of a passed case; a delivery takes it away.
LEMMA PassedSheets ==
  ASSUME EngineInv, OrderlyInv, [Next]_vars, NEW c \in Cases, st[c] = "passed"
  PROVE  xlsx'[c] \in {xlsx[c], 0}
<1>1. ASSUME NEW d \in Cases, Worker(d) PROVE xlsx'[c] = xlsx[c]
  <2>1. d # c
    BY <1>1 DEF EngineInv, Inside, Worker, Busy
  <2>2. xlsx \in Maps(Nat)
    BY DEF EngineInv, TypeOK, FilesType
  <2>3. QED
    BY <1>1, <2>1, <2>2 DEF Worker, WorkerProduces, WorkerUndecided, WorkerFails, Maps
<1>2. CASE Report
  BY <1>2 DEF Report, CleanUp, KeepTemp, CleanUpStarts, caseFiles
<1>3. ~ \E d \in Cases : ZombieWrites(d)
  BY DEF OrderlyInv, SheetsInv, HeldInv, ZombieWrites
<1>4. UNCHANGED xlsx \/ Report \/ (\E d \in Cases : Worker(d) \/ ZombieWrites(d))
  BY DEF Next, Step, Call, Crash, Prep, FanoutEmpty, Dispatch, Collect, AskNobody,
     AskUser, MergeRefused, Merge, DeviceRun, KeepRun, RunFails, Consume,
     AttributeNothing, Attribute, Writeback, vars, caseFiles
<1>5. QED
  BY <1>1, <1>2, <1>3, <1>4

LEMMA QuietKeepsLocks ==
  ASSUME EngineInv, OrderlyInv, LockInv, [Next]_vars, ~Merge, ~Consume
  PROVE  LockInv'
<1> SUFFICES ASSUME NEW c \in Cases, st'[c] = "passed"
             PROVE  /\ lock'[c] # 0 /\ xlsx'[c] \in {0, lock'[c]}
                    /\ ch'.round > 0 \/ Repeated'
                    /\ next' = "run_digest" =>
                         /\ vol'[ch'.vref].has[c] \in {lock'[c], 0}
                         /\ ch'.vref = "main" => vol'[ch'.vref].has[c] = lock'[c]
  BY DEF LockInv
<1>1. st[c] = "passed" /\ lock' = lock
  BY OnlyVerdictsJudge, OnlyVerdictsLock
<1>2. lock'[c] # 0 /\ xlsx'[c] \in {0, lock'[c]}
  BY <1>1, PassedSheets DEF LockInv
<1>3. ch'.round = ch.round /\ (Repeated => Repeated')
  BY QuietChannels, RepeatedStays
<1>4. ASSUME next' = "run_digest"
      PROVE  next = "run_digest" /\ vol' = vol /\ ch'.vref = ch.vref
  BY <1>4, AtRunFrame
<1>5. QED
  BY <1>1, <1>2, <1>3, <1>4 DEF LockInv

LEMMA MergeKeepsLocks ==
  ASSUME ~ToolFaults, EngineInv, OrderlyInv, LockInv, Merge PROVE LockInv'
<1>1. /\ next = "merge" /\ Tampered = {} /\ UNCHANGED <<st, lock, xlsx>>
      /\ ch'.round = ch.round /\ ch.round \in Nat
  BY MergeChannels DEF Merge, ledgerVars, EngineInv, TypeOK, ProcessType, Channels
<1>2. ASSUME NEW c \in Cases, st[c] = "passed"
      PROVE  xlsx[c] = lock[c] /\ lock[c] # 0 /\ ch.round > 0
  <2>1. xlsx[c] # 0
    BY <1>1, <1>2 DEF OrderlyInv, SheetsInv, HeldInv, Closing
  <2>2. QED
    BY <1>1, <1>2, <2>1 DEF LockInv, Tampered, Repeated
<1>3. ASSUME NEW c \in Cases, st[c] = "passed", next' = "run_digest"
      PROVE  /\ vol'[ch'.vref].has[c] \in {lock[c], 0}
             /\ ch'.vref = "main" => vol'[ch'.vref].has[c] = lock[c]
  <2>1. /\ ch'.vref = Plan.name
        /\ vol'[ch'.vref].has[c] = IF c \in Plan.target THEN xlsx[c] ELSE 0
    BY <1>1, <1>3, MergeOutcomes DEF OrderlyInv, SheetsInv
  <2>2. Plan.name = "main" => c \in Plan.target
    BY <1>2, <1>3, PlanCases
  <2>3. QED
    BY <1>2, <1>3, <2>1, <2>2
<1>4. QED
  BY <1>1, <1>2, <1>3 DEF LockInv

LEMMA ConsumeKeepsLocks ==
  ASSUME EngineInv, OrderlyInv, LockInv, Consume
  PROVE  /\ LockInv'
         /\ ch.vref = "main" =>
              \A c \in Cases : st'[c] = "passed" => vol[ch.vref].has[c] = lock'[c]
<1>1. /\ next = "run_digest" /\ UNCHANGED <<xlsx, vol>>
      /\ \/ ch' = ch /\ next' = next /\ Repeated'
         \/ ch'.round = ch.round + 1 /\ next' # "run_digest"
  BY ConsumeOutcomes, DiedRepeated DEF AfterRun, OrderlyInv, VerdictInv
<1>2. ch.round \in Nat
  BY DEF EngineInv, TypeOK, ProcessType, Channels
<1>3. ASSUME NEW c \in Cases, st'[c] = "passed"
      PROVE  /\ lock'[c] # 0 /\ xlsx'[c] \in {0, lock'[c]}
             /\ vol[ch.vref].has[c] \in {lock'[c], 0}
             /\ ch.vref = "main" => vol[ch.vref].has[c] = lock'[c]
  <2>1. lock'[c] = IF st[c] # "passed" THEN xlsx[c] ELSE lock[c]
    BY <1>3 DEF Consume
  <2>2. CASE st[c] = "passed"
    BY <1>1, <2>1, <2>2 DEF LockInv
  <2>3. CASE st[c] # "passed"
    <3>1. st[c] \in Retried
      BY <1>3, <2>3, ConsumeStates
    <3>2. xlsx[c] # 0 /\ vol[ch.vref].has[c] = xlsx[c]
      BY <1>1, <3>1 DEF OrderlyInv, SheetsInv, HeldInv, VolumeInv
    <3>3. QED
      BY <1>1, <2>1, <2>3, <3>2
  <2>4. QED
    BY <2>2, <2>3
<1>4. QED
  BY <1>1, <1>2, <1>3 DEF LockInv

LEMMA InitLocks == Init => LockInv
  BY DEF Init, LockInv

LEMMA LockInvariant == ASSUME Orderly PROVE Spec => []LockInv
<1>1. EngineInv /\ OrderlyInv /\ LockInv /\ [Next]_vars => LockInv'
  BY QuietKeepsLocks, MergeKeepsLocks, ConsumeKeepsLocks DEF Orderly
<1>2. QED
  BY <1>1, InitLocks, EngineInvariant, OrderlyInvariant, PTL DEF Spec

\* The volume about to run holds every passed case in its locked version, also
\* when a call died at the merge, at the bed or at the save, and whatever a failed
\* device run left behind (verify_phase.py:38-48).
THEOREM VolumeLocked == ASSUME Orderly PROVE Spec => []VolumeHoldsLocked
<1>1. LockInv => VolumeHoldsLocked
  BY DEF LockInv, VolumeHoldsLocked, At
<1>2. QED
  BY <1>1, LockInvariant, PTL

-----------------------------------------------------------------------------
(* Calls that report "all passed".                                         *)

AllPassed == \A c \in Cases : st[c] = "passed"

\* Verdicts about to be consumed, now or again, are there for the whole volume.
RecordInv ==
  pc = "consume" \/ Repeated =>
    \A c \in Cases : vol[ch.vref].has[c] # 0 => lr[ch.vref][c].v # "none"

LEMMA NextKeepsRecords ==
  ASSUME ~DigestFaults, EngineInv, OrderlyInv, RecordInv, [Next]_vars PROVE RecordInv'
<1>1. CASE DeviceRun
  BY <1>1, DeviceRunRecords DEF RecordInv
<1>2. CASE KeepRun
  BY <1>2 DEF KeepRun, At, Repeated, RecordInv, volumes
<1>3. CASE Consume
  <2>1. RecordInv /\ pc = "consume" /\ pc' # "consume" /\ UNCHANGED <<vol, lr>>
    BY <1>3, ConsumeOutcomes
  <2>2. Repeated' => ch' = ch
    BY <1>3, ConsumeOutcomes DEF Repeated, AfterRun
  <2>3. QED
    BY <2>1, <2>2 DEF RecordInv
<1>4. CASE Merge
  <2>1. marker.round <= ch.round /\ ch.round \in Nat /\ marker.round \in Nat
    BY <1>4, MergeChannels DEF OrderlyInv, MarkerInv, Repeated, EngineInv, TypeOK,
       LedgerType, ProcessType, Channels
  <2>2. Repeated' => marker'.round = ch'.round + 1
    BY DEF Repeated, Already, Mark
  <2>3. ~Repeated' /\ pc' # "consume"
    BY <1>4, <2>1, <2>2, MergeChannels DEF ledgerVars
  <2>4. QED
    BY <2>3 DEF RecordInv
<1>5. CASE ~DeviceRun /\ ~KeepRun /\ ~Consume /\ ~Merge
  <2>1. pc' = "consume" => pc = "consume" /\ UNCHANGED <<ch, vol, lr>>
    BY <1>5, OnlyRunsConsume
  <2>2. ASSUME Repeated' PROVE Repeated /\ UNCHANGED <<vol, lr>> /\ ch'.vref = ch.vref
    <3>1. /\ next = "run_digest" /\ ch'.vref = ch.vref /\ ch'.round = ch.round
          /\ UNCHANGED <<vol, lr, marker>>
      BY <1>5, <2>2, AtRunFrame DEF Repeated
    <3>2. Mark' = Mark /\ HasRun(ch.vref)' = HasRun(ch.vref)
      BY <3>1 DEF Mark, HasRun
    <3>3. QED
      BY <2>2, <3>1, <3>2 DEF Repeated, Already
  <2>3. QED
    BY <2>1, <2>2 DEF RecordInv
<1>6. QED
  BY <1>1, <1>2, <1>3, <1>4, <1>5

Verified ==
  /\ vol["main"].has = lock
  /\ \E m \in ran : m.slot = "main" /\ m.stamp = vol["main"].stamp

InLibrary == \A c \in Cases : flip[c] \/ library[c] = lock[c]

\* Once all cases have passed and no node has failed, a call past its run has
\* a verified volume, and past writeback all sheets in the library.
DeliveryInv ==
  /\ AllPassed => next \notin {"ask_decision", "attribute"}
  /\ AllPassed /\ ~ch.err =>
       /\ next \in Closing \cup {"writeback"} => Verified
       /\ next \in Closing => InLibrary
       /\ next = "writeback" =>
            ch.lref = "main" /\ \A c \in Cases : lr["main"][c].v # "none"
  /\ next = "END" /\ rep = "delivered_all_pass" => AllPassed /\ ~ch.err

LEMMA PassedStays ==
  ASSUME EngineInv, [Next]_vars, AllPassed PROVE st' = st
<1>1. \A c \in Cases : st'[c] = "passed"
  BY StepMoves DEF Move, Legal, AllPassed
<1>2. st \in Maps(CaseStates) /\ st' \in Maps(CaseStates)
  BY NextKeepsInv DEF EngineInv, TypeOK, LedgerType
<1>3. QED
  BY <1>1, <1>2 DEF AllPassed, Maps

\* The main volume of an all-passed batch is left alone by all but merge.
LEMMA VerifiedStays ==
  ASSUME EngineInv, [Next]_vars, ~Merge, ~Consume, AllPassed, Verified PROVE Verified'
<1>1. lock' = lock
  BY OnlyVerdictsLock
<1>2. ran \subseteq ran'
  BY DEF Next, Step, Call, Crash, ZombieWrites, Prep, FanoutEmpty, Dispatch, Worker,
     Collect, AskNobody, AskUser, MergeRefused, DeviceRun, KeepRun, RunFails,
     AttributeNothing, Attribute, Writeback, Report, vars, history
<1>3. vol'["main"] = vol["main"]
  <2>1. CASE Report
    <3>1. Archived = {vol}
      BY DEF Archived, AllPassed, Labelled
    <3>2. PICK v \in {vol} : CleanUp(v) \/ KeepTemp(v) \/ CleanUpStarts(v)
      BY <2>1, <3>1 DEF Report
    <3>3. vol \in [Slots -> Volumes]
      BY DEF EngineInv, TypeOK, FilesType
    <3>4. QED
      BY <3>2, <3>3 DEF CleanUp, KeepTemp, CleanUpStarts, Slots
  <2>2. UNCHANGED vol \/ Report
    BY DEF Next, Step, Call, Crash, ZombieWrites, Prep, FanoutEmpty, Dispatch, Worker,
     Collect, AskNobody, AskUser, MergeRefused, DeviceRun, KeepRun, RunFails,
     AttributeNothing, Attribute, Writeback, vars, volumes
  <2>3. QED
    BY <2>1, <2>2
<1>4. QED
  BY <1>1, <1>2, <1>3 DEF Verified

\* A writeback that leaves its node has taken every locked sheet that passed.
LEMMA WritebackTakesAll ==
  ASSUME ~ToolFaults, EngineInv, OrderlyInv, LockInv, FlipInv, Writeback,
         next' # "writeback", AllPassed, ch.lref = "main",
         \A c \in Cases : lr["main"][c].v # "none"
  PROVE  InLibrary'
<1> DEFINE due == {c \in Cases : /\ st[c] = "passed"
                                /\ lr[ch.lref][c].v = "pass"
                                /\ xlsx[c] # 0}
<1>1. next = "writeback" /\ lock' = lock /\ flip' = flip
  BY DEF Writeback, At
<1>2. ~Die
  BY <1>1 DEF Die
<1>3. library' = [c \in Cases |-> IF c \in due THEN xlsx[c] ELSE library[c]]
  BY <1>2 DEF Writeback
<1>4. ASSUME NEW c \in Cases PROVE flip[c] \/ library'[c] = lock[c]
  <2>1. xlsx[c] # 0 /\ xlsx[c] = lock[c]
    BY <1>1 DEF AllPassed, OrderlyInv, SheetsInv, HeldInv, Closing, LockInv
  <2>2. CASE lr["main"][c].v = "pass"
    BY <1>3, <2>1, <2>2 DEF AllPassed
  <2>3. CASE lr["main"][c].v # "pass"
    BY <1>1, <2>3 DEF AllPassed, FlipInv, Fails, Repeated
  <2>4. QED
    BY <2>2, <2>3
<1>5. QED
  BY <1>1, <1>4 DEF InLibrary

LEMMA QuietKeepsDelivery ==
  ASSUME ~ToolFaults, EngineInv, OrderlyInv, LockInv, FlipInv, DeliveryInv,
         [Next]_vars, ~Merge, ~Consume
  PROVE  DeliveryInv'
<1>1. /\ ch.err => ch'.err
      /\ ch'.lref = ch.lref
      /\ \/ next' = next
         \/ next = "END" /\ next' = "prep"
         \/ next \in Nodes \ {"merge", "run_digest"} /\ next' = After(next, ch', st')
         \/ next \in {"merge", "run_digest"} /\ next' = "report" /\ ch'.err
  BY QuietChannels
<1>2. AllPassed' => AllPassed /\ st' = st
  BY OnlyVerdictsJudge, PassedStays DEF AllPassed
<1>3. ASSUME AllPassed'
      PROVE  ~Some(st', "pending_decision") /\ ~Some(st', "failed_active")
             /\ ~Some(st', "produced") /\ ~Some(st', "pending_compile")
  <2>1. DOMAIN st' = Cases
    BY NextKeepsInv DEF EngineInv, TypeOK, LedgerType, Maps
  <2>2. QED
    BY <1>3, <2>1 DEF Some, AllPassed
<1>4. ASSUME AllPassed', next \in Nodes \ {"merge", "run_digest"},
             next' = After(next, ch', st')
      PROVE  /\ next \in Closing \cup {"writeback"}
             /\ next' \in {"END", "worker_fanout", "report"}
  <2>1. next \notin {"ask_decision", "attribute"}
    BY <1>2, <1>4 DEF DeliveryInv
  <2>2. QED
    BY <1>3, <1>4, <2>1 DEF Nodes, Closing, After, AfterPrep, AfterFanout
<1>5. AllPassed' => next' \notin {"ask_decision", "attribute"}
  BY <1>1, <1>2, <1>4 DEF DeliveryInv
<1>6. ASSUME AllPassed', ~ch'.err
      PROVE  /\ next' \in Closing \cup {"writeback"} => next \in Closing \cup {"writeback"}
             /\ next' \in Closing /\ next \notin Closing => next = "writeback"
             /\ next' = "writeback" => next = "writeback"
  BY <1>1, <1>4, <1>6 DEF Closing
<1>7. ASSUME AllPassed', ~ch'.err, next' \in Closing \cup {"writeback"} PROVE Verified'
  BY <1>1, <1>2, <1>6, <1>7, VerifiedStays DEF DeliveryInv
<1>8. ASSUME AllPassed', ~ch'.err, next' \in Closing PROVE InLibrary'
  <2>1. CASE next \in Closing
    <3>1. InLibrary
      BY <1>1, <1>2, <1>8, <2>1 DEF DeliveryInv
    <3>2. lock' = lock /\ flip' = flip
      BY OnlyVerdictsLock
    <3>3. library' = library
      BY <2>1 DEF Closing, Next, Step, Call, Crash, ZombieWrites, Prep, FanoutEmpty,
         Dispatch, Worker, Collect, AskNobody, AskUser, MergeRefused, DeviceRun,
         KeepRun, RunFails, AttributeNothing, Attribute, Writeback, Report, At, vars,
         closing
    <3>4. QED
      BY <3>1, <3>2, <3>3 DEF InLibrary
  <2>2. CASE next = "writeback"
    <3>1. Writeback
      <4>1. next' # next
        BY <1>8, <2>2 DEF Closing
      <4>2. QED
        BY <2>2, <4>1 DEF Next, Step, Call, Crash, Die, ZombieWrites, Prep, FanoutEmpty,
         Dispatch, Worker, Collect, AskNobody, AskUser, MergeRefused, DeviceRun,
         KeepRun, RunFails, AttributeNothing, Attribute, Report, At, vars, EngineInv,
         Inside
    <3>2. QED
      BY <1>1, <1>2, <1>8, <2>2, <3>1, WritebackTakesAll DEF DeliveryInv, Closing
  <2>3. QED
    BY <1>6, <1>8, <2>1, <2>2
<1>9. ASSUME AllPassed', ~ch'.err, next' = "writeback"
      PROVE  ch'.lref = "main" /\ \A c \in Cases : lr'["main"][c].v # "none"
  <2>1. next = "writeback" /\ AllPassed /\ ~ch.err
    BY <1>1, <1>2, <1>6, <1>9
  <2>2. ch.lref = "main" /\ \A c \in Cases : lr["main"][c].v # "none"
    BY <2>1 DEF DeliveryInv
  <2>3. ~DeviceRun
    BY <2>1 DEF DeviceRun, At
  <2>4. QED
    BY <1>1, <2>1, <2>2, <2>3, VerdictsKept DEF Slots
<1>10. ASSUME next' = "END", rep' = "delivered_all_pass" PROVE AllPassed' /\ ~ch'.err
  <2>1. CASE Report /\ ~Die
    <3>1. rep' = Outcome /\ st' = st /\ ch' = Ok
      BY <2>1 DEF Report, Leave
    <3>2. AllPassed /\ ~ch.err
      BY <1>10, <3>1 DEF Outcome, AllPassed
    <3>3. Ok.err = ch.err
      BY DEF Ok, EngineInv, TypeOK, ProcessType, Channels
    <3>4. QED
      BY <3>1, <3>2, <3>3 DEF AllPassed
  <2>2. CASE ~(Report /\ ~Die)
    <3>1. next = "END"
      <4>1. next # "END" => next = "report"
        BY <1>1, <1>10 DEF Nodes, After, AfterPrep, AfterFanout, AfterAsk, AfterAttribute
      <4>2. CASE next = "report"
        BY <1>10, <2>2, <4>2 DEF Next, Step, Call, Crash, Die, ZombieWrites, Prep,
         FanoutEmpty, Dispatch, Worker, Collect, AskNobody, AskUser, MergeRefused,
         DeviceRun, KeepRun, RunFails, AttributeNothing, Attribute, Writeback, Report,
         At, vars, EngineInv, Inside
      <4>3. QED
        BY <4>1, <4>2
    <3>2. st' = st /\ ch' = ch /\ rep' = rep
      BY <1>10, <3>1 DEF Next, Step, Call, Crash, Die, ZombieWrites, Prep,
         FanoutEmpty, Dispatch, Worker, Collect, AskNobody, AskUser, MergeRefused,
         DeviceRun, KeepRun, RunFails, AttributeNothing, Attribute, Writeback, Report,
         At, vars, ledgerVars, closing, EngineInv, Inside
    <3>3. QED
      BY <1>10, <3>1, <3>2 DEF DeliveryInv, AllPassed
  <2>3. QED
    BY <2>1, <2>2
<1>11. QED
  BY <1>5, <1>7, <1>8, <1>9, <1>10 DEF DeliveryInv

\* A batch that is all passed has its main volume merged again, and run.
LEMMA MergeKeepsDelivery ==
  ASSUME EngineInv, Cases # {}, LockInv, DeliveryInv, Merge
  PROVE  DeliveryInv'
<1>1. /\ next = "merge" /\ st' = st
      /\ \/ next' \in {"merge", "run_digest"}
         \/ next' = "report" /\ (ch'.err \/ Plan.target = {})
  BY MergeChannels DEF ledgerVars
<1>2. ASSUME AllPassed PROVE Plan.target # {}
  <2>1. ch.round > 0 /\ ch.round \in Nat
    BY <1>1, <1>2 DEF AllPassed, LockInv, Repeated, EngineInv, TypeOK, ProcessType, Channels
  <2>2. QED
    BY <1>2, <2>1, PlanCases DEF AllPassed, Retried
<1>3. QED
  BY <1>1, <1>2 DEF DeliveryInv, AllPassed, Closing

\* The run that passes the last case is of the main volume, or leads to one.
LEMMA ConsumeKeepsDelivery ==
  ASSUME EngineInv, OrderlyInv, SlotInv, LockInv, RecordInv, ConsumesOwnRun,
         DeliveryInv, Consume
  PROVE  DeliveryInv'
<1>1. /\ next = "run_digest" /\ pc = "consume"
      /\ UNCHANGED <<xlsx, vol, lr, library, ran, rep>>
  BY ConsumeOutcomes
<1>2. CASE next' = next
  BY <1>1, <1>2 DEF DeliveryInv, Closing
<1>3. CASE /\ ch'.scope = ch.scope /\ ch'.lref = ch.vref /\ ch'.status = "ok"
           /\ next' = AfterRun(ch', st')
  <2>1. DOMAIN st' = Cases
    BY NextKeepsInv DEF EngineInv, TypeOK, LedgerType, Maps, Next, Step
  <2>2. CASE ~AllPassed'
    BY <1>3, <2>2 DEF DeliveryInv, AfterRun
  <2>3. CASE AllPassed' /\ ch.scope = "subset"
    <3>1. ~Some(st', "failed_active")
      BY <2>1, <2>3 DEF AllPassed, Some
    <3>2. next' = "merge"
      BY <1>3, <2>3, <3>1 DEF AfterRun
    <3>3. QED
      BY <3>2 DEF DeliveryInv, Closing
  <2>4. CASE AllPassed' /\ ch.scope # "subset"
    <3>1. ~Some(st', "failed_active")
      BY <2>1, <2>4 DEF AllPassed, Some
    <3>2. next' = "writeback" /\ ch.vref = "main"
      BY <1>1, <1>3, <2>4, <3>1 DEF AfterRun, SlotInv
    <3>3. \A c \in Cases : vol["main"].has[c] = lock'[c] /\ lock'[c] # 0
      BY <2>4, <3>2, ConsumeKeepsLocks DEF AllPassed, LockInv
    <3>4. vol["main"].has = lock'
      <4>1. vol["main"].has \in Maps(Nat) /\ lock' \in Maps(Nat)
        BY NextKeepsInv DEF EngineInv, TypeOK, LedgerType, FilesType, Volumes, Slots,
           Next, Step
      <4>2. QED
        BY <3>3, <4>1 DEF Maps
    <3>5. Verified'
      <4>1. Mark \in ran /\ Mark.slot = "main" /\ Mark.stamp = vol["main"].stamp
        BY <1>1, <3>2 DEF ConsumesOwnRun, Mark
      <4>2. QED
        BY <1>1, <3>4, <4>1 DEF Verified
    <3>6. \A c \in Cases : lr'["main"][c].v # "none"
      BY <1>1, <3>2, <3>3 DEF RecordInv
    <3>7. QED
      BY <1>3, <3>2, <3>5, <3>6 DEF DeliveryInv, Closing
  <2>5. QED
    BY <2>2, <2>3, <2>4
<1>4. QED
  BY <1>2, <1>3, ConsumeOutcomes

CallInv == RecordInv /\ DeliveryInv

LEMMA InitCall == ASSUME Cases # {}, Init PROVE CallInv
<1>1. next = "END" /\ rep = "none" /\ pc = "down"
  BY DEF Init
<1>2. ~AllPassed /\ ~Repeated
  BY <1>1 DEF Init, AllPassed, Repeated
<1>3. QED
  BY <1>1, <1>2 DEF CallInv, RecordInv, DeliveryInv

LEMMA NextKeepsCall ==
  ASSUME Faultless, Cases # {}, EngineInv, RunsInv, OrderlyInv, LockInv, ConsumesOwnRun,
         CallInv, [Next]_vars
  PROVE  CallInv'
<1>1. RecordInv /\ DeliveryInv /\ SlotInv /\ FlipInv /\ ~ToolFaults /\ ~DigestFaults
  BY DEF CallInv, RunsInv, Faultless, Orderly
<1>2. RecordInv'
  BY <1>1, NextKeepsRecords
<1>3. DeliveryInv'
  BY <1>1, QuietKeepsDelivery, MergeKeepsDelivery, ConsumeKeepsDelivery
<1>4. QED
  BY <1>2, <1>3 DEF CallInv

LEMMA CallInvariant == ASSUME Faultless, Cases # {} PROVE Spec => []CallInv
<1>1. Init => CallInv
  BY InitCall
<1>2. EngineInv /\ RunsInv /\ OrderlyInv /\ LockInv /\ ConsumesOwnRun /\ CallInv /\ [Next]_vars
        => CallInv'
  BY NextKeepsCall
<1>3. Spec => []ConsumesOwnRun /\ []OrderlyInv /\ []LockInv
  BY OwnRunConsumed, OrderlyInvariant, LockInvariant DEF Faultless
<1>4. QED
  BY <1>1, <1>2, <1>3, EngineInvariant, RunsInvariant, PTL DEF Spec

\* "All passed" is reported only when the main volume holds exactly the locked
\* sheets and that very file went through the bed, however often calls died on
\* the way (graph.py:79-84, verify_phase.py:59-62).
THEOREM DeliveryVerified ==
  ASSUME Faultless, Cases # {} PROVE Spec => []AllPassVerified
<1>1. CallInv => AllPassVerified
  BY DEF CallInv, DeliveryInv, AllPassVerified, Finished, Verified, Closing
<1>2. QED
  BY <1>1, CallInvariant, PTL

\* ... and only when every locked sheet is in the precedent library, but for
\* the cases that flipped in the last run (closing.py:18-50).
THEOREM DeliveryInLibrary ==
  ASSUME Faultless, Cases # {} PROVE Spec => []AllPassInLibrary
<1>1. CallInv => AllPassInLibrary
  BY DEF CallInv, DeliveryInv, AllPassInLibrary, Finished, InLibrary, Closing
<1>2. QED
  BY <1>1, CallInvariant, PTL

-----------------------------------------------------------------------------
(* The one run of a round: what a case that waits for a verdict gets, in a *)
(* call that nothing disturbed.                                            *)

Undisturbed == crashes = 0 /\ ~ch.err

\* Before the bed runs this round's volume, no run of it is on file.
UnrunInv ==
  pc # "consume" => \A name \in Slots : Current(name) => ~HasRun(name)

\* Outside of run_digest the round has no volume yet, but for the archive of a
\* batch that was done before it had any.
UnmergedInv ==
  next # "run_digest" =>
    /\ ~Current("sub")
    /\ ch.round = 0 /\ vol["main"].stamp # 0 => \A c \in Cases : st[c] \in Terminal

\* A case that waits for a verdict is in the volume to run, then in its run.
AwaitedInv ==
  next = "run_digest" =>
    \A c \in Cases : st[c] \in Retried =>
      vol[ch.vref].has[c] # 0 /\ (pc = "consume" => lr[ch.vref][c].v # "none")

FirstRunInv == Undisturbed => UnrunInv /\ UnmergedInv /\ AwaitedInv

\* Errors are never taken back, and deaths are counted.
LEMMA UndisturbedBefore ==
  ASSUME EngineInv, [Next]_vars, Undisturbed' PROVE Undisturbed /\ ~Crash
<1>1. ~ch.err
  BY QuietChannels, MergeChannels, ConsumeOutcomes DEF Undisturbed
<1>2. crashes' \in {crashes, crashes + 1} /\ (Crash => crashes' = crashes + 1)
  BY DEF Next, Step, Call, Crash, Die, Leave, ZombieWrites, Prep, FanoutEmpty, Dispatch,
     Worker, Collect, AskNobody, AskUser, MergeRefused, Merge, DeviceRun, KeepRun,
     RunFails, Consume, AttributeNothing, Attribute, Writeback, Report, vars
<1>3. QED
  BY <1>1, <1>2, BoundsAreNat DEF Undisturbed, EngineInv, TypeOK, ProcessType

\* What a node returns when its call does not die.
LEMMA UndisturbedReturn ==
  ASSUME EngineInv, crashes' = 0, NEW n, NEW k, Leave(n, k)
  PROVE  /\ ch' = k /\ next' = After(n, k, st') /\ crashes = 0
         /\ pc' # "workers" /\ got' = [c \in Cases |-> "idle"]
<1>1. crashes \in Nat
  BY BoundsAreNat DEF EngineInv, TypeOK, ProcessType
<1>2. ~Die
  BY <1>1 DEF Die
<1>3. QED
  BY <1>2 DEF Leave

\* A merge that nothing disturbed leads on: to the bed, or, with nothing to
\* merge, to the report.
LEMMA UndisturbedMerge ==
  ASSUME EngineInv, Merge, Undisturbed'
  PROVE  \/ next' = "report" /\ Plan.target = {} /\ UNCHANGED <<vol, lr>>
         \/ /\ next' = "run_digest" /\ Plan.target # {}
            /\ Emit(EmitName, Plan.target) /\ Present(vol', Plan.name)
            /\ ch'.vref = Plan.name
<1>1. PICK k : Leave("merge", k)
  BY DEF Merge
<1>2. next' # "merge"
  BY <1>1, UndisturbedReturn DEF Undisturbed, After, AfterMerge
<1>3. QED
  BY <1>2, MergeChannels DEF Undisturbed

\* A run that is consumed ends its round.
LEMMA UndisturbedConsume ==
  ASSUME EngineInv, RoundInv, Consume, Undisturbed'
  PROVE  /\ next' # "run_digest" /\ ch'.round = ch.round + 1 /\ ch'.round # 0
         /\ vol' = vol /\ ~Current("sub")' /\ ~Current("main")'
<1>1. ch.round \in Nat /\ vol["sub"].round \in Nat /\ crashes \in Nat
  BY BoundsAreNat
     DEF EngineInv, TypeOK, FilesType, ProcessType, Channels, Volumes, Slots
<1>2. /\ vol' = vol /\ ch'.round = ch.round + 1 /\ next' = AfterRun(ch', st')
  BY <1>1, ConsumeOutcomes DEF Undisturbed
<1>3. QED
  BY <1>1, <1>2 DEF AfterRun, RoundInv, Current

\* Once it is done a case stays as it is.
LEMMA TerminalStays ==
  ASSUME EngineInv, [Next]_vars, NEW c \in Cases, st[c] \in Terminal
  PROVE  st'[c] = st[c]
<1>1. st[c] \notin {"", "pending_compile", "dispatched", "pending_decision",
                    "failed_active", "produced"}
  BY DEF Terminal
<1>2. Prep \/ Dispatch \/ AskNobody \/ AskUser => st'[c] = st[c]
  BY <1>1 DEF Prep, Recovered, Dispatch, InState, AskNobody, AskUser, Presettled, Undecided
<1>3. Collect => st'[c] = st[c]
  BY <1>1 DEF Collect, EngineInv, Inside
<1>4. Consume => st'[c] = st[c]
  BY <1>1 DEF Consume, JudgedState
<1>5. Attribute => st'[c] = st[c]
  BY <1>1, AttributeOutcomes
<1>6. QED
  BY <1>2, <1>3, <1>4, <1>5, StatelessSteps

\* A run is left consumed or lost, and entered by the two actions of the bed.
LEMMA RunPhase ==
  ASSUME EngineInv, [Next]_vars, ~Consume, ~Crash
  PROVE  /\ pc = "consume" => pc' = "consume"
         /\ pc' = "consume" /\ pc # "consume" => DeviceRun \/ KeepRun
<1>1. pc = "consume" => pc' = "consume"
  BY DEF Next, Step, Call, ZombieWrites, Prep, FanoutEmpty, Dispatch,
     Worker, Collect, AskNobody, AskUser, MergeRefused, Merge, DeviceRun, KeepRun,
     RunFails, AttributeNothing, Attribute, Writeback, Report, vars, At
<1>2. ASSUME pc' = "consume", pc # "consume" PROVE DeviceRun \/ KeepRun
  BY <1>2 DEF Next, Step, Call, Die, Leave, ZombieWrites, Prep, FanoutEmpty, Dispatch,
     Worker, Collect, AskNobody, AskUser, MergeRefused, Merge,
     RunFails, AttributeNothing, Attribute, Writeback, Report, vars
<1>3. QED
  BY <1>1, <1>2

LEMMA VolumesKept ==
  ASSUME [Next]_vars, ~Merge, ~Report PROVE vol' = vol
  BY DEF Next, Step, Call, Crash, ZombieWrites, Prep, FanoutEmpty, Dispatch, Worker,
     Collect, AskNobody, AskUser, MergeRefused, DeviceRun, KeepRun, RunFails, Consume,
     AttributeNothing, Attribute, Writeback, vars, volumes

LEMMA UnrunKept ==
  ASSUME EngineInv, RunsInv, UnrunInv, [Next]_vars, Undisturbed', ~Crash PROVE UnrunInv'
<1> SUFFICES ASSUME pc' # "consume", NEW name \in Slots, Current(name)', NEW c \in Cases
             PROVE  lr'[name][c].v = "none"
  BY DEF UnrunInv, HasRun
<1>1. ~Consume
  BY UndisturbedConsume DEF RunsInv, Slots
<1>2. ~DeviceRun /\ pc # "consume"
  BY <1>1, RunPhase DEF DeviceRun
<1>3. CASE Merge
  <2>1. ch'.round = ch.round /\ (UNCHANGED <<vol, lr>> \/ EmitTo(EmitName, Plan.target))
    BY <1>3, MergeChannels
  <2>2. CASE UNCHANGED <<vol, lr>>
    <3>1. Current(name)
      BY <2>1, <2>2 DEF Current
    <3>2. QED
      BY <1>2, <2>2, <3>1 DEF UnrunInv, HasRun
  <2>3. CASE EmitTo(EmitName, Plan.target) /\ (name = "main" \/ EmitName # "sub")
    <3>1. lr'[name] = lr[name] /\ Current(name)
      BY <2>1, <2>3, EmitEffect DEF Current, Slots
    <3>2. QED
      BY <1>2, <3>1 DEF UnrunInv, HasRun
  <2>4. CASE EmitTo(EmitName, Plan.target) /\ name = "sub" /\ EmitName = "sub"
    <3>1. /\ ch.round > 0
          /\ lr'["sub"] = IF vol["sub"].round # ch.round
                            THEN [d \in Cases |-> NoRecord] ELSE lr["sub"]
      BY <2>4, EmitEffect
    <3>2. CASE vol["sub"].round = ch.round
      <4>1. Current("sub") /\ lr'["sub"] = lr["sub"]
        BY <3>1, <3>2 DEF Current
      <4>2. QED
        BY <1>2, <2>4, <4>1 DEF UnrunInv, HasRun, Slots
    <3>3. CASE vol["sub"].round # ch.round
      BY <2>4, <3>1, <3>3 DEF NoRecord
    <3>4. QED
      BY <3>2, <3>3
  <2>5. QED
    BY <2>1, <2>2, <2>3, <2>4 DEF Slots
<1>4. CASE ~Merge
  <2>1. lr'[name][c].v \in {lr[name][c].v, "none"}
    BY <1>2, <1>4, VerdictsKept
  <2>2. ch'.round = ch.round
    BY <1>1, <1>4, QuietChannels
  <2>3. Current(name)
    <3>1. CASE Report
      <4>1. vol'["sub"] \in {NoVolume, vol["sub"]} /\ NoVolume.round = 0
        BY <3>1, ReportRounds DEF NoVolume
      <4>2. QED
        BY <2>2, <4>1 DEF Current
    <3>2. CASE ~Report
      BY <1>4, <2>2, <3>2, VolumesKept DEF Current
    <3>3. QED
      BY <3>1, <3>2
  <2>4. QED
    BY <1>2, <2>1, <2>3 DEF UnrunInv, HasRun
<1>5. QED
  BY <1>3, <1>4

LEMMA UnmergedKept ==
  ASSUME EngineInv, RunsInv, UnmergedInv, [Next]_vars, Undisturbed' PROVE UnmergedInv'
<1> SUFFICES ASSUME next' # "run_digest"
             PROVE  /\ ~Current("sub")'
                    /\ ch'.round = 0 /\ vol'["main"].stamp # 0
                         => \A c \in Cases : st'[c] \in Terminal
  BY DEF UnmergedInv
<1>1. CASE Consume
  BY <1>1, UndisturbedConsume DEF RunsInv
<1>2. CASE ~Consume
  <2>1. ch'.round = ch.round /\ next # "run_digest"
    BY <1>2, QuietChannels, MergeChannels DEF Undisturbed
  <2>2. vol'["sub"] \in {NoVolume, vol["sub"]}
    BY VolumesKept, ReportRounds, UndisturbedMerge
  <2>3. ~Current("sub")'
    <3>1. NoVolume.round = 0
      BY DEF NoVolume
    <3>2. QED
      BY <2>1, <2>2, <3>1 DEF Current, UnmergedInv
  <2>4. ASSUME ch'.round = 0, vol'["main"].stamp # 0, NEW c \in Cases
        PROVE  st'[c] \in Terminal
    <3>1. CASE vol' = vol
      BY <2>1, <2>4, <3>1, TerminalStays DEF UnmergedInv
    <3>2. CASE vol' # vol
      <4>1. Report
        BY <3>2, VolumesKept, UndisturbedMerge
      <4>2. Outcome \in {"delivered_all_pass", "delivered_with_labels"} /\ st' = st
        BY <3>2, <4>1 DEF Report, KeepTemp
      <4>3. QED
        BY <4>2 DEF Outcome, Terminal
    <3>3. QED
      BY <3>1, <3>2
  <2>5. QED
    BY <2>3, <2>4
<1>3. QED
  BY <1>1, <1>2

\* What merge hands to the bed is what it planned: the emitter has written it,
\* for no volume of this round was there before.
LEMMA MergeAwaits ==
  ASSUME EngineInv, UnmergedInv, Merge, Undisturbed', next' = "run_digest",
         NEW c \in Plan.target, c \in Cases, st[c] \in Retried
  PROVE  vol'[ch'.vref].has[c] # 0
<1>1. /\ next = "merge" /\ Emit(EmitName, Plan.target) /\ Present(vol', Plan.name)
      /\ ch'.vref = Plan.name /\ Plan.name \in Slots
  BY UndisturbedMerge, MergeChannels, PlanType
<1>2. ~Current("sub") /\ ~(ch.round = 0 /\ vol["main"].stamp # 0)
  BY <1>1 DEF UnmergedInv, Retried, Terminal
<1>3. IF Plan.name = "sub" THEN ch.round > 0 ELSE ch.round = 0
  BY PlanCases DEF EngineInv, TypeOK, ProcessType, Channels
<1>4. vol'[Plan.name] # vol[Plan.name]
  BY <1>1, <1>2, <1>3 DEF Present, Current, Slots
<1>5. EmitTo(EmitName, Plan.target) /\ xlsx[c] # 0
  BY <1>1, <1>4 DEF Emit, volumes
<1>6. QED
  BY <1>1, <1>4, <1>5, EmitEffect

\* The states a batch may have at a node, in a call that nothing disturbed.
Open ==
  CASE next = "worker_fanout" -> {"pending_compile", "produced", "dispatched"}
    [] next = "ask_decision" -> {"pending_decision", "produced"}
    [] next \in {"merge", "run_digest"} -> {"produced"}
    [] next = "attribute" -> {"failed_active"}
    [] OTHER -> {}

LimboInv ==
  Undisturbed =>
    /\ rep # "stopped"
    /\ \/ \A c \in Cases : st[c] \in Terminal \cup Open
       \/ next \in {"END", "prep"} /\ \A c \in Cases : st[c] = ""
    /\ \A c \in Cases : /\ st[c] = "dispatched" => got[c] # "idle"
                        /\ pc = "workers" => st[c] # "pending_compile"

LEMMA AwaitedKept ==
  ASSUME EngineInv, RunsInv, LimboInv, UnrunInv, UnmergedInv, AwaitedInv, [Next]_vars,
         Undisturbed, Undisturbed', ~Crash
  PROVE  AwaitedInv'
<1> SUFFICES ASSUME next' = "run_digest", NEW c \in Cases, st'[c] \in Retried
             PROVE  /\ vol'[ch'.vref].has[c] # 0
                    /\ pc' = "consume" => lr'[ch'.vref][c].v # "none"
  BY DEF AwaitedInv
<1>1. ~Consume
  BY UndisturbedConsume DEF RunsInv
<1>2. CASE Merge
  <2>1. st' = st /\ next = "merge" /\ pc' # "consume"
    BY <1>2, MergeChannels DEF ledgerVars
  <2>2. st[c] = "produced"
    BY <2>1 DEF LimboInv, Open, Retried, Terminal
  <2>3. c \in Plan.target
    BY <2>2, PlanCases DEF Retried
  <2>4. QED
    BY <1>2, <2>1, <2>2, <2>3, MergeAwaits DEF Retried
<1>3. CASE ~Merge
  <2>1. /\ next = "run_digest" /\ ch'.vref = ch.vref /\ UNCHANGED <<st, vol>>
        /\ ~DeviceRun => lr' = lr
    BY <1>1, <1>3, AtRunFrame
  <2>2. vol[ch.vref].has[c] # 0 /\ (pc = "consume" => lr[ch.vref][c].v # "none")
    BY <2>1 DEF AwaitedInv
  <2>3. ~KeepRun
    <3>1. ch.vref \in Slots /\ Current(ch.vref)
      BY <2>1, MarkType DEF RunsInv, RoundInv
    <3>2. KeepRun => pc = "enter" /\ HasRun(ch.vref)
      BY DEF KeepRun, At, Already
    <3>3. QED
      BY <3>1, <3>2 DEF UnrunInv
  <2>4. CASE DeviceRun
    <3> DEFINE inVol == {d \in Cases : vol[ch.vref].has[d] # 0}
    <3>1. PICK verdict \in [inVol -> Verdicts] :
            lr' = [lr EXCEPT ![ch.vref] =
               [d \in Cases |-> IF d \in inVol THEN [v |-> verdict[d], attr |-> "none"]
                                ELSE @[d]]]
      BY <2>4 DEF DeviceRun
    <3>2. ch.vref \in Slots /\ lr \in [Slots -> Maps(Records)] /\ c \in inVol
      BY <2>1, <2>2, MarkType DEF EngineInv, TypeOK, FilesType
    <3>3. lr'[ch.vref][c].v = verdict[c] /\ verdict[c] \in Verdicts
      BY <3>1, <3>2
    <3>4. QED
      BY <2>1, <2>2, <3>3 DEF Verdicts
  <2>5. CASE ~DeviceRun
    <3>1. pc' = "consume" => pc = "consume"
      BY <1>1, <2>3, <2>5, RunPhase
    <3>2. QED
      BY <2>1, <2>2, <2>5, <3>1
  <2>6. QED
    BY <2>4, <2>5
<1>4. QED
  BY <1>2, <1>3

LEMMA NextKeepsFirstRun ==
  ASSUME EngineInv, RunsInv, LimboInv, FirstRunInv, [Next]_vars PROVE FirstRunInv'
  BY UndisturbedBefore, UnrunKept, UnmergedKept, AwaitedKept DEF FirstRunInv

-----------------------------------------------------------------------------
(* No case is left between two states.                                     *)

LEMMA PrepKeepsLimbo ==
  ASSUME EngineInv, EngineInv', LimboInv, Prep, crashes' = 0, ~ch'.err PROVE LimboInv'
<1>1. next = "prep" /\ rep' = rep
  BY DEF Prep, At, closing
<1>2. ~Leave("prep", Failure("error"))
  BY <1>1, UndisturbedReturn, PlainKeeps
<1>3. /\ Leave("prep", Ok)
      /\ \/ st' = Recovered(st)
         \/ st' = Recovered([c \in Cases |-> IF st[c] = "" THEN "pending_compile" ELSE st[c]])
  BY <1>2 DEF Prep
<1>4. /\ ch' = Ok /\ next' = After("prep", Ok, st') /\ pc' # "workers"
      /\ crashes = 0
  BY <1>3, UndisturbedReturn
<1>5. Ok.status = "ok" /\ ~ch.err
  BY <1>4, PlainKeeps DEF Ok, EngineInv, TypeOK, ProcessType, Channels
<1>6. next' = "worker_fanout" /\ pc' # "workers"
  BY <1>4, <1>5 DEF After, AfterPrep
<1>7. \/ \A c \in Cases : st[c] \in Terminal
      \/ \A c \in Cases : st[c] = ""
  BY <1>1, <1>4, <1>5 DEF LimboInv, Undisturbed, Open
<1>8. \A c \in Cases : st'[c] \in Terminal \cup {"pending_compile"}
  <2>1. CASE \A c \in Cases : st[c] \in Terminal
    BY <1>3, <2>1 DEF Recovered, Terminal
  <2>2. CASE \A c \in Cases : st[c] = ""
    <3>1. st' = Recovered([c \in Cases |-> IF st[c] = "" THEN "pending_compile" ELSE st[c]])
      BY <1>2, <2>2 DEF Prep
    <3>2. QED
      BY <2>2, <3>1 DEF Recovered
  <2>3. QED
    BY <1>7, <2>1, <2>2
<1>9. \A c \in Cases : st'[c] # "dispatched"
  BY <1>8 DEF Terminal
<1>10. QED
  BY <1>1, <1>4, <1>5, <1>6, <1>8, <1>9 DEF LimboInv, Undisturbed, Open

\* A node left in a call that nothing disturbed keeps LimboInv if its cases end up
\* in states that are open at the node that follows.
LEMMA ReturnKeepsLimbo ==
  ASSUME EngineInv, crashes' = 0, NEW n, NEW k, Leave(n, k), rep' # "stopped",
         \A c \in Cases : st'[c] \in Terminal \cup Open' /\ st'[c] # "dispatched"
  PROVE  LimboInv'
  BY UndisturbedReturn DEF LimboInv, Undisturbed

LEMMA FanoutKeepsLimbo ==
  ASSUME EngineInv, LimboInv, crashes' = 0, ~ch.err, FanoutEmpty \/ Dispatch \/ Collect
  PROVE  LimboInv'
<1>1. next = "worker_fanout" /\ DOMAIN st = Cases
  BY DEF FanoutEmpty, Dispatch, Collect, At, EngineInv, Inside, TypeOK, LedgerType, Maps
<1>2. CASE FanoutEmpty
  <2>1. /\ Leave("worker_fanout", Nothing) /\ st' = st /\ rep' = rep /\ pc = "enter"
        /\ \A c \in Cases : st[c] # "pending_compile"
    BY <1>1, <1>2 DEF FanoutEmpty, At, Some, closing
  <2>2. crashes = 0 /\ next' = AfterFanout(Nothing, st)
    BY <2>1, UndisturbedReturn DEF After
  <2>3. \A c \in Cases : st[c] \in Terminal \cup {"produced"} /\ st[c] # "dispatched"
    BY <1>1, <2>1, <2>2 DEF LimboInv, Undisturbed, Open, EngineInv, Inside, Terminal
  <2>4. Nothing.status = "nothing_to_do"
    BY PlainChannels DEF EngineInv, TypeOK
  <2>5. \/ next' = "merge"
        \/ next' = "report" /\ \A c \in Cases : st[c] # "produced"
    BY <1>1, <2>2, <2>3, <2>4 DEF AfterFanout, Some, Terminal
  <2>6. \A c \in Cases : st'[c] \in Terminal \cup Open'
    BY <2>1, <2>3, <2>5 DEF Open
  <2>7. QED
    BY <2>1, <2>2, <2>3, <2>6, ReturnKeepsLimbo DEF LimboInv, Undisturbed
<1>3. CASE Dispatch
  <2>1. /\ \A c \in Cases : st'[c] = IF st[c] = "pending_compile" THEN "dispatched" ELSE st[c]
        /\ \A c \in Cases : got'[c] = IF st[c] = "pending_compile" THEN "running" ELSE "idle"
        /\ next' = next /\ rep' = rep /\ crashes' = crashes /\ pc = "enter"
    BY <1>1, <1>3 DEF Dispatch, InState, At, closing
  <2>2. \A c \in Cases : st[c] # "dispatched"
    BY <2>1 DEF LimboInv, Undisturbed, EngineInv, Inside
  <2>3. \A c \in Cases : st'[c] \in Terminal \cup Open'
    BY <1>1, <2>1 DEF LimboInv, Undisturbed, Open
  <2>4. QED
    BY <2>1, <2>2, <2>3 DEF LimboInv, Undisturbed
<1>4. CASE Collect
  <2>1. /\ Leave("worker_fanout", Ok) /\ rep' = rep /\ pc = "workers"
        /\ st' = [c \in Cases |-> IF got[c] = "idle" THEN st[c] ELSE got[c]]
        /\ \A c \in Cases : got[c] \in {"idle", "produced", "pending_decision", "escalated"}
    BY <1>4 DEF Collect, closing, EngineInv, TypeOK, ProcessType, Maps, Results, Busy
  <2>2. crashes = 0 /\ next' = AfterFanout(Ok, st')
    <3>1. crashes = 0 /\ next' = After("worker_fanout", Ok, st')
      BY <2>1, UndisturbedReturn
    <3>2. QED
      BY <3>1 DEF After
  <2>3. \A c \in Cases : /\ st'[c] \in Terminal \cup {"produced", "pending_decision"}
                         /\ st'[c] # "dispatched"
    BY <1>1, <2>1, <2>2 DEF LimboInv, Undisturbed, Open, Terminal
  <2>4. Ok.status = "ok" /\ DOMAIN st' = Cases
    BY <2>1 DEF Ok, EngineInv, TypeOK, ProcessType, Channels
  <2>5. \/ next' = "ask_decision"
        \/ next' = "merge" /\ \A c \in Cases : st'[c] # "pending_decision"
        \/ next' = "report" /\ \A c \in Cases : st'[c] \notin {"produced", "pending_decision"}
    BY <2>2, <2>3, <2>4 DEF AfterFanout, Some, Terminal
  <2>6. \A c \in Cases : st'[c] \in Terminal \cup Open'
    BY <2>3, <2>5 DEF Open
  <2>7. QED
    BY <2>1, <2>2, <2>3, <2>6, ReturnKeepsLimbo DEF LimboInv, Undisturbed
<1>5. QED
  BY <1>2, <1>3, <1>4

LEMMA AskKeepsLimbo ==
  ASSUME EngineInv, LimboInv, crashes' = 0, ~ch'.err, ~ch.err, AskNobody \/ AskUser
  PROVE  LimboInv'
<1>1. next = "ask_decision" /\ rep' = rep /\ DOMAIN st = Cases
  BY DEF AskNobody, AskUser, At, closing, EngineInv, TypeOK, LedgerType, Maps
<1>2. PICK k \in {Ok, Nothing} :
        /\ Leave("ask_decision", k)
        /\ \/ k = Nothing /\ st' = st /\ ~Some(st, "pending_decision")
           \/ st' = Presettled /\ Undecided = {}
           \/ \E answer : st' = [c \in Cases |-> IF c \notin Undecided THEN Presettled[c]
                                                  ELSE AfterAnswer(answer[c])]
  <2>1. ~Die
    BY BoundsAreNat DEF Die, EngineInv, TypeOK, ProcessType
  <2>2. ~Leave("ask_decision", Failure("error"))
    BY UndisturbedReturn, PlainKeeps
  <2>3. QED
    BY <2>1, <2>2 DEF AskNobody, AskUser
<1>3. crashes = 0 /\ next' = AfterAsk(k, st')
  BY <1>2, UndisturbedReturn DEF After
<1>4. k.status # "error"
  BY <1>2 DEF Ok, Nothing, EngineInv, TypeOK, ProcessType, Channels
<1>5. \A c \in Cases : st[c] \in Terminal \cup {"produced", "pending_decision"}
  BY <1>1, <1>3 DEF LimboInv, Undisturbed, Open
<1>6. /\ DOMAIN st' = Cases
      /\ \A c \in Cases : /\ st'[c] \in Terminal \cup {"produced", "pending_compile"}
                          /\ st'[c] # "dispatched"
  <2>1. CASE st' = st /\ ~Some(st, "pending_decision")
    BY <1>1, <1>5, <2>1 DEF Some, Terminal
  <2>2. \A c \in Cases \ Undecided :
          Presettled[c] \in Terminal \cup {"produced", "pending_compile"}
    BY <1>5 DEF Presettled, Undecided, Terminal
  <2>3. CASE st' = Presettled /\ Undecided = {}
    BY <2>2, <2>3 DEF Presettled, Terminal
  <2>4. ASSUME NEW answer,
               st' = [c \in Cases |-> IF c \notin Undecided THEN Presettled[c]
                                      ELSE AfterAnswer(answer[c])]
        PROVE  /\ DOMAIN st' = Cases
               /\ \A c \in Cases : /\ st'[c] \in Terminal \cup {"produced", "pending_compile"}
                                   /\ st'[c] # "dispatched"
    BY <2>2, <2>4 DEF AfterAnswer, Terminal
  <2>5. QED
    BY <1>2, <2>1, <2>3, <2>4
<1>7. \/ next' = "worker_fanout"
      \/ next' = "merge" /\ \A c \in Cases : st'[c] # "pending_compile"
      \/ next' = "report" /\ \A c \in Cases : st'[c] \notin {"produced", "pending_compile"}
  BY <1>3, <1>4, <1>6 DEF AfterAsk, Some
<1>8. \A c \in Cases : st'[c] \in Terminal \cup Open'
  BY <1>6, <1>7 DEF Open
<1>9. QED
  BY <1>1, <1>2, <1>3, <1>6, <1>8, ReturnKeepsLimbo DEF LimboInv, Undisturbed

LEMMA MergeKeepsLimbo ==
  ASSUME EngineInv, LimboInv, Undisturbed, Undisturbed', Merge PROVE LimboInv'
<1>1. next = "merge" /\ st' = st /\ rep' = rep
  BY MergeChannels DEF ledgerVars
<1>2. \A c \in Cases : st[c] \in Terminal \cup {"produced"}
  BY <1>1 DEF LimboInv, Undisturbed, Open
<1>3. pc' # "workers"
  BY DEF Merge, Leave, Die
<1>4. next' = "run_digest" \/ (next' = "report" /\ Plan.target = {})
  BY UndisturbedMerge
<1>5. ASSUME Plan.target = {}, NEW c \in Cases PROVE st[c] # "produced"
  BY <1>5, PlanCases DEF Retried
<1>6. \A c \in Cases : st'[c] \in Terminal \cup Open'
  BY <1>1, <1>2, <1>4, <1>5 DEF Open
<1>7. QED
  BY <1>1, <1>2, <1>3, <1>6 DEF LimboInv, Undisturbed, Terminal

\* Every case of the volume gets a verdict.
LEMMA ConsumeKeepsLimbo ==
  ASSUME EngineInv, AwaitedInv, LimboInv, crashes' = 0, ~ch.err, Consume
  PROVE  LimboInv'
<1>1. /\ next = "run_digest" /\ pc = "consume" /\ pc' # "workers" /\ rep' = rep
      /\ ch'.status = "ok" /\ crashes = 0 /\ next' = AfterRun(ch', st')
  <2>1. crashes + 1 # 0
    BY BoundsAreNat DEF EngineInv, TypeOK, ProcessType
  <2>2. pc' # "workers"
    BY DEF Consume, Leave, Die
  <2>3. QED
    BY <2>1, <2>2, ConsumeOutcomes
<1>2. ASSUME NEW c \in Cases
      PROVE  st'[c] \in Terminal \cup {"failed_active"} /\ st'[c] # "dispatched"
  <2>1. st[c] \in Terminal \cup {"produced"}
    BY <1>1 DEF LimboInv, Undisturbed, Open
  <2>2. CASE st[c] = "produced"
    <3>1. lr[ch.vref][c].v # "none"
      BY <1>1, <2>2 DEF AwaitedInv, Retried
    <3>2. QED
      BY <2>2, <3>1 DEF Consume, JudgedState, Terminal
  <2>3. CASE st[c] \in Terminal
    <3>1. st'[c] = st[c]
      BY <2>3 DEF Consume, JudgedState, Terminal
    <3>2. QED
      BY <2>3, <3>1 DEF Terminal
  <2>4. QED
    BY <2>1, <2>2, <2>3
<1>3. DOMAIN st' = Cases
  BY DEF Consume
<1>4. \/ next' = "attribute"
      \/ next' \in {"merge", "writeback"} /\ \A c \in Cases : st'[c] # "failed_active"
  BY <1>1, <1>3 DEF AfterRun, Some
<1>5. \A c \in Cases : st'[c] \in Terminal \cup Open'
  BY <1>2, <1>4 DEF Open
<1>6. QED
  BY <1>1, <1>2, <1>5 DEF LimboInv, Undisturbed, Terminal

\* Without "transient" no failed case stays failed.
LEMMA AttributeKeepsLimbo ==
  ASSUME EngineInv, LimboInv, "transient" \notin Dispositions, crashes' = 0, ~ch.err,
         Attribute \/ AttributeNothing
  PROVE  LimboInv'
<1>1. next = "attribute" /\ rep' = rep /\ DOMAIN st = Cases
  BY DEF Attribute, AttributeNothing, At, closing, EngineInv, TypeOK, LedgerType, Maps
<1>2. PICK k \in {Ok, Nothing} :
        /\ Leave("attribute", k)
        /\ \/ st' = st /\ ~Some(st, "failed_active")
           \/ st' = [c \in Cases |->
                 IF st[c] # "failed_active" THEN st[c]
                 ELSE IF ByRecord(c) = "fork" THEN ByFork(ReadBack(lr', c))
                 ELSE ByRecord(c)]
  <2>1. ~Die
    BY BoundsAreNat DEF Die, EngineInv, TypeOK, ProcessType
  <2>2. QED
    BY <2>1, AttributeOutcomes DEF AttributeNothing
<1>3. crashes = 0 /\ next' = AfterAttribute(k, st')
  <2>1. crashes = 0 /\ next' = After("attribute", k, st')
    BY <1>2, UndisturbedReturn
  <2>2. QED
    BY <2>1 DEF After
<1>4. \A c \in Cases : st[c] \in Terminal \cup {"failed_active"}
  BY <1>1, <1>3 DEF LimboInv, Undisturbed, Open
<1>5. ASSUME NEW c \in Cases, Attribute
      PROVE  ByFork(ReadBack(lr', c)) \in {"failed_terminal", "pending_compile", "escalated"}
  <2>1. ch.lref \in Slots /\ lr' \in [Slots -> Maps(Records)]
    BY <1>1, <1>5, AttributeOutcomes DEF EngineInv, TypeOK, ProcessType, HandedOn, Channels
  <2>2. \A name \in Slots : lr'[name][c].attr \in Dispositions \cup {"none"}
    BY <2>1 DEF Maps, Records
  <2>3. ReadBack(lr', c) # "transient"
    BY <2>1, <2>2 DEF ReadBack, Slots
  <2>4. QED
    BY <2>3 DEF ByFork
<1>6. /\ DOMAIN st' = Cases
      /\ \A c \in Cases : /\ st'[c] \in Terminal \cup {"pending_compile"}
                          /\ st'[c] # "dispatched"
  <2>1. CASE st' = st /\ ~Some(st, "failed_active")
    BY <1>1, <1>4, <2>1 DEF Some, Terminal
  <2>2. CASE Attribute /\
             st' = [c \in Cases |->
                 IF st[c] # "failed_active" THEN st[c]
                 ELSE IF ByRecord(c) = "fork" THEN ByFork(ReadBack(lr', c))
                 ELSE ByRecord(c)]
    BY <1>4, <1>5, <2>2, AttributedStates DEF Terminal
  <2>3. QED
    BY <1>2, <2>1, <2>2 DEF AttributeNothing
<1>7. \/ next' = "worker_fanout"
      \/ next' \in {"merge", "writeback"} /\ \A c \in Cases : st'[c] # "pending_compile"
  BY <1>3, <1>6 DEF AfterAttribute, Some
<1>8. \A c \in Cases : st'[c] \in Terminal \cup Open'
  BY <1>6, <1>7 DEF Open
<1>9. QED
  BY <1>1, <1>2, <1>3, <1>6, <1>8, ReturnKeepsLimbo DEF LimboInv, Undisturbed

LEMMA CloseKeepsLimbo ==
  ASSUME EngineInv, LimboInv, crashes' = 0, ~ch.err, Writeback \/ Report PROVE LimboInv'
<1>1. next \in {"writeback", "report"} /\ st' = st
  BY DEF Writeback, Report, At
<1>2. ~Die
  BY BoundsAreNat DEF Die, EngineInv, TypeOK, ProcessType
<1>3. PICK n \in {"writeback", "report"}, k \in {Ok, Nothing} :
        Leave(n, k) /\ (rep' = rep \/ rep' = Outcome)
  BY <1>2 DEF Writeback, Report
<1>4. crashes = 0
  BY <1>3, UndisturbedReturn
<1>5. \A c \in Cases : st[c] \in Terminal
  BY <1>1, <1>4 DEF LimboInv, Undisturbed, Open
<1>6. rep' # "stopped"
  BY <1>3, <1>4, <1>5 DEF Outcome, LimboInv, Undisturbed
<1>7. QED
  BY <1>1, <1>3, <1>5, <1>6, ReturnKeepsLimbo DEF Terminal

LEMMA LateForkKeepsLimbo ==
  ASSUME EngineInv, LimboInv, Undisturbed, NEW c \in Cases, Worker(c) \/ ZombieWrites(c)
  PROVE  LimboInv'
<1>1. /\ UNCHANGED <<st, rep, ch, next, pc, crashes>>
      /\ \A d \in Cases : got[d] # "idle" => got'[d] # "idle"
  <2>1. got \in Maps(Results)
    BY DEF EngineInv, TypeOK, ProcessType
  <2>2. QED
    BY <2>1 DEF Worker, WorkerProduces, WorkerUndecided, WorkerFails, ZombieWrites,
       ledgerVars, closing, EngineInv, Inside, Maps
<1>2. QED
  BY <1>1 DEF LimboInv, Undisturbed, Open

LEMMA NextKeepsLimbo ==
  ASSUME "transient" \notin Dispositions, EngineInv, EngineInv', FirstRunInv, LimboInv,
         [Next]_vars
  PROVE  LimboInv'
<1> SUFFICES ASSUME Undisturbed' PROVE LimboInv'
  BY DEF LimboInv
<1>1. Undisturbed /\ ~Crash /\ crashes = 0 /\ ~ch.err /\ crashes' = 0 /\ ~ch'.err
  BY UndisturbedBefore DEF Undisturbed
<1>2. CASE Call
  BY <1>1, <1>2 DEF Call, LimboInv, Open, ledgerVars, closing
<1>3. CASE UNCHANGED vars
  BY <1>1, <1>3 DEF vars, ledgerVars, closing, LimboInv, Open
<1>4. CASE DeviceRun \/ KeepRun
  <2>1. UNCHANGED <<st, rep, ch, next, got, crashes>> /\ pc' # "workers"
    BY <1>4 DEF DeviceRun, KeepRun, ledgerVars, closing
  <2>2. QED
    BY <1>1, <2>1 DEF LimboInv, Open
<1>5. ~MergeRefused /\ ~RunFails
  <2>1. ASSUME NEW n, NEW k \in {Failure("error"), Failure("device_busy")}, Leave(n, k)
        PROVE  FALSE
    BY <1>1, <2>1, UndisturbedReturn, PlainKeeps
  <2>2. QED
    BY <2>1 DEF MergeRefused, RunFails
<1>6. CASE Consume
  BY <1>1, <1>6, ConsumeKeepsLimbo DEF FirstRunInv
<1>7. QED
  BY <1>1, <1>2, <1>3, <1>4, <1>5, <1>6, LateForkKeepsLimbo, PrepKeepsLimbo,
     FanoutKeepsLimbo, AskKeepsLimbo, MergeKeepsLimbo, AttributeKeepsLimbo,
     CloseKeepsLimbo DEF Next, Step

\* A call that nothing interrupted and no node failed leaves no case between two
\* states, if attributions never call a failure transient: neither late forks
\* nor tools and digests that fail can do that (closing.py:113-115).
THEOREM NoCaseInLimbo ==
  ASSUME "transient" \notin Dispositions PROVE Spec => []NoLimbo
<1>1. Init => LimboInv /\ FirstRunInv
  <2> SUFFICES ASSUME Init PROVE LimboInv /\ FirstRunInv
    OBVIOUS
  <2>1. rep = "none" /\ next = "END" /\ pc = "down" /\ \A c \in Cases : st[c] = ""
    BY DEF Init
  <2>. ch.round = 0
    BY DEF Init
  <2>2. vol["main"].stamp = 0
    BY DEF Init, NoVolume, Slots
  <2>3. \A name \in Slots : ~HasRun(name)
    BY DEF Init, HasRun, NoRecord
  <2>4. LimboInv
    BY <2>1 DEF LimboInv
  <2>5. UnrunInv /\ AwaitedInv
    BY <2>1, <2>3 DEF UnrunInv, AwaitedInv
  <2>6. UnmergedInv
    <3>1. ~Current("sub")
      BY DEF Current
    <3>2. QED
      BY <2>2, <3>1 DEF UnmergedInv
  <2>7. QED
    BY <2>4, <2>5, <2>6 DEF FirstRunInv
<1>2. EngineInv /\ EngineInv' /\ RunsInv /\ FirstRunInv /\ LimboInv /\ [Next]_vars
        => FirstRunInv' /\ LimboInv'
  BY NextKeepsFirstRun, NextKeepsLimbo
<1>3. LimboInv => NoLimbo
  BY DEF LimboInv, NoLimbo, Undisturbed
<1>4. QED
  BY <1>1, <1>2, <1>3, EngineInvariant, RunsInvariant, PTL DEF Spec
=============================================================================
