--------------------------- MODULE DeviceBedProofs ---------------------------
(***************************************************************************)
(* One run at a time on a bed, and verdicts of the delivered volume, for   *)
(* any number of calls, processes and environments, in three layers. Where *)
(* calls and claims are is sure whatever fails (PlaceInv). Two runs stay   *)
(* apart when every process claims its environment, the search for a run   *)
(* left behind sees one that is there, and no call ends before its         *)
(* submission (ExclusionInv); the verdicts are of the volume    *)
(* delivered when, besides, the clock is read (OwnVolume). The lock file   *)
(* is not used: whatever it says of its holder ("setsid"), the claim and   *)
(* the search exclude by themselves.                                       *)
(***************************************************************************)
EXTENDS DeviceBed, TLAPS

-----------------------------------------------------------------------------
(* Where calls and claims are.                                             *)

Live == {"spawned", "pytest"}

(* A claim is held by the call that has the mutex of its process. A call   *)
(* at work has that mutex, and from the claim on a call, and so its script *)
(* and its run, is somewhere.                                              *)
Placement ==
  /\ \A e \in Envs : claim[e] # None => mutex[ProcOf[claim[e]]] = claim[e]
  /\ \A c \in Calls :
       /\ pc[c] \in Held => mutex[ProcOf[c]] = c
       /\ pc[c] \in Placed \/ script[c] # "none" \/ run[c] # "none" => at[c] \in Envs

PlaceInv == TypeOK /\ Placement

LEMMA EnterPlaces ==
  ASSUME PlaceInv, NEW c \in Calls, Enter(c)
  PROVE  PlaceInv'
<1> USE BedAssumption DEF PlaceInv, client, remote, Goto, Returns, Held, Script, Starting, Ended, Placed, Live, Stages, RunStates
<1>1. TypeOK'
  BY DEF TypeOK, Placement, Locks, Enter
<1>2. Placement'
  BY DEF TypeOK, Placement, Enter
<1>. QED  BY <1>1, <1>2

LEMMA ClaimPlaces ==
  ASSUME PlaceInv, NEW c \in Calls, Claim(c)
  PROVE  PlaceInv'
<1> USE BedAssumption DEF PlaceInv, client, remote, Goto, Returns, Held, Script, Starting, Ended, Placed, Live, Stages, RunStates
<1>0. PICK e \in Envs, pooled \in BOOLEAN :
          /\ pooled => claim[e] = None
          /\ claim' = [claim EXCEPT ![e] = IF pooled THEN c ELSE @]
          /\ at' = [at EXCEPT ![c] = e]
  BY DEF Claim, Free, Pooled
<1>a. /\ pc[c] = "claim"
      /\ pc' = [pc EXCEPT ![c] = "probe"]
      /\ UNCHANGED <<mutex, got, script, staged, lock, loaded, log, fresh, run>>
  BY DEF Claim
<1>1. TypeOK'
  BY <1>0, <1>a DEF TypeOK, Placement, Locks
<1>2. Placement'
  BY <1>0, <1>a DEF TypeOK, Placement
<1>. QED  BY <1>1, <1>2

LEMMA ClaimTimesOutPlaces ==
  ASSUME PlaceInv, NEW c \in Calls, ClaimTimesOut(c)
  PROVE  PlaceInv'
<1> USE BedAssumption DEF PlaceInv, client, remote, Goto, Returns, Held, Script, Starting, Ended, Placed, Live, Stages, RunStates
<1>1. TypeOK'
  <2>1. pc' \in [Calls -> Stages]
    BY DEF TypeOK, Placement, Locks, ClaimTimesOut
  <2>2. mutex' \in [Procs -> Calls \cup {None}]
    BY DEF TypeOK, Placement, Locks, ClaimTimesOut
  <2>3. claim' \in [Envs -> Calls \cup {None}]
    BY DEF TypeOK, Placement, Locks, ClaimTimesOut
  <2>4. \A e \in Envs : claim'[e] # None => at'[claim'[e]] = e /\ pc'[claim'[e]] \in Placed
    BY DEF TypeOK, Placement, Locks, ClaimTimesOut
  <2>. QED  BY <2>1, <2>2, <2>3, <2>4 DEF TypeOK, ClaimTimesOut
<1>2. Placement'
  BY DEF TypeOK, Placement, ClaimTimesOut
<1>. QED  BY <1>1, <1>2

LEMMA ProbePlaces ==
  ASSUME PlaceInv, NEW c \in Calls, Probe(c)
  PROVE  PlaceInv'
<1> USE BedAssumption DEF PlaceInv, client, remote, Goto, Returns, Held, Script, Starting, Ended, Placed, Live, Stages, RunStates
<1>1. TypeOK'
  BY DEF TypeOK, Placement, Locks, Probe, Probed, Visible
<1>2. Placement'
  BY DEF TypeOK, Placement, Probe, Probed, Visible
<1>. QED  BY <1>1, <1>2

LEMMA ReprobePlaces ==
  ASSUME PlaceInv, NEW c \in Calls, Reprobe(c)
  PROVE  PlaceInv'
<1> USE BedAssumption DEF PlaceInv, client, remote, Goto, Returns, Held, Script, Starting, Ended, Placed, Live, Stages, RunStates
<1>1. TypeOK'
  BY DEF TypeOK, Placement, Locks, Reprobe, Probed, Visible
<1>2. Placement'
  BY DEF TypeOK, Placement, Reprobe, Probed, Visible
<1>. QED  BY <1>1, <1>2

LEMMA DeliverPlaces ==
  ASSUME PlaceInv, NEW c \in Calls, Deliver(c)
  PROVE  PlaceInv'
<1> USE BedAssumption DEF PlaceInv, client, remote, Goto, Returns, Held, Script, Starting, Ended, Placed, Live, Stages, RunStates
<1>1. TypeOK'
  BY DEF TypeOK, Placement, Locks, Deliver
<1>2. Placement'
  BY DEF TypeOK, Placement, Deliver
<1>. QED  BY <1>1, <1>2

LEMMA TakeEpochPlaces ==
  ASSUME PlaceInv, NEW c \in Calls, TakeEpoch(c)
  PROVE  PlaceInv'
<1> USE BedAssumption DEF PlaceInv, client, remote, Goto, Returns, Held, Script, Starting, Ended, Placed, Live, Stages, RunStates
<1>1. TypeOK'
  BY DEF TypeOK, Placement, Locks, TakeEpoch, Rebased
<1>2. Placement'
  BY DEF TypeOK, Placement, TakeEpoch, Rebased
<1>. QED  BY <1>1, <1>2

LEMMA CreateLockPlaces ==
  ASSUME PlaceInv, NEW c \in Calls, NEW again \in BOOLEAN, CreateLock(c, again)
  PROVE  PlaceInv'
<1> USE BedAssumption DEF PlaceInv, client, remote, Goto, Returns, Held, Script, Starting, Ended, Placed, Live, Stages, RunStates
<1>1. TypeOK'
  <2>1. pc' \in [Calls -> Stages]
    BY DEF TypeOK, Placement, Locks, CreateLock
  <2>2. lock' \in [Envs -> Locks \cup {None}]
    <3>1. [by |-> c, pid |-> FALSE] \in Locks
      BY DEF Locks
    <3>2. lock' = lock \/ lock' = [lock EXCEPT ![at[c]] = [by |-> c, pid |-> FALSE]]
      BY DEF CreateLock
    <3>3. lock \in [Envs -> Locks \cup {None}]
      BY DEF TypeOK
    <3>. QED  BY ONLY <3>1, <3>2, <3>3
  <2>3. \A e \in Envs : claim'[e] # None => at'[claim'[e]] = e /\ pc'[claim'[e]] \in Placed
    BY DEF TypeOK, Placement, Locks, CreateLock
  <2>. QED  BY <2>1, <2>2, <2>3 DEF TypeOK, CreateLock
<1>2. Placement'
  BY DEF TypeOK, Placement, CreateLock
<1>. QED  BY <1>1, <1>2

LEMMA ReadLockPlaces ==
  ASSUME PlaceInv, NEW c \in Calls, NEW again \in BOOLEAN, ReadLock(c, again)
  PROVE  PlaceInv'
<1> USE BedAssumption DEF PlaceInv, client, remote, Goto, Returns, Held, Script, Starting, Ended, Placed, Live, Stages, RunStates
<1>1. TypeOK'
  BY DEF TypeOK, Placement, Locks, ReadLock, Answers
<1>2. Placement'
  BY DEF TypeOK, Placement, ReadLock, Answers
<1>. QED  BY <1>1, <1>2

LEMMA UnlinkPlaces ==
  ASSUME PlaceInv, NEW c \in Calls, NEW again \in BOOLEAN, Unlink(c, again)
  PROVE  PlaceInv'
<1> USE BedAssumption DEF PlaceInv, client, remote, Goto, Returns, Held, Script, Starting, Ended, Placed, Live, Stages, RunStates
<1>1. TypeOK'
  <2>1. pc' \in [Calls -> Stages]
    BY DEF TypeOK, Placement, Locks, Unlink, Answers
  <2>2. mutex' \in [Procs -> Calls \cup {None}]
    BY DEF TypeOK, Placement, Locks, Unlink, Answers
  <2>3. claim' \in [Envs -> Calls \cup {None}]
    BY DEF TypeOK, Placement, Locks, Unlink, Answers
  <2>4. lock' \in [Envs -> Locks \cup {None}]
    BY DEF TypeOK, Placement, Locks, Unlink, Answers
  <2>5. \A e \in Envs : claim'[e] # None => at'[claim'[e]] = e /\ pc'[claim'[e]] \in Placed
    BY DEF TypeOK, Placement, Locks, Unlink, Answers
  <2>. QED  BY <2>1, <2>2, <2>3, <2>4, <2>5 DEF TypeOK, Unlink, Answers
<1>2. Placement'
  BY DEF TypeOK, Placement, Unlink, Answers
<1>. QED  BY <1>1, <1>2

LEMMA SpawnPlaces ==
  ASSUME PlaceInv, NEW c \in Calls, Spawn(c)
  PROVE  PlaceInv'
<1> USE BedAssumption DEF PlaceInv, client, remote, Goto, Returns, Held, Script, Starting, Ended, Placed, Live, Stages, RunStates
<1>1. TypeOK'
  BY DEF TypeOK, Placement, Locks, Spawn
<1>2. Placement'
  BY DEF TypeOK, Placement, Spawn
<1>. QED  BY <1>1, <1>2

LEMMA ScriptFailsPlaces ==
  ASSUME PlaceInv, NEW c \in Calls, ScriptFails(c)
  PROVE  PlaceInv'
<1> USE BedAssumption DEF PlaceInv, client, remote, Goto, Returns, Held, Script, Starting, Ended, Placed, Live, Stages, RunStates
<1>1. TypeOK'
  BY DEF TypeOK, Placement, Locks, ScriptFails, Answers
<1>2. Placement'
  BY DEF TypeOK, Placement, ScriptFails, Answers
<1>. QED  BY <1>1, <1>2

LEMMA AnswerLostPlaces ==
  ASSUME PlaceInv, NEW c \in Calls, AnswerLost(c)
  PROVE  PlaceInv'
<1> USE BedAssumption DEF PlaceInv, client, remote, Goto, Returns, Held, Script, Starting, Ended, Placed, Live, Stages, RunStates
<1>1. TypeOK'
  BY DEF TypeOK, Placement, Locks, AnswerLost, OnTheWay
<1>2. Placement'
  BY DEF TypeOK, Placement, AnswerLost, OnTheWay
<1>. QED  BY <1>1, <1>2

LEMMA StampPlaces ==
  ASSUME PlaceInv, NEW c \in Calls, Stamp(c)
  PROVE  PlaceInv'
<1> USE BedAssumption DEF PlaceInv, client, remote, Goto, Returns, Held, Script, Starting, Ended, Placed, Live, Stages, RunStates
<1>1. TypeOK'
  BY DEF TypeOK, Placement, Locks, Stamp, Answers
<1>2. Placement'
  BY DEF TypeOK, Placement, Stamp, Answers
<1>. QED  BY <1>1, <1>2

LEMMA PollPlaces ==
  ASSUME PlaceInv, NEW c \in Calls, Poll(c)
  PROVE  PlaceInv'
<1> USE BedAssumption DEF PlaceInv, client, remote, Goto, Returns, Held, Script, Starting, Ended, Placed, Live, Stages, RunStates
<1>1. TypeOK'
  BY DEF TypeOK, Placement, Locks, Poll, StopsWaiting
<1>2. Placement'
  BY DEF TypeOK, Placement, Poll, StopsWaiting
<1>. QED  BY <1>1, <1>2

LEMMA FetchPlaces ==
  ASSUME PlaceInv, NEW c \in Calls, Fetch(c)
  PROVE  PlaceInv'
<1> USE BedAssumption DEF PlaceInv, client, remote, Goto, Returns, Held, Script, Starting, Ended, Placed, Live, Stages, RunStates
<1>1. TypeOK'
  <2>1. pc' \in [Calls -> Stages]
    BY DEF TypeOK, Placement, Locks, Fetch, Verdicts
  <2>2. mutex' \in [Procs -> Calls \cup {None}]
    BY DEF TypeOK, Placement, Locks, Fetch, Verdicts
  <2>3. claim' \in [Envs -> Calls \cup {None}]
    BY DEF TypeOK, Placement, Locks, Fetch, Verdicts
  <2>4. got' \in [Calls -> Calls \cup {None}]
    BY DEF TypeOK, Placement, Locks, Fetch, Verdicts
  <2>5. \A e \in Envs : claim'[e] # None => at'[claim'[e]] = e /\ pc'[claim'[e]] \in Placed
    BY DEF TypeOK, Placement, Locks, Fetch, Verdicts
  <2>. QED  BY <2>1, <2>2, <2>3, <2>4, <2>5 DEF TypeOK, Fetch, Verdicts
<1>2. Placement'
  BY DEF TypeOK, Placement, Fetch, Verdicts
<1>. QED  BY <1>1, <1>2

LEMMA RunStartsPlaces ==
  ASSUME PlaceInv, NEW c \in Calls, RunStarts(c)
  PROVE  PlaceInv'
<1> USE BedAssumption DEF PlaceInv, client, remote, Goto, Returns, Held, Script, Starting, Ended, Placed, Live, Stages, RunStates
<1>1. TypeOK'
  <2>1. run' \in [Calls -> RunStates]
    BY DEF TypeOK, Placement, Locks, RunStarts
  <2>2. loaded' \in [Calls -> Calls \cup {None}]
    BY DEF TypeOK, Placement, RunStarts
  <2>3. \A e \in Envs : claim'[e] # None => at'[claim'[e]] = e /\ pc'[claim'[e]] \in Placed
    BY DEF TypeOK, Placement, Locks, RunStarts
  <2>. QED  BY <2>1, <2>2, <2>3 DEF TypeOK, RunStarts
<1>2. Placement'
  BY DEF TypeOK, Placement, RunStarts
<1>. QED  BY <1>1, <1>2

LEMMA WriteLogPlaces ==
  ASSUME PlaceInv, NEW c \in Calls, WriteLog(c)
  PROVE  PlaceInv'
<1> USE BedAssumption DEF PlaceInv, client, remote, Goto, Returns, Held, Script, Starting, Ended, Placed, Live, Stages, RunStates
<1>1. TypeOK'
  BY DEF TypeOK, Placement, Locks, WriteLog
<1>2. Placement'
  BY DEF TypeOK, Placement, WriteLog
<1>. QED  BY <1>1, <1>2

LEMMA PytestEndsPlaces ==
  ASSUME PlaceInv, NEW c \in Calls, PytestEnds(c)
  PROVE  PlaceInv'
<1> USE BedAssumption DEF PlaceInv, client, remote, Goto, Returns, Held, Script, Starting, Ended, Placed, Live, Stages, RunStates
<1>1. TypeOK'
  BY DEF TypeOK, Placement, Locks, PytestEnds
<1>2. Placement'
  BY DEF TypeOK, Placement, PytestEnds
<1>. QED  BY <1>1, <1>2

LEMMA WriteStatusPlaces ==
  ASSUME PlaceInv, NEW c \in Calls, WriteStatus(c)
  PROVE  PlaceInv'
<1> USE BedAssumption DEF PlaceInv, client, remote, Goto, Returns, Held, Script, Starting, Ended, Placed, Live, Stages, RunStates
<1>1. TypeOK'
  BY DEF TypeOK, Placement, Locks, WriteStatus
<1>2. Placement'
  BY DEF TypeOK, Placement, WriteStatus
<1>. QED  BY <1>1, <1>2

LEMMA RemoveLockPlaces ==
  ASSUME PlaceInv, NEW c \in Calls, RemoveLock(c)
  PROVE  PlaceInv'
<1> USE BedAssumption DEF PlaceInv, client, remote, Goto, Returns, Held, Script, Starting, Ended, Placed, Live, Stages, RunStates
<1>1. TypeOK'
  BY DEF TypeOK, Placement, Locks, RemoveLock
<1>2. Placement'
  BY DEF TypeOK, Placement, RemoveLock
<1>. QED  BY <1>1, <1>2

LEMMA DiePlaces ==
  ASSUME PlaceInv, NEW p \in Procs, Die(p)
  PROVE  PlaceInv'
<1> USE BedAssumption DEF PlaceInv, client, remote, Goto, Returns, Held, Script, Starting, Ended, Placed, Live, Stages, RunStates
<1>1. TypeOK'
  BY DEF TypeOK, Placement, Locks, Die, OnTheWay
<1>2. Placement'
  BY DEF TypeOK, Placement, Die, OnTheWay
<1>. QED  BY <1>1, <1>2

LEMMA StepPlaces ==
  ASSUME PlaceInv, [Next]_vars
  PROVE  PlaceInv'
<1>1. CASE UNCHANGED vars
  BY <1>1 DEF PlaceInv, TypeOK, Placement, vars, client, remote
<1>2. ASSUME NEW p \in Procs, Die(p)  PROVE  PlaceInv'
  BY <1>2, DiePlaces
<1>3. ASSUME NEW c \in Calls, Enter(c)  PROVE  PlaceInv'
  BY <1>3, EnterPlaces
<1>4. ASSUME NEW c \in Calls, Submission(c)  PROVE  PlaceInv'
  BY <1>4, CreateLockPlaces, ReadLockPlaces, UnlinkPlaces, SpawnPlaces,
     StampPlaces, ScriptFailsPlaces DEF Submission
<1>5. ASSUME NEW c \in Calls, Call(c)  PROVE  PlaceInv'
  BY <1>5, ClaimPlaces, ClaimTimesOutPlaces, ProbePlaces, ReprobePlaces,
     DeliverPlaces, TakeEpochPlaces, AnswerLostPlaces, PollPlaces, FetchPlaces DEF Call
<1>6. ASSUME NEW r \in Calls, Runner(r)  PROVE  PlaceInv'
  BY <1>6, RunStartsPlaces, WriteLogPlaces, PytestEndsPlaces,
     WriteStatusPlaces, RemoveLockPlaces
     DEF Runner
<1>. QED  BY <1>1, <1>2, <1>3, <1>4, <1>5, <1>6 DEF Next

LEMMA InitPlaces ==
  ASSUME Init
  PROVE  PlaceInv
BY BedAssumption
   DEF Init, Held, Script, Starting, Ended, Placed, Stages, RunStates, PlaceInv, TypeOK, Placement

LEMMA AlwaysPlaced ==
  Spec => []PlaceInv
<1>1. PlaceInv /\ [Next]_vars => PlaceInv'
  BY StepPlaces
<1>2. Init => PlaceInv
  BY InitPlaces
<1>. QED  BY <1>1, <1>2, PTL DEF Spec

(* TypeOK: the values stay in their sets, and an environment is only ever  *)
(* claimed by a call that is at work in it, so no ending leaks a claim,    *)
(* whatever fails and whoever dies.                                        *)
THEOREM BedTypeCorrect ==
  Spec => []TypeOK
<1>1. PlaceInv => TypeOK
  BY DEF PlaceInv
<1>. QED  BY <1>1, AlwaysPlaced, PTL

-----------------------------------------------------------------------------
(* One run at a time.                                                      *)

ClaimedBed == Faults \subseteq {"setsid", "epoch"}

(* A placed call holds its mutex and the claim of its environment.         *)
Holds ==
  \A c \in Calls :
    /\ pc[c] \in Held => mutex[ProcOf[c]] = c
    /\ pc[c] \in Placed => at[c] \in Envs /\ claim[at[c]] = c

(* A script is not there before its call submits, nor a run before its     *)
(* script has spawned it, and until a run has started its call waits for   *)
(* it.                                                                     *)
RunPlaced ==
  \A r \in Calls :
    /\ run[r] # "none" => script[r] \in {"stamp", "over"}
    /\ script[r] # "none" => at[r] \in Envs /\ pc[r] \in {"submit", "wait", "fetch"} \cup Ended
    /\ script[r] \in Starting => pc[r] = "submit"
    /\ script[r] = "stamp" => run[r] # "none"
    /\ run[r] = "spawned" => pc[r] \in {"submit", "wait"}

(* From its delivery on nothing runs where a call is but its own run.      *)
Excluded ==
  \A c, r \in Calls :
    pc[c] \in {"deliver", "epoch", "submit", "wait", "fetch"} /\ at[r] = at[c] /\ run[r] \in Live
      => r = c

ExclusionInv == Holds /\ RunPlaced /\ Excluded /\ OneRunAtATime

LEMMA EnterExcludes ==
  ASSUME ClaimedBed, PlaceInv, ExclusionInv, NEW c \in Calls, Enter(c)
  PROVE  ExclusionInv'
<1> USE BedAssumption DEF ClaimedBed, PlaceInv, ExclusionInv, client, remote, Goto, Returns, Held, Script, Starting, Ended, Placed, Live, Stages, RunStates
<1>1. Holds'
  BY DEF TypeOK, Holds, Enter
<1>2. RunPlaced'
  BY DEF TypeOK, RunPlaced, Holds, Enter
<1>3. Excluded'
  BY DEF TypeOK, Excluded, RunPlaced, Holds, Enter
<1>4. OneRunAtATime'
  BY DEF TypeOK, OneRunAtATime, Excluded, RunPlaced, Enter
<1>. QED  BY <1>1, <1>2, <1>3, <1>4

LEMMA ClaimExcludes ==
  ASSUME ClaimedBed, PlaceInv, ExclusionInv, NEW c \in Calls, Claim(c)
  PROVE  ExclusionInv'
<1> USE BedAssumption DEF ClaimedBed, PlaceInv, ExclusionInv, client, remote, Goto, Returns, Held, Script, Starting, Ended, Placed, Live, Stages, RunStates
<1>0. PICK e \in Envs : /\ claim[e] = None
                        /\ claim' = [claim EXCEPT ![e] = c]
                        /\ at' = [at EXCEPT ![c] = e]
  <2>1. Pooled = {TRUE}
    BY DEF Pooled
  <2>. QED  BY <2>1 DEF Claim, Free
<1>a. /\ pc[c] = "claim"
      /\ pc' = [pc EXCEPT ![c] = "probe"]
      /\ UNCHANGED <<mutex, got, script, staged, lock, loaded, log, fresh, run>>
  BY DEF Claim
<1>1. Holds'
  BY <1>0, <1>a DEF TypeOK, Holds
<1>2. RunPlaced'
  BY <1>0, <1>a DEF TypeOK, RunPlaced, Holds
<1>3. Excluded'
  BY <1>0, <1>a DEF TypeOK, Excluded, RunPlaced, Holds
<1>4. OneRunAtATime'
  BY <1>0, <1>a DEF TypeOK, OneRunAtATime, Excluded, RunPlaced
<1>. QED  BY <1>1, <1>2, <1>3, <1>4

LEMMA ClaimTimesOutExcludes ==
  ASSUME ClaimedBed, PlaceInv, ExclusionInv, NEW c \in Calls, ClaimTimesOut(c)
  PROVE  ExclusionInv'
<1> USE BedAssumption DEF ClaimedBed, PlaceInv, ExclusionInv, client, remote, Goto, Returns, Held, Script, Starting, Ended, Placed, Live, Stages, RunStates
<1>1. Holds'
  BY DEF TypeOK, Holds, ClaimTimesOut
<1>2. RunPlaced'
  BY DEF TypeOK, RunPlaced, Holds, ClaimTimesOut
<1>3. Excluded'
  BY DEF TypeOK, Excluded, RunPlaced, Holds, ClaimTimesOut
<1>4. OneRunAtATime'
  BY DEF TypeOK, OneRunAtATime, Excluded, RunPlaced, ClaimTimesOut
<1>. QED  BY <1>1, <1>2, <1>3, <1>4

LEMMA ProbeExcludes ==
  ASSUME ClaimedBed, PlaceInv, ExclusionInv, NEW c \in Calls, Probe(c)
  PROVE  ExclusionInv'
<1> USE BedAssumption DEF ClaimedBed, PlaceInv, ExclusionInv, client, remote, Goto, Returns, Held, Script, Starting, Ended, Placed, Live, Stages, RunStates
<1>1. Holds'
  BY DEF TypeOK, Holds, Probe, Probed, Visible
<1>2. RunPlaced'
  BY DEF TypeOK, RunPlaced, Holds, Probe, Probed, Visible
<1>3. Excluded'
  <2>1. \A r \in Calls : at[r] = at[c] => run[r] # "spawned"
    BY DEF TypeOK, RunPlaced, Holds, Probe
  <2>2. ASSUME pc'[c] = "deliver", NEW r \in Calls, at[r] = at[c]  PROVE  run[r] \notin Live
    <3>1. "blind" \notin Faults
      OBVIOUS
    <3>2. Probed(at[c]) = {Visible(at[c])}
      BY <3>1 DEF Probed
    <3>3. ~Visible(at[c])
      <4>1. PICK seen \in {Visible(at[c])} : ~seen
        BY <3>2, <2>2 DEF TypeOK, Probe
      <4>. QED  BY <4>1
    <3>. QED  BY <2>1, <2>2, <3>3 DEF Visible, TypeOK
  <2>3. /\ \A d \in Calls \ {c} : pc'[d] = pc[d]
        /\ pc'[c] \notin Held \ {"deliver", "reprobe"}
        /\ at' = at
        /\ \A r \in Calls : run'[r] = run[r] \/ run'[r] = "exited"
        /\ pc'[c] = "deliver" => run' = run
    BY DEF TypeOK, Probe
  <2>. QED  BY <2>2, <2>3 DEF TypeOK, Excluded
<1>4. OneRunAtATime'
  BY DEF TypeOK, OneRunAtATime, Excluded, RunPlaced, Probe, Probed, Visible
<1>. QED  BY <1>1, <1>2, <1>3, <1>4

LEMMA ReprobeExcludes ==
  ASSUME ClaimedBed, PlaceInv, ExclusionInv, NEW c \in Calls, Reprobe(c)
  PROVE  ExclusionInv'
<1> USE BedAssumption DEF ClaimedBed, PlaceInv, ExclusionInv, client, remote, Goto, Returns, Held, Script, Starting, Ended, Placed, Live, Stages, RunStates
<1>1. Holds'
  BY DEF TypeOK, Holds, Reprobe, Probed, Visible
<1>2. RunPlaced'
  BY DEF TypeOK, RunPlaced, Holds, Reprobe, Probed, Visible
<1>3. Excluded'
  <2>1. \A r \in Calls : at[r] = at[c] => run[r] # "spawned"
    BY DEF TypeOK, RunPlaced, Holds, Reprobe
  <2>2. ASSUME pc'[c] = "deliver", NEW r \in Calls, at[r] = at[c]  PROVE  run[r] \notin Live
    <3>1. "blind" \notin Faults
      OBVIOUS
    <3>2. Probed(at[c]) = {Visible(at[c])}
      BY <3>1 DEF Probed
    <3>3. ~Visible(at[c])
      <4>1. PICK seen \in {Visible(at[c])} : ~seen
        BY <3>2, <2>2 DEF TypeOK, Reprobe
      <4>. QED  BY <4>1
    <3>. QED  BY <2>1, <2>2, <3>3 DEF Visible, TypeOK
  <2>3. /\ \A d \in Calls \ {c} : pc'[d] = pc[d]
        /\ pc'[c] \notin Held \ {"deliver", "reprobe"}
        /\ at' = at
        /\ \A r \in Calls : run'[r] = run[r] \/ run'[r] = "exited"
        /\ pc'[c] = "deliver" => run' = run
    BY DEF TypeOK, Reprobe
  <2>. QED  BY <2>2, <2>3 DEF TypeOK, Excluded
<1>4. OneRunAtATime'
  BY DEF TypeOK, OneRunAtATime, Excluded, RunPlaced, Reprobe, Probed, Visible
<1>. QED  BY <1>1, <1>2, <1>3, <1>4

LEMMA DeliverExcludes ==
  ASSUME ClaimedBed, PlaceInv, ExclusionInv, NEW c \in Calls, Deliver(c)
  PROVE  ExclusionInv'
<1> USE BedAssumption DEF ClaimedBed, PlaceInv, ExclusionInv, client, remote, Goto, Returns, Held, Script, Starting, Ended, Placed, Live, Stages, RunStates
<1>1. Holds'
  BY DEF TypeOK, Holds, Deliver
<1>2. RunPlaced'
  BY DEF TypeOK, RunPlaced, Holds, Deliver
<1>3. Excluded'
  BY DEF TypeOK, Excluded, RunPlaced, Holds, Deliver
<1>4. OneRunAtATime'
  BY DEF TypeOK, OneRunAtATime, Excluded, RunPlaced, Deliver
<1>. QED  BY <1>1, <1>2, <1>3, <1>4

LEMMA TakeEpochExcludes ==
  ASSUME ClaimedBed, PlaceInv, ExclusionInv, NEW c \in Calls, TakeEpoch(c)
  PROVE  ExclusionInv'
<1> USE BedAssumption DEF ClaimedBed, PlaceInv, ExclusionInv, client, remote, Goto, Returns, Held, Script, Starting, Ended, Placed, Live, Stages, RunStates
<1>1. Holds'
  BY DEF TypeOK, Holds, TakeEpoch, Rebased
<1>2. RunPlaced'
  BY DEF TypeOK, RunPlaced, Holds, TakeEpoch, Rebased
<1>3. Excluded'
  BY DEF TypeOK, Excluded, RunPlaced, Holds, TakeEpoch, Rebased
<1>4. OneRunAtATime'
  BY DEF TypeOK, OneRunAtATime, Excluded, RunPlaced, TakeEpoch, Rebased
<1>. QED  BY <1>1, <1>2, <1>3, <1>4

LEMMA CreateLockExcludes ==
  ASSUME ClaimedBed, PlaceInv, ExclusionInv, NEW c \in Calls, NEW again \in BOOLEAN, CreateLock(c, again)
  PROVE  ExclusionInv'
<1> USE BedAssumption DEF ClaimedBed, PlaceInv, ExclusionInv, client, remote, Goto, Returns, Held, Script, Starting, Ended, Placed, Live, Stages, RunStates
<1>1. Holds'
  BY DEF TypeOK, Holds, CreateLock
<1>2. RunPlaced'
  BY DEF TypeOK, RunPlaced, Holds, CreateLock
<1>3. Excluded'
  BY DEF TypeOK, Excluded, RunPlaced, Holds, CreateLock
<1>4. OneRunAtATime'
  BY DEF TypeOK, OneRunAtATime, Excluded, RunPlaced, CreateLock
<1>. QED  BY <1>1, <1>2, <1>3, <1>4

LEMMA ReadLockExcludes ==
  ASSUME ClaimedBed, PlaceInv, ExclusionInv, NEW c \in Calls, NEW again \in BOOLEAN, ReadLock(c, again)
  PROVE  ExclusionInv'
<1> USE BedAssumption DEF ClaimedBed, PlaceInv, ExclusionInv, client, remote, Goto, Returns, Held, Script, Starting, Ended, Placed, Live, Stages, RunStates
<1>1. Holds'
  BY DEF TypeOK, Holds, ReadLock, Answers
<1>2. RunPlaced'
  BY DEF TypeOK, RunPlaced, Holds, ReadLock, Answers
<1>3. Excluded'
  BY DEF TypeOK, Excluded, RunPlaced, Holds, ReadLock, Answers
<1>4. OneRunAtATime'
  BY DEF TypeOK, OneRunAtATime, Excluded, RunPlaced, ReadLock, Answers
<1>. QED  BY <1>1, <1>2, <1>3, <1>4

LEMMA UnlinkExcludes ==
  ASSUME ClaimedBed, PlaceInv, ExclusionInv, NEW c \in Calls, NEW again \in BOOLEAN, Unlink(c, again)
  PROVE  ExclusionInv'
<1> USE BedAssumption DEF ClaimedBed, PlaceInv, ExclusionInv, client, remote, Goto, Returns, Held, Script, Starting, Ended, Placed, Live, Stages, RunStates
<1>1. Holds'
  BY DEF TypeOK, Holds, Unlink, Answers
<1>2. RunPlaced'
  BY DEF TypeOK, RunPlaced, Holds, Unlink, Answers
<1>3. Excluded'
  BY DEF TypeOK, Excluded, RunPlaced, Holds, Unlink, Answers
<1>4. OneRunAtATime'
  BY DEF TypeOK, OneRunAtATime, Excluded, RunPlaced, Unlink, Answers
<1>. QED  BY <1>1, <1>2, <1>3, <1>4

LEMMA SpawnExcludes ==
  ASSUME ClaimedBed, PlaceInv, ExclusionInv, NEW c \in Calls, Spawn(c)
  PROVE  ExclusionInv'
<1> USE BedAssumption DEF ClaimedBed, PlaceInv, ExclusionInv, client, remote, Goto, Returns, Held, Script, Starting, Ended, Placed, Live, Stages, RunStates
<1>1. Holds'
  BY DEF TypeOK, Holds, Spawn
<1>2. RunPlaced'
  BY DEF TypeOK, RunPlaced, Holds, Spawn
<1>3. Excluded'
  BY DEF TypeOK, Excluded, RunPlaced, Holds, Spawn
<1>4. OneRunAtATime'
  BY DEF TypeOK, OneRunAtATime, Excluded, RunPlaced, Spawn
<1>. QED  BY <1>1, <1>2, <1>3, <1>4

LEMMA ScriptFailsExcludes ==
  ASSUME ClaimedBed, PlaceInv, ExclusionInv, NEW c \in Calls, ScriptFails(c)
  PROVE  ExclusionInv'
<1> USE BedAssumption DEF ClaimedBed, PlaceInv, ExclusionInv, client, remote, Goto, Returns, Held, Script, Starting, Ended, Placed, Live, Stages, RunStates
<1>1. Holds'
  BY DEF TypeOK, Holds, ScriptFails, Answers
<1>2. RunPlaced'
  BY DEF TypeOK, RunPlaced, Holds, ScriptFails, Answers
<1>3. Excluded'
  BY DEF TypeOK, Excluded, RunPlaced, Holds, ScriptFails, Answers
<1>4. OneRunAtATime'
  BY DEF TypeOK, OneRunAtATime, Excluded, RunPlaced, ScriptFails, Answers
<1>. QED  BY <1>1, <1>2, <1>3, <1>4

LEMMA AnswerLostExcludes ==
  ASSUME ClaimedBed, PlaceInv, ExclusionInv, NEW c \in Calls, AnswerLost(c)
  PROVE  ExclusionInv'
<1> USE BedAssumption DEF ClaimedBed, PlaceInv, ExclusionInv, client, remote, Goto, Returns, Held, Script, Starting, Ended, Placed, Live, Stages, RunStates
<1>1. Holds'
  BY DEF TypeOK, Holds, AnswerLost, OnTheWay
<1>2. RunPlaced'
  BY DEF TypeOK, RunPlaced, Holds, AnswerLost, OnTheWay
<1>3. Excluded'
  BY DEF TypeOK, Excluded, RunPlaced, Holds, AnswerLost, OnTheWay
<1>4. OneRunAtATime'
  BY DEF TypeOK, OneRunAtATime, Excluded, RunPlaced, AnswerLost, OnTheWay
<1>. QED  BY <1>1, <1>2, <1>3, <1>4

LEMMA StampExcludes ==
  ASSUME ClaimedBed, PlaceInv, ExclusionInv, NEW c \in Calls, Stamp(c)
  PROVE  ExclusionInv'
<1> USE BedAssumption DEF ClaimedBed, PlaceInv, ExclusionInv, client, remote, Goto, Returns, Held, Script, Starting, Ended, Placed, Live, Stages, RunStates
<1>1. Holds'
  BY DEF TypeOK, Holds, Stamp, Answers
<1>2. RunPlaced'
  BY DEF TypeOK, RunPlaced, Holds, Stamp, Answers
<1>3. Excluded'
  BY DEF TypeOK, Excluded, RunPlaced, Holds, Stamp, Answers
<1>4. OneRunAtATime'
  BY DEF TypeOK, OneRunAtATime, Excluded, RunPlaced, Stamp, Answers
<1>. QED  BY <1>1, <1>2, <1>3, <1>4

LEMMA PollExcludes ==
  ASSUME ClaimedBed, PlaceInv, ExclusionInv, NEW c \in Calls, Poll(c)
  PROVE  ExclusionInv'
<1> USE BedAssumption DEF ClaimedBed, PlaceInv, ExclusionInv, client, remote, Goto, Returns, Held, Script, Starting, Ended, Placed, Live, Stages, RunStates
<1>1. Holds'
  BY DEF TypeOK, Holds, Poll, StopsWaiting
<1>2. RunPlaced'
  BY DEF TypeOK, RunPlaced, Holds, Poll, StopsWaiting
<1>3. Excluded'
  BY DEF TypeOK, Excluded, RunPlaced, Holds, Poll, StopsWaiting
<1>4. OneRunAtATime'
  BY DEF TypeOK, OneRunAtATime, Excluded, RunPlaced, Poll, StopsWaiting
<1>. QED  BY <1>1, <1>2, <1>3, <1>4

LEMMA FetchExcludes ==
  ASSUME ClaimedBed, PlaceInv, ExclusionInv, NEW c \in Calls, Fetch(c)
  PROVE  ExclusionInv'
<1> USE BedAssumption DEF ClaimedBed, PlaceInv, ExclusionInv, client, remote, Goto, Returns, Held, Script, Starting, Ended, Placed, Live, Stages, RunStates
<1>1. Holds'
  BY DEF TypeOK, Holds, Fetch, Verdicts
<1>2. RunPlaced'
  BY DEF TypeOK, RunPlaced, Holds, Fetch, Verdicts
<1>3. Excluded'
  BY DEF TypeOK, Excluded, RunPlaced, Holds, Fetch, Verdicts
<1>4. OneRunAtATime'
  BY DEF TypeOK, OneRunAtATime, Excluded, RunPlaced, Fetch, Verdicts
<1>. QED  BY <1>1, <1>2, <1>3, <1>4

LEMMA RunStartsExcludes ==
  ASSUME ClaimedBed, PlaceInv, ExclusionInv, NEW c \in Calls, RunStarts(c)
  PROVE  ExclusionInv'
<1> USE BedAssumption DEF ClaimedBed, PlaceInv, ExclusionInv, client, remote, Goto, Returns, Held, Script, Starting, Ended, Placed, Live, Stages, RunStates
<1>1. Holds'
  BY DEF TypeOK, Holds, RunStarts
<1>2. RunPlaced'
  BY DEF TypeOK, RunPlaced, Holds, RunStarts
<1>3. Excluded'
  BY DEF TypeOK, Excluded, RunPlaced, Holds, RunStarts
<1>4. OneRunAtATime'
  BY DEF TypeOK, OneRunAtATime, Excluded, RunPlaced, RunStarts
<1>. QED  BY <1>1, <1>2, <1>3, <1>4

LEMMA WriteLogExcludes ==
  ASSUME ClaimedBed, PlaceInv, ExclusionInv, NEW c \in Calls, WriteLog(c)
  PROVE  ExclusionInv'
<1> USE BedAssumption DEF ClaimedBed, PlaceInv, ExclusionInv, client, remote, Goto, Returns, Held, Script, Starting, Ended, Placed, Live, Stages, RunStates
<1>1. Holds'
  BY DEF TypeOK, Holds, WriteLog
<1>2. RunPlaced'
  BY DEF TypeOK, RunPlaced, Holds, WriteLog
<1>3. Excluded'
  BY DEF TypeOK, Excluded, RunPlaced, Holds, WriteLog
<1>4. OneRunAtATime'
  BY DEF TypeOK, OneRunAtATime, Excluded, RunPlaced, WriteLog
<1>. QED  BY <1>1, <1>2, <1>3, <1>4

LEMMA PytestEndsExcludes ==
  ASSUME ClaimedBed, PlaceInv, ExclusionInv, NEW c \in Calls, PytestEnds(c)
  PROVE  ExclusionInv'
<1> USE BedAssumption DEF ClaimedBed, PlaceInv, ExclusionInv, client, remote, Goto, Returns, Held, Script, Starting, Ended, Placed, Live, Stages, RunStates
<1>1. Holds'
  BY DEF TypeOK, Holds, PytestEnds
<1>2. RunPlaced'
  BY DEF TypeOK, RunPlaced, Holds, PytestEnds
<1>3. Excluded'
  BY DEF TypeOK, Excluded, RunPlaced, Holds, PytestEnds
<1>4. OneRunAtATime'
  BY DEF TypeOK, OneRunAtATime, Excluded, RunPlaced, PytestEnds
<1>. QED  BY <1>1, <1>2, <1>3, <1>4

LEMMA WriteStatusExcludes ==
  ASSUME ClaimedBed, PlaceInv, ExclusionInv, NEW c \in Calls, WriteStatus(c)
  PROVE  ExclusionInv'
<1> USE BedAssumption DEF ClaimedBed, PlaceInv, ExclusionInv, client, remote, Goto, Returns, Held, Script, Starting, Ended, Placed, Live, Stages, RunStates
<1>1. Holds'
  BY DEF TypeOK, Holds, WriteStatus
<1>2. RunPlaced'
  BY DEF TypeOK, RunPlaced, Holds, WriteStatus
<1>3. Excluded'
  BY DEF TypeOK, Excluded, RunPlaced, Holds, WriteStatus
<1>4. OneRunAtATime'
  BY DEF TypeOK, OneRunAtATime, Excluded, RunPlaced, WriteStatus
<1>. QED  BY <1>1, <1>2, <1>3, <1>4

LEMMA RemoveLockExcludes ==
  ASSUME ClaimedBed, PlaceInv, ExclusionInv, NEW c \in Calls, RemoveLock(c)
  PROVE  ExclusionInv'
<1> USE BedAssumption DEF ClaimedBed, PlaceInv, ExclusionInv, client, remote, Goto, Returns, Held, Script, Starting, Ended, Placed, Live, Stages, RunStates
<1>1. Holds'
  BY DEF TypeOK, Holds, RemoveLock
<1>2. RunPlaced'
  BY DEF TypeOK, RunPlaced, Holds, RemoveLock
<1>3. Excluded'
  BY DEF TypeOK, Excluded, RunPlaced, Holds, RemoveLock
<1>4. OneRunAtATime'
  BY DEF TypeOK, OneRunAtATime, Excluded, RunPlaced, RemoveLock
<1>. QED  BY <1>1, <1>2, <1>3, <1>4

LEMMA DieExcludes ==
  ASSUME ClaimedBed, PlaceInv, ExclusionInv, NEW p \in Procs, Die(p)
  PROVE  ExclusionInv'
<1> USE BedAssumption DEF ClaimedBed, PlaceInv, ExclusionInv, client, remote, Goto, Returns, Held, Script, Starting, Ended, Placed, Live, Stages, RunStates
<1>1. Holds'
  BY DEF TypeOK, Holds, Die, OnTheWay
<1>2. RunPlaced'
  BY DEF TypeOK, RunPlaced, Holds, Die, OnTheWay
<1>3. Excluded'
  BY DEF TypeOK, Excluded, RunPlaced, Holds, Die, OnTheWay
<1>4. OneRunAtATime'
  BY DEF TypeOK, OneRunAtATime, Excluded, RunPlaced, Die, OnTheWay
<1>. QED  BY <1>1, <1>2, <1>3, <1>4

LEMMA StepExcludes ==
  ASSUME ClaimedBed, PlaceInv, ExclusionInv, [Next]_vars
  PROVE  ExclusionInv'
<1>1. CASE UNCHANGED vars
  BY <1>1 DEF ExclusionInv, Holds, RunPlaced, Excluded, OneRunAtATime, vars, client, remote
<1>2. ASSUME NEW p \in Procs, Die(p)  PROVE  ExclusionInv'
  BY <1>2, DieExcludes
<1>3. ASSUME NEW c \in Calls, Enter(c)  PROVE  ExclusionInv'
  BY <1>3, EnterExcludes
<1>4. ASSUME NEW c \in Calls, Submission(c)  PROVE  ExclusionInv'
  BY <1>4, CreateLockExcludes, ReadLockExcludes, UnlinkExcludes, SpawnExcludes,
     StampExcludes, ScriptFailsExcludes DEF Submission
<1>5. ASSUME NEW c \in Calls, Call(c)  PROVE  ExclusionInv'
  BY <1>5, ClaimExcludes, ClaimTimesOutExcludes, ProbeExcludes, ReprobeExcludes,
     DeliverExcludes, TakeEpochExcludes, AnswerLostExcludes, PollExcludes, FetchExcludes DEF Call
<1>6. ASSUME NEW r \in Calls, Runner(r)  PROVE  ExclusionInv'
  BY <1>6, RunStartsExcludes, WriteLogExcludes, PytestEndsExcludes,
     WriteStatusExcludes, RemoveLockExcludes
     DEF Runner
<1>. QED  BY <1>1, <1>2, <1>3, <1>4, <1>5, <1>6 DEF Next

LEMMA InitExcludes ==
  ASSUME Init
  PROVE  ExclusionInv
BY BedAssumption
   DEF Init, Held, Script, Starting, Ended, Placed, Live, Stages, RunStates,
       ExclusionInv, Holds, RunPlaced, Excluded, OneRunAtATime

LEMMA AlwaysExclusion ==
  ClaimedBed => (Spec => []ExclusionInv)
<1>. SUFFICES ASSUME ClaimedBed  PROVE Spec => []ExclusionInv
  OBVIOUS
<1>1. PlaceInv /\ ExclusionInv /\ [Next]_vars => ExclusionInv'
  BY StepExcludes
<1>2. Init => ExclusionInv
  BY InitExcludes
<1>. QED  BY <1>1, <1>2, AlwaysPlaced, PTL DEF Spec

(* OneRunAtATime: the claim and the search for a run left behind keep two  *)
(* pytests from one bed, also where the lock file names a dead process or  *)
(* the clock of the jump host is not read.                                 *)
THEOREM RunsExclude ==
  ClaimedBed => (Spec => []OneRunAtATime)
<1>1. ExclusionInv => OneRunAtATime
  BY DEF ExclusionInv
<1>. QED  BY <1>1, AlwaysExclusion, PTL

-----------------------------------------------------------------------------
(* Verdicts of the volume delivered.                                       *)

SoundBed == Faults \subseteq {"setsid"}

(* The volume of a call at work stays in the staging directory, its run    *)
(* and no other has read it, a fresh log is its own, and what a call hears *)
(* it hears of its own run, at its end.                                    *)
OwnVolume ==
  \A c \in Calls :
    /\ pc[c] \in {"epoch", "submit", "wait", "fetch"} => staged[at[c]] = c
    /\ loaded[c] = IF c \in Started THEN c ELSE None
    /\ pc[c] \in {"submit", "wait", "fetch"} /\ c \in fresh
         => log[at[c]] = c /\ c \in Started
    /\ got[c] # None => got[c] = c /\ c \in Started /\ pc[c] \in Ended

Inv == PlaceInv /\ ExclusionInv /\ OwnVolume

LEMMA EnterOwns ==
  ASSUME SoundBed, Inv, NEW c \in Calls, Enter(c)
  PROVE  OwnVolume'
BY BedAssumption DEF Inv, PlaceInv, ExclusionInv, SoundBed, Started, client, remote, Goto, Returns, Held, Script, Starting, Ended, Placed, Live, Stages, RunStates,
   TypeOK, OwnVolume, RunPlaced, Holds, Excluded, Enter

LEMMA ClaimOwns ==
  ASSUME SoundBed, Inv, NEW c \in Calls, Claim(c)
  PROVE  OwnVolume'
<1> USE BedAssumption DEF Inv, PlaceInv, ExclusionInv, SoundBed, Started, client, remote, Goto, Returns, Held, Script, Starting, Ended, Placed, Live, Stages, RunStates
<1>0. PICK e \in Envs : /\ claim[e] = None
                        /\ claim' = [claim EXCEPT ![e] = c]
                        /\ at' = [at EXCEPT ![c] = e]
  <2>1. Pooled = {TRUE}
    BY DEF Pooled
  <2>. QED  BY <2>1 DEF Claim, Free
<1>a. /\ pc[c] = "claim"
      /\ pc' = [pc EXCEPT ![c] = "probe"]
      /\ UNCHANGED <<mutex, got, script, staged, lock, loaded, log, fresh, run>>
  BY DEF Claim
<1>. QED
  BY <1>0, <1>a DEF TypeOK, OwnVolume, RunPlaced, Holds, Excluded

LEMMA ClaimTimesOutOwns ==
  ASSUME SoundBed, Inv, NEW c \in Calls, ClaimTimesOut(c)
  PROVE  OwnVolume'
BY BedAssumption DEF Inv, PlaceInv, ExclusionInv, SoundBed, Started, client, remote, Goto, Returns, Held, Script, Starting, Ended, Placed, Live, Stages, RunStates,
   TypeOK, OwnVolume, RunPlaced, Holds, Excluded, ClaimTimesOut

LEMMA ProbeOwns ==
  ASSUME SoundBed, Inv, NEW c \in Calls, Probe(c)
  PROVE  OwnVolume'
BY BedAssumption DEF Inv, PlaceInv, ExclusionInv, SoundBed, Started, client, remote, Goto, Returns, Held, Script, Starting, Ended, Placed, Live, Stages, RunStates,
   TypeOK, OwnVolume, RunPlaced, Holds, Excluded, Probe, Probed, Visible

LEMMA ReprobeOwns ==
  ASSUME SoundBed, Inv, NEW c \in Calls, Reprobe(c)
  PROVE  OwnVolume'
BY BedAssumption DEF Inv, PlaceInv, ExclusionInv, SoundBed, Started, client, remote, Goto, Returns, Held, Script, Starting, Ended, Placed, Live, Stages, RunStates,
   TypeOK, OwnVolume, RunPlaced, Holds, Excluded, Reprobe, Probed, Visible

LEMMA DeliverOwns ==
  ASSUME SoundBed, Inv, NEW c \in Calls, Deliver(c)
  PROVE  OwnVolume'
BY BedAssumption DEF Inv, PlaceInv, ExclusionInv, SoundBed, Started, client, remote, Goto, Returns, Held, Script, Starting, Ended, Placed, Live, Stages, RunStates,
   TypeOK, OwnVolume, RunPlaced, Holds, Excluded, Deliver

LEMMA TakeEpochOwns ==
  ASSUME SoundBed, Inv, NEW c \in Calls, TakeEpoch(c)
  PROVE  OwnVolume'
BY BedAssumption DEF Inv, PlaceInv, ExclusionInv, SoundBed, Started, client, remote, Goto, Returns, Held, Script, Starting, Ended, Placed, Live, Stages, RunStates,
   TypeOK, OwnVolume, RunPlaced, Holds, Excluded, TakeEpoch, Rebased

LEMMA CreateLockOwns ==
  ASSUME SoundBed, Inv, NEW c \in Calls, NEW again \in BOOLEAN, CreateLock(c, again)
  PROVE  OwnVolume'
BY BedAssumption DEF Inv, PlaceInv, ExclusionInv, SoundBed, Started, client, remote, Goto, Returns, Held, Script, Starting, Ended, Placed, Live, Stages, RunStates,
   TypeOK, OwnVolume, RunPlaced, Holds, Excluded, CreateLock

LEMMA ReadLockOwns ==
  ASSUME SoundBed, Inv, NEW c \in Calls, NEW again \in BOOLEAN, ReadLock(c, again)
  PROVE  OwnVolume'
BY BedAssumption DEF Inv, PlaceInv, ExclusionInv, SoundBed, Started, client, remote, Goto, Returns, Held, Script, Starting, Ended, Placed, Live, Stages, RunStates,
   TypeOK, OwnVolume, RunPlaced, Holds, Excluded, ReadLock, Answers

LEMMA UnlinkOwns ==
  ASSUME SoundBed, Inv, NEW c \in Calls, NEW again \in BOOLEAN, Unlink(c, again)
  PROVE  OwnVolume'
BY BedAssumption DEF Inv, PlaceInv, ExclusionInv, SoundBed, Started, client, remote, Goto, Returns, Held, Script, Starting, Ended, Placed, Live, Stages, RunStates,
   TypeOK, OwnVolume, RunPlaced, Holds, Excluded, Unlink, Answers

LEMMA SpawnOwns ==
  ASSUME SoundBed, Inv, NEW c \in Calls, Spawn(c)
  PROVE  OwnVolume'
BY BedAssumption DEF Inv, PlaceInv, ExclusionInv, SoundBed, Started, client, remote, Goto, Returns, Held, Script, Starting, Ended, Placed, Live, Stages, RunStates,
   TypeOK, OwnVolume, RunPlaced, Holds, Excluded, Spawn

LEMMA ScriptFailsOwns ==
  ASSUME SoundBed, Inv, NEW c \in Calls, ScriptFails(c)
  PROVE  OwnVolume'
BY BedAssumption DEF Inv, PlaceInv, ExclusionInv, SoundBed, Started, client, remote, Goto, Returns, Held, Script, Starting, Ended, Placed, Live, Stages, RunStates,
   TypeOK, OwnVolume, RunPlaced, Holds, Excluded, ScriptFails, Answers

LEMMA AnswerLostOwns ==
  ASSUME SoundBed, Inv, NEW c \in Calls, AnswerLost(c)
  PROVE  OwnVolume'
BY BedAssumption DEF Inv, PlaceInv, ExclusionInv, SoundBed, Started, client, remote, Goto, Returns, Held, Script, Starting, Ended, Placed, Live, Stages, RunStates,
   TypeOK, OwnVolume, RunPlaced, Holds, Excluded, AnswerLost, OnTheWay

LEMMA StampOwns ==
  ASSUME SoundBed, Inv, NEW c \in Calls, Stamp(c)
  PROVE  OwnVolume'
BY BedAssumption DEF Inv, PlaceInv, ExclusionInv, SoundBed, Started, client, remote, Goto, Returns, Held, Script, Starting, Ended, Placed, Live, Stages, RunStates,
   TypeOK, OwnVolume, RunPlaced, Holds, Excluded, Stamp, Answers

LEMMA PollOwns ==
  ASSUME SoundBed, Inv, NEW c \in Calls, Poll(c)
  PROVE  OwnVolume'
BY BedAssumption DEF Inv, PlaceInv, ExclusionInv, SoundBed, Started, client, remote, Goto, Returns, Held, Script, Starting, Ended, Placed, Live, Stages, RunStates,
   TypeOK, OwnVolume, RunPlaced, Holds, Excluded, Poll, StopsWaiting

LEMMA FetchOwns ==
  ASSUME SoundBed, Inv, NEW c \in Calls, Fetch(c)
  PROVE  OwnVolume'
BY BedAssumption DEF Inv, PlaceInv, ExclusionInv, SoundBed, Started, client, remote, Goto, Returns, Held, Script, Starting, Ended, Placed, Live, Stages, RunStates,
   TypeOK, OwnVolume, RunPlaced, Holds, Excluded, Fetch, Verdicts

LEMMA RunStartsOwns ==
  ASSUME SoundBed, Inv, NEW c \in Calls, RunStarts(c)
  PROVE  OwnVolume'
BY BedAssumption DEF Inv, PlaceInv, ExclusionInv, SoundBed, Started, client, remote, Goto, Returns, Held, Script, Starting, Ended, Placed, Live, Stages, RunStates,
   TypeOK, OwnVolume, RunPlaced, Holds, Excluded, RunStarts

LEMMA WriteLogOwns ==
  ASSUME SoundBed, Inv, NEW c \in Calls, WriteLog(c)
  PROVE  OwnVolume'
BY BedAssumption DEF Inv, PlaceInv, ExclusionInv, SoundBed, Started, client, remote, Goto, Returns, Held, Script, Starting, Ended, Placed, Live, Stages, RunStates,
   TypeOK, OwnVolume, RunPlaced, Holds, Excluded, WriteLog

LEMMA PytestEndsOwns ==
  ASSUME SoundBed, Inv, NEW c \in Calls, PytestEnds(c)
  PROVE  OwnVolume'
BY BedAssumption DEF Inv, PlaceInv, ExclusionInv, SoundBed, Started, client, remote, Goto, Returns, Held, Script, Starting, Ended, Placed, Live, Stages, RunStates,
   TypeOK, OwnVolume, RunPlaced, Holds, Excluded, PytestEnds

LEMMA WriteStatusOwns ==
  ASSUME SoundBed, Inv, NEW c \in Calls, WriteStatus(c)
  PROVE  OwnVolume'
BY BedAssumption DEF Inv, PlaceInv, ExclusionInv, SoundBed, Started, client, remote, Goto, Returns, Held, Script, Starting, Ended, Placed, Live, Stages, RunStates,
   TypeOK, OwnVolume, RunPlaced, Holds, Excluded, WriteStatus

LEMMA RemoveLockOwns ==
  ASSUME SoundBed, Inv, NEW c \in Calls, RemoveLock(c)
  PROVE  OwnVolume'
BY BedAssumption DEF Inv, PlaceInv, ExclusionInv, SoundBed, Started, client, remote, Goto, Returns, Held, Script, Starting, Ended, Placed, Live, Stages, RunStates,
   TypeOK, OwnVolume, RunPlaced, Holds, Excluded, RemoveLock

LEMMA DieOwns ==
  ASSUME SoundBed, Inv, NEW p \in Procs, Die(p)
  PROVE  OwnVolume'
BY BedAssumption DEF Inv, PlaceInv, ExclusionInv, SoundBed, Started, client, remote, Goto, Returns, Held, Script, Starting, Ended, Placed, Live, Stages, RunStates,
   TypeOK, OwnVolume, RunPlaced, Holds, Excluded, Die, OnTheWay

LEMMA StepOwns ==
  ASSUME SoundBed, Inv, [Next]_vars
  PROVE  OwnVolume'
<1>1. CASE UNCHANGED vars
  BY <1>1 DEF Inv, OwnVolume, Started, vars, client, remote
<1>2. ASSUME NEW p \in Procs, Die(p)  PROVE  OwnVolume'
  BY <1>2, DieOwns
<1>3. ASSUME NEW c \in Calls, Enter(c)  PROVE  OwnVolume'
  BY <1>3, EnterOwns
<1>4. ASSUME NEW c \in Calls, Submission(c)  PROVE  OwnVolume'
  BY <1>4, CreateLockOwns, ReadLockOwns, UnlinkOwns, SpawnOwns,
     StampOwns, ScriptFailsOwns DEF Submission
<1>5. ASSUME NEW c \in Calls, Call(c)  PROVE  OwnVolume'
  BY <1>5, ClaimOwns, ClaimTimesOutOwns, ProbeOwns, ReprobeOwns,
     DeliverOwns, TakeEpochOwns, AnswerLostOwns, PollOwns, FetchOwns DEF Call
<1>6. ASSUME NEW r \in Calls, Runner(r)  PROVE  OwnVolume'
  BY <1>6, RunStartsOwns, WriteLogOwns, PytestEndsOwns,
     WriteStatusOwns, RemoveLockOwns
     DEF Runner
<1>. QED  BY <1>1, <1>2, <1>3, <1>4, <1>5, <1>6 DEF Next

LEMMA InitOwns ==
  ASSUME Init
  PROVE  OwnVolume
BY BedAssumption DEF Init, Held, Script, Starting, Ended, RunStates, OwnVolume, Started

LEMMA AlwaysSound ==
  SoundBed => (Spec => []Inv)
<1>. SUFFICES ASSUME SoundBed  PROVE Spec => []Inv
  OBVIOUS
<1>1. PlaceInv /\ ExclusionInv /\ OwnVolume /\ [Next]_vars => OwnVolume'
  BY StepOwns DEF Inv
<1>2. Init => OwnVolume
  BY InitOwns
<1>3. ClaimedBed
  BY DEF SoundBed, ClaimedBed
<1>4. Spec => [](PlaceInv /\ ExclusionInv /\ OwnVolume)
  BY <1>1, <1>2, <1>3, AlwaysPlaced, AlwaysExclusion, PTL DEF Spec
<1>5. PlaceInv /\ ExclusionInv /\ OwnVolume => Inv
  BY DEF Inv
<1>. QED  BY <1>4, <1>5, PTL

(* VerdictsOfOwnVolume: the log a call takes for fresh was written by its  *)
(* own run, which read the volume it delivered.                            *)
THEOREM OwnVerdicts ==
  SoundBed => (Spec => []VerdictsOfOwnVolume)
<1>1. Inv => VerdictsOfOwnVolume
  BY BedAssumption DEF Inv, OwnVolume, VerdictsOfOwnVolume
<1>. QED  BY <1>1, AlwaysSound, PTL

-----------------------------------------------------------------------------
(* The beds serve volumes one by one.                                      *)

(* Where no pytest starts or ends and no call hears, the service stutters. *)
LEMMA ServiceIdle ==
  ASSUME UNCHANGED <<loaded, got>>,
         \A r \in Calls :
           /\ run'[r] = run[r] \/ {run[r], run'[r]} \cap {"pytest"} = {}
           /\ run'[r] \in {"none", "spawned"} <=> run[r] \in {"none", "spawned"}
           /\ run[r] = "pytest" => at'[r] = at[r]
  PROVE  UNCHANGED <<Testing, Tested, Heard>>
<1>1. Started' = Started
  BY DEF Started
<1>2. \A r \in Calls : run'[r] = "pytest" <=> run[r] = "pytest"
  OBVIOUS
<1>3. \A e \in Envs : {q \in Calls : run'[q] = "pytest" /\ at'[q] = e}
                      = {q \in Calls : run[q] = "pytest" /\ at[q] = e}
  BY <1>2
<1>4. Testing' = Testing
  BY <1>3 DEF Testing
<1>5. Tested' = Tested
  BY <1>1 DEF Tested
<1>6. Heard' = Heard
  BY DEF Heard
<1>. QED  BY <1>4, <1>5, <1>6

(* Once started, runs are known by the volume they read.                   *)
LEMMA ServiceState ==
  ASSUME OwnVolume, OwnVolume'
  PROVE  /\ Tested = Started /\ Tested' = Started'
         /\ Testing = [e \in Envs |-> {r \in Calls : run[r] = "pytest" /\ at[r] = e}]
         /\ Testing' = [e \in Envs |-> {r \in Calls : run'[r] = "pytest" /\ at'[r] = e}]
         /\ Heard = [c \in Calls |-> IF got[c] = None THEN None ELSE c]
         /\ Heard' = [c \in Calls |-> IF got'[c] = None THEN None ELSE c]
<1>1. /\ \A r \in Calls : run[r] = "pytest" => r \in Started
      /\ \A r \in Calls : run'[r] = "pytest" => r \in Started'
  BY DEF Started
<1>2. /\ \A r \in Started : loaded[r] = r
      /\ \A r \in Started' : loaded'[r] = r
  BY DEF OwnVolume, Started
<1>3. Tested = Started /\ Tested' = Started'
  BY <1>2 DEF Tested
<1>4. \A e \in Envs :
        /\ {loaded[r] : r \in {q \in Calls : run[q] = "pytest" /\ at[q] = e}}
             = {r \in Calls : run[r] = "pytest" /\ at[r] = e}
        /\ {loaded'[r] : r \in {q \in Calls : run'[q] = "pytest" /\ at'[q] = e}}
             = {r \in Calls : run'[r] = "pytest" /\ at'[r] = e}
  BY <1>1, <1>2
<1>5. /\ \A c \in Calls : got[c] # None => loaded[got[c]] = c
      /\ \A c \in Calls : got'[c] # None => loaded'[got'[c]] = c
  BY DEF OwnVolume
<1>6. /\ Heard = [c \in Calls |-> IF got[c] = None THEN None ELSE c]
      /\ Heard' = [c \in Calls |-> IF got'[c] = None THEN None ELSE c]
  BY <1>5 DEF Heard
<1>. QED  BY <1>3, <1>4, <1>6 DEF Testing

LEMMA StartServes ==
  ASSUME Inv, Inv', NEW r \in Calls, RunStarts(r)
  PROVE  Service!Begin(r, at[r])
<1>1. /\ run \in [Calls -> RunStates] /\ at[r] \in Envs /\ r \notin Started
      /\ run[r] = "spawned" /\ run' = [run EXCEPT ![r] = "pytest"] /\ at' = at /\ got' = got
      /\ pc[r] \in {"submit", "wait"}
  BY DEF Inv, PlaceInv, TypeOK, Placement, ExclusionInv, RunPlaced, RunStarts, Started, client
<1>2. \A q \in Calls : run[q] = "pytest" => at[q] # at[r]
  BY <1>1 DEF Inv, ExclusionInv, Excluded, Live
<1>3. /\ Testing = [e \in Envs |-> {q \in Calls : run[q] = "pytest" /\ at[q] = e}]
      /\ Testing' = [e \in Envs |-> {q \in Calls : run'[q] = "pytest" /\ at'[q] = e}]
  BY ServiceState DEF Inv
<1>4. Testing[at[r]] = {}
  BY <1>1, <1>2, <1>3
<1>5. Testing' = [Testing EXCEPT ![at[r]] = {r}]
  BY <1>1, <1>2, <1>3
<1>6. Tested' = Tested \cup {r} /\ r \notin Tested
  BY <1>1, ServiceState DEF Inv, Started
<1>7. Heard' = Heard
  BY <1>1, ServiceState DEF Inv
<1>. QED  BY <1>4, <1>5, <1>6, <1>7 DEF Service!Begin

(* A pytest that ends, or is killed with all others that are on its bed,   *)
(* leaves the bed to the next.                                             *)
LEMMA EndServes ==
  ASSUME Inv, Inv', NEW e \in Envs, at' = at, got' = got,
         run' = [r \in Calls |-> IF at[r] = e /\ run[r] = "pytest" THEN "exited" ELSE run[r]]
  PROVE  Service!End(e)
<1>1. /\ Testing = [f \in Envs |-> {q \in Calls : run[q] = "pytest" /\ at[q] = f}]
      /\ Testing' = [f \in Envs |-> {q \in Calls : run'[q] = "pytest" /\ at'[q] = f}]
  BY ServiceState DEF Inv
<1>2. Testing' = [Testing EXCEPT ![e] = {}]
  BY <1>1
<1>3. Tested' = Tested
  BY ServiceState DEF Inv, Started
<1>4. Heard' = Heard
  BY ServiceState DEF Inv
<1>. QED  BY <1>2, <1>3, <1>4 DEF Service!End

LEMMA FetchServes ==
  ASSUME Inv, Inv', NEW c \in Calls, Fetch(c)
  PROVE  Service!Hear(c) \/ UNCHANGED <<Testing, Tested, Heard>>
<1>1. /\ pc[c] = "fetch" /\ got' = [got EXCEPT ![c] = Verdicts(c)]
      /\ UNCHANGED <<at, run, loaded>>
  BY DEF Fetch, remote
<1>2. got \in [Calls -> Calls \cup {None}] /\ None \notin Calls /\ got[c] = None
  BY <1>1, BedAssumption DEF Inv, PlaceInv, TypeOK, OwnVolume, Ended
<1>3. CASE Verdicts(c) = None
  <2>1. got' = got
    BY <1>1, <1>2, <1>3
  <2>. QED  BY <1>1, <2>1, ServiceIdle
<1>4. CASE Verdicts(c) # None
  <2>1. Verdicts(c) = c /\ c \in Started
    BY <1>1, <1>4 DEF Verdicts, Inv, OwnVolume
  <2>2. Testing' = Testing
    BY <1>1 DEF Testing
  <2>3. Tested' = Tested
    BY <1>1 DEF Tested, Started
  <2>4. /\ Heard = [d \in Calls |-> IF got[d] = None THEN None ELSE d]
        /\ Heard' = [d \in Calls |-> IF got'[d] = None THEN None ELSE d]
    BY ServiceState DEF Inv
  <2>5. Heard[c] = None /\ Heard' = [Heard EXCEPT ![c] = c]
    BY <1>1, <1>2, <2>1, <2>4
  <2>6. c \in Tested
    BY <2>1, ServiceState DEF Inv
  <2>. QED  BY <2>2, <2>3, <2>5, <2>6 DEF Service!Hear
<1>. QED  BY <1>3, <1>4

LEMMA StepServes ==
  ASSUME Inv, Inv', [Next]_vars
  PROVE  [Service!Next]_(Service!vars)
<1>0. /\ run \in [Calls -> RunStates] /\ at \in [Calls -> Envs \cup {None}]
      /\ \A c \in Calls : run[c] # "none" => at[c] \in Envs
  BY DEF Inv, PlaceInv, TypeOK, Placement
<1>1. CASE UNCHANGED vars
  BY <1>1, ServiceIdle DEF vars, client, remote, Service!vars
<1>2. ASSUME NEW r \in Calls, RunStarts(r)  PROVE  Service!Next
  BY <1>0, <1>2, StartServes DEF RunStarts, Service!Next
<1>3. ASSUME NEW r \in Calls, PytestEnds(r)  PROVE  Service!Next
  <2>1. /\ run[r] = "pytest" /\ run' = [run EXCEPT ![r] = "exited"] /\ at' = at /\ got' = got
    BY <1>3 DEF PytestEnds, client
  <2>2. \A q \in Calls : run[q] = "pytest" /\ at[q] = at[r] => q = r
    BY <2>1 DEF Inv, ExclusionInv, OneRunAtATime
  <2>3. run' = [q \in Calls |-> IF at[q] = at[r] /\ run[q] = "pytest" THEN "exited" ELSE run[q]]
    BY <1>0, <2>1, <2>2
  <2>. QED  BY <1>0, <2>1, <2>3, EndServes DEF Service!Next
<1>4. ASSUME NEW c \in Calls, Probe(c)  PROVE  [Service!Next]_(Service!vars)
  <2>1. UNCHANGED <<at, got, loaded>> /\ at[c] \in Envs
    BY <1>4 DEF Probe, Inv, PlaceInv, Placement, Placed, Held
  <2>2. \/ run' = run
        \/ run' = [r \in Calls |-> IF at[r] = at[c] /\ run[r] = "pytest" THEN "exited" ELSE run[r]]
    BY <1>0, <1>4 DEF Probe
  <2>3. CASE run' = run
    BY <2>1, <2>3, ServiceIdle DEF Service!vars
  <2>. QED  BY <2>1, <2>2, <2>3, EndServes DEF Service!Next
<1>5. ASSUME NEW c \in Calls, Fetch(c)  PROVE  [Service!Next]_(Service!vars)
  BY <1>5, FetchServes DEF Service!Next, Service!vars
<1>6. ASSUME NEW c \in Calls, WriteStatus(c) \/ RemoveLock(c) \/ WriteLog(c)
      PROVE  UNCHANGED Service!vars
  <2>1. UNCHANGED <<at, got, loaded>>
    BY <1>6 DEF WriteStatus, RemoveLock, WriteLog, client
  <2>2. \A r \in Calls : \/ run'[r] = run[r]
                         \/ run[r] \in {"exited", "reported"} /\ run'[r] \in {"reported", "over"}
    BY <1>0, <1>6 DEF WriteStatus, RemoveLock, WriteLog
  <2>. QED  BY <2>1, <2>2, ServiceIdle DEF Service!vars
<1>7. ASSUME NEW c \in Calls, Spawn(c)  PROVE  UNCHANGED Service!vars
  <2>1. UNCHANGED <<at, got, loaded>> /\ run[c] = "none" /\ run' = [run EXCEPT ![c] = "spawned"]
    BY <1>7 DEF Spawn, client, Inv, ExclusionInv, RunPlaced, Stages, Held, Ended
  <2>. QED  BY <1>0, <2>1, ServiceIdle DEF Service!vars
<1>8. ASSUME NEW c \in Calls, Claim(c)  PROVE  UNCHANGED Service!vars
  <2>1. UNCHANGED <<run, got, loaded>> /\ run[c] = "none" /\ \A d \in Calls \ {c} : at'[d] = at[d]
    BY <1>0, <1>8 DEF Claim, remote, Inv, ExclusionInv, RunPlaced, Stages, Held, Ended
  <2>. QED  BY <2>1, ServiceIdle DEF Service!vars
<1>9. ASSUME NEW c \in Calls,
             \/ Enter(c) \/ ClaimTimesOut(c) \/ Reprobe(c) \/ Deliver(c) \/ TakeEpoch(c)
             \/ (\E again \in BOOLEAN : CreateLock(c, again) \/ ReadLock(c, again) \/ Unlink(c, again))
             \/ Stamp(c) \/ ScriptFails(c) \/ AnswerLost(c) \/ Poll(c)
      PROVE  UNCHANGED Service!vars
  <2>1. UNCHANGED <<at, run, got, loaded>>
    BY <1>9 DEF Enter, ClaimTimesOut, Reprobe, Deliver, TakeEpoch, CreateLock, ReadLock, Unlink,
       Stamp, ScriptFails, AnswerLost, Poll, Answers, Returns, client, remote
  <2>. QED  BY <2>1, ServiceIdle DEF Service!vars
<1>10. ASSUME NEW p \in Procs, Die(p)  PROVE  UNCHANGED Service!vars
  <2>1. UNCHANGED <<at, run, got, loaded>>
    BY <1>10 DEF Die, remote
  <2>. QED  BY <2>1, ServiceIdle DEF Service!vars
<1>. QED  BY <1>1, <1>2, <1>3, <1>4, <1>5, <1>6, <1>7, <1>8, <1>9, <1>10
          DEF Next, Call, Submission, Runner

(* ServesVolumes: the calls, the scripts and the runners implement a bed   *)
(* that tests one volume at a time, each once, and answers each caller     *)
(* with the verdicts of its own volume (batch_tools.py:48-52, 515-532).    *)
THEOREM BedServes ==
  SoundBed => (Spec => ServesVolumes)
<1>. SUFFICES ASSUME SoundBed  PROVE Spec => ServesVolumes
  OBVIOUS
<1>1. Init => Service!Init
  <2>. SUFFICES ASSUME Init  PROVE Service!Init
    OBVIOUS
  <2>1. Started = {}
    BY DEF Init, Started
  <2>2. Tested = {}
    BY <2>1 DEF Tested
  <2>3. Testing = [e \in Envs |-> {}]
    BY DEF Init, Testing
  <2>4. Heard = [c \in Calls |-> None]
    BY DEF Init, Heard
  <2>. QED  BY <2>2, <2>3, <2>4 DEF Service!Init
<1>2. Inv /\ Inv' /\ [Next]_vars => [Service!Next]_(Service!vars)
  BY StepServes
<1>3. Spec => []Inv
  BY AlwaysSound
<1>. QED  BY <1>1, <1>2, <1>3, PTL DEF Spec, ServesVolumes, Service!Spec
=============================================================================
