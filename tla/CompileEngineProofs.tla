------------------------- MODULE CompileEngineProofs -------------------------
(***************************************************************************)
(* Proofs about CompileEngine, for every batch, every bound and every      *)
(* setting of the environment's switches. EngineInv is inductive: the type *)
(* invariant alone is not, because Collect moves what got holds into the   *)
(* ledger, and what a node reads was named by the node before it. RunsInv  *)
(* says which volume a round runs and where its verdicts are read, and     *)
(* gives FlipsRecorded.                                                    *)
(***************************************************************************)
EXTENDS CompileEngine, TLAPS

\* What the proofs need of the constants.
LEMMA BoundsAreNat ==
  MaxRounds \in Nat /\ MaxRounds > 0 /\ MaxCalls \in Nat /\ MaxCrashes \in Nat
  BY EngineAssumption

-----------------------------------------------------------------------------
(* Leaving a node.                                                         *)

\* Which node follows: run_digest only a merge that succeeded, the readers of
\* the last run only a run that did or an attribution.
LEMMA AfterLeadsOn ==
  ASSUME NEW n \in Nodes, NEW k, NEW s
  PROVE  /\ After(n, k, s) \in Nodes \cup {"END"}
         /\ After(n, k, s) = "run_digest" => n = "merge" /\ k.status = "ok"
         /\ After(n, k, s) \in {"attribute", "writeback"}
              => \/ n = "run_digest" /\ k.status \notin {"device_busy", "error"}
                 \/ n = "attribute"
<1>1. CASE n = "prep"
  BY <1>1 DEF After, AfterPrep, Nodes
<1>2. CASE n = "worker_fanout"
  BY <1>2 DEF After, AfterFanout, Nodes
<1>3. CASE n = "ask_decision"
  BY <1>3 DEF After, AfterAsk, Nodes
<1>4. CASE n = "merge"
  BY <1>4 DEF After, AfterMerge, Nodes
<1>5. CASE n = "run_digest"
  BY <1>5 DEF After, AfterRun, Nodes
<1>6. CASE n = "attribute"
  BY <1>6 DEF After, AfterAttribute, Nodes
<1>7. CASE n \in {"writeback", "report"}
  BY <1>7 DEF After, Nodes
<1>8. QED
  BY <1>1, <1>2, <1>3, <1>4, <1>5, <1>6, <1>7 DEF Nodes

\* A node that returns well-formed channels, with the reference the next node
\* will read, leaves a well-formed process outside of every node.
LEMMA LeaveKeepsProcess ==
  ASSUME ProcessType, HandedOn, NEW n \in Nodes, NEW k \in Channels, Leave(n, k),
         n = "merge" /\ k.status = "ok" => k.vref # "none",
         n = "run_digest" /\ k.status \notin {"device_busy", "error"}
           => k.lref # "none",
         n = "attribute" => k.lref # "none"
  PROVE  /\ ProcessType' /\ HandedOn'
         /\ pc' \in {"down", "enter"}
         /\ got' = [c \in Cases |-> "idle"]
<1>1. CASE Die
  BY <1>1, EngineAssumption DEF Die, ProcessType, HandedOn, Maps, Results
<1>2. CASE /\ ch' = k
           /\ next' = After(n, k, st')
           /\ pc' = IF n = "report" THEN "down" ELSE "enter"
           /\ got' = [c \in Cases |-> "idle"]
           /\ UNCHANGED <<zombie, crashes>>
  BY <1>2, AfterLeadsOn DEF ProcessType, HandedOn, Maps, Results
<1>3. QED
  BY <1>1, <1>2 DEF Leave

\* The channels most nodes return differ from those they were entered with in
\* the status alone.
LEMMA PlainChannels ==
  ASSUME ProcessType
  PROVE  /\ Ok \in Channels /\ Ok.vref = ch.vref /\ Ok.lref = ch.lref
         /\ Nothing \in Channels /\ Nothing.lref = ch.lref
         /\ Nothing.status = "nothing_to_do"
         /\ \A status \in {"error", "device_busy"} :
              /\ Failure(status) \in Channels
              /\ Failure(status).lref = ch.lref
              /\ Failure(status).status = status
  BY DEF ProcessType, Channels, Ok, Nothing, Failure

\* The same for EngineInv: outside of every node got is idle, so a node that
\* keeps the ledger, the files and the history well-formed keeps EngineInv.
LEMMA LeaveKeepsInv ==
  ASSUME EngineInv, NEW n \in Nodes, NEW k \in Channels, Leave(n, k),
         n = "merge" /\ k.status = "ok" => k.vref # "none",
         n = "run_digest" /\ k.status \notin {"device_busy", "error"}
           => k.lref # "none",
         n = "attribute" => k.lref # "none",
         LedgerType', FilesType', HistoryType'
  PROVE  EngineInv'
<1>1. /\ ProcessType' /\ HandedOn'
      /\ pc' \in {"down", "enter"}
      /\ got' = [c \in Cases |-> "idle"]
  BY LeaveKeepsProcess DEF EngineInv, TypeOK
<1>2. Inside'
  BY <1>1 DEF Inside
<1>3. QED
  BY <1>1, <1>2 DEF EngineInv, TypeOK

\* And for a call that dies inside a node.
LEMMA DieKeepsInv ==
  ASSUME EngineInv, Die, LedgerType', FilesType', HistoryType'
  PROVE  EngineInv'
<1>1. ProcessType' /\ HandedOn'
  BY BoundsAreNat DEF Die, EngineInv, TypeOK, ProcessType, HandedOn, Maps, Results
<1>2. Inside'
  BY DEF Die, Inside
<1>3. QED
  BY <1>1, <1>2 DEF EngineInv, TypeOK

-----------------------------------------------------------------------------
(* EngineInv holds at first, and no action breaks it.                      *)

LEMMA InitInv == Init => EngineInv
<1> SUFFICES ASSUME Init PROVE EngineInv
  OBVIOUS
<1>1. LedgerType
  <2>1. used = [c \in Cases |-> 0]
    BY DEF Init
  <2>2. used \in Maps(0 .. MaxRounds)
    BY <2>1, BoundsAreNat DEF Maps
  <2>3. /\ st \in Maps(CaseStates) /\ lock \in Maps(Nat) /\ flip \in Maps(BOOLEAN)
        /\ marker \in [round : Nat, slot : Slots, stamp : Nat]
    BY DEF Init, Maps, CaseStates, Slots
  <2>4. QED
    BY <2>2, <2>3 DEF LedgerType
<1>2. FilesType
  BY DEF Init, FilesType, Maps, Slots, NoVolume, Volumes, NoRecord, Records,
         Outcomes
<1>3. ProcessType
  <2>1. ch \in Channels /\ next = "END" /\ pc = "down" /\ zombie = {}
    BY DEF Init, Channels, Slots
  <2>2. got = [c \in Cases |-> "idle"] /\ crashes = 0
    BY DEF Init
  <2>3. QED
    BY <2>1, <2>2, BoundsAreNat DEF ProcessType, Maps, Results
<1>4. HistoryType
  <2>1. calls = 0 /\ evidence = {} /\ ran = {}
    BY DEF Init
  <2>2. QED
    BY <2>1, BoundsAreNat DEF HistoryType
<1>5. HandedOn /\ Inside
  BY DEF Init, HandedOn, Inside
<1>6. QED
  BY <1>1, <1>2, <1>3, <1>4, <1>5 DEF EngineInv, TypeOK

LEMMA StutterKeepsInv == ASSUME EngineInv, UNCHANGED vars PROVE EngineInv'
  BY DEF EngineInv, TypeOK, LedgerType, FilesType, ProcessType, HistoryType,
         HandedOn, Inside, vars, ledgerVars, caseFiles, volumes, closing,
         history

LEMMA CallKeepsInv == ASSUME EngineInv, Call PROVE EngineInv'
<1>1. LedgerType' /\ FilesType'
  BY DEF EngineInv, TypeOK, LedgerType, FilesType, Call, ledgerVars,
         caseFiles, volumes, closing
<1>2. ProcessType' /\ HandedOn'
  BY DEF EngineInv, TypeOK, ProcessType, HandedOn, Call, Nodes
<1>3. HistoryType'
  BY BoundsAreNat DEF EngineInv, TypeOK, HistoryType, Call
<1>4. Inside'
  BY DEF EngineInv, Inside, Call
<1>5. QED
  BY <1>1, <1>2, <1>3, <1>4 DEF EngineInv, TypeOK

LEMMA CrashKeepsInv == ASSUME EngineInv, Crash PROVE EngineInv'
<1>1. LedgerType' /\ FilesType' /\ HistoryType'
  BY DEF EngineInv, TypeOK, LedgerType, FilesType, HistoryType, Crash,
         ledgerVars, caseFiles, volumes, closing, history
<1>2. QED
  BY <1>1, DieKeepsInv DEF Crash

\* Leaving with the channels of PlainChannels, from a node that hands nothing
\* on, or hands on what it was handed.
LEMMA PlainLeaveKeepsInv ==
  ASSUME EngineInv, NEW n \in Nodes, next = n, NEW k, Leave(n, k),
         \/ k = Ok /\ n \notin {"merge", "run_digest"}
         \/ k = Nothing /\ n # "run_digest"
         \/ k = Failure("error")
         \/ k = Failure("device_busy"),
         LedgerType', FilesType', HistoryType'
  PROVE  EngineInv'
<1>1. ProcessType /\ HandedOn
  BY DEF EngineInv, TypeOK
<1>2. /\ k \in Channels /\ k.lref = ch.lref
      /\ n = "merge" => k.status # "ok"
      /\ n = "run_digest" => k.status \in {"device_busy", "error"}
  BY <1>1, PlainChannels
<1>3. n = "attribute" => k.lref # "none"
  BY <1>1, <1>2 DEF HandedOn
<1>4. QED
  BY <1>2, <1>3, LeaveKeepsInv

LEMMA PrepKeepsInv == ASSUME EngineInv, Prep PROVE EngineInv'
<1>1. st' \in Maps(CaseStates) /\ manifest' \in BOOLEAN
  <2>1. st \in Maps(CaseStates) /\ manifest \in BOOLEAN
    BY DEF EngineInv, TypeOK, LedgerType, FilesType
  <2>2. CASE UNCHANGED <<st, manifest>>
    BY <2>1, <2>2
  <2>3. ASSUME NEW s \in Maps(CaseStates) PROVE Recovered(s) \in Maps(CaseStates)
    BY DEF Recovered, Maps, CaseStates
  <2>4. [c \in Cases |-> IF st[c] = "" THEN "pending_compile" ELSE st[c]]
          \in Maps(CaseStates)
    BY <2>1 DEF Maps, CaseStates
  <2>5. QED
    BY <2>1, <2>2, <2>3, <2>4 DEF Prep
<1>2. LedgerType' /\ FilesType' /\ HistoryType'
  BY <1>1 DEF EngineInv, TypeOK, LedgerType, FilesType, HistoryType, Prep,
         caseFiles, volumes, closing, history
<1>3. next = "prep" /\ (Leave("prep", Ok) \/ Leave("prep", Failure("error")))
  BY DEF Prep, At
<1>4. QED
  BY <1>2, <1>3, PlainLeaveKeepsInv DEF Nodes

LEMMA FanoutEmptyKeepsInv == ASSUME EngineInv, FanoutEmpty PROVE EngineInv'
<1>1. LedgerType' /\ FilesType' /\ HistoryType'
  BY DEF EngineInv, TypeOK, LedgerType, FilesType, HistoryType, FanoutEmpty,
         caseFiles, volumes, closing, history
<1>2. QED
  BY <1>1, PlainLeaveKeepsInv DEF FanoutEmpty, At, Nodes

LEMMA DispatchKeepsInv == ASSUME EngineInv, Dispatch PROVE EngineInv'
<1> DEFINE wave == InState(st, {"pending_compile"})
<1>1. /\ st' = [c \in Cases |-> IF c \in wave THEN "dispatched" ELSE st[c]]
      /\ got' = [c \in Cases |-> IF c \in wave THEN "running" ELSE "idle"]
      /\ pc' = "workers" /\ next = "worker_fanout" /\ next' = next
  BY DEF Dispatch, At
<1>2. st \in Maps(CaseStates)
  BY DEF EngineInv, TypeOK, LedgerType
<1>3. st' \in Maps(CaseStates)
  BY <1>1, <1>2 DEF Maps, CaseStates
<1>4. LedgerType' /\ FilesType' /\ HistoryType'
  BY <1>3 DEF EngineInv, TypeOK, LedgerType, FilesType, HistoryType, Dispatch,
         caseFiles, volumes, closing, history
<1>5. got' \in Maps(Results)
  BY <1>1 DEF Maps, Results
<1>6. ProcessType' /\ HandedOn'
  BY <1>5 DEF EngineInv, TypeOK, ProcessType, HandedOn, Dispatch
<1>7. Inside'
  BY <1>1 DEF Inside
<1>8. QED
  BY <1>4, <1>6, <1>7 DEF EngineInv, TypeOK

LEMMA WorkerKeepsInv ==
  ASSUME EngineInv, NEW c \in Cases, Worker(c) PROVE EngineInv'
<1>1. /\ xlsx \in Maps(Nat) /\ got \in Maps(Results) /\ zombie \subseteq Cases
      /\ nd \in Maps({"none", "claims", "empty"})
  BY DEF EngineInv, TypeOK, FilesType, ProcessType
<1>2. /\ xlsx' \in Maps(Nat) /\ got' \in Maps(Results) /\ zombie' \subseteq Cases
      /\ nd' \in Maps({"none", "claims", "empty"})
      /\ \A d \in Cases \ {c} : got'[d] = got[d]
  <2>1. CASE WorkerProduces(c)
    BY <1>1, <2>1 DEF WorkerProduces, Outlives, Maps, Results
  <2>2. CASE WorkerUndecided(c)
    BY <1>1, <2>2 DEF WorkerUndecided, Maps, Results
  <2>3. CASE WorkerFails(c)
    BY <1>1, <2>3 DEF WorkerFails, Outlives, Maps, Results
  <2>4. QED
    BY <2>1, <2>2, <2>3 DEF Worker
<1>3. LedgerType' /\ FilesType' /\ HistoryType'
  BY <1>2 DEF EngineInv, TypeOK, LedgerType, FilesType, HistoryType, Worker,
         ledgerVars, volumes, closing, history
<1>4. ProcessType' /\ HandedOn'
  BY <1>2 DEF EngineInv, TypeOK, ProcessType, HandedOn, Worker
<1>5. Inside'
  BY <1>2 DEF EngineInv, Inside, Worker, Busy, ledgerVars
<1>6. QED
  BY <1>3, <1>4, <1>5 DEF EngineInv, TypeOK

LEMMA ZombieWritesKeepsInv ==
  ASSUME EngineInv, NEW c \in Cases, ZombieWrites(c) PROVE EngineInv'
<1>1. xlsx' \in Maps(Nat)
  BY DEF EngineInv, TypeOK, FilesType, ZombieWrites, Maps
<1>2. LedgerType' /\ FilesType' /\ HistoryType'
  BY <1>1 DEF EngineInv, TypeOK, LedgerType, FilesType, HistoryType,
         ZombieWrites, ledgerVars, volumes, closing, history
<1>3. got' \in Maps(Results) /\ \A d \in Cases : got'[d] # "idle" => got[d] # "idle"
  BY DEF EngineInv, TypeOK, ProcessType, ZombieWrites, Maps, Results
<1>4. ProcessType' /\ HandedOn' /\ Inside'
  BY <1>3 DEF EngineInv, TypeOK, ProcessType, HandedOn, Inside, ZombieWrites,
         ledgerVars
<1>5. QED
  BY <1>2, <1>4 DEF EngineInv, TypeOK

LEMMA CollectKeepsInv == ASSUME EngineInv, Collect PROVE EngineInv'
<1>1. /\ st \in Maps(CaseStates) /\ used \in Maps(0 .. MaxRounds)
      /\ got \in Maps(Results) /\ \A c \in Cases : got[c] \notin Busy
  BY DEF EngineInv, TypeOK, LedgerType, ProcessType, Collect
<1>2. st' \in Maps(CaseStates)
  <2>1. st' = [c \in Cases |-> IF got[c] = "idle" THEN st[c] ELSE got[c]]
    BY DEF Collect
  <2>2. \A c \in Cases : (IF got[c] = "idle" THEN st[c] ELSE got[c]) \in CaseStates
    BY <1>1 DEF Maps, CaseStates, Results, Busy
  <2>3. QED
    BY <2>1, <2>2 DEF Maps
<1>3. used' \in Maps(0 .. MaxRounds)
  BY DEF Collect, Maps
<1>4. LedgerType' /\ FilesType' /\ HistoryType'
  BY <1>2, <1>3 DEF EngineInv, TypeOK, LedgerType, FilesType, HistoryType,
         Collect, caseFiles, volumes, closing, history
<1>5. next = "worker_fanout"
  BY DEF EngineInv, Inside, Collect
<1>6. QED
  BY <1>4, <1>5, PlainLeaveKeepsInv DEF Collect, Nodes

LEMMA PresettledType == ASSUME st \in Maps(CaseStates) PROVE Presettled \in Maps(CaseStates)
  BY DEF Presettled, Maps, CaseStates

LEMMA AskNobodyKeepsInv == ASSUME EngineInv, AskNobody PROVE EngineInv'
<1>1. st' \in Maps(CaseStates)
  BY PresettledType DEF EngineInv, TypeOK, LedgerType, AskNobody
<1>2. LedgerType' /\ FilesType' /\ HistoryType'
  BY <1>1 DEF EngineInv, TypeOK, LedgerType, FilesType, HistoryType, AskNobody,
         caseFiles, volumes, closing, history
<1>3. /\ next = "ask_decision"
      /\ \E k \in {Ok, Nothing, Failure("error")} : Leave("ask_decision", k)
  BY DEF AskNobody, At
<1>4. QED
  BY <1>2, <1>3, PlainLeaveKeepsInv DEF Nodes

LEMMA AskUserKeepsInv == ASSUME EngineInv, AskUser PROVE EngineInv'
<1> DEFINE Decisions == {"none", "decide", "describe"}
<1>1. PICK answer \in [Undecided -> Decisions] :
        LET Written(cases) == [c \in Cases |-> IF c \in cases THEN answer[c] ELSE ud[c]]
        IN  \/ /\ st' = [c \in Cases |->
                           IF c \notin Undecided THEN Presettled[c]
                           ELSE AfterAnswer(answer[c])]
               /\ ud' = Written(Undecided)
               /\ Leave("ask_decision", Ok)
            \/ /\ UNCHANGED st
               /\ \E done \in SUBSET Undecided : ud' = Written(done)
               /\ Die
  BY DEF AskUser
<1>2. st \in Maps(CaseStates) /\ ud \in Maps(Decisions)
  BY DEF EngineInv, TypeOK, LedgerType, FilesType
<1>3. ud' \in Maps(Decisions)
  <2>1. PICK done \in SUBSET Undecided :
          ud' = [c \in Cases |-> IF c \in done THEN answer[c] ELSE ud[c]]
    BY <1>1
  <2>2. QED
    BY <1>1, <1>2, <2>1 DEF Maps
<1>4. st' \in Maps(CaseStates)
  BY <1>1, <1>2, PresettledType DEF AfterAnswer, Maps, CaseStates
<1>5. LedgerType' /\ FilesType' /\ HistoryType'
  BY <1>3, <1>4 DEF EngineInv, TypeOK, LedgerType, FilesType, HistoryType,
         AskUser, volumes, closing, history
<1>6. next = "ask_decision" /\ (Leave("ask_decision", Ok) \/ Die)
  BY <1>1 DEF AskUser, At
<1>7. QED
  BY <1>5, <1>6, PlainLeaveKeepsInv, DieKeepsInv DEF Nodes

LEMMA MergeRefusedKeepsInv == ASSUME EngineInv, MergeRefused PROVE EngineInv'
<1>1. LedgerType' /\ FilesType' /\ HistoryType'
  BY DEF EngineInv, TypeOK, LedgerType, FilesType, HistoryType, MergeRefused,
         caseFiles, volumes, closing, history
<1>2. QED
  BY <1>1, PlainLeaveKeepsInv DEF MergeRefused, At, Nodes

\* What the emitter writes, and what that does to the volumes and their runs.
LEMMA VolumeType ==
  ASSUME FilesType, ProcessType, NEW name \in Slots, NEW target
  PROVE  Volume(name, target) \in Volumes
<1>1. vol[name].stamp + 1 \in Nat /\ ch.round \in Nat
  BY DEF FilesType, ProcessType, Volumes, Channels
<1>2. [c \in Cases |-> IF c \in target THEN xlsx[c] ELSE 0] \in Maps(Nat)
  BY DEF FilesType, Maps
<1>3. QED
  BY <1>1, <1>2 DEF Volume, Volumes

LEMMA EmitType ==
  ASSUME FilesType, ProcessType, NEW name \in Slots, NEW target, Emit(name, target)
  PROVE  vol' \in [Slots -> Volumes] /\ lr' \in [Slots -> Maps(Records)]
<1>1. vol \in [Slots -> Volumes] /\ lr \in [Slots -> Maps(Records)]
  BY DEF FilesType
<1>2. CASE UNCHANGED volumes
  BY <1>1, <1>2 DEF volumes
<1>3. CASE EmitTo(name, target)
  <2>1. [c \in Cases |-> NoRecord] \in Maps(Records)
    BY DEF Maps, Records, NoRecord
  <2>2. lr' \in [Slots -> Maps(Records)]
    BY <1>1, <1>3, <2>1 DEF EmitTo, Slots
  <2>3. vol' \in [Slots -> Volumes]
    BY <1>1, <1>3, VolumeType DEF EmitTo
  <2>4. QED
    BY <2>2, <2>3
<1>4. QED
  BY <1>2, <1>3 DEF Emit

LEMMA PlanType == Plan.name \in Slots /\ Plan.scope \in {"full", "subset"}
  BY DEF Plan, Slots

LEMMA MergeKeepsInv == ASSUME EngineInv, Merge PROVE EngineInv'
<1> DEFINE named == [Ok EXCEPT !.scope = Plan.scope, !.vref = Plan.name]
<1>1. FilesType /\ ProcessType
  BY DEF EngineInv, TypeOK
<1>2. vol' \in [Slots -> Volumes] /\ lr' \in [Slots -> Maps(Records)]
  <2>1. CASE UNCHANGED volumes
    BY <1>1, <2>1 DEF FilesType, volumes
  <2>2. CASE Emit(IF OutNameFromEnv THEN "main" ELSE Plan.name, Plan.target)
    <3>1. (IF OutNameFromEnv THEN "main" ELSE Plan.name) \in Slots
      BY PlanType DEF Slots
    <3>2. QED
      BY <1>1, <2>2, <3>1, EmitType
  <2>3. QED
    BY <2>1, <2>2 DEF Merge
<1>3. LedgerType' /\ FilesType' /\ HistoryType'
  BY <1>2 DEF EngineInv, TypeOK, LedgerType, FilesType, HistoryType, Merge,
         caseFiles, closing, history
<1>4. /\ next = "merge"
      /\ \E k \in {Nothing, named, Failure("error")} : Leave("merge", k)
  BY DEF Merge, At
<1>5. named \in Channels /\ named.vref # "none"
  BY <1>1, PlanType, PlainChannels DEF Channels, Slots
<1>6. QED
  BY <1>3, <1>4, <1>5, LeaveKeepsInv, PlainLeaveKeepsInv DEF Nodes

\* In run_digest the volume has been named, so its mark is well-formed.
LEMMA MarkType ==
  ASSUME EngineInv, next = "run_digest"
  PROVE  ch.vref \in Slots /\ Mark \in [round : Nat, slot : Slots, stamp : Nat]
<1>1. ch \in Channels /\ ch.vref # "none" /\ vol \in [Slots -> Volumes]
  BY DEF EngineInv, TypeOK, FilesType, ProcessType, HandedOn
<1>2. ch.vref \in Slots /\ ch.round \in Nat
  BY <1>1 DEF Channels
<1>3. vol[ch.vref].stamp \in Nat
  BY <1>1, <1>2 DEF Volumes
<1>4. QED
  BY <1>2, <1>3 DEF Mark

LEMMA DeviceRunKeepsInv == ASSUME EngineInv, DeviceRun PROVE EngineInv'
<1> DEFINE sheets == vol[ch.vref].has
           inVol  == {c \in Cases : sheets[c] # 0}
<1>1. PICK verdict \in [inVol -> Verdicts] :
        /\ lr' = [lr EXCEPT ![ch.vref] =
             [c \in Cases |-> IF c \in inVol THEN [v |-> verdict[c], attr |-> "none"]
                              ELSE @[c]]]
        /\ evidence' = evidence \cup
             {<<c, sheets[c]>> : c \in {d \in inVol : verdict[d] = "pass"}}
  BY DEF DeviceRun
<1>2. next = "run_digest" /\ next' = next /\ pc' = "consume" /\ ran' = ran \cup {Mark}
  BY DEF DeviceRun, At
<1>3. ch.vref \in Slots /\ Mark \in [round : Nat, slot : Slots, stamp : Nat]
  BY <1>2, MarkType
<1>4. lr \in [Slots -> Maps(Records)] /\ sheets \in Maps(Nat)
  BY <1>3 DEF EngineInv, TypeOK, FilesType, Volumes
<1>5. lr' \in [Slots -> Maps(Records)]
  <2>1. [c \in Cases |-> IF c \in inVol THEN [v |-> verdict[c], attr |-> "none"]
                         ELSE lr[ch.vref][c]] \in Maps(Records)
    BY <1>3, <1>4 DEF Maps, Records
  <2>2. QED
    BY <1>1, <1>3, <1>4, <2>1
<1>6. evidence' \subseteq Cases \X Nat /\ ran' \subseteq [round : Nat, slot : Slots, stamp : Nat]
  BY <1>1, <1>2, <1>3, <1>4 DEF EngineInv, TypeOK, HistoryType, Maps
<1>7. LedgerType' /\ FilesType' /\ HistoryType'
  BY <1>5, <1>6 DEF EngineInv, TypeOK, LedgerType, FilesType, HistoryType,
         DeviceRun, ledgerVars, caseFiles, closing
<1>8. ProcessType' /\ HandedOn' /\ Inside'
  BY <1>2 DEF EngineInv, TypeOK, ProcessType, HandedOn, Inside, DeviceRun, At
<1>9. QED
  BY <1>7, <1>8 DEF EngineInv, TypeOK

LEMMA KeepRunKeepsInv == ASSUME EngineInv, KeepRun PROVE EngineInv'
<1>1. LedgerType' /\ FilesType' /\ HistoryType'
  BY DEF EngineInv, TypeOK, LedgerType, FilesType, HistoryType, KeepRun,
         ledgerVars, caseFiles, volumes, closing, history
<1>2. ProcessType' /\ HandedOn' /\ Inside'
  BY DEF EngineInv, TypeOK, ProcessType, HandedOn, Inside, KeepRun, At
<1>3. QED
  BY <1>1, <1>2 DEF EngineInv, TypeOK

LEMMA RunFailsKeepsInv == ASSUME EngineInv, RunFails PROVE EngineInv'
<1>1. LedgerType' /\ FilesType' /\ HistoryType'
  BY DEF EngineInv, TypeOK, LedgerType, FilesType, HistoryType, RunFails,
         caseFiles, volumes, closing, history
<1>2. QED
  BY <1>1, PlainLeaveKeepsInv DEF RunFails, At, Nodes

LEMMA ConsumeKeepsInv == ASSUME EngineInv, Consume PROVE EngineInv'
<1> DEFINE returned == [Ok EXCEPT !.round = @ + 1, !.lref = ch.vref]
<1>1. next = "run_digest"
  BY DEF EngineInv, Inside, Consume
<1>2. ch.vref \in Slots /\ Mark \in [round : Nat, slot : Slots, stamp : Nat]
  BY <1>1, MarkType
<1>3. /\ st \in Maps(CaseStates) /\ lock \in Maps(Nat) /\ flip \in Maps(BOOLEAN)
      /\ xlsx \in Maps(Nat) /\ ProcessType
  BY DEF EngineInv, TypeOK, LedgerType, FilesType
<1>4. st' \in Maps(CaseStates)
  <2>1. \A s \in CaseStates : \A v : JudgedState(s, v) \in CaseStates
    BY DEF JudgedState, CaseStates
  <2>2. QED
    BY <1>3, <2>1 DEF Consume, Maps
<1>5. flip' \in Maps(BOOLEAN)
  <2>1. flip' = [c \in Cases |-> flip[c] \/ Flips(st[c], lr[ch.vref][c].v)]
    BY DEF Consume
  <2>2. \A s, v : Flips(s, v) \in BOOLEAN
    BY DEF Flips
  <2>3. QED
    BY <1>3, <2>1, <2>2 DEF Maps
<1>6. lock' \in Maps(Nat)
  BY <1>3 DEF Consume, Maps
<1>7. LedgerType' /\ FilesType' /\ HistoryType'
  BY <1>2, <1>4, <1>5, <1>6 DEF EngineInv, TypeOK, LedgerType, FilesType,
         HistoryType, Consume, caseFiles, volumes, closing, history
<1>8. returned \in Channels /\ returned.lref # "none"
  <2>1. Ok \in Channels
    BY <1>3, PlainChannels
  <2>2. [Ok EXCEPT !.round = @ + 1] \in Channels
    BY <2>1 DEF Channels
  <2>3. returned \in Channels /\ returned.lref = ch.vref
    BY <1>2, <2>2 DEF Channels
  <2>4. QED
    BY <1>2, <2>3 DEF Slots
<1>9. QED
  BY <1>1, <1>7, <1>8, LeaveKeepsInv DEF Consume, Nodes

LEMMA AttributeNothingKeepsInv == ASSUME EngineInv, AttributeNothing PROVE EngineInv'
<1>1. LedgerType' /\ FilesType' /\ HistoryType'
  BY DEF EngineInv, TypeOK, LedgerType, FilesType, HistoryType,
         AttributeNothing, caseFiles, volumes, closing, history
<1>2. QED
  BY <1>1, PlainLeaveKeepsInv DEF AttributeNothing, At, Nodes

\* Where attribute may send a failed case.
LEMMA AttributedStates ==
  /\ \A c : ByRecord(c) \in {"failed_terminal", "escalated", "pending_compile", "fork"}
  /\ \A disposition : ByFork(disposition) \in
       {"failed_terminal", "pending_compile", "failed_active", "escalated"}
  BY DEF ByRecord, ByFork

\* The two ways attribute goes for a batch with failed cases: it saves the
\* ledger and leaves, or dies with the forks' dispositions already on file.
LEMMA AttributeOutcomes ==
  ASSUME EngineInv, Attribute
  PROVE  /\ next = "attribute"
         /\ lr' \in [Slots -> Maps(Records)]
         /\ \/ /\ st' = [c \in Cases |->
                    IF st[c] # "failed_active" THEN st[c]
                    ELSE IF ByRecord(c) = "fork" THEN ByFork(ReadBack(lr', c))
                    ELSE ByRecord(c)]
               /\ Leave("attribute", Ok)
            \/ UNCHANGED st /\ Die
<1> DEFINE fails  == InState(st, {"failed_active"})
           forked == {c \in fails : ByRecord(c) = "fork"}
           lands(fork) == {c \in forked : /\ fork[c][1] # "none"
                                          /\ lr[fork[c][2]][c].v # "none"}
<1>1. next = "attribute"
  BY DEF Attribute, At
<1>2. PICK fork \in [forked -> Dispositions \X {ch.lref, "main"}] :
        /\ lr' = [name \in Slots |-> [c \in Cases |->
              IF c \in lands(fork) /\ fork[c][2] = name
                THEN [lr[name][c] EXCEPT !.attr = fork[c][1]]
                ELSE lr[name][c]]]
        /\ \/ /\ st' = [c \in Cases |->
                    IF c \in forked THEN ByFork(ReadBack(lr', c))
                    ELSE IF c \in fails THEN ByRecord(c)
                    ELSE st[c]]
              /\ Leave("attribute", Ok)
           \/ UNCHANGED st /\ Die
  BY DEF Attribute
<1>3. lr \in [Slots -> Maps(Records)] /\ st \in Maps(CaseStates)
  BY DEF EngineInv, TypeOK, LedgerType, FilesType
<1>4. lr' \in [Slots -> Maps(Records)]
  <2>1. \A c \in lands(fork) : fork[c][1] \in Dispositions
    BY <1>2
  <2>2. ASSUME NEW name \in Slots, NEW c \in Cases
        PROVE  (IF c \in lands(fork) /\ fork[c][2] = name
                  THEN [lr[name][c] EXCEPT !.attr = fork[c][1]]
                  ELSE lr[name][c]) \in Records
    <3>1. lr[name][c] \in Records
      BY <1>3 DEF Maps
    <3>2. \A d \in Dispositions : [lr[name][c] EXCEPT !.attr = d] \in Records
      BY <3>1 DEF Records
    <3>3. QED
      BY <2>1, <3>1, <3>2
  <2>3. QED
    BY <1>2, <2>2 DEF Maps
<1>5. \A c \in Cases : /\ c \in fails <=> st[c] = "failed_active"
                       /\ c \in forked <=> st[c] = "failed_active" /\ ByRecord(c) = "fork"
  BY <1>3 DEF InState, Maps
<1>6. QED
  BY <1>1, <1>2, <1>4, <1>5

LEMMA AttributeKeepsInv == ASSUME EngineInv, Attribute PROVE EngineInv'
<1>1. st' \in Maps(CaseStates)
  <2>1. st \in Maps(CaseStates)
    BY DEF EngineInv, TypeOK, LedgerType
  <2>2. CASE UNCHANGED st
    BY <2>1, <2>2
  <2>3. CASE st' = [c \in Cases |->
                 IF st[c] # "failed_active" THEN st[c]
                 ELSE IF ByRecord(c) = "fork" THEN ByFork(ReadBack(lr', c))
                 ELSE ByRecord(c)]
    BY <2>1, <2>3, AttributedStates DEF Maps, CaseStates
  <2>4. QED
    BY <2>2, <2>3, AttributeOutcomes
<1>2. LedgerType' /\ FilesType' /\ HistoryType'
  BY <1>1, AttributeOutcomes DEF EngineInv, TypeOK, LedgerType, FilesType,
         HistoryType, Attribute, caseFiles, closing
<1>3. QED
  BY <1>2, AttributeOutcomes, PlainLeaveKeepsInv, DieKeepsInv DEF Nodes

LEMMA WritebackKeepsInv == ASSUME EngineInv, Writeback PROVE EngineInv'
<1>1. library' \in Maps(Nat)
  BY DEF EngineInv, TypeOK, FilesType, Writeback, Maps
<1>2. LedgerType' /\ FilesType' /\ HistoryType'
  BY <1>1 DEF EngineInv, TypeOK, LedgerType, FilesType, HistoryType, Writeback,
         caseFiles, volumes, history
<1>3. /\ next = "writeback"
      /\ Leave("writeback", Ok) \/ Leave("writeback", Nothing) \/ Die
  BY DEF Writeback, At
<1>4. QED
  BY <1>2, <1>3, PlainLeaveKeepsInv, DieKeepsInv DEF Nodes

LEMMA ArchivedType ==
  ASSUME FilesType, ProcessType PROVE Archived \subseteq [Slots -> Volumes]
  BY VolumeType DEF FilesType, Archived, Slots

LEMMA ReportKeepsInv == ASSUME EngineInv, Report PROVE EngineInv'
<1>1. /\ FilesType /\ ProcessType /\ HistoryType
  BY DEF EngineInv, TypeOK
<1>2. Archived \subseteq [Slots -> Volumes]
  BY <1>1, ArchivedType
<1>3. \A v \in [Slots -> Volumes] : CleanUp(v) \/ KeepTemp(v) \/ CleanUpStarts(v)
        => /\ vol' \in [Slots -> Volumes] /\ lr' \in [Slots -> Maps(Records)]
           /\ xlsx' \in Maps(Nat) /\ nd' \in Maps({"none", "claims", "empty"})
           /\ ud' \in Maps({"none", "decide", "describe"}) /\ manifest' \in BOOLEAN
  <2>1. ASSUME NEW v \in [Slots -> Volumes], CleanUp(v)
        PROVE  /\ vol' \in [Slots -> Volumes] /\ lr' \in [Slots -> Maps(Records)]
               /\ xlsx' \in Maps(Nat) /\ nd' \in Maps({"none", "claims", "empty"})
               /\ ud' \in Maps({"none", "decide", "describe"}) /\ manifest' \in BOOLEAN
    <3>1. NoVolume \in Volumes /\ [c \in Cases |-> NoRecord] \in Maps(Records)
      BY DEF NoVolume, Volumes, NoRecord, Records, Maps
    <3>2. QED
      BY <2>1, <3>1 DEF CleanUp, Maps
  <2>2. ASSUME NEW v \in [Slots -> Volumes], KeepTemp(v)
        PROVE  /\ vol' \in [Slots -> Volumes] /\ lr' \in [Slots -> Maps(Records)]
               /\ xlsx' \in Maps(Nat) /\ nd' \in Maps({"none", "claims", "empty"})
               /\ ud' \in Maps({"none", "decide", "describe"}) /\ manifest' \in BOOLEAN
    BY <1>1, <2>2 DEF KeepTemp, caseFiles, FilesType
  <2>3. ASSUME NEW v \in [Slots -> Volumes], CleanUpStarts(v)
        PROVE  /\ vol' \in [Slots -> Volumes] /\ lr' \in [Slots -> Maps(Records)]
               /\ xlsx' \in Maps(Nat) /\ nd' \in Maps({"none", "claims", "empty"})
               /\ ud' \in Maps({"none", "decide", "describe"}) /\ manifest' \in BOOLEAN
    BY <1>1, <2>3 DEF CleanUpStarts, FilesType, Maps
  <2>4. QED
    BY <2>1, <2>2, <2>3
<1>4. rep' \in Outcomes
  BY <1>1 DEF Report, FilesType, Outcome, Outcomes
<1>5. FilesType'
  <2>1. \E v \in [Slots -> Volumes] : CleanUp(v) \/ KeepTemp(v) \/ CleanUpStarts(v)
    <3>1. vol \in [Slots -> Volumes]
      BY <1>1 DEF FilesType
    <3>2. QED
      BY <1>2, <3>1 DEF Report
  <2>2. QED
    BY <1>1, <1>3, <1>4, <2>1 DEF FilesType, Report
<1>6. LedgerType' /\ HistoryType'
  BY DEF EngineInv, TypeOK, LedgerType, HistoryType, Report, history
<1>7. next = "report" /\ (Leave("report", Ok) \/ Die)
  BY DEF Report, At
<1>8. QED
  BY <1>5, <1>6, <1>7, PlainLeaveKeepsInv, DieKeepsInv DEF Nodes

LEMMA NextKeepsInv == ASSUME EngineInv, [Next]_vars PROVE EngineInv'
<1>1. CASE Step
  BY <1>1, PrepKeepsInv, FanoutEmptyKeepsInv, DispatchKeepsInv, WorkerKeepsInv,
     CollectKeepsInv, AskNobodyKeepsInv, AskUserKeepsInv, MergeRefusedKeepsInv,
     MergeKeepsInv, DeviceRunKeepsInv, KeepRunKeepsInv, RunFailsKeepsInv,
     ConsumeKeepsInv, AttributeNothingKeepsInv, AttributeKeepsInv,
     WritebackKeepsInv, ReportKeepsInv DEF Step
<1>2. QED
  BY <1>1, StutterKeepsInv, CallKeepsInv, CrashKeepsInv, ZombieWritesKeepsInv
  DEF Next

\* The invariant the other theorems rest on: types, what a node may be inside
\* of, and the references handed from node to node (graph.py:88-106).
THEOREM EngineInvariant == Spec => []EngineInv
<1>1. QED
  BY InitInv, NextKeepsInv, PTL DEF Spec

\* Every variable keeps its type, and run_digest, attribute and writeback are
\* only ever entered with the volume or last run they read (verify_phase.py:84,
\* 155, closing.py:22).
THEOREM TypeCorrect == Spec => []TypeOK
<1>1. EngineInv => TypeOK
  BY DEF EngineInv
<1>2. QED
  BY <1>1, EngineInvariant, PTL

-----------------------------------------------------------------------------
(* The moves of a case.                                                    *)

\* What one step may do to the state of every case.
Move(from, to) == from = to \/ <<from, to>> \in Legal

LEMMA StatelessSteps ==
  ASSUME [Next]_vars
  PROVE  \/ UNCHANGED st
         \/ Prep \/ Dispatch \/ Collect \/ AskNobody \/ AskUser \/ Consume
         \/ Attribute
  BY DEF Next, Step, Call, Crash, ZombieWrites, FanoutEmpty, Worker,
         MergeRefused, Merge, DeviceRun, KeepRun, RunFails, AttributeNothing,
         Writeback, Report, vars, ledgerVars

LEMMA PrepMoves ==
  ASSUME EngineInv, Prep, NEW c \in Cases PROVE Move(st[c], st'[c])
<1>1. CASE UNCHANGED st
  BY <1>1 DEF Move
<1>2. CASE st' = Recovered(st)
  BY <1>2 DEF Recovered, Move, Legal
<1>3. CASE st' = Recovered([d \in Cases |-> IF st[d] = "" THEN "pending_compile"
                                            ELSE st[d]])
  BY <1>3 DEF Recovered, Move, Legal
<1>4. QED
  BY <1>1, <1>2, <1>3 DEF Prep

LEMMA DispatchMoves ==
  ASSUME EngineInv, Dispatch, NEW c \in Cases PROVE Move(st[c], st'[c])
<1>1. DOMAIN st = Cases
  BY DEF EngineInv, TypeOK, LedgerType, Maps
<1>2. QED
  BY <1>1 DEF Dispatch, InState, Move, Legal

\* A fork's result moves the case it worked on, which is dispatched.
LEMMA CollectMoves ==
  ASSUME EngineInv, Collect, NEW c \in Cases PROVE Move(st[c], st'[c])
<1>1. st'[c] = IF got[c] = "idle" THEN st[c] ELSE got[c]
  BY DEF Collect
<1>2. got[c] \in {"idle", "produced", "pending_decision", "escalated"}
  BY DEF EngineInv, TypeOK, ProcessType, Maps, Results, Busy, Collect
<1>3. got[c] # "idle" => st[c] = "dispatched"
  BY DEF EngineInv, Inside
<1>4. QED
  BY <1>1, <1>2, <1>3 DEF Move, Legal

LEMMA PresettledMoves ==
  ASSUME NEW c \in Cases PROVE Move(st[c], Presettled[c])
  BY DEF Presettled, Move, Legal

LEMMA AskMoves ==
  ASSUME EngineInv, AskNobody \/ AskUser, NEW c \in Cases
  PROVE  Move(st[c], st'[c])
<1>1. CASE AskNobody
  BY <1>1, PresettledMoves DEF AskNobody, Move
<1>2. CASE AskUser
  <2>1. CASE UNCHANGED st
    BY <2>1 DEF Move
  <2>2. ASSUME NEW answer,
               st' = [d \in Cases |-> IF d \notin Undecided THEN Presettled[d]
                                      ELSE AfterAnswer(answer[d])]
        PROVE  Move(st[c], st'[c])
    <3>1. CASE c \notin Undecided
      BY <2>2, <3>1, PresettledMoves
    <3>2. CASE c \in Undecided
      <4>1. st[c] = "pending_decision" /\ st'[c] = AfterAnswer(answer[c])
        BY <2>2, <3>2 DEF Undecided
      <4>2. QED
        BY <4>1 DEF AfterAnswer, Move, Legal
    <3>3. QED
      BY <3>1, <3>2
  <2>3. QED
    BY <1>2, <2>1, <2>2 DEF AskUser
<1>3. QED
  BY <1>1, <1>2

LEMMA ConsumeMoves ==
  ASSUME EngineInv, Consume, NEW c \in Cases PROVE Move(st[c], st'[c])
  BY DEF Consume, JudgedState, Move, Legal

LEMMA AttributeMoves ==
  ASSUME EngineInv, Attribute, NEW c \in Cases PROVE Move(st[c], st'[c])
<1>1. CASE UNCHANGED st
  BY <1>1 DEF Move
<1>2. CASE st' = [d \in Cases |->
               IF st[d] # "failed_active" THEN st[d]
               ELSE IF ByRecord(d) = "fork" THEN ByFork(ReadBack(lr', d))
               ELSE ByRecord(d)]
  BY <1>2, AttributedStates DEF Move, Legal
<1>3. QED
  BY <1>1, <1>2, AttributeOutcomes

LEMMA StepMoves ==
  ASSUME EngineInv, [Next]_vars, NEW c \in Cases PROVE Move(st[c], st'[c])
<1>1. CASE UNCHANGED st
  BY <1>1 DEF Move
<1>2. QED
  BY <1>1, StatelessSteps, PrepMoves, DispatchMoves, CollectMoves, AskMoves,
     ConsumeMoves, AttributeMoves

\* No node, death, resumption or late fork moves a case off the table of
\* ledger.py:34-49; in particular passed, failed_terminal and escalated are
\* never left.
THEOREM LegalMoves == Spec => MovesAreLegal
<1> DEFINE A == \A c \in Cases : st'[c] # st[c] => <<st[c], st'[c]>> \in Legal
<1>1. EngineInv /\ [Next]_vars => [A]_vars
  BY StepMoves DEF Move
<1>2. QED
  BY <1>1, EngineInvariant, PTL DEF Spec, MovesAreLegal

-----------------------------------------------------------------------------
(* The budget of rounds.                                                   *)

LEMMA AttributeBudget ==
  ASSUME EngineInv, Attribute, NEW c \in Cases,
         st[c] = "failed_active", st'[c] = "pending_compile"
  PROVE  used[c] < MaxRounds
<1>1. used[c] \in 0 .. MaxRounds
  BY DEF EngineInv, TypeOK, LedgerType, Maps
<1>2. ByRecord(c) \in {"pending_compile", "fork"}
  BY AttributeOutcomes, AttributedStates
<1>3. ~Exhausted(c)
  BY <1>2 DEF ByRecord
<1>4. QED
  BY <1>1, <1>3, BoundsAreNat DEF Exhausted

\* A failed case is sent back to a worker by attribute alone, and only while
\* its rounds_used is below max_rounds (verify_phase.py:228-243).
THEOREM ReflowBudget == Spec => ReflowWithinBudget
<1> DEFINE A == \A c \in Cases : st[c] = "failed_active" /\ st'[c] = "pending_compile"
                                 => used[c] < MaxRounds
<1>1. ASSUME EngineInv, [Next]_vars, NEW c \in Cases,
             st[c] = "failed_active", st'[c] = "pending_compile"
      PROVE  Attribute
  <2>1. CASE Prep
    BY <1>1, <2>1 DEF Prep, Recovered
  <2>2. CASE Dispatch
    <3>1. st'[c] \in {"dispatched", st[c]}
      BY <2>2 DEF Dispatch
    <3>2. QED
      BY <1>1, <3>1
  <2>3. CASE Collect
    BY <1>1, <2>3 DEF EngineInv, Inside, Collect
  <2>4. CASE AskNobody \/ AskUser
    <3>1. Presettled[c] = st[c] /\ c \notin Undecided
      BY <1>1 DEF Presettled, Undecided
    <3>2. st'[c] = st[c]
      BY <2>4, <3>1 DEF AskNobody, AskUser
    <3>3. QED
      BY <1>1, <3>2
  <2>5. CASE Consume
    BY <1>1, <2>5 DEF Consume, JudgedState
  <2>6. QED
    BY <1>1, <2>1, <2>2, <2>3, <2>4, <2>5, StatelessSteps
<1>2. EngineInv /\ [Next]_vars => [A]_vars
  BY <1>1, AttributeBudget
<1>3. QED
  BY <1>2, EngineInvariant, PTL DEF Spec, ReflowWithinBudget

-----------------------------------------------------------------------------
(* A consumed run is one that was made.                                    *)

\* A marker that is not the initial one was consumed from a run.
RunInv == /\ marker.round > 0 => marker \in ran
          /\ ConsumesOwnRun

\* Only the bed adds to ran, and what Mark is made of stays put inside a node.
LEMMA NextKeepsRunInv ==
  ASSUME EngineInv, RunInv, ~DigestFaults, [Next]_vars PROVE RunInv'
<1>1. CASE DeviceRun
  <2>1. marker' = marker /\ ran' = ran \cup {Mark} /\ Mark' = Mark
    <3>1. ch.vref \in Slots
      BY <1>1, MarkType DEF DeviceRun, At
    <3>2. QED
      BY <1>1, <3>1 DEF DeviceRun, ledgerVars, Mark
  <2>2. QED
    BY <2>1 DEF RunInv, ConsumesOwnRun
<1>2. CASE KeepRun
  <2>1. marker = Mark /\ Mark.round > 0
    <3>1. ch.round \in Nat
      BY DEF EngineInv, TypeOK, ProcessType, Channels
    <3>2. QED
      BY <1>2, <3>1 DEF KeepRun, Already, Mark
  <2>2. marker' = marker /\ ran' = ran /\ Mark' = Mark
    BY <1>2 DEF KeepRun, ledgerVars, volumes, history, Mark
  <2>3. QED
    BY <2>1, <2>2 DEF RunInv, ConsumesOwnRun
<1>3. CASE Consume
  <2>1. marker' = Mark /\ ran' = ran /\ Mark \in ran
    BY <1>3 DEF Consume, history, RunInv, ConsumesOwnRun
  <2>2. pc' # "consume"
    BY <1>3 DEF Consume, Leave, Die
  <2>3. QED
    BY <2>1, <2>2 DEF RunInv, ConsumesOwnRun
<1>4. CASE UNCHANGED <<marker, ran, pc, ch, vol>>
  BY <1>4 DEF RunInv, ConsumesOwnRun, Mark
<1>5. CASE UNCHANGED <<marker, ran>> /\ pc' # "consume"
  BY <1>5 DEF RunInv, ConsumesOwnRun
<1>6. UNCHANGED marker \/ Consume
  BY DEF Next, Step, Call, Crash, ZombieWrites, Prep, FanoutEmpty, Dispatch,
         Worker, Collect, AskNobody, AskUser, MergeRefused, Merge, DeviceRun,
         KeepRun, RunFails, AttributeNothing, Attribute, Writeback, Report,
         vars, ledgerVars
<1>7. UNCHANGED ran \/ DeviceRun
  BY DEF Next, Step, Call, Crash, ZombieWrites, Prep, FanoutEmpty, Dispatch,
         Worker, Collect, AskNobody, AskUser, MergeRefused, Merge, KeepRun,
         RunFails, Consume, AttributeNothing, Attribute, Writeback, Report,
         vars, history
<1>8. DeviceRun \/ KeepRun \/ pc' # "consume" \/ UNCHANGED <<pc, ch, vol>>
  <2>1. ASSUME NEW n, NEW k, Leave(n, k) \/ Die PROVE pc' # "consume"
    BY <2>1 DEF Leave, Die
  <2>2. CASE Step
    BY <2>1, <2>2 DEF Step, Prep, FanoutEmpty, Dispatch, Worker, Collect,
         AskNobody, AskUser, MergeRefused, Merge, RunFails, Consume,
         AttributeNothing, Attribute, Writeback, Report, volumes
  <2>3. QED
    BY <2>1, <2>2 DEF Next, Call, Crash, ZombieWrites, vars, volumes
<1>9. QED
  BY <1>1, <1>2, <1>3, <1>4, <1>5, <1>6, <1>7, <1>8

\* As long as a failed device run leaves no older last_run.json behind, the
\* verdicts a node consumes are those of a run of that very volume file in
\* that very round, deaths and resumptions included (verify_phase.py:97-101).
THEOREM OwnRunConsumed ==
  ASSUME ~DigestFaults PROVE Spec => []ConsumesOwnRun
<1>1. Init => RunInv
  <2>1. Init => marker = [round |-> 0, slot |-> "main", stamp |-> 0]
    BY DEF Init
  <2>2. Init => ~(marker.round > 0)
    BY <2>1
  <2>3. Init => pc # "consume"
    BY DEF Init
  <2>4. QED
    BY <2>2, <2>3 DEF RunInv, ConsumesOwnRun
<1>2. EngineInv /\ RunInv /\ [Next]_vars => RunInv'
  BY NextKeepsRunInv
<1>3. RunInv => ConsumesOwnRun
  BY DEF RunInv
<1>4. QED
  BY <1>1, <1>2, <1>3, EngineInvariant, PTL DEF Spec

-----------------------------------------------------------------------------
(* What a step does to the channels.                                       *)

\* The states a verdict can move.
Retried == {"produced", "failed_active"}


\* The channels of a node that neither names a volume nor ends a round.
LEMMA PlainKeeps ==
  ASSUME EngineInv, NEW k \in {Ok, Nothing, Failure("error"), Failure("device_busy")}
  PROVE  /\ k.round = ch.round /\ k.scope = ch.scope /\ k.vref = ch.vref
         /\ k.lref = ch.lref /\ (ch.err => k.err)
         /\ k \in {Failure("error"), Failure("device_busy")} =>
              k.err /\ k.status \in {"error", "device_busy"}
  BY DEF EngineInv, TypeOK, ProcessType, Channels, Ok, Nothing, Failure

\* But for merge and a consumed run, a step leaves the checkpoint alone, starts
\* a call, or leaves a node with plain channels.
LEMMA StepLeaves ==
  ASSUME EngineInv, [Next]_vars, ~Merge, ~Consume
  PROVE  \/ ch' = ch /\ next' = next
         \/ ch' = ch /\ next = "END" /\ next' = "prep"
         \/ /\ next \in Nodes \ {"merge", "run_digest"}
            /\ \E k \in {Ok, Nothing, Failure("error")} : Leave(next, k)
         \/ /\ next \in {"merge", "run_digest"}
            /\ \E k \in {Failure("error"), Failure("device_busy")} : Leave(next, k)
<1>1. CASE Call \/ Crash \/ UNCHANGED vars \/ \E c \in Cases : ZombieWrites(c)
  BY <1>1 DEF Call, Crash, Die, vars, ZombieWrites
<1>2. CASE Prep \/ FanoutEmpty \/ AskNobody \/ AttributeNothing
  BY <1>2 DEF Prep, FanoutEmpty, AskNobody, AttributeNothing, At, Nodes
<1>3. CASE AskUser \/ Attribute \/ Writeback \/ Report
  BY <1>3 DEF AskUser, Attribute, Writeback, Report, At, Nodes, Die
<1>4. CASE Dispatch \/ (\E c \in Cases : Worker(c)) \/ DeviceRun \/ KeepRun
  BY <1>4 DEF Dispatch, Worker, DeviceRun, KeepRun
<1>5. CASE Collect
  BY <1>5 DEF Collect, EngineInv, Inside, Nodes
<1>6. CASE MergeRefused \/ RunFails
  BY <1>6 DEF MergeRefused, RunFails, At
<1>7. QED
  BY <1>1, <1>2, <1>3, <1>4, <1>5, <1>6 DEF Next, Step

\* Such a step ends no round and names no volume, no error is ever taken back,
\* and merge and run_digest are left with an error, for report.
LEMMA QuietChannels ==
  ASSUME EngineInv, [Next]_vars, ~Merge, ~Consume
  PROVE  /\ ch'.round = ch.round /\ ch'.scope = ch.scope
         /\ ch'.vref = ch.vref /\ ch'.lref = ch.lref
         /\ ch.err => ch'.err
         /\ \/ next' = next
            \/ next = "END" /\ next' = "prep"
            \/ next \in Nodes \ {"merge", "run_digest"} /\ next' = After(next, ch', st')
            \/ next \in {"merge", "run_digest"} /\ next' = "report" /\ ch'.err
<1>1. CASE ch' = ch
  <2>1. ASSUME NEW k, Leave(next, k)
        PROVE  next' = next \/ (ch' = k /\ next' = After(next, ch', st'))
    BY <2>1 DEF Leave, Die
  <2>2. ASSUME NEW k \in {Failure("error"), Failure("device_busy")}, ch' = k,
               next \in {"merge", "run_digest"}, next' = After(next, ch', st')
        PROVE  next' = "report" /\ ch'.err
    BY <2>2, PlainKeeps DEF After, AfterMerge, AfterRun
  <2>3. QED
    BY <1>1, <2>1, <2>2, StepLeaves
<1>2. CASE ch' # ch
  <2>1. PICK k \in {Ok, Nothing, Failure("error"), Failure("device_busy")} :
          /\ Leave(next, k)
          /\ \/ next \in Nodes \ {"merge", "run_digest"}
             \/ /\ next \in {"merge", "run_digest"}
                /\ k \in {Failure("error"), Failure("device_busy")}
    BY <1>2, StepLeaves
  <2>2. ch' = k /\ next' = After(next, k, st')
    BY <1>2, <2>1 DEF Leave, Die
  <2>3. next \in {"merge", "run_digest"} => next' = "report" /\ ch'.err
    BY <2>1, <2>2, PlainKeeps DEF After, AfterMerge, AfterRun
  <2>4. QED
    BY <2>1, <2>2, <2>3, PlainKeeps
<1>3. QED
  BY <1>1, <1>2

\* At merge the ledger stays as it is.
LEMMA MergeKeepsStates ==
  ASSUME EngineInv, [Next]_vars, next = "merge" PROVE st' = st
<1>1. ~(Prep \/ Dispatch \/ Collect \/ AskNobody \/ AskUser \/ Consume \/ Attribute)
  BY DEF Prep, Dispatch, Collect, AskNobody, AskUser, Consume, Attribute, At,
         EngineInv, Inside
<1>2. QED
  BY <1>1, StatelessSteps

\* A run is consumed by a node that dies, or ends the round.
LEMMA ConsumeOutcomes ==
  ASSUME EngineInv, Consume
  PROVE  /\ next = "run_digest" /\ pc = "consume" /\ pc' # "consume"
         /\ UNCHANGED <<xlsx, vol, lr, library, ran, rep>>
         /\ \/ ch' = ch /\ next' = next /\ crashes' = crashes + 1
            \/ /\ ch'.round = ch.round + 1 /\ ch'.scope = ch.scope
               /\ ch'.lref = ch.vref /\ ch'.err = ch.err
               /\ ch'.status = "ok" /\ crashes' = crashes
               /\ next' = AfterRun(ch', st')
<1> DEFINE later == [Ok EXCEPT !.round = @ + 1]
           k == [Ok EXCEPT !.round = @ + 1, !.lref = ch.vref]
<1>1. /\ next = "run_digest" /\ pc = "consume" /\ Leave("run_digest", k)
      /\ UNCHANGED <<xlsx, vol, lr, library, ran, rep>>
  BY DEF Consume, EngineInv, Inside, caseFiles, volumes, closing, history
<1>2. pc' # "consume"
  BY <1>1 DEF Leave, Die
<1>3. /\ k.round = ch.round + 1 /\ k.scope = ch.scope /\ k.lref = ch.vref
      /\ k.err = ch.err /\ k.status = "ok"
  <2>1. ch \in Channels /\ ch.round + 1 \in Nat
    BY DEF EngineInv, TypeOK, ProcessType, Channels
  <2>2. Ok \in Channels /\ Ok.round = ch.round /\ Ok.scope = ch.scope
        /\ Ok.err = ch.err /\ Ok.status = "ok"
    BY <2>1 DEF Ok, Channels
  <2>3. later \in Channels /\ later.round = ch.round + 1 /\ later.scope = ch.scope
        /\ later.err = ch.err /\ later.status = "ok"
    BY <2>1, <2>2 DEF Channels
  <2>4. k = [later EXCEPT !.lref = ch.vref]
    BY <2>3 DEF Channels
  <2>5. QED
    BY <2>3, <2>4 DEF Channels
<1>4. QED
  BY <1>1, <1>2, <1>3 DEF Leave, Die, After

-----------------------------------------------------------------------------
(* Verdicts.                                                               *)

\* Nothing but a verdict locks a case, marks a flip or moves the marker.
LEMMA OnlyVerdictsLock == ASSUME [Next]_vars, ~Consume PROVE UNCHANGED <<lock, flip, marker>>
  BY DEF Next, Step, Call, Crash, Prep, FanoutEmpty, Dispatch, Worker, ZombieWrites,
         Collect, AskNobody, AskUser, MergeRefused, Merge, DeviceRun, KeepRun,
         RunFails, AttributeNothing, Attribute, Writeback, Report, vars, ledgerVars

\* Nothing but a verdict passes a case or fails it.
LEMMA OnlyVerdictsJudge ==
  ASSUME EngineInv, [Next]_vars, ~Consume, NEW c \in Cases,
         st'[c] \in {"passed", "failed_active"}
  PROVE  st[c] = st'[c]
<1>1. st[c] \in Retried \cup {"passed"}
  <2>1. Move(st[c], st'[c])
    BY StepMoves
  <2>2. QED
    BY <2>1 DEF Move, Legal, Retried
<1>2. Prep => st'[c] = st[c]
  BY <1>1 DEF Prep, Recovered, Retried
<1>3. Dispatch => st'[c] = st[c]
  BY DEF Dispatch
<1>4. Collect => st'[c] = st[c]
  BY <1>1 DEF Collect, EngineInv, Inside, Retried
<1>5. AskNobody \/ AskUser => st'[c] = st[c]
  BY <1>1 DEF AskNobody, AskUser, Presettled, Undecided, Retried
<1>6. Attribute => st'[c] = st[c]
  BY AttributeOutcomes, AttributedStates
<1>7. QED
  BY <1>2, <1>3, <1>4, <1>5, <1>6, StatelessSteps

\* What a verdict does to a case.
LEMMA ConsumeStates ==
  ASSUME Consume, NEW c \in Cases
  PROVE  LET verdict == lr[ch.vref][c].v
         IN  \/ st'[c] = st[c] /\ (st[c] \in Retried => verdict # "pass")
             \/ st[c] \in Retried /\ verdict = "pass" /\ st'[c] = "passed"
             \/ st[c] \in Retried /\ verdict # "pass" /\ st'[c] = "failed_active"
<1> DEFINE verdict == lr[ch.vref][c].v
<1>1. st'[c] = JudgedState(st[c], verdict)
  BY DEF Consume
<1>2. QED
  BY <1>1 DEF JudgedState, Retried

\* Nothing but the bed passes a sheet.
LEMMA OnlyRunsShow ==
  ASSUME [Next]_vars, ~DeviceRun
  PROVE  UNCHANGED evidence
  BY DEF Next, Step, Call, Crash, Prep, FanoutEmpty, Dispatch, Worker, ZombieWrites,
         Collect, AskNobody, AskUser, MergeRefused, Merge, KeepRun, RunFails, Consume,
         AttributeNothing, Attribute, Writeback, Report, vars, history

\* Away from the bed and merge a record's verdict stays, or the file goes.
LEMMA VerdictsKept ==
  ASSUME EngineInv, [Next]_vars, ~Merge, ~DeviceRun, NEW name \in Slots, NEW c \in Cases
  PROVE  lr'[name][c].v \in {lr[name][c].v, "none"} /\ (next # "report" => lr'[name][c].v = lr[name][c].v)
<1>1. CASE Attribute
  <2> DEFINE fails  == InState(st, {"failed_active"})
             forked == {d \in fails : ByRecord(d) = "fork"}
             lands(fork) == {d \in forked : /\ fork[d][1] # "none"
                                            /\ lr[fork[d][2]][d].v # "none"}
  <2>1. PICK fork \in [forked -> Dispositions \X {ch.lref, "main"}] :
          lr' = [n \in Slots |-> [d \in Cases |->
                 IF d \in lands(fork) /\ fork[d][2] = n
                   THEN [lr[n][d] EXCEPT !.attr = fork[d][1]]
                   ELSE lr[n][d]]]
    BY <1>1 DEF Attribute
  <2>2. lr[name][c] \in Records
    BY DEF EngineInv, TypeOK, FilesType, Maps
  <2>3. \A a : [lr[name][c] EXCEPT !.attr = a].v = lr[name][c].v
    BY <2>2 DEF Records
  <2>4. QED
    BY <2>1, <2>3
<1>2. CASE Report
  <2>1. next = "report"
    BY <1>2 DEF Report, At
  <2>2. lr' = lr \/ lr' = [n \in Slots |-> [d \in Cases |-> NoRecord]]
    BY <1>2 DEF Report, CleanUp, KeepTemp, CleanUpStarts
  <2>3. QED
    BY <2>1, <2>2 DEF NoRecord
<1>3. UNCHANGED lr \/ Attribute \/ Report
  BY DEF Next, Step, Call, Crash, ZombieWrites, Prep, FanoutEmpty, Dispatch, Worker,
     Collect, AskNobody, AskUser, MergeRefused, KeepRun, RunFails, Consume,
     AttributeNothing, Writeback, vars, volumes
<1>4. QED
  BY <1>1, <1>2, <1>3

-----------------------------------------------------------------------------
(* The merge and the run.                                                  *)

\* What the plan is of.
LEMMA PlanCases ==
  ASSUME EngineInv
  PROVE  /\ ch.round = 0 => /\ Plan.name = "main" /\ Plan.scope = "full"
                            /\ Plan.target = {c \in Cases : st[c] = "produced"}
         /\ ch.round # 0 /\ (\E c \in Cases : st[c] \in Retried) =>
              /\ Plan.name = "sub" /\ Plan.scope = "subset"
              /\ Plan.target = {c \in Cases : st[c] \in Retried}
         /\ ch.round # 0 /\ ~(\E c \in Cases : st[c] \in Retried) =>
              /\ Plan.name = "main" /\ Plan.scope = "full"
              /\ Plan.target = {c \in Cases : st[c] = "passed"}
<1>1. DOMAIN st = Cases
  BY DEF EngineInv, TypeOK, LedgerType, Maps
<1>2. QED
  BY <1>1 DEF Plan, InState, Retried

\* The volume compile_emit_merged writes when merge asks for its plan.
EmitName == IF OutNameFromEnv THEN "main" ELSE Plan.name

\* A written volume holds its target's sheets as they are on disk, and the other
\* volumes stay; only a subset's new directory comes without a last run.
LEMMA EmitEffect ==
  ASSUME EngineInv, EmitTo(EmitName, Plan.target)
  PROVE  /\ EmitName \in Slots /\ vol'[EmitName] = Volume(EmitName, Plan.target)
         /\ \A c \in Cases : vol'[EmitName].has[c] = IF c \in Plan.target THEN xlsx[c] ELSE 0
         /\ \A n \in Slots : n # EmitName => vol'[n] = vol[n] /\ lr'[n] = lr[n]
         /\ lr'["main"] = lr["main"]
         /\ EmitName = "sub" =>
              /\ Plan.name = "sub" /\ ch.round > 0 /\ vol'["sub"].round = ch.round
              /\ lr'["sub"] = IF vol["sub"].round # ch.round
                                THEN [c \in Cases |-> NoRecord] ELSE lr["sub"]
<1>1. /\ vol \in [Slots -> Volumes] /\ lr \in [Slots -> Maps(Records)]
      /\ EmitName \in Slots /\ ch.round \in Nat
  BY PlanType DEF EngineInv, TypeOK, FilesType, ProcessType, Channels, EmitName, Slots
<1>2. /\ vol'[EmitName] = Volume(EmitName, Plan.target)
      /\ \A n \in Slots : n # EmitName => vol'[n] = vol[n] /\ lr'[n] = lr[n]
      /\ lr'["main"] = lr["main"]
      /\ EmitName = "sub" => lr'["sub"] = IF vol["sub"].round # ch.round
                                            THEN [c \in Cases |-> NoRecord] ELSE lr["sub"]
  BY <1>1 DEF EmitTo, Slots
<1>3. EmitName = "sub" => Plan.name = "sub"
  BY DEF EmitName
<1>4. Plan.name = "sub" => ch.round > 0
  BY <1>1, PlanCases
<1>5. \A c \in Cases : vol'[EmitName].has[c] = IF c \in Plan.target THEN xlsx[c] ELSE 0
  BY <1>2 DEF Volume
<1>6. EmitName = "sub" => vol'["sub"].round = ch.round
  BY <1>2 DEF Volume
<1>7. QED
  BY <1>1, <1>2, <1>3, <1>4, <1>5, <1>6

\* The ways out of merge: it dies or leaves for report with an error, finds
\* nothing to merge, or a volume of the name it planned is on its way to the bed.
LEMMA MergeChannels ==
  ASSUME EngineInv, Merge
  PROVE  /\ next = "merge" /\ pc' # "consume"
         /\ UNCHANGED <<ledgerVars, xlsx, library, evidence, ran, rep>>
         /\ ch'.round = ch.round /\ ch'.lref = ch.lref /\ (ch.err => ch'.err)
         /\ UNCHANGED <<vol, lr>> \/ (Plan.target # {} /\ EmitTo(EmitName, Plan.target))
         /\ \/ next' = "merge" /\ ch' = ch
            \/ next' = "report" /\ (ch'.err \/ Plan.target = {})
            \/ /\ next' = "run_digest" /\ Plan.target # {}
               /\ Emit(EmitName, Plan.target) /\ Present(vol', Plan.name)
               /\ ch'.scope = Plan.scope /\ ch'.vref = Plan.name
<1> DEFINE scoped == [Ok EXCEPT !.scope = Plan.scope]
           named == [Ok EXCEPT !.scope = Plan.scope, !.vref = Plan.name]
<1>1. /\ next = "merge" /\ UNCHANGED st
      /\ UNCHANGED <<ledgerVars, xlsx, library, evidence, ran, rep>>
  BY DEF Merge, At, caseFiles, closing, history, ledgerVars
<1>2. ch \in Channels
  BY DEF EngineInv, TypeOK, ProcessType
<1>3. /\ named.round = ch.round /\ named.lref = ch.lref /\ (ch.err => named.err)
      /\ named.scope = Plan.scope /\ named.vref = Plan.name /\ named.status = "ok"
  <2>1. Ok \in Channels /\ Ok.round = ch.round /\ Ok.lref = ch.lref
        /\ Ok.err = ch.err /\ Ok.status = "ok"
    BY <1>2 DEF Ok, Channels
  <2>2. scoped \in Channels /\ scoped.round = ch.round /\ scoped.lref = ch.lref
        /\ scoped.err = ch.err /\ scoped.scope = Plan.scope /\ scoped.status = "ok"
    BY <2>1, PlanType DEF Channels
  <2>3. named = [scoped EXCEPT !.vref = Plan.name]
    BY <2>2 DEF Channels
  <2>4. QED
    BY <2>2, <2>3 DEF Channels
<1>4. \/ Plan.target = {} /\ Leave("merge", Nothing) /\ UNCHANGED <<vol, lr>>
      \/ /\ Plan.target # {} /\ Emit(EmitName, Plan.target)
         /\ \/ Leave("merge", Failure("error"))
            \/ Present(vol', Plan.name) /\ Leave("merge", named)
  BY DEF Merge, EmitName, volumes
<1>5. UNCHANGED <<vol, lr>> \/ (Plan.target # {} /\ EmitTo(EmitName, Plan.target))
  BY <1>4 DEF Emit, volumes
<1>6. CASE Die
  BY <1>1, <1>5, <1>6 DEF Die
<1>7. CASE ~Die /\ Leave("merge", Nothing) /\ Plan.target = {}
  <2>1. ch' = Nothing /\ next' = AfterMerge(Nothing) /\ pc' # "consume"
    BY <1>7 DEF Leave, After
  <2>2. Nothing.status # "ok"
    BY <1>2 DEF Nothing, Channels
  <2>3. QED
    BY <1>1, <1>5, <1>7, <2>1, <2>2, PlainKeeps DEF AfterMerge
<1>8. CASE ~Die /\ Leave("merge", Failure("error"))
  <2>1. ch' = Failure("error") /\ next' = AfterMerge(Failure("error")) /\ pc' # "consume"
    BY <1>8 DEF Leave, After
  <2>2. QED
    BY <1>1, <1>5, <2>1, PlainKeeps DEF AfterMerge
<1>9. CASE /\ ~Die /\ Leave("merge", named) /\ Present(vol', Plan.name)
           /\ Plan.target # {} /\ Emit(EmitName, Plan.target)
  <2>1. ch' = named /\ next' = "run_digest" /\ pc' # "consume"
    BY <1>3, <1>9 DEF Leave, After, AfterMerge
  <2>2. QED
    BY <1>1, <1>3, <1>5, <1>9, <2>1
<1>10. QED
  BY <1>4, <1>6, <1>7, <1>8, <1>9

\* Before the verdicts are consumed nothing in front of the bed moves.
LEMMA AtRunFrame ==
  ASSUME EngineInv, [Next]_vars, ~Merge, ~Consume, next' = "run_digest"
  PROVE  /\ next = "run_digest" /\ ch'.vref = ch.vref /\ ch'.round = ch.round
         /\ UNCHANGED <<st, vol, marker>> /\ (zombie = {} => xlsx' = xlsx)
         /\ ~DeviceRun => lr' = lr
<1>1. /\ next = "run_digest" /\ ch'.vref = ch.vref /\ ch'.round = ch.round
  BY QuietChannels, AfterLeadsOn
<1>2. CASE DeviceRun \/ KeepRun \/ RunFails
  BY <1>1, <1>2 DEF DeviceRun, KeepRun, RunFails, ledgerVars, caseFiles, volumes
<1>3. CASE Call \/ Crash \/ UNCHANGED vars
  BY <1>1, <1>3 DEF Call, Crash, vars, ledgerVars, caseFiles, volumes
<1>4. CASE \E c \in Cases : ZombieWrites(c)
  BY <1>1, <1>4 DEF ZombieWrites, ledgerVars, volumes
<1>5. ~(Prep \/ FanoutEmpty \/ Dispatch \/ (\E c \in Cases : Worker(c)) \/ Collect
        \/ AskNobody \/ AskUser \/ MergeRefused \/ AttributeNothing \/ Attribute
        \/ Writeback \/ Report)
  BY <1>1 DEF Prep, FanoutEmpty, Dispatch, Worker, Collect, AskNobody, AskUser,
     MergeRefused, AttributeNothing, Attribute, Writeback, Report, At, EngineInv, Inside
<1>6. QED
  BY <1>1, <1>2, <1>3, <1>4, <1>5 DEF Next, Step

-----------------------------------------------------------------------------
(* Rounds and slots: which volume a run is of, whatever fails.             *)

\* Where a round's volume is run and where its verdicts are read: a full merge
\* follows a subset's run, or comes first.
SlotInv ==
  /\ ch.round = 0 => ch.lref = "none"
  /\ next = "run_digest" =>
       /\ ch.scope = IF ch.vref = "main" THEN "full" ELSE "subset"
       /\ ch.vref = "main" => ch.lref # "main"
  /\ next = "attribute" /\ ch.scope = "subset" => ch.lref = "sub"
  /\ next = "merge" /\ ch.round > 0 /\ (\A c \in Cases : st[c] \notin Retried)
       => ch.lref = "sub"

LEMMA QuietKeepsSlots ==
  ASSUME EngineInv, SlotInv, [Next]_vars, ~Merge, ~Consume PROVE SlotInv'
<1>1. /\ ch'.round = ch.round /\ ch'.scope = ch.scope
      /\ ch'.vref = ch.vref /\ ch'.lref = ch.lref
      /\ \/ next' = next
         \/ next = "END" /\ next' = "prep"
         \/ next \in Nodes \ {"merge", "run_digest"} /\ next' = After(next, ch', st')
         \/ next \in {"merge", "run_digest"} /\ next' = "report"
  BY QuietChannels
<1>2. next' = "run_digest" => next = "run_digest"
  BY <1>1, AfterLeadsOn
<1>3. next' = "attribute" => next = "attribute"
  <2>1. ASSUME next \in Nodes \ {"merge", "run_digest"}, After(next, ch', st') = "attribute"
        PROVE  FALSE
    BY <2>1 DEF Nodes, After, AfterPrep, AfterFanout, AfterAsk, AfterAttribute
  <2>2. QED
    BY <1>1, <2>1
<1>4. ASSUME next' = "merge", ch'.round > 0, \A c \in Cases : st'[c] \notin Retried
      PROVE  ch'.lref = "sub"
  <2>1. DOMAIN st' = Cases
    BY StepMoves, NextKeepsInv DEF EngineInv, TypeOK, LedgerType, Maps
  <2>2. ~Some(st', "produced") /\ ~Some(st', "failed_active")
    BY <1>4, <2>1 DEF Some, Retried
  <2>3. CASE next = "merge"
    BY <1>1, <1>4, <2>3, MergeKeepsStates DEF SlotInv
  <2>4. CASE next \in Nodes \ {"merge", "run_digest"} /\ After(next, ch', st') = "merge"
    <3>1. next = "attribute" /\ ch'.scope = "subset"
      BY <2>2, <2>4 DEF Nodes, After, AfterPrep, AfterFanout, AfterAsk, AfterAttribute
    <3>2. QED
      BY <1>1, <3>1 DEF SlotInv
  <2>5. QED
    BY <1>1, <1>4, <2>3, <2>4
<1>5. QED
  BY <1>1, <1>2, <1>3, <1>4 DEF SlotInv

LEMMA MergeKeepsSlots ==
  ASSUME EngineInv, SlotInv, Merge PROVE SlotInv'
<1>1. next = "merge" /\ st' = st /\ ch'.round = ch.round /\ ch'.lref = ch.lref
  BY MergeChannels DEF ledgerVars
<1>2. CASE next' = "merge" /\ ch' = ch
  BY <1>1, <1>2 DEF SlotInv
<1>3. CASE next' = "report"
  BY <1>1, <1>3 DEF SlotInv
<1>4. CASE next' = "run_digest" /\ ch'.scope = Plan.scope /\ ch'.vref = Plan.name
  <2>1. ch.round \in Nat
    BY DEF EngineInv, TypeOK, ProcessType, Channels
  <2>2. Plan.name = "main" => ch.lref # "main"
    BY <1>1, <2>1, PlanCases DEF SlotInv
  <2>3. Plan.scope = IF Plan.name = "main" THEN "full" ELSE "subset"
    BY PlanCases
  <2>4. QED
    BY <1>1, <1>4, <2>2, <2>3 DEF SlotInv
<1>5. QED
  BY <1>2, <1>3, <1>4, MergeChannels

LEMMA ConsumeKeepsSlots ==
  ASSUME EngineInv, SlotInv, Consume PROVE SlotInv'
<1>1. CASE ch' = ch /\ next' = next
  BY <1>1, ConsumeOutcomes DEF SlotInv
<1>2. CASE /\ ch'.round = ch.round + 1 /\ ch'.scope = ch.scope /\ ch'.lref = ch.vref
           /\ ch'.status = "ok" /\ next' = AfterRun(ch', st')
  <2>1. ch.round \in Nat /\ ch.vref \in Slots
    BY ConsumeOutcomes, MarkType DEF EngineInv, TypeOK, ProcessType, Channels
  <2>2. ch.scope = IF ch.vref = "main" THEN "full" ELSE "subset"
    BY ConsumeOutcomes DEF SlotInv
  <2>3. next' = "merge" => ch'.scope = "subset"
    BY <1>2 DEF AfterRun
  <2>4. next' # "run_digest"
    BY <1>2 DEF AfterRun
  <2>5. ch'.scope = "subset" => ch'.lref = "sub"
    BY <1>2, <2>1, <2>2 DEF Slots
  <2>6. QED
    BY <1>2, <2>1, <2>3, <2>4, <2>5 DEF SlotInv
<1>3. QED
  BY <1>1, <1>2, ConsumeOutcomes


\* The volume of this round; later rounds write to directories of their own.
Current(name) == IF name = "main" THEN ch.round = 0
                 ELSE ch.round > 0 /\ vol["sub"].round = ch.round

\* What runs is this round's volume, or the main one when all verdicts are in;
\* when failures are attributed the round has ended.
RoundInv ==
  /\ vol["sub"].round <= ch.round
  /\ next = "run_digest" =>
       \/ Current(ch.vref)
       \/ ch.vref = "main" /\ \A c \in Cases : st[c] \notin Retried
  /\ next = "attribute" => ch.round > 0 /\ vol["sub"].round < ch.round

LEMMA QuietKeepsRounds ==
  ASSUME EngineInv, RoundInv, [Next]_vars, ~Merge, ~Consume, ~Report PROVE RoundInv'
<1>1. UNCHANGED vol
  BY DEF Next, Step, Call, Crash, ZombieWrites, Prep, FanoutEmpty, Dispatch, Worker,
     Collect, AskNobody, AskUser, MergeRefused, DeviceRun, KeepRun, RunFails,
     AttributeNothing, Attribute, Writeback, vars, volumes
<1>2. /\ ch'.round = ch.round /\ ch'.vref = ch.vref
      /\ next' = "run_digest" => next = "run_digest" /\ st' = st
      /\ next' = "attribute" => next = "attribute"
  BY QuietChannels, AfterLeadsOn, AtRunFrame
<1>3. Current(ch.vref)' <=> Current(ch.vref)
  BY <1>1, <1>2 DEF Current
<1>4. QED
  BY <1>1, <1>2, <1>3 DEF RoundInv

LEMMA MergeKeepsRounds == ASSUME EngineInv, RoundInv, Merge PROVE RoundInv'
<1>1. /\ st' = st /\ ch'.round = ch.round /\ next' # "attribute"
      /\ next' = "run_digest" => Present(vol', Plan.name) /\ ch'.vref = Plan.name
      /\ UNCHANGED <<vol, lr>> \/ EmitTo(EmitName, Plan.target)
  BY MergeChannels DEF ledgerVars
<1>2. ch.round \in Nat
  BY DEF EngineInv, TypeOK, ProcessType, Channels
<1>3. vol'["sub"].round <= ch'.round
  BY <1>1, <1>2, EmitEffect DEF RoundInv, Slots
<1>4. ASSUME next' = "run_digest"
      PROVE  Current(ch.vref)' \/ (ch'.vref = "main" /\ \A c \in Cases : st'[c] \notin Retried)
  <2>1. CASE ch.round = 0
    BY <1>1, <1>4, <2>1, PlanCases DEF Current
  <2>2. CASE ch.round # 0 /\ \E c \in Cases : st[c] \in Retried
    <3>1. Present(vol', "sub") => vol'["sub"].round = ch.round
      BY DEF Present
    <3>2. QED
      BY <1>1, <1>2, <1>4, <2>2, <3>1, PlanCases DEF Current
  <2>3. CASE ch.round # 0 /\ ~ \E c \in Cases : st[c] \in Retried
    BY <1>1, <1>4, <2>3, PlanCases
  <2>4. QED
    BY <2>1, <2>2, <2>3
<1>5. QED
  BY <1>1, <1>3, <1>4 DEF RoundInv

LEMMA ConsumeKeepsRounds == ASSUME EngineInv, RoundInv, Consume PROVE RoundInv'
<1>1. next = "run_digest" /\ vol' = vol
  BY ConsumeOutcomes
<1>2. \A c \in Cases : st'[c] \in Retried => st[c] \in Retried
  BY ConsumeStates DEF Retried
<1>3. CASE ch' = ch /\ next' = next
  <2>1. Current(ch.vref)' <=> Current(ch.vref)
    BY <1>1, <1>3 DEF Current
  <2>2. QED
    BY <1>1, <1>2, <1>3, <2>1 DEF RoundInv
<1>4. CASE ch'.round = ch.round + 1 /\ next' = AfterRun(ch', st')
  <2>1. ch.round \in Nat /\ vol["sub"].round \in Nat
    BY DEF EngineInv, TypeOK, FilesType, ProcessType, Channels, Volumes, Slots
  <2>2. next' # "run_digest"
    BY <1>4 DEF AfterRun
  <2>3. QED
    BY <1>1, <1>4, <2>1, <2>2 DEF RoundInv
<1>5. QED
  BY <1>3, <1>4, ConsumeOutcomes

\* A report keeps its round; of the subset volume it can only leave nothing.
LEMMA ReportRounds ==
  ASSUME EngineInv, Report
  PROVE  /\ next = "report" /\ next' \in {"report", "END"} /\ st' = st
         /\ ch'.round = ch.round /\ vol'["sub"] \in {NoVolume, vol["sub"]}
<1>1. next = "report" /\ st' = st /\ (Leave("report", Ok) \/ Die)
  BY DEF Report, At
<1>2. next' \in {"report", "END"} /\ ch'.round = ch.round
  BY <1>1, PlainKeeps DEF Leave, Die, After
<1>3. vol'["sub"] \in {NoVolume, vol["sub"]}
  <2>1. vol \in [Slots -> Volumes] /\ Archived \subseteq [Slots -> Volumes]
    BY ArchivedType DEF EngineInv, TypeOK, FilesType
  <2>2. \A v \in Archived \cup {vol} : v["sub"] = vol["sub"]
    BY <2>1 DEF Archived, Slots
  <2>3. PICK v \in Archived \cup {vol} : CleanUp(v) \/ KeepTemp(v) \/ CleanUpStarts(v)
    BY DEF Report
  <2>4. QED
    BY <2>1, <2>2, <2>3 DEF CleanUp, KeepTemp, CleanUpStarts, Slots
<1>4. QED
  BY <1>1, <1>2, <1>3

LEMMA ReportKeepsRounds == ASSUME EngineInv, RoundInv, Report PROVE RoundInv'
<1>1. ch.round \in Nat /\ NoVolume.round = 0
  BY DEF EngineInv, TypeOK, ProcessType, Channels, NoVolume
<1>2. QED
  BY <1>1, ReportRounds DEF RoundInv

-----------------------------------------------------------------------------
(* Flips: a passed case that failed in the last run is marked.             *)

\* The run the checkpoint asks for was consumed by a call that died.
Repeated == next = "run_digest" /\ Already

Fails(v) == v \notin {"none", "pass"}

\* This round's subset is of cases that wait for a verdict; those that have
\* passed since did so in a call that died before it could end the round.
SubsetInv ==
  Current("sub") =>
    \A c \in Cases : st[c] = "passed" =>
      vol["sub"].has[c] = 0 \/ (Repeated /\ ch.vref = "sub")

\* A passed case that failed in the last run consumed is marked as flipped.
FlipInv ==
  \A c \in Cases : st[c] = "passed" /\ ch.lref # "none" /\ ~Repeated
                     /\ Fails(lr[ch.lref][c].v) => flip[c]

RunsInv == SlotInv /\ RoundInv /\ SubsetInv /\ FlipInv

\* A consumed run stays so until it is consumed again: the bed does not run
\* again, and the node does not fail.
LEMMA RepeatedStays ==
  ASSUME EngineInv, [Next]_vars, ~Consume, Repeated
  PROVE  /\ Repeated' /\ UNCHANGED <<st, vol, lr, marker>> /\ ~DeviceRun
         /\ ch'.vref = ch.vref /\ ch'.round = ch.round
<1>1. next = "run_digest" /\ Already
  BY DEF Repeated
<1>2. ~Merge /\ ~DeviceRun /\ ~RunFails
  BY <1>1 DEF Merge, DeviceRun, RunFails, At
<1>3. next' = "run_digest"
  <2>1. CASE KeepRun
    BY <1>1, <2>1 DEF KeepRun
  <2>2. CASE Call \/ Crash \/ UNCHANGED vars \/ \E c \in Cases : ZombieWrites(c)
    BY <1>1, <2>2 DEF Call, Crash, Die, vars, ZombieWrites
  <2>3. ~(Prep \/ FanoutEmpty \/ Dispatch \/ (\E c \in Cases : Worker(c)) \/ Collect
          \/ AskNobody \/ AskUser \/ MergeRefused \/ AttributeNothing \/ Attribute
          \/ Writeback \/ Report)
    BY <1>1 DEF Prep, FanoutEmpty, Dispatch, Worker, Collect, AskNobody, AskUser,
     MergeRefused, AttributeNothing, Attribute, Writeback, Report, At, EngineInv, Inside
  <2>4. QED
    BY <1>2, <2>1, <2>2, <2>3 DEF Next, Step
<1>4. /\ UNCHANGED <<st, vol, lr, marker>>
      /\ ch'.vref = ch.vref /\ ch'.round = ch.round
  BY <1>2, <1>3, AtRunFrame
<1>5. Mark' = Mark /\ HasRun(ch.vref)' = HasRun(ch.vref)
  BY <1>4 DEF Mark, HasRun
<1>6. QED
  BY <1>1, <1>2, <1>3, <1>4, <1>5 DEF Repeated, Already

\* A call that dies after the verdicts were saved leaves its run consumed, if
\* the run has any verdict at all.
LEMMA DiedRepeated ==
  ASSUME EngineInv, Consume, ch' = ch, next' = next, HasRun(ch.vref) PROVE Repeated'
<1>1. next = "run_digest" /\ marker' = Mark /\ UNCHANGED <<vol, lr>>
  BY ConsumeOutcomes DEF Consume
<1>2. Mark' = Mark /\ HasRun(ch.vref)' = HasRun(ch.vref)
  BY <1>1 DEF Mark, HasRun
<1>3. QED
  BY <1>1, <1>2 DEF Repeated, Already

LEMMA QuietKeepsSubset ==
  ASSUME EngineInv, SubsetInv, [Next]_vars, ~Merge, ~Consume, ~Report PROVE SubsetInv'
<1>1. UNCHANGED vol
  BY DEF Next, Step, Call, Crash, ZombieWrites, Prep, FanoutEmpty, Dispatch, Worker,
     Collect, AskNobody, AskUser, MergeRefused, DeviceRun, KeepRun, RunFails,
     AttributeNothing, Attribute, Writeback, vars, volumes
<1>2. ch'.round = ch.round /\ ch'.vref = ch.vref
  BY QuietChannels
<1>3. Current("sub")' <=> Current("sub")
  BY <1>1, <1>2 DEF Current
<1>4. \A c \in Cases : st'[c] = "passed" => st[c] = "passed"
  BY OnlyVerdictsJudge
<1>5. Repeated => Repeated'
  BY RepeatedStays
<1>6. QED
  BY <1>1, <1>2, <1>3, <1>4, <1>5 DEF SubsetInv

LEMMA MergeKeepsSubset == ASSUME EngineInv, SubsetInv, Merge PROVE SubsetInv'
<1>1. /\ next = "merge" /\ st' = st /\ ch'.round = ch.round
      /\ UNCHANGED <<vol, lr>> \/ EmitTo(EmitName, Plan.target)
  BY MergeChannels DEF ledgerVars
<1>2. ASSUME Current("sub")', NEW c \in Cases, st[c] = "passed" PROVE vol'["sub"].has[c] = 0
  <2>1. CASE vol'["sub"] = vol["sub"]
    BY <1>1, <1>2, <2>1 DEF Current, SubsetInv, Repeated
  <2>2. CASE EmitTo(EmitName, Plan.target) /\ EmitName = "sub"
    <3>1. Plan.name = "sub" /\ ch.round > 0
      BY <2>2, EmitEffect
    <3>2. c \notin Plan.target
      BY <1>2, <3>1, PlanCases DEF Retried
    <3>3. QED
      BY <2>2, <3>2, EmitEffect
  <2>3. QED
    BY <1>1, <2>1, <2>2, EmitEffect DEF Slots
<1>3. QED
  BY <1>1, <1>2 DEF SubsetInv

LEMMA ConsumeKeepsSubset ==
  ASSUME EngineInv, RoundInv, SubsetInv, Consume PROVE SubsetInv'
<1>1. next = "run_digest" /\ vol' = vol /\ ch.vref \in Slots
  BY ConsumeOutcomes, MarkType
<1>2. CASE ch' = ch /\ next' = next
  <2>1. Current("sub")' <=> Current("sub")
    BY <1>1, <1>2 DEF Current
  <2>2. ASSUME NEW c \in Cases, st'[c] = "passed", Current("sub"), vol["sub"].has[c] # 0
        PROVE  Repeated' /\ ch.vref = "sub"
    <3>1. CASE st[c] = "passed"
      <4>1. Repeated /\ ch.vref = "sub"
        BY <2>2, <3>1 DEF SubsetInv
      <4>2. QED
        BY <1>2, <4>1, DiedRepeated DEF Repeated, Already
    <3>2. CASE st[c] # "passed"
      <4>1. st[c] \in Retried /\ lr[ch.vref][c].v = "pass"
        BY <2>2, <3>2, ConsumeStates
      <4>2. HasRun(ch.vref)
        BY <4>1 DEF HasRun
      <4>3. Current(ch.vref)
        BY <1>1, <4>1 DEF RoundInv
      <4>4. ch.vref = "sub"
        BY <1>1, <2>2, <4>3 DEF Current, Slots
      <4>5. QED
        BY <1>2, <4>2, <4>4, DiedRepeated
    <3>3. QED
      BY <3>1, <3>2
  <2>3. QED
    BY <1>1, <1>2, <2>1, <2>2 DEF SubsetInv
<1>3. CASE ch'.round = ch.round + 1
  <2>1. ch.round \in Nat /\ vol["sub"].round \in Nat
    BY DEF EngineInv, TypeOK, FilesType, ProcessType, Channels, Volumes, Slots
  <2>2. ~Current("sub")'
    BY <1>1, <1>3, <2>1 DEF RoundInv, Current
  <2>3. QED
    BY <2>2 DEF SubsetInv
<1>4. QED
  BY <1>2, <1>3, ConsumeOutcomes

LEMMA ReportKeepsSubset == ASSUME EngineInv, SubsetInv, Report PROVE SubsetInv'
<1>1. /\ next = "report" /\ st' = st /\ ch'.round = ch.round
      /\ vol'["sub"] \in {NoVolume, vol["sub"]}
  BY ReportRounds
<1>2. CASE vol'["sub"] = NoVolume
  BY <1>2 DEF SubsetInv, NoVolume
<1>3. CASE vol'["sub"] = vol["sub"]
  BY <1>1, <1>3 DEF SubsetInv, Current, Repeated
<1>4. QED
  BY <1>1, <1>2, <1>3

\* A verdict that takes effect on a passed case is one it passed with, or leaves
\* a mark; where no verdict was left to save, nothing changes.
LEMMA ConsumeKeepsFlips == ASSUME EngineInv, FlipInv, Consume PROVE FlipInv'
<1> SUFFICES ASSUME NEW c \in Cases, st'[c] = "passed", ch'.lref # "none", ~Repeated',
                    Fails(lr'[ch'.lref][c].v)
             PROVE  flip'[c]
  BY DEF FlipInv
<1>1. lr' = lr /\ flip'[c] = (flip[c] \/ Flips(st[c], lr[ch.vref][c].v))
  BY ConsumeOutcomes DEF Consume
<1>2. CASE ch' = ch /\ next' = next
  <2>1. ~HasRun(ch.vref)
    BY <1>2, DiedRepeated
  <2>2. lr[ch.vref][c].v = "none" /\ ~Repeated
    BY <2>1 DEF HasRun, Repeated, Already
  <2>3. st[c] = "passed"
    BY <2>2, ConsumeStates
  <2>4. flip[c]
    BY <1>1, <1>2, <2>2, <2>3 DEF FlipInv
  <2>5. QED
    BY <1>1, <2>4
<1>3. CASE ch'.lref = ch.vref
  <2>1. st[c] = "passed"
    BY <1>1, <1>3, ConsumeStates DEF Fails
  <2>2. Flips(st[c], lr[ch.vref][c].v)
    BY <1>1, <1>3, <2>1 DEF Flips, Fails
  <2>3. QED
    BY <1>1, <2>2
<1>4. QED
  BY <1>2, <1>3, ConsumeOutcomes

LEMMA StepKeepsFlips ==
  ASSUME EngineInv, SlotInv, RoundInv, SubsetInv, FlipInv, [Next]_vars, ~Consume
  PROVE  FlipInv'
<1> SUFFICES ASSUME NEW c \in Cases, st'[c] = "passed", ch'.lref # "none", ~Repeated',
                    Fails(lr'[ch'.lref][c].v)
             PROVE  flip'[c]
  BY DEF FlipInv
<1>1. st[c] = "passed" /\ ~Repeated /\ flip' = flip
  BY OnlyVerdictsJudge, OnlyVerdictsLock, RepeatedStays
<1>2. ch'.lref = ch.lref /\ ch.lref \in Slots
  <2>1. ch'.lref = ch.lref
    BY QuietChannels, MergeChannels
  <2>2. QED
    BY <2>1 DEF EngineInv, TypeOK, ProcessType, Channels
<1>3. CASE DeviceRun
  <2> DEFINE inVol == {d \in Cases : vol[ch.vref].has[d] # 0}
  <2>1. PICK verdict \in [inVol -> Verdicts] :
          lr' = [lr EXCEPT ![ch.vref] =
             [d \in Cases |-> IF d \in inVol THEN [v |-> verdict[d], attr |-> "none"]
                              ELSE @[d]]]
    BY <1>3 DEF DeviceRun
  <2>2. next = "run_digest" /\ ch.vref \in Slots /\ lr \in [Slots -> Maps(Records)]
    BY <1>3, MarkType DEF DeviceRun, At, EngineInv, TypeOK, FilesType
  <2>3. ASSUME ch.lref = ch.vref PROVE c \notin inVol
    <3>1. ch.vref = "sub"
      BY <2>2, <2>3 DEF SlotInv, Slots
    <3>2. Current("sub")
      BY <2>2, <3>1 DEF RoundInv
    <3>3. QED
      BY <1>1, <3>1, <3>2 DEF SubsetInv
  <2>4. lr'[ch.lref][c] = lr[ch.lref][c]
    BY <1>2, <2>1, <2>2, <2>3
  <2>5. QED
    BY <1>1, <1>2, <2>4 DEF FlipInv
<1>4. CASE Merge
  <2>1. lr'[ch.lref] \in {lr[ch.lref], [d \in Cases |-> NoRecord]}
    BY <1>2, <1>4, MergeChannels, EmitEffect DEF Slots
  <2>2. lr'[ch.lref][c] = lr[ch.lref][c]
    BY <1>2, <2>1 DEF Fails, NoRecord
  <2>3. QED
    BY <1>1, <1>2, <2>2 DEF FlipInv
<1>5. CASE ~DeviceRun /\ ~Merge
  <2>1. lr'[ch.lref][c].v = lr[ch.lref][c].v
    BY <1>2, <1>5, VerdictsKept DEF Fails
  <2>2. QED
    BY <1>1, <1>2, <2>1 DEF FlipInv
<1>6. QED
  BY <1>3, <1>4, <1>5

LEMMA InitRuns == Init => RunsInv
<1> SUFFICES ASSUME Init PROVE RunsInv
  OBVIOUS
<1>1. ch.round = 0 /\ ch.lref = "none" /\ next = "END"
  BY DEF Init
<1>2. vol["sub"].round = 0
  BY DEF Init, NoVolume, Slots
<1>3. QED
  BY <1>1, <1>2 DEF RunsInv, SlotInv, RoundInv, SubsetInv, FlipInv, Current

LEMMA NextKeepsRuns == ASSUME EngineInv, EngineInv', RunsInv, [Next]_vars PROVE RunsInv'
<1>1. SlotInv /\ RoundInv /\ SubsetInv /\ FlipInv
  BY DEF RunsInv
<1>2. SlotInv'
  BY <1>1, QuietKeepsSlots, MergeKeepsSlots, ConsumeKeepsSlots
<1>3. RoundInv'
  BY <1>1, QuietKeepsRounds, MergeKeepsRounds, ConsumeKeepsRounds, ReportKeepsRounds
<1>4. SubsetInv'
  BY <1>1, QuietKeepsSubset, MergeKeepsSubset, ConsumeKeepsSubset, ReportKeepsSubset
<1>5. FlipInv'
  BY <1>1, ConsumeKeepsFlips, StepKeepsFlips
<1>6. QED
  BY <1>2, <1>3, <1>4, <1>5 DEF RunsInv

\* What the engine has of rounds and runs whatever fails: each run is of its
\* round's volume, and what it said against a passed case is on record.
LEMMA RunsInvariant == Spec => []RunsInv
<1>1. EngineInv /\ EngineInv' /\ RunsInv /\ [Next]_vars => RunsInv'
  BY NextKeepsRuns
<1>2. QED
  BY <1>1, InitRuns, EngineInvariant, PTL DEF Spec

\* A passed case the last run consumed says otherwise of carries the mark that
\* sends it to a human, whoever writes late, fails or dies (verify_phase.py:135-141).
THEOREM FlipsRecorded == Spec => []FlipRecorded
<1>1. RunsInv => FlipRecorded
  BY DEF RunsInv, FlipInv, FlipRecorded, Fails, Repeated
<1>2. QED
  BY <1>1, RunsInvariant, PTL
=============================================================================
