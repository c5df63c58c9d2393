---------------------------- MODULE CompileEngine ----------------------------
(***************************************************************************)
(* The V6 compile engine: the graph of compile_engine/graph.py, its eight  *)
(* nodes, the ledger, files and checkpoint they share, and the tool        *)
(* compile_engine_run that starts, resumes and loses them.                 *)
(*                                                                         *)
(* One call of the tool is one walk of the graph. A node reads the ledger  *)
(* from disk, changes files, saves the ledger and returns; langgraph then  *)
(* checkpoints the channels and the next node. A node may die at any point *)
(* before that checkpoint: what it saved stays, its return value is lost,  *)
(* and the next call enters the same node again.                           *)
(***************************************************************************)
EXTENDS EngineLedger, Naturals

CONSTANTS
  Cases,          \* the cases of the batch (autoids)
  MaxRounds,      \* the tool's max_rounds
  MaxCalls,       \* bound: calls of compile_engine_run
  MaxCrashes,     \* bound: deaths of a call
  Dispositions,   \* what an attribution fork can leave in last_run.json
  OutNameFromEnv, \* compile_emit_merged names its volume after
                  \* IST_COMPILE_OUT_NAME (the code, when compile_engine_run
                  \* has set it), not after its argument (its docstring)
  AskAgain,       \* a worker may report a case undecided after the user decided
  Zombies,        \* a fork past its wall clock may still write its sheet
  ToolFaults,     \* compile_emit_merged and compile_writeback may return an
                  \* error and write nothing
  DigestFaults    \* a device run may fail without writing last_run.json

ASSUME EngineAssumption ==
  /\ MaxRounds \in Nat \ {0}
  /\ MaxCalls \in Nat
  /\ MaxCrashes \in Nat
  /\ Dispositions \subseteq {"none", "reflow", "fixed", "terminal", "transient"}
  /\ {OutNameFromEnv, AskAgain, Zombies, ToolFaults, DigestFaults}
       \subseteq BOOLEAN

VARIABLES
  \* engine_ledger.json
  st,        \* state of each case
  used,      \* rounds_used, counted up to MaxRounds
  lock,      \* passed_mtime_lock: the sheet version, 0 when never passed
  flip,      \* runtime_underdetermined
  marker,    \* run_marker: the round and the volume stamp last consumed
  \* the per-case directories
  xlsx,      \* version (mtime) of case.xlsx, 0 when absent
  nd,        \* needs_decision.json: "none", "claims" or "empty" (no claims)
  ud,        \* user_decision.json: "none", "decide" or "describe"
  \* the volumes: "main" is <out>/, "sub" is <out>_fails_r<round>/
  vol,       \* their case.xlsx
  lr,        \* their last_run.json
  manifest,  \* manifest.json exists
  library,   \* version of each case's sheet in the precedent library
  rep,       \* outcome in engine_report.json
  \* the checkpoint
  ch,        \* state channels
  next,      \* the node to run next
  \* the process
  pc,        \* "down", "enter" a node, or inside one: "workers", "consume"
  got,       \* a running fanout's result for each case
  zombie,    \* cases whose abandoned fork is still alive
  \* the model's clock and history
  calls, crashes,
  evidence,  \* <<case, version>> the device bed has passed
  ran        \* Marks of the runs the device bed has made

ledgerVars == <<st, used, lock, flip, marker>>
caseFiles  == <<xlsx, nd, ud>>
volumes    == <<vol, lr>>
closing    == <<library, rep>>
history    == <<calls, evidence, ran>>
vars == <<ledgerVars, caseFiles, volumes, manifest, closing, ch, next, pc, got,
          zombie, history, crashes>>

Slots == {"main", "sub"}
Nodes == {"prep", "worker_fanout", "ask_decision", "merge", "run_digest",
          "attribute", "writeback", "report"}
Verdicts == {"pass", "known", "G", "other"}

\* A record of last_run.json. "known" is a fail whose device context matches
\* a known defect, "G" one with a command the device rejected, "other" any
\* other non-pass verdict, "unknown" included; attr is the disposition of
\* its _attribution, "reflow" also for one whose layer is G.
NoRecord == [v |-> "none", attr |-> "none"]
NoVolume == [round |-> 0, stamp |-> 0, has |-> [c \in Cases |-> 0]]

Min2(a, b) == IF a < b THEN a ELSE b

\* The volume file of this round's directory exists in v. Each round has a
\* subset directory of its own; "sub" is the youngest of them.
Present(v, name) == /\ v[name].stamp # 0
                    /\ name = "sub" => v["sub"].round = ch.round
HasRun(name) == \E c \in Cases : lr[name][c].v # "none"

Init ==
  /\ st = [c \in Cases |-> ""]
  /\ used = [c \in Cases |-> 0]
  /\ lock = [c \in Cases |-> 0]
  /\ flip = [c \in Cases |-> FALSE]
  /\ marker = [round |-> 0, slot |-> "main", stamp |-> 0]
  /\ xlsx = [c \in Cases |-> 0]
  /\ nd = [c \in Cases |-> "none"]
  /\ ud = [c \in Cases |-> "none"]
  /\ vol = [name \in Slots |-> NoVolume]
  /\ lr = [name \in Slots |-> [c \in Cases |-> NoRecord]]
  /\ manifest = FALSE
  /\ library = [c \in Cases |-> 0]
  /\ rep = "none"
  /\ ch = [round |-> 0, status |-> "ok", err |-> FALSE, scope |-> "none",
           vref |-> "none", lref |-> "none"]
  /\ next = "END"
  /\ pc = "down"
  /\ got = [c \in Cases |-> "idle"]
  /\ zombie = {}
  /\ calls = 0
  /\ crashes = 0
  /\ evidence = {}
  /\ ran = {}

-----------------------------------------------------------------------------
(* The conditional edges: functions of the channels k and the ledger s.    *)
(* Definitions named Mutant... are faulty variants of the one they precede; *)
(* no definition uses them.                                                 *)

AfterPrep(k) == IF k.status = "error" THEN "report" ELSE "worker_fanout"

AfterFanout(k, s) ==
  CASE k.status = "error" -> "report"
    [] k.status # "error" /\ Some(s, "pending_decision") -> "ask_decision"
    [] k.status # "error" /\ ~Some(s, "pending_decision")
         /\ (Some(s, "produced") \/ Some(s, "failed_active")) -> "merge"
    [] OTHER -> "report"

MutantAfterAskProducedFirst(k, s) ==
  CASE k.status = "error" -> "report"
    [] k.status # "error" /\ Some(s, "produced") -> "merge"
    [] k.status # "error" /\ ~Some(s, "produced")
         /\ Some(s, "pending_compile") -> "worker_fanout"
    [] OTHER -> "report"

AfterAsk(k, s) ==
  CASE k.status = "error" -> "report"
    [] k.status # "error" /\ Some(s, "pending_compile") -> "worker_fanout"
    [] k.status # "error" /\ ~Some(s, "pending_compile")
         /\ Some(s, "produced") -> "merge"
    [] OTHER -> "report"

AfterMerge(k) == IF k.status = "ok" THEN "run_digest" ELSE "report"

MutantAfterRunIgnoresBusy(k, s) ==
  CASE k.status = "error" -> "report"
    [] k.status # "error" /\ Some(s, "failed_active") -> "attribute"
    [] k.status # "error" /\ ~Some(s, "failed_active")
         /\ k.scope = "subset" -> "merge"
    [] OTHER -> "writeback"

MutantAfterRunNoFinalRun(k, s) ==
  CASE k.status \in {"device_busy", "error"} -> "report"
    [] k.status = "ok" /\ Some(s, "failed_active") -> "attribute"
    [] OTHER -> "writeback"

AfterRun(k, s) ==
  CASE k.status \in {"device_busy", "error"} -> "report"
    [] k.status = "ok" /\ Some(s, "failed_active") -> "attribute"
    [] k.status = "ok" /\ ~Some(s, "failed_active") /\ k.scope = "subset" -> "merge"
    [] OTHER -> "writeback"

AfterAttribute(k, s) ==
  IF Some(s, "pending_compile") THEN "worker_fanout"
  ELSE IF \/ Some(s, "failed_active") /\ k.round < MaxRounds
          \/ k.scope = "subset" /\ Some(s, "passed") /\ ~Some(s, "failed_active")
       THEN "merge"
       ELSE "writeback"

After(n, k, s) ==
  CASE n = "prep"          -> AfterPrep(k)
    [] n = "worker_fanout" -> AfterFanout(k, s)
    [] n = "ask_decision"  -> AfterAsk(k, s)
    [] n = "merge"         -> AfterMerge(k)
    [] n = "run_digest"    -> AfterRun(k, s)
    [] n = "attribute"     -> AfterAttribute(k, s)
    [] n = "writeback"     -> "report"
    [] OTHER               -> "END"

-----------------------------------------------------------------------------
(* How a call starts, how it leaves a node, how it dies.                   *)

\* compile_engine_run: a thread with a next node is resumed there, a finished
\* or new one starts at prep, on the channels the last call left.
Call ==
  /\ pc = "down"
  /\ calls < MaxCalls
  /\ calls' = calls + 1
  /\ pc' = "enter"
  /\ next' = IF next = "END" THEN "prep" ELSE next
  /\ UNCHANGED <<ledgerVars, caseFiles, volumes, manifest, closing, ch, got,
                 zombie, evidence, ran, crashes>>

\* The process dies (its forks with it), or the call ends in an exception
\* and the process, with its abandoned forks, lives on.
Die ==
  /\ crashes < MaxCrashes
  /\ crashes' = crashes + 1
  /\ pc' = "down"
  /\ got' = [c \in Cases |-> "idle"]
  /\ zombie' \in {zombie, {}}
  /\ UNCHANGED <<ch, next>>

Crash ==
  /\ pc # "down"
  /\ Die
  /\ UNCHANGED <<ledgerVars, caseFiles, volumes, manifest, closing, history>>

At(n) == pc = "enter" /\ next = n

\* Node n returns the channels k; the checkpoint is written, or the call dies
\* first. st' is the ledger the node's counts were taken from.
Leave(n, k) ==
  \/ /\ ch' = k
     /\ next' = After(n, k, st')
     /\ pc' = IF n = "report" THEN "down" ELSE "enter"
     /\ got' = [c \in Cases |-> "idle"]
     /\ UNCHANGED <<zombie, crashes>>
  \/ Die

\* No node ever takes a previous error back out of the channels.
Ok == [ch EXCEPT !.status = "ok"]
Nothing == [ch EXCEPT !.status = "nothing_to_do"]
Failure(status) == [ch EXCEPT !.status = status, !.err = TRUE]

-----------------------------------------------------------------------------
(* prep                                                                    *)

\* A case still dispatched belongs to a call that died in worker_fanout: it
\* counts as produced when any sheet of it is on disk.
Recovered(s) ==
  [c \in Cases |-> IF s[c] # "dispatched" THEN s[c]
                   ELSE IF xlsx[c] # 0 THEN "produced" ELSE "pending_compile"]

Prep ==
  /\ At("prep")
  /\ LET fresh == ~manifest \/ \A c \in Cases : st[c] = ""
         begun == [c \in Cases |-> IF st[c] = "" THEN "pending_compile" ELSE st[c]]
     IN  \/ /\ fresh
            /\ ~manifest
            /\ UNCHANGED <<st, manifest>>
            /\ Leave("prep", Failure("error"))
         \/ /\ st' = Recovered(IF fresh THEN begun ELSE st)
            /\ manifest' = TRUE
            /\ Leave("prep", Ok)
  /\ UNCHANGED <<used, lock, flip, marker, caseFiles, volumes, closing, history>>

-----------------------------------------------------------------------------
(* worker_fanout                                                           *)

FanoutEmpty ==
  /\ At("worker_fanout")
  /\ ~Some(st, "pending_compile")
  /\ UNCHANGED st
  /\ Leave("worker_fanout", Nothing)
  /\ UNCHANGED <<used, lock, flip, marker, caseFiles, volumes, manifest,
                 closing, history>>

\* The whole pending set is saved as dispatched before any worker starts.
Dispatch ==
  /\ At("worker_fanout")
  /\ Some(st, "pending_compile")
  /\ LET wave == InState(st, {"pending_compile"})
     IN  /\ st' = [c \in Cases |-> IF c \in wave THEN "dispatched" ELSE st[c]]
         /\ got' = [c \in Cases |-> IF c \in wave THEN "running" ELSE "idle"]
  /\ pc' = "workers"
  /\ UNCHANGED <<used, lock, flip, marker, caseFiles, volumes, manifest,
                 closing, ch, next, zombie, history, crashes>>

\* _dispatch_one: a sheet written since the wave began decides, whoever wrote
\* it, whatever the fork says and even if it ran past its wall clock; then its
\* tail block and the ledger of undecided claims; anything else is escalated.
\* The fork may outlive its wall clock.
Busy == {"running", "fresh"}

Outlives(c) ==
  \/ zombie' = zombie
  \/ Zombies /\ zombie' = zombie \cup {c}

WorkerProduces(c) ==
  /\ \/ xlsx' = [xlsx EXCEPT ![c] = @ + 1]
     \/ got[c] = "fresh" /\ UNCHANGED xlsx
  /\ got' = [got EXCEPT ![c] = "produced"]
  /\ Outlives(c)
  /\ UNCHANGED nd

WorkerUndecided(c) ==
  /\ got[c] = "running"
  /\ AskAgain \/ ud[c] = "none"
  /\ \E claims \in {nd[c], "claims", "empty"} :
       /\ nd' = [nd EXCEPT ![c] = claims]
       /\ got' = [got EXCEPT ![c] = IF claims = "none" THEN "escalated"
                                    ELSE "pending_decision"]
  /\ UNCHANGED <<xlsx, zombie>>

WorkerFails(c) ==
  /\ got[c] = "running"
  /\ got' = [got EXCEPT ![c] = "escalated"]
  /\ Outlives(c)
  /\ UNCHANGED <<xlsx, nd>>

Worker(c) ==
  /\ pc = "workers"
  /\ got[c] \in Busy
  /\ WorkerProduces(c) \/ WorkerUndecided(c) \/ WorkerFails(c)
  /\ UNCHANGED <<ledgerVars, ud, volumes, manifest, closing, ch, next, pc,
                 history, crashes>>

\* rounds_used after this wave: a dispatch is one round, and the probe of a
\* suspect sheet dispatches its case again, which is then produced whatever
\* that fork does, for its sheet stays younger than the wave.
MaxRework == 3
Rounds(c) ==
  CASE got[c] = "idle"     -> {used[c]}
    [] got[c] = "produced" -> {Min2(used[c] + n, MaxRounds) : n \in 1 .. 1 + MaxRework}
    [] OTHER               -> {Min2(used[c] + 1, MaxRounds)}

\* All forks are back: their results reach the ledger in one save.
Collect ==
  /\ pc = "workers"
  /\ \A c \in Cases : got[c] \notin Busy
  /\ st' = [c \in Cases |-> IF got[c] = "idle" THEN st[c] ELSE got[c]]
  /\ used' \in {u \in [Cases -> 0 .. MaxRounds] : \A c \in Cases : u[c] \in Rounds(c)}
  /\ Leave("worker_fanout", Ok)
  /\ UNCHANGED <<lock, flip, marker, caseFiles, volumes, manifest, closing,
                 history>>

\* A fork given up at its wall clock writes its sheet after all.
ZombieWrites(c) ==
  /\ c \in zombie
  /\ zombie' = zombie \ {c}
  /\ xlsx' = [xlsx EXCEPT ![c] = @ + 1]
  /\ got' = [got EXCEPT ![c] = IF @ = "running" THEN "fresh" ELSE @]
  /\ UNCHANGED <<ledgerVars, nd, ud, volumes, manifest, closing, ch, next, pc,
                 history, crashes>>

-----------------------------------------------------------------------------
(* ask_decision                                                            *)

\* Settled without the user: no ledger of claims, or a decision on disk.
Settled(c) == nd[c] = "none" \/ ud[c] # "none"

MutantPresettledAll ==
  [c \in Cases |-> IF ~Settled(c) THEN st[c]
                   ELSE IF nd[c] = "none" THEN st[c] ELSE "pending_compile"]

Presettled ==
  [c \in Cases |-> IF st[c] # "pending_decision" \/ ~Settled(c) THEN st[c]
                   ELSE IF nd[c] = "none" THEN "escalated" ELSE "pending_compile"]

Undecided == {c \in Cases : st[c] = "pending_decision" /\ ~Settled(c)}

AskNobody ==
  /\ At("ask_decision")
  /\ \/ /\ ~Some(st, "pending_decision")
        /\ UNCHANGED st
        /\ Leave("ask_decision", Nothing)
     \/ /\ Some(st, "pending_decision")
        /\ Undecided = {}
        /\ st' = Presettled
        /\ Leave("ask_decision", Ok)
     \/ /\ \E c \in Undecided : nd[c] = "empty"
        /\ st' = Presettled
        /\ Leave("ask_decision", Failure("error"))
  /\ UNCHANGED <<used, lock, flip, marker, caseFiles, volumes, manifest,
                 closing, history>>

MutantAfterAnswerRetries(answer) ==
  IF answer = "describe" THEN "awaiting_user" ELSE "pending_compile"

\* Where an answer sends its case.
AfterAnswer(answer) ==
  IF answer = "decide" THEN "pending_compile" ELSE "awaiting_user"

\* The user answers the panel: "decide" is a change of steps or expectation,
\* "describe" leaves the case to be cleared up by hand, "none" is no usable
\* answer (not interactive, skipped, or the decision file was refused). The
\* decision files are written one by one and before the ledger is saved.
AskUser ==
  /\ At("ask_decision")
  /\ Undecided # {}
  /\ \A c \in Undecided : nd[c] = "claims"
  /\ \E answer \in [Undecided -> {"decide", "describe", "none"}] :
       LET Written(cases) == [c \in Cases |-> IF c \in cases THEN answer[c] ELSE ud[c]]
       IN  \/ /\ st' = [c \in Cases |->
                          IF c \notin Undecided THEN Presettled[c]
                          ELSE AfterAnswer(answer[c])]
              /\ ud' = Written(Undecided)
              /\ Leave("ask_decision", Ok)
           \/ /\ UNCHANGED st
              /\ \E done \in SUBSET Undecided : ud' = Written(done)
              /\ Die
  /\ UNCHANGED <<used, lock, flip, marker, xlsx, nd, volumes, manifest,
                 closing, history>>

-----------------------------------------------------------------------------
(* merge                                                                   *)

MutantTamperedOlder == {c \in Cases : st[c] = "passed" /\ xlsx[c] < lock[c]}

\* verify_pass_locks
Tampered == {c \in Cases : st[c] = "passed" /\ xlsx[c] # 0 /\ xlsx[c] # lock[c]}

\* What to merge, under which scope, into which volume.
Plan ==
  LET retried == InState(st, {"failed_active", "produced"})
  IN  IF ch.round = 0
        THEN [target |-> InState(st, {"produced"}), scope |-> "full", name |-> "main"]
        ELSE IF retried # {}
        THEN [target |-> retried, scope |-> "subset", name |-> "sub"]
        ELSE [target |-> InState(st, {"passed"}), scope |-> "full", name |-> "main"]

\* The volume file compile_emit_merged writes: the target's sheets as they are.
Volume(name, target) ==
  [round |-> IF name = "sub" THEN ch.round ELSE 0,
   stamp |-> vol[name].stamp + 1,
   has   |-> [c \in Cases |-> IF c \in target THEN xlsx[c] ELSE 0]]

\* A new round's subset directory has no last_run.json.
EmitTo(name, target) ==
  /\ vol' = [vol EXCEPT ![name] = Volume(name, target)]
  /\ lr' = IF name = "sub" /\ vol["sub"].round # ch.round
             THEN [lr EXCEPT !["sub"] = [c \in Cases |-> NoRecord]]
             ELSE lr

\* Every sheet is there and passes the gates, or the emitter returns an error
\* and writes nothing.
Emit(name, target) ==
  \/ /\ \A c \in target : xlsx[c] # 0
     /\ EmitTo(name, target)
  \/ /\ ToolFaults \/ \E c \in target : xlsx[c] = 0
     /\ UNCHANGED volumes

MergeRefused ==
  /\ At("merge")
  /\ Tampered # {}
  /\ UNCHANGED <<st, volumes>>
  /\ Leave("merge", Failure("error"))
  /\ UNCHANGED <<used, lock, flip, marker, caseFiles, manifest, closing, history>>

Merge ==
  /\ At("merge")
  /\ Tampered = {}
  /\ UNCHANGED st
  /\ \/ /\ Plan.target = {}
        /\ UNCHANGED volumes
        /\ Leave("merge", Nothing)
     \/ /\ Plan.target # {}
        /\ Emit(IF OutNameFromEnv THEN "main" ELSE Plan.name, Plan.target)
        /\ Leave("merge",
             IF Present(vol', Plan.name)
               THEN [Ok EXCEPT !.scope = Plan.scope, !.vref = Plan.name]
               ELSE Failure("error"))
  /\ UNCHANGED <<used, lock, flip, marker, caseFiles, manifest, closing, history>>

-----------------------------------------------------------------------------
(* run_digest                                                              *)

\* The mark this run will leave, and whether a run left it before.
Mark == [round |-> ch.round + 1, slot |-> ch.vref, stamp |-> vol[ch.vref].stamp]
MutantAlreadyAnyRun == HasRun(ch.vref)
Already == marker = Mark /\ HasRun(ch.vref)

\* The device bed runs the volume; the digest merges one record per case of
\* it into last_run.json, replacing the case's old record.
DeviceRun ==
  /\ At("run_digest")
  /\ ~Already
  /\ LET sheets == vol[ch.vref].has
         inVol == {c \in Cases : sheets[c] # 0}
     IN  \E verdict \in [inVol -> Verdicts] :
           /\ lr' = [lr EXCEPT ![ch.vref] =
                [c \in Cases |-> IF c \in inVol THEN [v |-> verdict[c], attr |-> "none"]
                                 ELSE @[c]]]
           /\ evidence' = evidence \cup
                {<<c, sheets[c]>> : c \in {d \in inVol : verdict[d] = "pass"}}
  /\ ran' = ran \cup {Mark}
  /\ pc' = "consume"
  /\ UNCHANGED <<ledgerVars, caseFiles, vol, manifest, closing, ch, next, got,
                 zombie, calls, crashes>>

\* No new run: the marker says this one is done, or the digest failed with an
\* error other than "busy" and left an older last_run.json in place.
KeepRun ==
  /\ At("run_digest")
  /\ Already \/ (DigestFaults /\ HasRun(ch.vref))
  /\ pc' = "consume"
  /\ UNCHANGED <<ledgerVars, caseFiles, volumes, manifest, closing, ch, next,
                 got, zombie, history, crashes>>

\* The bed stays busy through every retry, or there is no last_run.json.
RunFails ==
  /\ At("run_digest")
  /\ ~Already
  /\ UNCHANGED st
  /\ \/ Leave("run_digest", Failure("device_busy"))
     \/ /\ DigestFaults
        /\ ~HasRun(ch.vref)
        /\ Leave("run_digest", Failure("error"))
  /\ UNCHANGED <<used, lock, flip, marker, caseFiles, volumes, manifest,
                 closing, history>>

MutantJudgedAnyState(state, verdict) ==
  CASE verdict = "none" -> state
    [] verdict = "pass" -> "passed"
    [] OTHER -> IF state = "passed" THEN "passed" ELSE "failed_active"

\* Where a record of the run sends a case; a fail of a passed case is only noted.
JudgedState(state, verdict) ==
  IF \/ verdict = "none"
     \/ state \notin {"produced", "failed_active", "passed"}
    THEN state
  ELSE IF verdict = "pass" \/ state = "passed" THEN "passed"
  ELSE "failed_active"

MutantFlipsNever(state, verdict) == FALSE
MutantFlipsOnOther(state, verdict) == state = "passed" /\ verdict = "other"
Flips(state, verdict) == state = "passed" /\ verdict \notin {"none", "pass"}

\* Verdicts and marker reach the ledger in one save; a pass locks the sheet
\* that is on disk now.
Consume ==
  /\ pc = "consume"
  /\ LET verdict == [c \in Cases |-> lr[ch.vref][c].v]
     IN  /\ st' = [c \in Cases |-> JudgedState(st[c], verdict[c])]
         /\ flip' = [c \in Cases |-> flip[c] \/ Flips(st[c], verdict[c])]
  /\ lock' = [c \in Cases |-> IF st'[c] = "passed" /\ st[c] # "passed"
                               THEN xlsx[c] ELSE lock[c]]
  /\ marker' = Mark
  /\ Leave("run_digest", [Ok EXCEPT !.round = @ + 1, !.lref = ch.vref])
  /\ UNCHANGED <<used, caseFiles, volumes, manifest, closing, history>>

-----------------------------------------------------------------------------
(* attribute                                                               *)

MutantExhaustedLate(c) == used[c] > MaxRounds
Exhausted(c) == used[c] >= MaxRounds

\* Where the last run's record alone sends a failed case: a known defect, an
\* attribution on file, a rejected command, or the end of its rounds; "fork"
\* when none of them decides. (.frozen.json is never where this node looks
\* for it, so the branch on it is left out.)
ByRecord(c) ==
  LET r == lr[ch.lref][c]
  IN  IF r.v = "known" \/ r.attr = "terminal" THEN "failed_terminal"
      ELSE IF Exhausted(c) THEN "escalated"
      ELSE IF r.attr = "reflow" \/ (r.attr = "none" /\ r.v = "G")
        THEN "pending_compile"
      ELSE "fork"

\* Where the disposition read back after the forks sends it.
ByFork(disposition) ==
  CASE disposition = "terminal"            -> "failed_terminal"
    [] disposition \in {"reflow", "fixed"} -> "pending_compile"
    [] disposition = "transient"           -> "failed_active"
    [] OTHER                               -> "escalated"

\* The attribution of c in files l: the last run's, else the main volume's.
ReadBack(l, c) ==
  IF l[ch.lref][c].attr # "none" THEN l[ch.lref][c].attr ELSE l["main"][c].attr

AttributeNothing ==
  /\ At("attribute")
  /\ ~Some(st, "failed_active")
  /\ UNCHANGED st
  /\ Leave("attribute", Nothing)
  /\ UNCHANGED <<used, lock, flip, marker, caseFiles, volumes, manifest,
                 closing, history>>

\* Each fork leaves a disposition ("none": it leaves nothing) in the file it
\* locates by a volume's path, if that file has a record of its case.
Attribute ==
  /\ At("attribute")
  /\ Some(st, "failed_active")
  /\ LET fails == InState(st, {"failed_active"})
         forked == {c \in fails : ByRecord(c) = "fork"}
     IN  \E fork \in [forked -> Dispositions \X {ch.lref, "main"}] :
           LET lands == {c \in forked : /\ fork[c][1] # "none"
                                        /\ lr[fork[c][2]][c].v # "none"}
           IN  /\ lr' = [name \in Slots |-> [c \in Cases |->
                     IF c \in lands /\ fork[c][2] = name
                       THEN [lr[name][c] EXCEPT !.attr = fork[c][1]]
                       ELSE lr[name][c]]]
               /\ \/ /\ st' = [c \in Cases |->
                           IF c \in forked THEN ByFork(ReadBack(lr', c))
                           ELSE IF c \in fails THEN ByRecord(c)
                           ELSE st[c]]
                     /\ Leave("attribute", Ok)
                  \/ UNCHANGED st /\ Die
  /\ UNCHANGED <<used, lock, flip, marker, caseFiles, vol, manifest, closing,
                 calls, evidence, ran>>

-----------------------------------------------------------------------------
(* writeback and report                                                    *)

\* compile_writeback takes a sheet into the precedent library when the last
\* run has a passing record of its case. The cases are written one by one; an
\* error for one of them is noted and stops nothing.
Writeback ==
  /\ At("writeback")
  /\ UNCHANGED st
  /\ LET due == {c \in Cases : /\ st[c] = "passed"
                              /\ lr[ch.lref][c].v = "pass"
                              /\ xlsx[c] # 0}
     IN  \E done \in SUBSET due :
           /\ library' = [c \in Cases |-> IF c \in done THEN xlsx[c] ELSE library[c]]
           /\ \/ /\ done = due \/ ToolFaults
                 /\ Leave("writeback", IF Some(st, "passed") THEN Ok ELSE Nothing)
              \/ Die
  /\ UNCHANGED <<used, lock, flip, marker, caseFiles, volumes, manifest, rep,
                 history>>

Outcome ==
  IF ch.status = "error" \/ ch.err THEN "error"
  ELSE IF \A c \in Cases : st[c] = "passed" THEN "delivered_all_pass"
  ELSE IF \A c \in Cases : st[c] \in Terminal THEN "delivered_with_labels"
  ELSE "stopped"

\* The sheets of the labelled cases are merged for the archive; the volumes
\* that may leave. Named by the environment, that merge lands in the main
\* volume; named by its argument it lands beside it, in a file nothing reads.
Archived ==
  LET sheets == {c \in Cases : st[c] \in Labelled /\ xlsx[c] # 0}
      over   == [vol EXCEPT !["main"] = Volume("main", sheets)]
  IN  IF sheets = {} \/ ~OutNameFromEnv THEN {vol}
      ELSE IF ToolFaults THEN {vol, over} ELSE {over}

\* The per-case and subset directories, the manifest and the main
\* last_run.json go, unless IST_ENGINE_KEEP_TEMP keeps them all.
CleanUp(v) ==
  /\ vol' = [v EXCEPT !["sub"] = NoVolume]
  /\ lr' = [name \in Slots |-> [c \in Cases |-> NoRecord]]
  /\ xlsx' = [c \in Cases |-> 0]
  /\ nd' = [c \in Cases |-> "none"]
  /\ ud' = [c \in Cases |-> "none"]
  /\ manifest' = FALSE

KeepTemp(v) == vol' = v /\ UNCHANGED <<lr, caseFiles, manifest>>

\* The clean-up as far as the directories of some cases.
CleanUpStarts(v) ==
  /\ \E gone \in SUBSET Cases :
       /\ xlsx' = [c \in Cases |-> IF c \in gone THEN 0 ELSE xlsx[c]]
       /\ nd' = [c \in Cases |-> IF c \in gone THEN "none" ELSE nd[c]]
       /\ ud' = [c \in Cases |-> IF c \in gone THEN "none" ELSE ud[c]]
  /\ vol' = v
  /\ UNCHANGED <<lr, manifest>>

\* A delivery archives, writes the report and cleans up, in that order.
Report ==
  /\ At("report")
  /\ UNCHANGED st
  /\ LET delivered == Outcome \in {"delivered_all_pass", "delivered_with_labels"}
     IN  \/ /\ rep' = Outcome
            /\ IF delivered THEN \E v \in Archived : CleanUp(v) \/ KeepTemp(v)
                            ELSE KeepTemp(vol)
            /\ Leave("report", Ok)
         \/ /\ delivered
            /\ UNCHANGED rep
            /\ \E v \in Archived : KeepTemp(v)
            /\ Die
         \/ /\ delivered
            /\ rep' = Outcome
            /\ \E v \in Archived : CleanUpStarts(v)
            /\ Die
  /\ UNCHANGED <<used, lock, flip, marker, library, history>>

-----------------------------------------------------------------------------

\* What a live call does next.
Step ==
  \/ Prep
  \/ FanoutEmpty \/ Dispatch \/ (\E c \in Cases : Worker(c)) \/ Collect
  \/ AskNobody \/ AskUser
  \/ MergeRefused \/ Merge
  \/ DeviceRun \/ KeepRun \/ RunFails \/ Consume
  \/ AttributeNothing \/ Attribute
  \/ Writeback \/ Report

Next == Call \/ Crash \/ (\E c \in Cases : ZombieWrites(c)) \/ Step

Spec == Init /\ [][Next]_vars

\* A live call keeps executing: workers return by their wall clock, the
\* device run by its budget, and the user's panel is answered or dismissed.
FairSpec == Spec /\ WF_vars(Step)

-----------------------------------------------------------------------------
(* Properties.                                                             *)

Maps(S) == [Cases -> S]
Records == [v : Verdicts \cup {"none"}, attr : Dispositions \cup {"none"}]
Volumes == [round : Nat, stamp : Nat, has : Maps(Nat)]
Channels ==
  [round : Nat, status : {"ok", "error", "device_busy", "nothing_to_do"},
   err : BOOLEAN, scope : {"none", "full", "subset"},
   vref : Slots \cup {"none"}, lref : Slots \cup {"none"}]
Results == {"idle", "running", "fresh", "produced", "pending_decision", "escalated"}
Outcomes == {"none", "error", "delivered_all_pass", "delivered_with_labels", "stopped"}

LedgerType ==
  /\ st \in Maps(CaseStates)
  /\ used \in Maps(0 .. MaxRounds)
  /\ lock \in Maps(Nat)
  /\ flip \in Maps(BOOLEAN)
  /\ marker \in [round : Nat, slot : Slots, stamp : Nat]

FilesType ==
  /\ xlsx \in Maps(Nat)
  /\ nd \in Maps({"none", "claims", "empty"})
  /\ ud \in Maps({"none", "decide", "describe"})
  /\ vol \in [Slots -> Volumes]
  /\ lr \in [Slots -> Maps(Records)]
  /\ manifest \in BOOLEAN
  /\ library \in Maps(Nat)
  /\ rep \in Outcomes

ProcessType ==
  /\ ch \in Channels
  /\ next \in Nodes \cup {"END"}
  /\ pc \in {"down", "enter", "workers", "consume"}
  /\ got \in Maps(Results)
  /\ zombie \subseteq Cases
  /\ crashes \in 0 .. MaxCrashes

HistoryType ==
  /\ calls \in 0 .. MaxCalls
  /\ evidence \subseteq Cases \X Nat
  /\ ran \subseteq [round : Nat, slot : Slots, stamp : Nat]

\* A node that reads a volume or its last run has been handed one.
HandedOn ==
  /\ next = "run_digest" => ch.vref # "none"
  /\ next \in {"attribute", "writeback"} => ch.lref # "none"

\* Every variable has its type, and no node reads a volume or a last run that
\* no node before it has named (merged_xlsx_ref, last_run_ref).
TypeOK == LedgerType /\ FilesType /\ ProcessType /\ HistoryType /\ HandedOn

\* Inside a node the checkpoint is still at that node, and a fork works on a
\* case the ledger has as dispatched.
Inside ==
  /\ pc = "consume" => next = "run_digest"
  /\ pc = "workers" => next = "worker_fanout"
  /\ \A c \in Cases : got[c] # "idle" => pc = "workers" /\ st[c] = "dispatched"

EngineInv == TypeOK /\ Inside

\* CaseLifecycle, on the ledger's states and locks.
Lifecycle == INSTANCE CaseLifecycle WITH state <- st

\* Whatever nodes run, die and are resumed, a case moves along _LEGAL only and
\* enters "passed" only for a sheet the device bed passed (ledger.py:34-49).
LedgerRefines == Lifecycle!Spec

Finished == pc = "down" /\ next = "END"

\* "All passed" is reported only when the main volume holds exactly the locked
\* sheets and that very file went through the device bed (verify_phase.py:62,
\* graph.py:79-84: no delivery of a volume older than the repairs).
AllPassVerified ==
  Finished /\ rep = "delivered_all_pass" =>
    /\ vol["main"].has = lock
    /\ \E m \in ran : m.slot = "main" /\ m.stamp = vol["main"].stamp

\* "All passed" is reported only when every locked sheet reached the precedent
\* library, cases that flipped in the last run excepted (closing.py:18-50).
AllPassInLibrary ==
  Finished /\ rep = "delivered_all_pass" =>
    \A c \in Cases : flip[c] \/ library[c] = lock[c]

\* A passed case whose last consumed run says otherwise carries the mark that
\* sends it to a human (verify_phase.py:135-141).
FlipRecorded ==
  \A c \in Cases :
    /\ st[c] = "passed" /\ next # "run_digest" /\ ch.lref # "none"
    /\ lr[ch.lref][c].v \notin {"none", "pass"}
    => flip[c]

\* The verdicts a node is about to consume are those of a run of this very
\* volume file in this very round (verify_phase.py:97-101).
ConsumesOwnRun == pc = "consume" => Mark \in ran

\* A case moves along _LEGAL only, late forks or not (ledger.py:34-49).
MovesAreLegal ==
  [][\A c \in Cases : st'[c] # st[c] => <<st[c], st'[c]>> \in Legal]_vars

\* The volume about to run holds every passed case in its locked version, even
\* when a late fork wrote another one meanwhile (verify_phase.py:38-48).
VolumeHoldsLocked ==
  At("run_digest") =>
    \A c \in Cases : st[c] = "passed" => vol[ch.vref].has[c] \in {lock[c], 0}

\* A failed case goes back to a worker only while it has a round left
\* (verify_phase.py:228-243).
ReflowWithinBudget ==
  [][\A c \in Cases : st[c] = "failed_active" /\ st'[c] = "pending_compile"
       => used[c] < MaxRounds]_vars

\* A call that nothing interrupted and no node failed leaves no case between
\* two states: "stopped" is never its outcome (closing.py:113-115).
NoLimbo == Finished /\ crashes = 0 /\ ~ch.err => rep # "stopped"

\* Every call returns.
CallReturns == pc # "down" ~> pc = "down"

-----------------------------------------------------------------------------
(* What the repository's documents say and the code does not do.           *)

\* compile_emit_merged writes the volume its argument names, so a repair round
\* and the archive leave the main volume alone (emit_xlsx_tool.py:1077,
\* closing.py:285-287).
NamedVolume ==
  [][vol' # vol =>
       /\ next = "merge" => vol'[Plan.name] # vol[Plan.name]
       /\ next = "report" => vol'["main"] = vol["main"]]_vars
=============================================================================
