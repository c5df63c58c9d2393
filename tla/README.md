# InfoTest Engine: a verification project

TLA+ modules of the repository's core, the TLC configurations that check them
on small instances, and theorems that TLAPS proves for every instance.

The repository is a test-engineering agent. It turns a mind map of test cases
into an executable workbook, runs the workbook on a device bed, attributes the
failures, repairs and reruns, and files what passed as precedents. The part of
it that decides what happens to a case, and that must survive failure,
restarts and late answers, is the **V6 compile engine**
(`main/ist_core/compile_engine`, driven by the tool `compile_engine_run`). It
is the core of this project. Around it stand the parts whose correctness is a
matter of concurrency and failure: the fork executor, the device bed that
several calls and processes share, the single-flight probe, the graph around
the agent with its gates, the terminal that shows its events, and the gateway
through which users of a messenger talk to it. Everything else is listed below
with the place it has in the plan.

All paths in this file are relative to `src/`.

## 1. Inventory

`CE` is `main/ist_core/compile_engine`, `TD` is `main/ist_core/tools/device`.

| component | state it keeps | operations | what is hard | what makes it correct |
|---|---|---|---|---|
| engine graph, `CE/graph.py`, `CE/nodes/*` | channels and next node, in a langgraph checkpoint | eight nodes and six conditional edges | a call may die in any node and is resumed in it; channels outlive a call | every call returns; no case is left between two states; what is delivered is what ran |
| ledger, `CE/ledger.py` | state, rounds, lock and flip mark of each case; the marker of the last consumed run; JSON on disk, saved by `os.replace` | `transition`, `lock_pass`, `verify_pass_locks`, `save` | read by each node anew, saved in the middle of a node or at its end | only legal moves; "passed" only with a device verdict; a passed sheet never changes in a volume |
| engine tool, `TD/engine_tool.py` | the thread id of a batch; environment variables it sets for the tools below | `compile_engine_run`, panel bridge `_bridge_ask` | resume or start over; a panel with no one to answer | a resumed call finishes; a device run is not repeated |
| emitter, `TD/emit_xlsx_tool.py` and gates | the volumes `<out>/case.xlsx`, `<out>_fails_r<N>/case.xlsx` | `compile_emit`, `compile_emit_merged` | which volume is written; refusals | the volume holds the target's present sheets |
| device bed and digest, `TD/batch_tools.py` | `last_run.json` of each volume; the bed itself | `dev_run_batch_digest` | busy bed; a run that fails silently; an older file in place | consumed verdicts belong to the volume that was run |
| attribution, `TD/fail_attribution.py` | `_attribution` in a record of `last_run.json` | `submit_attribution` | forks rewrite the same file concurrently | every failed case gets one disposition |
| precedents and footprints, `TD/precedent_tools.py`, `memory/footprint` | the library | `compile_writeback`, footprint merge | a sheet that changed after it ran; partial failure | only sheets that passed the bed enter |
| forks, `main/ist_core/resilience.py` | permits, active forks, watchdog threads | `AdaptiveLimiter`, `ForkExecutor.call`, `call_bounded` | a fork past its wall clock is abandoned and not stopped | permits are bounded; abandoned work does no harm |
| single-flight probe, `TD/run_case.py` | table of probes in flight, cache | `dev_probe` | leader fails or dies, waiters time out | one probe of a run for one question, but for failures, deaths and waits that ran out; every waiter is released |
| environment pool, MCP client, device server, `main/case_compiler`, `main/device_mcp_server` | file locks of environments; on the jump host the staging directory, the lock file, detached runners, logs | `acquire`, `deliver`, submit, `run_and_wait`, fetch | two processes, one bed; a runner outlives its caller; old logs | one run on one bed; verdicts of the volume that was delivered |
| goal gate, review gate, agent graph, runner, `main/ist_core/nodes`, `graph.py`, `runner.py` | counters and messages in the thread's checkpoint | nodes, invocation, retry after a connection error | counters outlive attempts and turns; two loops in one limit of supersteps | the agent is sent back boundedly often; a first turn's review has its verdict, a later one may lean on an older |
| terminal interface, `tui/reducer.py`, `tui/bridge.py`, `ink` | the reducer's messages and revision; the last snapshot shown; the turn's event loop | dispatch, deliver, submit, cancel, redraw, resume | three kinds of threads deliver outside of the lock | every message has its row, in order; what is shown is the latest; a cancelled turn makes room |
| WeCom gateway and question tool, `wecom_bot_smart/gateway.py`, `tools/ask_user` | registry of running tasks, sessions, pending questions | query, file, stop, reset; ask, answer | a thread for each message; a task is stopped by an exception thrown into its thread | who is registered is at work, but for a kill that hits the wrong thread; an answer stands; a session's turns are counted |
| agent middleware, `middleware` | counters over a window of tool calls | count, warn, stop | a window that slides | the agent is warned |
| web server and sessions, `web_server.py`, `auth` | sessions in a database | login, renew, expire | concurrent requests of a session | an expired session does nothing |
| memory store and dream, `main/ist_core/memory` | memory files, extraction queue, lock | extract, consolidate | two consolidations; a crash between files | no memory is lost |

Components whose behaviour is sequential data transformation, rendering,
observation or plain I/O (case compiler core, sinks, log server, ingest, file
tools) are listed in `PROJECT.json` with the reason they are left out.

### How the engine's parts interact

    compile_engine_run --> graph --> node: load ledger, work, save ledger --> checkpoint
                                      |
       prep            manifest.json  |  recovers orphans of a dead fan-out
       worker_fanout   forks (ForkExecutor) write <autoid>/case.xlsx, needs_decision.json
       ask_decision    panel; writes user_decision.json
       merge           lock check, compile_emit_merged writes a volume
       run_digest      dev_run_batch_digest writes last_run.json; verdicts to the ledger
       attribute       forks (submit_attribution) write into last_run.json
       writeback       compile_writeback copies sheets into the library
       report          archives the labelled sheets, writes the report, cleans up

The edges read two things: the channel `phase_status` that the node returned,
and counts taken from the ledger it saved. The ledger, the files and the
checkpoint are three stores which no transaction joins. That gap, the forks
that outlive their wall clock, and the channels that outlive their call are
where this code can go wrong.

### How the parts around it interact

    user --> WeCom gateway --+                          +--> engine --> forks (ForkPool)
             (ChatGateway)   +--> agent graph, gates  --+                 | dev_probe (ProbeFlight)
    user --> terminal -------+    (AgentTurns)          +--> device bed   v
             (TranscriptFeed) <-- events of graph, forks     (DeviceBed) <-- verdicts to the engine

Each of these modules stands for itself: the interface between two of them is
narrow (an answer, a verdict, a last run, an event) and appears on both sides as
a choice.

## 2. Modules

| module | what it is |
|---|---|
| `EngineLedger` | the vocabulary of `ledger.py`: states, the table `_LEGAL`, the questions asked of a ledger. No state of its own |
| `CaseLifecycle` | the abstract specification: what the ledger promises of a batch, whatever runs, dies or is resumed |
| `CompileEngine` | the engine: files, ledger, checkpoint, process; one action for each way a node acts; properties |
| `CompileEngineProofs` | theorems about `CompileEngine` under every switch: types, legal moves, budget, flips; and consumed runs |
| `LifecycleProofs` | the theorems that `CompileEngine` implements `CaseLifecycle`, that a call delivers what was run, and that it decides every case |
| `MCEngine` | instances of `CompileEngine` for TLC: two cases, symmetry, the dispositions `submit_attribution` accepts |
| `ForkPool` | the forks of one wave: `AdaptiveLimiter`, `ForkExecutor`, its watchdog pool, and the threads of `worker_fanout` that use them |
| `ForkPoolProofs` | theorems about `ForkPool` |
| `MCForkPool` | an instance of `ForkPool` for TLC |
| `BedService` | the abstract specification of the beds: what they promise to who hands in a volume |
| `DeviceBed`, `DeviceBedProofs`, `MCDeviceBed` | calls of `dev_run_batch` from several processes, the environments they claim, and the jump host with its lock file and runners |
| `ProbeFlight`, `ProbeFlightProofs`, `MCProbeFlight` | `dev_probe`: leaders, waiters, failures, and the clearing of a run's bucket |
| `AgentTurns`, `AgentTurnsProofs`, `MCAgentTurns` | the graph around the agent: invocations, attempts, turns, review gate and goal gate |
| `TranscriptFeed`, `TranscriptFeedProofs`, `MCTranscriptFeed` | the reducer, the threads that dispatch to it, and what the terminal shows |
| `ChatGateway`, `ChatGatewayProofs`, `MCChatGateway` | handlers of messages, task registry, sessions and questions |

`CompileEngine` and `ForkPool` look at the same fan-out from two sides. For the
engine a worker is one step with a result, and a fork that was given up is a
`zombie`; `ForkPool` opens that step, and knows nothing of ledgers and sheets.
In the same way `DeviceBed` opens the engine's `DeviceRun`: the engine takes a
last run for the run of the volume it names (`ConsumesOwnRun`), and
`VerdictsOfOwnVolume` says when the bed makes that true.

### State of `CompileEngine` and the code

| variable | code |
|---|---|
| `st`, `used`, `lock`, `flip` | `cases[autoid]` of `engine_ledger.json`: `state`, `rounds_used`, `passed_mtime_lock`, `runtime_underdetermined` |
| `marker` | `run_marker` of the ledger: round and volume mtime of the last consumed run |
| `xlsx` | version of `<autoid>/case.xlsx`; a version stands for an mtime, 0 for no file |
| `nd`, `ud` | `needs_decision.json` (absent, with claims, without) and `user_decision.json` of a case |
| `vol`, `lr` | the volumes' `case.xlsx` and `last_run.json`; "main" is `<out>/`, "sub" the subset directory of the youngest repair round |
| `manifest`, `library`, `rep` | `manifest.json`, the precedent library, `outcome` of `engine_report.json` |
| `ch`, `next` | the checkpoint: channels `round`, `phase_status`, `error`, `run_scope`, `merged_xlsx_ref`, `last_run_ref`, and the next node |
| `pc`, `got`, `zombie` | the process: outside, at a node or inside one; results of a running fan-out; forks given up and still alive |
| `evidence`, `ran`, `calls`, `crashes` | history for the properties, and counters of the bounds |

A volume's `stamp` stands for the mtime of its file, `has` for the version of
each sheet in it.

### Actions and the code

One call of `compile_engine_run` is one walk of the graph. A node is one
action where nothing else can observe its inside, and several where it can:

* `Call`: start at `prep` or resume at the checkpointed node, with the
  channels the last call left.
* `Prep`; `FanoutEmpty`, `Dispatch`, `Worker(c)`, `Collect` (`worker_fanout`:
  the ledger is saved before the forks start and once after they are back);
  `AskNobody`, `AskUser`; `MergeRefused`, `Merge`; `DeviceRun`, `KeepRun`,
  `RunFails`, `Consume` (`run_digest`: before and after the device run);
  `AttributeNothing`, `Attribute`; `Writeback`; `Report`.
* `Leave(n, k)`: node `n` returns channels `k`. Either langgraph checkpoints
  them and the edge out of `n` is taken, or the call dies first (`Die`): what
  the node saved stays, its return value is lost.
* `Crash`: the call dies outside of a save. `ZombieWrites(c)`: a fork that was
  given up writes its sheet. If the case's new worker still runs, its result is
  then "fresh": `_dispatch_one` takes any sheet written since the wave began for
  the worker's own.
* `Rounds(c)`: what a wave adds to a case's `rounds_used`. A sheet that the probe
  finds suspect is dispatched again, up to three times, and each dispatch counts.

Nodes that write several files before they save the ledger (`AskUser`,
`Attribute`, `Writeback`, `Report`) may also die with some of the files written;
the clean-up of `Report` may die among the case directories (`CleanUpStarts`).

### State and actions of `ForkPool`

| variable | code |
|---|---|
| `lim` | `AdaptiveLimiter`: `limit`, `_active`, `_succ` |
| `pc`, `dispatch`, `attempt`, `out` | the thread of a case: where it is in `_run` and `ForkExecutor.call`, which dispatch (`rework`), which attempt, and what the last attempt returned |
| `queue`, `running` | the watchdog pool: forks submitted and not started, forks in a thread, awaited or not |
| `won` | history: successes reported since the limit last moved or an overload was reported; counted from the results, not from `_succ` |

A thread acquires a permit (`Acquire`), submits a fork (`Submit`), waits until it
ends (`EndFork`) or its wall clock does (`TimeOut`), tells the limiter (`Record`),
backs off and tries again or not (`TryAgain`), and gives the permit back
(`Release`), after which a suspect sheet may start it over. `EndFork` with nobody
waiting is the end of a fork that was given up. The limit's methods are functions
of the limiter, each one critical section under `_cv`.

### State and actions of `DeviceBed`

| variable | code |
|---|---|
| `pc`, `mutex` | a call of `dev_run_batch` and the `_RUN_MUTEX` of its process |
| `script` | its submission script on the jump host, which the call waits for (`_ssh_python_json`) and which runs on when the call does not |
| `claim`, `at` | the file lock of an environment (`env_pool.acquire`) and the environment a call got |
| `staged`, `lock`, `log` | on the jump host: the volume in the staging directory, the lock file, who wrote the logs last |
| `run`, `loaded` | the detached runner of a call, and the volume its pytest read |
| `fresh`, `got` | calls for which the logs are not older than their `deliver_epoch`, and the run whose logs became a call's verdicts |

`Enter`, `Claim` or `ClaimTimesOut`, `Probe` (which may refuse or kill), `Reprobe`,
`Deliver`, `TakeEpoch` follow `dev_run_batch`; `CreateLock`, `ReadLock`, `Unlink`,
`Spawn`, `Stamp` are the system calls of the submission script, each a step, because
two scripts may interleave in them; the script's last step answers the call if that
still waits (`Answers`). `ScriptFails` is a script that did not start, or failed
before it spawned. `AnswerLost` is the call that does not hear its script: the SSH
channel drops or says nothing for a minute, `dev_run_batch` takes it for 'submit
failed', looks for logs and gives the bed back, while the script goes on
(`device_mcp_client.py:673-681`, `740`). `Poll` and `Fetch` end the call. `RunStarts`,
`WriteLog`, `PytestEnds`, `WriteStatus`, `RemoveLock` are the runner, which goes on
when its caller has died. `Die(p)` kills a process anywhere and gives back its mutex
and its claims, as the operating system does; its script, too, goes on.

### State and actions of `ProbeFlight`

`bucket` is `_PROBE_RUN_CACHE` at one command; an entry is named by the caller
that made it, with its `result` and `event`. `Enter` is the block under
`_PROBE_RUN_LOCK`; `Probed`, `Sort` (`_probe_uncacheable` and the removal), `Fill`,
`SetEvent` are the leader's steps in the order of the code; `Dies` is an
exception, after which only the `finally` acts; `Wake` and `TimeOut` end a wait;
`EndRun` is `_clear_run_cache`. A run can be cleared under its callers, since a
fork that was given up may still probe. `late` is a history: the calls whose wait ran
out. A call that asks the device is one that leads or has led, one at its bare probe,
and one that was answered by its own (`Asks`).

### State and actions of `AgentTurns`

`node` is the node of the outer graph to run next and `steps` the supersteps of
this invocation; `asked` and `pushed` are `gate_retry_count` and
`goal_retry_count`; `seen` is what the gates look for in the messages; `answer` is
`final_answer`, and `outcome` what the turn returned. `mode` is the program that
drives the thread: print mode with or without a goal, runner, terminal.
`QaAnswers`, `QaFails` and `QaRaises` are the three ways `qa_node` ends;
`Retry` is `run_with_resilience`; `Cancel` the user's interruption. `stale` is a
history: the last review was called in a later agent run than the last verdict. Runs
are its grain; in which order one run calls the review and the verifier is not kept.

### State and actions of `TranscriptFeed`

| variable | code |
|---|---|
| `reducer` | `MessageReducer`: `_messages`, the open stream, run status and `_rev`; a message is named by the revision that appended it |
| `out` | the snapshot a thread made under the reducer's lock and has not delivered |
| `shown`, `rows`, `loading` | `_prev_snapshot` with `_last_snapshot_rev`, the transcript's messages, `_is_loading` |
| `loop`, `cancel`, `tokens`, `failure` | the bridge's worker thread and its task: stage, request to stop, tokens still in its queue, the graph's error |
| `agent` | the thread in which a turn's agent runs; it outlives a cancelled task |
| `bridge` | whether another conversation was resumed, and a new reducer made |

`Dispatch` makes a change and its snapshot, `Deliver(th)` hands it over later:
between the two any other thread may act. `Submit`, `SubmitBusy`, `Cancel`,
`Expand` and `Switch` are handlers of the interface; `Begin`, `Pump`, `Fail`,
`RunEnd`, `Mark`, `Leave` the worker; `StartCall`, `Token`, `Block`, `EndCall`,
`Finish` the agent; `Card` the tailer of the forks' log.

### State and actions of `ChatGateway`

| variable | code |
|---|---|
| `pc`, `target`, `victim`, `seen` | a handler's thread and its locals |
| `ident` | the identifier of the thread (`Thread.ident`) |
| `registry`, `cancel`, `thrown` | `_task_registry`, cancel events, exceptions thrown into threads (`PyThreadState_SetAsyncExc`) and not yet raised |
| `sess`, `tid` | `_sessions`: thread and turns of a user; the thread a query runs in |
| `stray` | history: the handlers a kill of another one has hit |
| `agent`, `pending`, `answer` | the agent's thread of a query, `_PENDING` of `ask_user`, and the message that answered |

A message's handler is cut where another handler may act: at each lock it takes
and gives back. `PopTask`, `SetCancel`, `Strike`, `InsertTask` are `_register_task`
and `_kill_existing`; `Raise` is the thrown exception, which only the guarded part
of a query survives.

The exception is thrown at a thread's identifier (`gateway.py:285-292`), and the
system gives the identifier of a thread that has ended to a new one. So `Arrive`
gives a handler an identifier of its own or that of a handler that is done, and
`Strike` throws into whoever has the victim's now: the victim while it lives, then
nobody or a handler that came later, of any user and at any stage. That an agent's
thread has got the identifier is not told apart: it ends (`AgentEnds`), as it may at
any time. A thread of the process that is neither may be hit as well; it has no state
here.

### The switches

`CompileEngine` has constants for what the environment does, so that a run can
say under which circumstances a property holds.

* `OutNameFromEnv`: `compile_emit_merged` writes the volume named by
  `IST_COMPILE_OUT_NAME`. That is the code (`TD/emit_xlsx_tool.py:1246`), since
  `compile_engine_run` always sets the variable. With `FALSE` it writes the
  volume its argument names, which is what its docstring says and what the
  repository's tests replace it with. In the deployed combination every repair
  round ends in an error, because the subset volume is never where `merge`
  looks for it: repair rounds, final runs and all that follows them are never
  reached. `engine_safety` and `engine_late_forks` therefore use the documented
  emitter, so that the engine's own logic is exercised; `engine_deployed` and
  `volume_named_by_environment` use the deployed one.
* `AskAgain`: a worker may report a case undecided although the user decided.
* `Zombies`: a fork past its wall clock may still write.
* `ToolFaults`: the emitter and the library write may refuse.
* `DigestFaults`: a device run may fail and leave no new `last_run.json`.

`DeviceBed` has a set `Faults` of what the code leaves open:

* `unpooled`: the environment is used without a claim. `dev_run_batch` does so
  when the pool is off or raises (`TD/batch_tools.py:517-527`).
* `blind`: the search for a run left behind fails and counts as "none"
  (`TD/batch_tools.py:62`, by intention).
* `epoch`: the clock of the jump host is not read, so that no log is too old.
* `submit`: a call ends before its submission does, that is, before the script has
  spawned a runner and the runner has started pytest: its process dies, or the answer
  of the script is lost or late. Without it both may still happen at any other time, also
  between the start of pytest and the end of the script.
* `setsid`: the pid in the lock file is that of a process that has ended, so the
  lock never looks alive.

Only the last is harmless to all properties, and `device_bed` allows it. With
`unpooled`, `blind` or `submit` alone TLC finds two runs on a bed within a few
steps: with `submit` a script whose call has given up spawns its runner after the next
call has claimed, searched and delivered, over that call's volume. The lock file,
which `TD/batch_tools.py:62` calls the last constraint, does not prevent it (finding
`two_runs_on_a_bed`). With `epoch` alone runs exclude each other still, and a call
returns verdicts of another volume. The theorems' hypotheses are drawn along these
lines.

## 3. Abstract specification

`CaseLifecycle` has three variables, the ledger's states, the locked versions
and the evidence of the bed, and two actions, a run of the bed and a save. A
save moves any number of cases along `_LEGAL`; a case enters "passed" only with
a locked version for which the bed has passed that sheet, and no lock changes
otherwise. `LedgerRefines` says that `CompileEngine` implements it, mapping
`state` to `st`. It is stated without late forks: with them the lock may be on
a version nobody ran (see "Also seen" below).

`BedService` has three variables, the volumes each bed is testing, those whose test
has begun, and what each caller has heard, and three actions: a test begins on a
bed that tests nothing, of a volume not tested before; it ends; a caller hears, once,
and of its own volume, whose test has begun. It knows no process, claim, lock file
or log. `ServesVolumes` says that `DeviceBed` implements it, of the volumes that the
pytests of a bed have read. A runner that dies takes its volume with it: the service
promises no answer.

## 4. Runs

Deadlock is not checked: when the calls, turns or messages of an instance are
used up, the system really stops.

### The engine

Bounds: two cases (an engine step treats cases alike; two are needed for one
case to move while another stays), `MaxRounds = 2` (one repair and the end of
the budget), one to three calls, at most one death. Versions and stamps grow
with rounds and calls and need no bound of their own.

| run | what it asks | switches |
|---|---|---|
| `engine_safety` | three calls, one of which may die anywhere: types (`TypeOK`); "all passed" delivers exactly the locked sheets in a volume that ran (`AllPassVerified`) and all of them reached the library (`AllPassInLibrary`); flips are marked (`FlipRecorded`); verdicts belong to the volume and round (`ConsumesOwnRun`); no case is left between states (`NoLimbo`); budget (`ReflowWithinBudget`); refinement (`LedgerRefines`) | documented emitter, `AskAgain` |
| `engine_deployed` | two calls and a death, with every tool failing that may fail: every call returns (`CallReturns`) | deployed emitter, `ToolFaults`, `DigestFaults`, fairness |
| `engine_late_forks` | a late fork never gets into a volume that is run for a passed case (`VolumeHoldsLocked`), moves stay legal (`MovesAreLegal`), and a call with its repair rounds returns (`CallReturns`) | documented emitter, `Zombies`, fairness |

`CallReturns` is asked twice because each run reaches what the other does not:
deaths, resumptions and failing tools in the one, repair and final rounds beside
late forks in the other.

### The parts around it

| run | instance | what it asks |
|---|---|---|
| `fork_pool` | three threads, two permits at first and at most three, one watchdog thread, one retry, one rework | types and bounds (`TypeOK`); permits are counted, and none is given beyond the limit of the moment (`PermitsCounted`); every raise is earned by successes under the limit it raises (`GrowthEarned`); no two live forks of one call (`OneForkPerCall`); every thread returns though every fork may hang (`AllReturn`) |
| `device_bed` | two calls of one process, one of another, one environment, `setsid` | no ending leaks a claim (`TypeOK`); one pytest on a bed (`OneRunAtATime`); verdicts of the delivered volume (`VerdictsOfOwnVolume`); the calls implement `BedService` (`ServesVolumes`); every call returns or dies though a pytest may hang (`CallsReturn`) |
| `probe_flight` | three calls of a run, one outside of it | entries and waiters belong to their run (`TypeOK`); no two calls of a run ask the device, but for a failed answer, a wait that ran out, and the empty entry of a leader that died (`OneProbe`); a failure handed out is not joined (`FailuresNotServed`); every call is answered without a clock (`CallsAnswered`) |
| `agent_turns` | the defaults: a cap of 8 rounds, 3 attempts; 3 turns | counters within bounds (`TypeOK`); no invocation meets langgraph's limit (`StepsWithinLimit`); agent runs are bounded over attempts and turns (`RunsBounded`); a review goes out only beside a verdict, and beside one of an earlier review only after a goal's round or an earlier turn (`VerdictBehindReview`) |
| `transcript_feed` | two turns, three events of the agents and forks | the loop delivers before it ends (`TypeOK`); one row for a message, in order (`RenderedInOrder`); what is shown is the latest (`SettlesOnLatest`); a turn that has not streamed loses nothing (`NoGapsUnstreamed`); a cancelled turn makes room (`CancelFrees`) |
| `chat_gateway` | three messages: a query with a file and a stop or reset; queries, stops and resets beside another user's query; two turns a session | `_PENDING` lists who waits (`TypeOK`); who is registered is at work, unless a kill meant for a thread that ended took it down (`RegisteredAreAtWork`); turns of a session (`TurnsPerSession`); the first answer stands (`AnswerStands`); every handler returns unless its agent waits for an answer nobody gives (`HandlersReturn`) |

In `fork_pool` three threads compete for two permits, one of which an overload takes
away while both are held; a third permit has to be earned by two successes in a row,
the least for which it matters that an earlier limit's do not count; one watchdog
thread makes every fork behind a hanging one wait in the queue; one retry and one
rework let each thread make up to four forks, of two calls. In `device_bed` two calls
of a process meet at its mutex and two processes at the environment's lock, one of
them after the death of the other and beside its runner; a second environment only
adds beds that do not interact. In `probe_flight` one caller leads, one waits and a
third comes late, which is what a stale removal needs. In `agent_turns` two turns are
enough to carry counters over, and the third finds them used up. Two turns of
`transcript_feed` give one reset, one agent left behind and one resumed conversation,
whose three events reach all threads; its messages grow with the turns. Three messages
of `chat_gateway` are a task, another that kills it and a third that interleaves with
both, or that comes when the task has ended, gets the identifier of its thread and is
hit by the kill.

Two properties of the engine hold under a switch and fail without it, and the
runs say so by their switches. `AllPassVerified` needs an emitter that does not
refuse: `merge` decides by the existence of the file
(`CE/nodes/verify_phase.py:71`), so when the final full merge is refused the main
volume from before the repairs is run and delivered. `ConsumesOwnRun` needs device
runs that do not fail in silence: a run that fails leaves the older
`last_run.json`, which `run_digest` reads (`CE/nodes/verify_phase.py:115`).

### Findings

Three runs end in a violation. Each checks what a docstring or comment says of
the program against what the code does; `PROJECT.json` quotes the sentence.

| run | what the code does |
|---|---|
| `volume_named_by_environment` | the emitter ignores its `out_name`; an archive or a repair round replaces the main volume |
| `two_runs_on_a_bed` | a submission takes the lock file of another, created and not yet filled, for stale: two pytests on one bed where the pool is off |
| `resumed_conversation_unseen` | after another conversation was resumed, snapshots of its reducer count as late ones and are dropped until its revisions pass the old ones |

### Also seen

What follows came up while the models were written and can be read off their
definitions; no run is spent on it.

In the engine: an error stays in the checkpoint and decides the outcome of every
later call of the thread (`closing.py:123`); the call after a death in
`worker_fanout` does nothing and reports "stopped", only the one after it recovers
(`compile_phase.py:153`); a death between device run and save makes the next call
repeat the run (`verify_phase.py:119`); a sheet that a late fork wrote after the
merge is locked by the pass and enters the library without having run
(`verify_phase.py:133`, `precedent_tools.py:494`). In the pool: forks given up at
their wall clock count as successes and raise the limit (`resilience.py:373`).

In the gateway: while any question is pending, a message of any user is taken for the
answer to the oldest, a stop or reset included (`gateway.py:782`); an answer that came
too late is acknowledged and lost; a task that was told to stop ends its handler, not
its agent, whose question then blocks the channel; two queries of a user that register
at once both run; a kill whose victim ends just before hits the thread that got its
identifier, perhaps another user's handler, which before or after its guarded part
leaves a dead entry in the registry (`gateway.py:285`). In the terminal: messages that
are appended while a stream is open are never drawn until the transcript is drawn
anew, a question to the user included, and an end of the turn that arrives then leaves
the interface loading (`ist_app.py:1507`); a request to stop that comes before the
loop has its task is lost (`bridge.py:125`). In the agent's graph: the runner hands in
no message, so on a thread that is kept the agent never sees the next query
(`runner.py:148`, `graph.py:474`); a review that failed twice leaves the gate's
counter used up, so that a later plain turn of the thread fails at the gate at once.
The review gate takes the last verdict anywhere in the thread for the review at hand
(`review_gate.py:72-101`): when a goal has sent the agent back, or in a later turn,
the agent can review again without the verifier, and its answer goes out. The gate's
own message says that without an explicit verdict no review report is allowed
(`review_gate.py:47-52`), and `docs/skill_authoring_standard.md:242` that it stops a
review without one. `VerdictBehindReview` says how far that is true: of the first
turn, until a goal's round, and there of reviews and verdicts of whole agent runs,
since the gate does not look at the order of the two calls either. In the probe: only
the older pipeline sets a run token, so probes of the engine's workers are not shared
(`run_case.py:391`). Its comment promises that a run asks the same question once and
rests its soundness on that (`run_case.py:187-192`); a call whose wait ran out asks
beside its leader, and after a leader's death its entry stays in the bucket without a
result, so that every later call of the run asks for itself (`run_case.py:413-416`).
`OneProbe` says so.

## 5. Fairness

`FairSpec` adds weak fairness of `Step`, the disjunction of what a live call
does next. The code justifies it: a node is straight-line code; a worker fork
returns by its wall clock (`resilience.py`, `call_bounded`), the device run by
its budget, the panel by an answer or a refusal. Nothing is assumed of calls
being made, of deaths, or of late forks. The runs set `AskAgain = FALSE`: a
worker that reports a decided case as undecided again would keep fan-out and
panel going, since the panel does not look at the round budget
(`CE/nodes/compile_phase.py:278`); in the code only langgraph's recursion limit
ends that loop. Where a case is decided once, `CallReturns` rests on the rounds of
each case, not on a global bound, and this is what the run shows.

In `ForkPool` each thread of the wave is weakly fair, and nothing else: forks may
hang for ever and the pool may start none. `ForkExecutor` waits with a timeout
and `acquire` looks again every second, so a thread that can go on does; weak
fairness of `Acquire` is enough because a permit that is free stays free until
some thread of a finite wave, each of which returns to the limiter a bounded
number of times, takes it.

In `DeviceBed` live processes take their calls' next steps, scripts their own, and
runners that were spawned start pytest; these are finitely many steps, so the fairness
asked is only that not all of them are put off for ever. No pytest need end, and no
clock is relied on except that a wait has a deadline (`run_and_wait`), which `Poll`
stands for. In `ProbeFlight` the device answers or its client gives up, and a call
goes on; the clock of a wait is not among the fair steps, so `CallsAnswered` shows
that no waiter needs it. In `ChatGateway` handlers go on, an agent ends or asks (its
graph has a limit of supersteps), and one that has its answer goes on; nobody need
answer. In `TranscriptFeed` only the worker thread of the bridge is fair: an agent may
never return. `AgentTurns` has no fairness: that its turns end follows from
`StepsWithinLimit` and the bounded attempts.

## 6. Proofs

The theorems hold for every value of the constants, sets, bounds and switches,
from the named assumption on the constants in each module and what the table
adds:

| theorem | states |
|---|---|
| `EngineInvariant` | `Spec => []EngineInv` |
| `TypeCorrect` | `Spec => []TypeOK` |
| `LegalMoves` | `Spec => MovesAreLegal` |
| `ReflowBudget` | `Spec => ReflowWithinBudget` |
| `OwnRunConsumed` | `Spec => []ConsumesOwnRun`, assuming `~DigestFaults` |
| `FlipsRecorded` | `Spec => []FlipRecorded` |
| `LifecycleImplemented` | `Spec => LedgerRefines`, assuming `~Zombies` |
| `VolumeLocked` | `Spec => []VolumeHoldsLocked`, assuming `Orderly`: `~Zombies`, `~ToolFaults` |
| `LateForksStayOut` | `Spec => []VolumeHoldsLocked`, assuming `~ToolFaults` and `MaxCrashes = 0` |
| `DeliveryVerified`, `DeliveryInLibrary` | `Spec => []AllPassVerified`, `[]AllPassInLibrary`, assuming `Faultless`: `Orderly` and `~DigestFaults`; and `Cases # {}` |
| `NoCaseInLimbo` | `Spec => []NoLimbo`, assuming `"transient" \notin Dispositions` |
| `PoolTypeCorrect` | `Spec => []TypeOK` of `ForkPool` |
| `PermitsAreCounted` | `Spec => PermitsCounted`, an invariant and an action property |
| `GrowthIsEarned` | `Spec => GrowthEarned`, an action property |
| `ForksExclude` | `Spec => []OneForkPerCall` |
| `BedTypeCorrect` | `Spec => []TypeOK` of `DeviceBed` |
| `RunsExclude` | `Spec => []OneRunAtATime`, assuming `ClaimedBed`: no fault but `setsid` and `epoch` |
| `OwnVerdicts`, `BedServes` | `Spec => []VerdictsOfOwnVolume`, `Spec => ServesVolumes`, assuming `SoundBed`: no fault but `setsid` |
| `ProbeTypeCorrect`, `ProbesOnce`, `FailuresAskedAgain` | `Spec => []TypeOK`, `[]OneProbe`, `FailuresNotServed` of `ProbeFlight` |
| `TurnsTypeCorrect`, `LimitEnough`, `RunsAreBounded`, `ReviewsVouched` | `Spec => []TypeOK`, `[]StepsWithinLimit`, `[]RunsBounded`, `[]VerdictBehindReview` of `AgentTurns` |
| `FeedTypeCorrect`, `RowsInOrder`, `LatestShown`, `NothingLost` | `Spec => []TypeOK`, `[]RenderedInOrder`, `[]SettlesOnLatest`, `[]NoGapsUnstreamed` of `TranscriptFeed` |
| `GatewayTypeCorrect`, `TasksAreAtWork`, `SessionsAreBounded`, `FirstAnswerStands` | `Spec => []TypeOK`, `[]RegisteredAreAtWork`, `[]TurnsPerSession`, `AnswerStands` of `ChatGateway` |

### The engine

`TypeOK` contains `HandedOn`: a node that reads a volume or a last run has been
handed one. `TypeOK` is not inductive. `Collect` puts what `got` holds into the
ledger, which is a legal move only if the case is dispatched; `Consume` and
`Collect` take the edge of the node they believe to be in. `Inside` adds both:
inside a node the checkpoint is at that node, and a fork works on a dispatched
case. `EngineInv == TypeOK /\ Inside` is inductive.

The argument: `AfterLeadsOn` says which nodes an edge can lead to,
`LeaveKeepsProcess` and `LeaveKeepsInv` that leaving any node keeps the
invariant if the node kept ledger, files and history well-formed, so that each
action's lemma is about the action alone. `NextKeepsInv` collects them. For
`LegalMoves`, `StatelessSteps` singles out the actions that touch the ledger's
states, each has a lemma, and `StepMoves` collects them; `ReflowBudget` uses the
same split. `OwnRunConsumed` strengthens `ConsumesOwnRun` with "a marker that is
not the initial one was consumed from a run".

**Runs.** `RunsInv` holds under every switch. `SlotInv` says which of the two volumes
a round runs and where its verdicts are read; `RoundInv` that the subset volume is of
no later round than the call, and that what is run is `Current`, made in this round,
or is the final full volume, when no case awaits a verdict; `SubsetInv` that the
subset volume of this round holds no passed case, unless its verdicts are being
consumed again after a death (`Repeated`); `FlipInv` that a passed case that failed in
the last run consumed is marked. The last is `FlipsRecorded`, and the first three are
why it is inductive: a case that is passed and in a volume again can only be there
for the final run, and verdicts consumed twice give each case what they gave it
before.

**Refinement.** `LifecycleImplemented` needs to know that a verdict "pass" read from a
last run is evidence for the sheet on disk, which is the one that is locked.
`StaleInv` says so of every volume that is current: of a case that awaits a verdict it
holds no sheet but the one on disk, and a pass in its last run is evidence for that;
of a case that has no sheet yet it holds none and its last run no verdict. Of a
volume or a last run that is not current nothing is said, which is why refused merges
and device runs that fail in silence do no harm here: they leave older files behind,
but only in the place of the volume that is run when no case awaits a verdict.
`OnlyVerdictsLock`, `OnlyVerdictsJudge` and `OnlyRunsShow` say which steps change a
lock, enter "passed" or add evidence, and `StepsMap` maps each step to a step of
`CaseLifecycle` or to none. Late forks are assumed away because with them the
statement is false, without any other fault: one writes between merge and verdict,
and its sheet is locked without a run.

**Delivery.** Three invariants, each over the one before. `OrderlyInv`: a case that
awaits a verdict has its sheet and the volume about to run holds it (`SheetsInv`,
`VolumeInv`), what is consumed is there (`VerdictInv`), and the marker is of an
earlier round unless a call that died had consumed the very run the checkpoint asks
for (`MarkerInv`). `LockInv`: a passed case's sheet is the locked one, and so is its
copy in a volume about to run, always there in the main one; it gives `VolumeLocked`.
`CallInv`: a run to be consumed, now or again, has a verdict for all its volume holds
(`RecordInv`); once all cases have passed, a call past its run has a main volume that
equals the locks and ran, and past writeback the locked sheets in the library
(`DeliveryInv`). They need each other: the merge refuses nothing that `LockInv` keeps,
and writeback reads the last run `SlotInv` names and skips a case only for a verdict
that `FlipInv` says was marked. `LockInv` is inductive also when device runs fail in
silence, `CallInv` is not.

The hypotheses are not for the proof's convenience. TLC finds `VolumeHoldsLocked`
violated with late forks and a death, and with refusals; `AllPassVerified` with any one
of the three faults; and `AllPassInLibrary` as well, with silent device failures in a
third call after a death. A batch must have a case for the two deliveries: an empty
one is all passed before anything is merged.

**Limbo.** `NoCaseInLimbo` is about a call that nothing interrupted and whose nodes
reported no error (`Undisturbed`), and needs nothing else of the tools, the device or
late forks. `LimboInv` says which states besides the terminal ones cases may have at
each node (`Open`). What it needs is that every case that awaits a verdict gets one,
which `FirstRunInv` shows: a refused merge or a failed run is not silent while the
round is young, because no older volume and no older last run of that round is there
(`UnmergedInv`, `UnrunInv`), so that what is handed to the bed holds all cases that
await a verdict (`AwaitedInv`). A failure called transient stays where it is by
design (`closing.py:113-115`), so the theorem asks for attributions that do not say
so.

**Late forks.** The part of `SheetsInv` that late forks leave true is `HeldInv`: a late
fork writes a sheet, it takes none away. It is inductive on its own, and
`LateForksStayOut` follows because the merge compares the sheets with the locks before
it copies them. The theorem asks that no call dies: a save locks whatever sheet is on
disk, and after a death right behind it the next call enters the run again with the
late fork's sheet locked and the earlier one in the volume.

### The fork pool

Permits and growth rest on two equations, inductive with `TypeOK`: the limiter's calls
are the holders (`Counted`) and its successes are those that the history `won` counted
by what was reported (`Remembered`). The lemmas `SuccessCounts` and `OverloadForgets`
carry what the limiter's methods do, `Holders` changes by one thread at a time, and
`NextMovesLimiter` says which step may admit a thread or raise the limit.

`OneForkPerCall` is not inductive: `Submit` may add a fork only because none of its
call is alive. `Current` says what a live fork of the
call being made can be: the present attempt, and then its thread waits for it or
has given it up and will not try again. That a fork is in the pool once (`Once`)
makes its end remove it. `PoolInv` joins these parts.

### The device bed

Three layers, each under the faults it survives. `PlaceInv`, under all: an
environment is claimed by a call that holds its process's mutex and is at work in
that environment. It needs nothing of the jump host, which is why no fault touches it,
and gives `BedTypeCorrect`.

`ExclusionInv`, for a bed that is claimed and searched (`ClaimedBed`): a call at work
holds the claim of its bed (`Holds`), a run is not there before its script has spawned
it, a script not before its call submits, and neither starts a pytest after that call
has gone (`RunPlaced`), and from its delivery on nothing runs where a call is but its
own run (`Excluded`). The last is what the search for a run left behind establishes,
and it stays true because a run starts only while its call waits with the claim. The
lock file does not appear in the argument, nor does the clock.

`OwnVolume`, when also the clock is read (`SoundBed`): what a call delivered stays
staged as long as it is at work, a run that started has read its own call's volume, a
log that is fresh for a call is its own, and a call hears at its end and of its own
run.

`BedServes` is the refinement. `ServiceState` says what the abstract variables are
under these invariants, `ServiceIdle` that steps which start, kill or end no pytest
and fetch nothing stutter, and `StartServes`, `EndServes` and `FetchServes` what the
others do: the start of a pytest is the beginning of a test, on a bed that is idle by
`Excluded`; its end, or its death at the hands of another call's search, is the end of
the test; and the fetch of verdicts is the answer, when there are any.

### The probe

`FlightInv` adds to `TypeOK` that who has not called yet has left nothing behind
(`Fresh`), that who leads without a failure while the run lasts is the entry of the
bucket (`Standing`), that an entry that holds a failure, or is about to, is in no
bucket (`Removed`), that a leader has an answer before its result is in the entry and
that before its event (`Stepwise`), and that who asks without leading is excused
(`Alone`): it woke to an event over no result, which only a death leaves. A removal
that hits another leader's entry would break `Standing`; it happens only after the run
was cleared, which `OneProbe` excepts.

### The agent's turns

Supersteps are paid for: `StepsPaid` bounds them by the depth of the node, two for
each use of the review's counter and three for each of the goal's; `RunsPaid` does
the same for agent runs. Since the counters only grow and are bounded, the limit
`max(25, 4 * cap + 20)` is enough for every cap. `Vouched` carries what the gates
saw to the end of the turn. `FirstVerdict` says why a first turn's verdict is not
stale before a goal's round: the review gate sends back only when there is no verdict,
so there is none when an agent run begins.

### The transcript

`Known` says of what is shown, and of each snapshot on its way that is newer, that
it is a cut of the reducer's present history: exactly the messages made up to its
revision (`Cut`). From it a delivery appends what lies between two cuts, so rows
stay in order (`Drawn`). `Carried` says that the reducer's last state is shown or on
its way; a reset keeps both because the revision is not set back. All this is up to
the moment when another conversation was resumed, from which on it is false.
`NothingLost` adds `Whole`, of conversations that have not streamed: nothing newer on
its way is of an open stream, and every message of what is shown has its row. With
`Cut` and `Carried` that is every message of the reducer when all is delivered.

### The gateway

`TakenOut` says that whoever was cancelled or is about to be killed is out of the
registry, and it stays so because a task is entered once; whoever was thrown at is out
of it as well, or is `stray`, hit for the identifier of its thread. With it
`RegisteredAreAtWork` is inductive, although `Finish` removes the entry by its user's
name and may remove another's: only a stray handler leaves its entry behind.

`SessionsAreBounded` counts: the messages of a session are at most the turns its
record shows (`Held`), for the record in the registry of sessions as well as for the
one a query has looked up and not yet counted. The second survives a reset and the
cleaner because one query at a time is between look-up and count, and a session that
was replaced is looked up no more, so that only the holder can add to it.

`Listed` says that the list of pending questions is injective and that its range is
the agents that wait; a question is listed when it is asked and taken off by an
answer, each by position, so both keep it (`PendingInv`).

### Only model-checked

Every safety property of the passing runs is a theorem. What stays with TLC are the
liveness properties (`CallReturns`, `AllReturn`, `CallsReturn`, `CallsAnswered`,
`CancelFrees`, `HandlersReturn`), because fairness and ENABLED are beyond the prover.

## 7. What is not modelled

* What is in a sheet, a brief, a fact, an excerpt or a device's output; forks
  and the bed choose their results.
* `.frozen.json`: `attribute` looks for it where the digest never puts it, so the
  branch is never taken.
* The retries inside a device run: only that the bed may stay busy through all
  of them.
* Two calls on the same thread at once: one process, one tool call at a time.
* Older repair directories: each round has its own, "sub" is the youngest, and
  nothing reads an older one.
* `ReadBack` of an attribution from a round before last over two volumes needs
  three rounds; the model has it, the runs' bound does not reach it.

* In the pool: the clock (a wall clock may end at any moment), how long a thread
  backs off, the model calls inside a fork, `history`, and the pool of threads of
  the wave itself (`ceiling` threads; more cases than that start later).
* The summary a fork writes for its caller: only the older pipeline asks for one.

* On the bed: what a log says, the digest's retries and summaries, the parsing of
  logs, the database of results, health of environments (any answer may be seen),
  and time: deadlines may pass, and a run left behind may last for ever.
* In the probe: the commands themselves. Different commands have different entries
  and do not interact.
* Of the agent: everything inside its node. Its model chooses, and its tools are
  modelled where they keep a protocol. `--resume` of a checkpoint in the middle of a
  node is not used by the programs modelled.
* In the terminal: layout, keys, cards updated in place, thinking lines, usage and
  phases; the queue of typed messages; the session of an open question.
* In the gateway: the queue of received files, environment variables set for a user
  (`gateway.py:37-40`), the process-wide event bus, and what is sent back.

The larger part of the repository's lines is left out for a reason that will stay:
rendering, parsing and formatting of sheets and documents, wrappers of files and
processes, the log server and the scripts transform data or show it and have no
protocol whose interleavings could go wrong.

## 8. Plan

Done: the engine with its abstract specification, the pool, the bed, the probe, the
agent's turns with both gates, the transcript, the gateway; their instances and
proofs; and two refinements, of `CaseLifecycle` and of `BedService`.

Left, in this order:

1. `Attribution`: two forks read, change and rewrite one file; abstract: every
   submitted disposition is on file.
2. `PanelBridge`: batches of questions, refusal in a later batch, skipped
   questions; pure operators checked against a reference over bounded inputs.
3. Sessions of the web server: expiry and concurrent requests.
4. `MemoryStore`: extraction queue and consolidation over a crash.
5. The loop guard's window of tool calls.

Theorems to add: abstract specifications, with their refinements, of the probe (one
answer per question and run) and of the transcript (a list of rows that only grows).
