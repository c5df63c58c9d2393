---------------------------- MODULE TranscriptFeed ----------------------------
(***************************************************************************)
(* What a turn of the terminal shows. The agent's thread, the thread of    *)
(* the turn's event loop and the tailer of the forks' log change one       *)
(* reducer, each under its lock, and hand the snapshot they made to the    *)
(* user interface after they let go of it, so that snapshots overtake each *)
(* other. The interface keeps the last snapshot it took, and renders what  *)
(* the next one has beyond it. A message is named by the revision at which *)
(* it was appended. Events that change neither the messages nor the stream *)
(* nor the status (phases, usage, updates of a card in place) are left     *)
(* out.                                                                    *)
(***************************************************************************)
EXTENDS Naturals, Sequences

CONSTANTS
  MaxTurns,  \* bound: turns
  MaxEvents  \* bound: model calls, tokens, blocks and fork cards

ASSUME FeedAssumption == MaxTurns \in Nat /\ MaxEvents \in Nat

VARIABLES
  reducer,  \* messages, open stream, status and revision
  out,      \* the snapshot each thread has made and not yet delivered
  shown,    \* _prev_snapshot, with _last_snapshot_rev
  rows,     \* the messages in the transcript, in its order
  loading,  \* _is_loading
  turn,     \* turns submitted
  loop,     \* the stage of the turn's event loop
  cancel,   \* whether the turn was asked to stop, and its task told
  agent,    \* the stage of each turn's agent thread
  tokens,   \* tokens of the stream the loop has not yet sent on
  failure,  \* the error that ended the graph
  events,   \* calls, tokens, blocks and cards made
  bridge,   \* the first conversation's, the next turn's, or the second's
  streamed  \* history: the turn has streamed

loopVars == <<loop, cancel, tokens, failure>>
uiVars == <<shown, rows, loading>>
turnVars == <<turn, bridge>>
vars == <<reducer, out, uiVars, loopVars, agent, turnVars, events, streamed>>

Loop == 0
Agents == 1..MaxTurns
Tailer == MaxTurns + 1
Threads == 0..MaxTurns + 1

Snapshots ==
  [messages : Seq(Nat), streaming : BOOLEAN,
   status : {"idle", "running", "done", "error"}, rev : Nat]

Empty == [messages |-> <<>>, streaming |-> FALSE, status |-> "idle", rev |-> 0]

Free(th) == out[th] = {}
Quiet == \A th \in Threads : Free(th)

\* Types; the loop's thread ends only after it delivered its last snapshot
\* (bridge.py:209-239).
TypeOK ==
  /\ reducer \in Snapshots /\ shown \in Snapshots
  /\ out \in [Threads -> SUBSET Snapshots]
  /\ \A th \in Threads : \A s, r \in out[th] : s = r
  /\ rows \in Seq(Nat) /\ loading \in BOOLEAN
  /\ turn \in 0..MaxTurns /\ events \in 0..MaxEvents
  /\ loop \in {"idle", "begin", "pump", "failed", "mark", "leave"}
  /\ cancel \in {"no", "asked", "told"}
  /\ agent \in [Agents -> {"off", "between", "call", "over"}]
  /\ tokens \in Nat /\ failure \in {"none", "transient", "fatal"}
  /\ bridge \in {"first", "next", "second"} /\ streamed \in BOOLEAN
  /\ loop = "idle" => Free(Loop)

Init ==
  /\ reducer = Empty /\ shown = Empty
  /\ out = [th \in Threads |-> {}]
  /\ rows = <<>> /\ loading = FALSE
  /\ turn = 0 /\ events = 0 /\ bridge = "first"
  /\ loop = "idle" /\ cancel = "no" /\ tokens = 0 /\ failure = "none"
  /\ agent = [t \in Agents |-> "off"]
  /\ streamed = FALSE

-----------------------------------------------------------------------------
(* The reducer. Definitions named Mutant... are faulty variants that no    *)
(* definition uses.                                                        *)

More == Append(reducer.messages, reducer.rev + 1)

\* dispatch, set_run_status: the change and its snapshot are one, the
\* delivery is another step of the thread.
Dispatch(th, messages, streaming, status) ==
  /\ Free(th)
  /\ reducer' = [messages |-> messages, streaming |-> streaming,
                 status |-> status, rev |-> reducer.rev + 1]
  /\ out' = [out EXCEPT ![th] = {reducer'}]

\* The revision is not set back, a reducer of another bridge starts anew.
MutantCleared == [Empty EXCEPT !.rev = 1]
Cleared == [Empty EXCEPT !.rev = IF bridge = "next" THEN 1 ELSE reducer.rev + 1]

-----------------------------------------------------------------------------
(* The interface: each handler and each delivery holds its lock.           *)

MutantStale(s) == FALSE
Stale(s) == s.rev <= shown.rev

MutantNews(s) == SubSeq(s.messages, Len(shown.messages) + 2, Len(s.messages))
News(s) == SubSeq(s.messages, Len(shown.messages) + 1, Len(s.messages))

Ends(s) == s.status \in {"done", "error"} /\ s.status # shown.status

\* While a stream is open only its line is drawn: neither the new messages
\* nor the end of the turn.
Deliver(th) ==
  /\ \E s \in out[th] :
       IF Stale(s)
         THEN UNCHANGED uiVars
         ELSE /\ shown' = s
              /\ rows' = IF s.streaming THEN rows ELSE rows \o News(s)
              /\ loading' = (loading /\ (s.streaming \/ ~Ends(s)))
  /\ out' = [out EXCEPT ![th] = {}]
  /\ UNCHANGED <<reducer, loopVars, agent, turnVars, events, streamed>>

\* The reducer's reset delivers its own snapshot within the handler.
Submit ==
  /\ turn < MaxTurns
  /\ loop = "idle"
  /\ turn' = turn + 1
  /\ reducer' = Cleared
  /\ shown' = IF Stale(reducer') THEN shown ELSE reducer'
  /\ loading' = TRUE
  /\ loop' = "begin" /\ cancel' = "no" /\ tokens' = 0 /\ failure' = "none"
  /\ bridge' = IF bridge = "next" THEN "second" ELSE bridge
  /\ streamed' = FALSE
  /\ UNCHANGED <<out, rows, agent, events>>

\* The worker of a turn that was told to stop is still there.
SubmitBusy ==
  /\ loop # "idle"
  /\ loading' = TRUE
  /\ UNCHANGED <<reducer, out, shown, rows, loopVars, agent, turnVars, events, streamed>>

\* Before the loop has made its task, the request to stop is only noted.
Cancel ==
  /\ loading
  /\ loading' = FALSE
  /\ cancel' = CASE loop = "pump" -> "told"
                 [] loop \in {"begin", "failed", "mark"} /\ cancel = "no" -> "asked"
                 [] OTHER -> cancel
  /\ UNCHANGED <<reducer, out, shown, rows, loop, tokens, failure, agent,
                 turnVars, events, streamed>>

\* Ctrl+O draws the transcript anew from the last snapshot.
Expand ==
  /\ shown.messages # <<>>
  /\ rows' = shown.messages
  /\ UNCHANGED <<reducer, out, shown, loading, loopVars, agent, turnVars,
                 events, streamed>>

\* Another conversation is resumed, once, when the threads of the turns are
\* gone: the bridge is dropped.
Switch ==
  /\ bridge = "first" /\ loop = "idle" /\ turn > 0
  /\ Quiet /\ \A t \in Agents : agent[t] \in {"off", "over"}
  /\ bridge' = "next"
  /\ UNCHANGED <<reducer, out, uiVars, loopVars, agent, turn, events, streamed>>

-----------------------------------------------------------------------------
(* The loop's thread.                                                      *)

Begin ==
  /\ loop = "begin"
  /\ Dispatch(Loop, reducer.messages, reducer.streaming, "running")
  /\ loop' = "pump"
  /\ agent' = [agent EXCEPT ![turn] = "between"]
  /\ UNCHANGED <<cancel, tokens, failure, events, uiVars, turnVars, streamed>>

Pump ==
  /\ loop = "pump" /\ tokens > 0
  /\ Dispatch(Loop, reducer.messages, TRUE, reducer.status)
  /\ tokens' = tokens - 1
  /\ streamed' = TRUE
  /\ UNCHANGED <<loop, cancel, failure, uiVars, agent, turnVars, events>>

GraphOver == agent[turn] = "over" /\ tokens = 0

\* The error of the graph; one that passes is not shown.
Fail ==
  /\ loop = "pump" /\ GraphOver /\ failure # "none" /\ cancel # "told"
  /\ Dispatch(Loop, IF failure = "fatal" THEN More ELSE reducer.messages,
              reducer.streaming, reducer.status)
  /\ loop' = "failed"
  /\ UNCHANGED <<cancel, tokens, failure, uiVars, agent, turnVars, events, streamed>>

MutantRunOver == GraphOver /\ failure = "none"
RunOver == cancel = "told" \/ (GraphOver /\ failure = "none")

\* A task that was told to stop ends at once: the agent's thread goes on.
RunEnd ==
  /\ loop = "failed" \/ (loop = "pump" /\ RunOver)
  /\ Dispatch(Loop, reducer.messages, reducer.streaming, "done")
  /\ loop' = "mark"
  /\ tokens' = 0
  /\ UNCHANGED <<cancel, failure, uiVars, agent, turnVars, events, streamed>>

Mark ==
  /\ loop = "mark"
  /\ IF failure = "fatal" /\ cancel = "no"
       THEN Dispatch(Loop, More, reducer.streaming, "error")
       ELSE Dispatch(Loop, reducer.messages, reducer.streaming, "done")
  /\ loop' = "leave"
  /\ UNCHANGED <<cancel, tokens, failure, uiVars, agent, turnVars, events, streamed>>

MutantLeaves == loop = "leave"
Leaves == loop = "leave" /\ Free(Loop)

Leave ==
  /\ Leaves
  /\ loop' = "idle"
  /\ UNCHANGED <<reducer, out, uiVars, cancel, tokens, failure, agent,
                 turnVars, events, streamed>>

-----------------------------------------------------------------------------
(* The agent's thread, which outlives a turn that was told to stop, and    *)
(* the tailer.                                                             *)

Another == events < MaxEvents /\ events' = events + 1

StartCall(t) ==
  /\ agent[t] = "between" /\ Free(t) /\ Another
  /\ agent' = [agent EXCEPT ![t] = "call"]
  /\ UNCHANGED <<reducer, out, uiVars, loopVars, turnVars, streamed>>

\* Tokens reach the bus through the loop; what follows them does not.
Token(t) ==
  /\ agent[t] = "call" /\ Free(t) /\ Another
  /\ t = turn /\ loop = "pump" /\ cancel # "told"
  /\ tokens' = tokens + 1
  /\ UNCHANGED <<reducer, out, uiVars, loop, cancel, failure, agent, turnVars,
                 streamed>>

\* A block of thoughts, a tool's call or result, evidence, a question.
Block(t) ==
  /\ agent[t] \in {"between", "call"} /\ Another
  /\ Dispatch(t, More, reducer.streaming, reducer.status)
  /\ UNCHANGED <<uiVars, loopVars, agent, turnVars, streamed>>

EndCall(t) ==
  /\ agent[t] = "call"
  /\ \E messages \in {More, reducer.messages} :
       Dispatch(t, messages, FALSE, reducer.status)
  /\ agent' = [agent EXCEPT ![t] = "between"]
  /\ UNCHANGED <<uiVars, loopVars, turnVars, events, streamed>>

\* The agent returns, or an error ends it, in the middle of a stream too.
Finish(t) ==
  /\ Free(t)
  /\ \/ agent[t] = "between" /\ UNCHANGED failure
     \/ /\ agent[t] = "call"
        /\ IF t = turn /\ cancel # "told"
             THEN failure' \in {"none", "transient", "fatal"}
             ELSE UNCHANGED failure
  /\ agent' = [agent EXCEPT ![t] = "over"]
  /\ UNCHANGED <<reducer, out, uiVars, loop, cancel, tokens, turnVars, events,
                 streamed>>

Card ==
  /\ turn > 0 /\ Another
  /\ Dispatch(Tailer, More, reducer.streaming, reducer.status)
  /\ UNCHANGED <<uiVars, loopVars, agent, turnVars, streamed>>

-----------------------------------------------------------------------------

LoopWork == Begin \/ Pump \/ Fail \/ RunEnd \/ Mark \/ Leave \/ Deliver(Loop)

Next ==
  \/ Submit \/ SubmitBusy \/ Cancel \/ Expand \/ Switch
  \/ Begin \/ Pump \/ Fail \/ RunEnd \/ Mark \/ Leave
  \/ \E t \in Agents :
       StartCall(t) \/ Token(t) \/ Block(t) \/ EndCall(t) \/ Finish(t)
  \/ Card
  \/ \E th \in Threads : Deliver(th)

Spec == Init /\ [][Next]_vars

\* Nothing is asked of the agent, which may never return.
FairSpec == Spec /\ WF_vars(LoopWork)

-----------------------------------------------------------------------------
(* Properties.                                                             *)

\* However deliveries overtake each other, a message gets one row, and rows
\* stand in the order the messages were made in (ist_app.py:1484-1487).
\* Once another conversation was resumed ResumedShown says what is left.
Ordered(q) == \A i, j \in 1..Len(q) : i < j => q[i] < q[j]
RenderedInOrder == bridge # "second" => Ordered(rows)

\* When nothing is on its way the interface is at the reducer's last state,
\* across turns and resets (reducer.py:152-156).
SettlesOnLatest == Quiet /\ bridge # "second" => shown = reducer

\* The same of a conversation that was resumed.
ResumedShown == Quiet /\ bridge = "second" => shown = reducer

\* As long as a turn has not streamed, no message is lost on the way
\* (reducer.py:5-8).
InRows(m) == \E i \in 1..Len(rows) : rows[i] = m
NoGapsUnstreamed ==
  Quiet /\ ~streamed /\ bridge # "second" =>
    \A i \in 1..Len(reducer.messages) : InRows(reducer.messages[i])

\* A turn whose task was told to stop makes room for the next, whatever its
\* agent does (bridge.py:4-9).
CancelFrees == cancel = "told" /\ loop # "idle" ~> loop = "idle"
=============================================================================
