------------------------------ MODULE ChatGateway ------------------------------
(***************************************************************************)
(* The WeCom gateway: one thread for each message that comes in, the       *)
(* registry of running tasks, the sessions, and the questions an agent     *)
(* puts through ask_user. A message that is a query has an agent thread of *)
(* its own, whose events its handler drains; a handler is stopped by a     *)
(* flag and by an exception thrown into its thread, the agent is not. The  *)
(* exception is thrown at the identifier of the thread, which the system   *)
(* gives to a new thread once the old one has ended.                       *)
(* Each message is named, and names its task, its agent, the agent's       *)
(* question, and the session it opens.                                     *)
(***************************************************************************)
EXTENDS Naturals, SequencesExt

CONSTANTS
  Msgs,      \* the messages that come in
  Users,
  None,
  MaxTurns,  \* MAX_TURNS, the queries of one session
  Scripts    \* what the messages may be, and who may send them

Kinds == {"query", "file", "stop", "reset"}

ASSUME GatewayAssumption ==
  /\ None \notin Msgs
  /\ MaxTurns \in Nat \ {0}
  /\ Scripts \subseteq [Msgs -> [kind : Kinds, user : Users]]

VARIABLES
  pc,        \* the stage of each message's handler
  ident,     \* the identifier of each handler's thread
  sent,      \* what each message is, and who sends it
  target,    \* the question a message is taken to answer
  victim,    \* the task a handler has taken out of the registry to kill it
  seen,      \* the session a handler has looked up
  tid,       \* the session (thread_id) a query runs in
  sess,      \* _sessions: session and turn count of each user
  registry,  \* _task_registry: the task of each user
  cancel,    \* tasks whose cancel event is set
  thrown,    \* handlers with a SystemExit thrown and not yet raised
  stray,     \* history: handlers hit by a kill of another one
  agent,     \* the agent thread of each query
  pending,   \* _PENDING of ask_user: agents with a question, oldest first
  answer     \* the message whose text answered an agent's question

sessions == <<seen, tid, sess>>
tasks == <<victim, registry, cancel, thrown, stray>>
questions == <<agent, pending, answer>>
vars == <<pc, ident, sent, target, sessions, tasks, questions>>

Sessions == [tid : Msgs, turns : 1 .. MaxTurns]
Registered == {"start", "drain", "finish"}
Stages == {"away", "route", "answer", "pop", "kill", "strike", "insert", "reset",
           "sess", "turn", "done"} \cup Registered

(* Types; the locked part of a lookup is entered by one handler at a time, *)
(* and _PENDING lists exactly the agents that wait, each once.             *)
TypeOK ==
  /\ pc \in [Msgs -> Stages]
  /\ sent \in Scripts /\ ident \in [Msgs -> Msgs]
  /\ target \in [Msgs -> Msgs \cup {None}]
  /\ victim \in [Msgs -> Msgs \cup {None}]
  /\ seen \in [Msgs -> Sessions \cup {None}]
  /\ tid \in [Msgs -> Msgs \cup {None}]
  /\ sess \in [Users -> Sessions \cup {None}]
  /\ registry \in [Users -> Msgs \cup {None}]
  /\ cancel \subseteq Msgs /\ thrown \subseteq Msgs /\ stray \subseteq Msgs
  /\ agent \in [Msgs -> {"none", "run", "asking", "done"}]
  /\ answer \in [Msgs -> Msgs \cup {None}]
  /\ Cardinality({m \in Msgs : pc[m] = "turn"}) <= 1
  /\ pending \in Seq(Msgs) /\ IsInjective(pending)
  /\ Range(pending) = {m \in Msgs : agent[m] = "asking"}

Init ==
  /\ pc = [m \in Msgs |-> "away"]
  /\ ident = [m \in Msgs |-> m]
  /\ sent \in Scripts
  /\ target = [m \in Msgs |-> None]
  /\ victim = [m \in Msgs |-> None]
  /\ seen = [m \in Msgs |-> None]
  /\ tid = [m \in Msgs |-> None]
  /\ sess = [u \in Users |-> None]
  /\ registry = [u \in Users |-> None]
  /\ cancel = {} /\ thrown = {} /\ stray = {}
  /\ agent = [m \in Msgs |-> "none"]
  /\ pending = <<>>
  /\ answer = [m \in Msgs |-> None]

-----------------------------------------------------------------------------
(* A message comes in and is routed. Definitions named Mutant... are       *)
(* faulty variants that no definition uses.                                *)

(* A handler takes a step of its own; a thrown exception comes first.      *)
At(m, s) == pc[m] = s /\ m \notin thrown
Goto(m, s) == pc' = [pc EXCEPT ![m] = s]

Alive(m) == pc[m] \notin {"away", "done"}

(* A new thread has an identifier of its own, or that of a thread that     *)
(* ended. Files go to a query without a look at the pending questions.     *)
Arrive(m) ==
  /\ pc[m] = "away"
  /\ \E i \in {m} \cup {ident[q] : q \in {r \in Msgs : pc[r] = "done"}} :
       /\ \A q \in Msgs : Alive(q) => ident[q] # i
       /\ ident' = [ident EXCEPT ![m] = i]
  /\ Goto(m, IF sent[m].kind = "file" THEN "sess" ELSE "route")
  /\ UNCHANGED <<sent, target, sessions, tasks, questions>>

(* While any question is pending, whosever it is, a message of any kind is *)
(* the answer to the oldest one.                                           *)
Route(m) ==
  /\ At(m, "route")
  /\ IF pending # <<>>
     THEN target' = [target EXCEPT ![m] = Head(pending)] /\ Goto(m, "answer")
     ELSE Goto(m, IF sent[m].kind = "query" THEN "sess" ELSE "pop") /\ UNCHANGED target
  /\ UNCHANGED <<ident, sent, sessions, tasks, questions>>

(* submit_answers takes an answer to a question that is still listed and   *)
(* has none; the sender is thanked in either case.                         *)
MutantAccepts(q) == agent[q] = "asking"
Accepts(q) == agent[q] = "asking" /\ answer[q] = None
SubmitAnswer(m) ==
  /\ At(m, "answer")
  /\ answer' = IF Accepts(target[m]) THEN [answer EXCEPT ![target[m]] = m] ELSE answer
  /\ target' = [target EXCEPT ![m] = None]
  /\ Goto(m, "done")
  /\ UNCHANGED <<ident, sent, sessions, tasks, agent, pending>>

-----------------------------------------------------------------------------
(* Sessions.                                                               *)

NewSession(m) ==
  /\ sess' = [sess EXCEPT ![sent[m].user] = [tid |-> m, turns |-> 1]]
  /\ tid' = [tid EXCEPT ![m] = m]

(* _get_thread_id, under _sessions_lock.                                   *)
LookUp(m) ==
  /\ At(m, "sess")
  /\ \A q \in Msgs : pc[q] # "turn"
  /\ IF sess[sent[m].user] = None
     THEN NewSession(m) /\ Goto(m, "pop") /\ UNCHANGED seen
     ELSE /\ seen' = [seen EXCEPT ![m] = sess[sent[m].user]]
          /\ Goto(m, "turn")
          /\ UNCHANGED <<sess, tid>>
  /\ UNCHANGED <<ident, sent, target, tasks, questions>>

(* Idle times are long: meanwhile no handler of the user is on its way     *)
(* into or out of the registry.                                            *)
Idle(u, others) ==
  /\ registry[u] = None
  /\ \A q \in others : sent[q].user = u => pc[q] \in {"away", "drain", "done"}

(* A session that was idle is replaced unless its user has a task, one     *)
(* with all its turns taken always. Otherwise the turn is counted in the   *)
(* session that was looked up, which a reset may have replaced meanwhile.  *)
MutantUsedUp(s) == s.turns > MaxTurns
UsedUp(s) == s.turns >= MaxTurns
TakeTurn(m) ==
  LET s == seen[m]  u == sent[m].user
  IN /\ At(m, "turn")
     /\ \/ (UsedUp(s) \/ Idle(u, Msgs \ {m})) /\ NewSession(m)
        \/ /\ ~UsedUp(s)
           /\ tid' = [tid EXCEPT ![m] = s.tid]
           /\ sess' = IF sess[u] # None /\ sess[u].tid = s.tid
                      THEN [sess EXCEPT ![u].turns = s.turns + 1] ELSE sess
     /\ seen' = [seen EXCEPT ![m] = None]
     /\ Goto(m, "pop")
     /\ UNCHANGED <<ident, sent, target, tasks, questions>>

(* The cleaner drops a session that was idle for long, under the lock,     *)
(* unless its user has a task.                                             *)
Clean(u) ==
  /\ sess[u] # None /\ Idle(u, Msgs)
  /\ \A q \in Msgs : pc[q] # "turn"
  /\ sess' = [sess EXCEPT ![u] = None]
  /\ UNCHANGED <<pc, ident, sent, target, seen, tid, tasks, questions>>

(* "New session" replaces the session without the lock.                    *)
Reset(m) ==
  /\ At(m, "reset")
  /\ NewSession(m)
  /\ Goto(m, "done")
  /\ UNCHANGED <<ident, sent, target, seen, tasks, questions>>

-----------------------------------------------------------------------------
(* Tasks: a stop, a reset and a new query each take the user's task out of *)
(* the registry and kill it.                                               *)

PopTask(m) ==
  /\ At(m, "pop")
  /\ victim' = [victim EXCEPT ![m] = registry[sent[m].user]]
  /\ registry' = [registry EXCEPT ![sent[m].user] = None]
  /\ Goto(m, "kill")
  /\ UNCHANGED <<ident, sent, target, sessions, cancel, thrown, stray, questions>>

AfterKill(m) ==
  CASE sent[m].kind = "stop" -> "done" [] sent[m].kind = "reset" -> "reset" [] OTHER -> "insert"

SetCancel(m) ==
  /\ At(m, "kill")
  /\ cancel' = cancel \cup ({victim[m]} \ {None})
  /\ Goto(m, IF victim[m] = None THEN AfterKill(m) ELSE "strike")
  /\ UNCHANGED <<ident, sent, target, sessions, victim, registry, thrown, stray, questions>>

(* The exception reaches the thread that has the identifier now: the       *)
(* victim's if it is still alive, else perhaps a handler of another user.  *)
Hit(q) == {r \in Msgs : Alive(r) /\ ident[r] = ident[q]}
Strike(m) ==
  /\ At(m, "strike")
  /\ thrown' = thrown \cup Hit(victim[m])
  /\ stray' = stray \cup (Hit(victim[m]) \ {victim[m]})
  /\ victim' = [victim EXCEPT ![m] = None]
  /\ Goto(m, AfterKill(m))
  /\ UNCHANGED <<ident, sent, target, sessions, registry, cancel, questions>>

InsertTask(m) ==
  /\ At(m, "insert")
  /\ registry' = [registry EXCEPT ![sent[m].user] = m]
  /\ Goto(m, "start")
  /\ UNCHANGED <<ident, sent, target, sessions, victim, cancel, thrown, stray, questions>>

(* Only the drain catches the exception; raised before or after it, it     *)
(* ends the handler wherever it is, and releases the lock it has.          *)
Raise(m) ==
  /\ m \in thrown
  /\ thrown' = thrown \ {m}
  /\ Goto(m, IF pc[m] = "drain" THEN "finish" ELSE "done")
  /\ target' = [target EXCEPT ![m] = None]
  /\ victim' = [victim EXCEPT ![m] = None]
  /\ seen' = [seen EXCEPT ![m] = None]
  /\ UNCHANGED <<ident, sent, tid, sess, registry, cancel, stray, questions>>

-----------------------------------------------------------------------------
(* The query's own work.                                                   *)

Start(m) ==
  /\ At(m, "start")
  /\ agent' = [agent EXCEPT ![m] = "run"]
  /\ Goto(m, "drain")
  /\ UNCHANGED <<ident, sent, target, sessions, tasks, pending, answer>>

(* The drain ends with the agent, at an error event of an agent that may   *)
(* go on, or at the first event, a heartbeat at the latest, after the      *)
(* cancel event was set.                                                   *)
MutantEnded(m) == FALSE
Ended(m) == agent[m] = "done"
Drain(m) ==
  /\ At(m, "drain")
  /\ Ended(m) \/ agent[m] = "run" \/ m \in cancel
  /\ Goto(m, "finish")
  /\ UNCHANGED <<ident, sent, target, sessions, tasks, questions>>

(* _deregister_task removes whatever task its user has.                    *)
MutantDeregistered(u) == registry
Deregistered(u) == [registry EXCEPT ![u] = None]
Finish(m) ==
  /\ At(m, "finish")
  /\ registry' = Deregistered(sent[m].user)
  /\ Goto(m, "done")
  /\ UNCHANGED <<ident, sent, target, sessions, victim, cancel, thrown, stray, questions>>

(* The agent asks at most once here, and waits without a limit.            *)
Ask(m) ==
  /\ agent[m] = "run" /\ answer[m] = None
  /\ agent' = [agent EXCEPT ![m] = "asking"]
  /\ pending' = Append(pending, m)
  /\ UNCHANGED <<pc, ident, sent, target, sessions, tasks, answer>>

MutantUnlisted(m) == pending
Unlisted(m) == RemoveAt(pending, CHOOSE i \in DOMAIN pending : pending[i] = m)
GoOn(m) ==
  /\ agent[m] = "asking" /\ answer[m] # None
  /\ agent' = [agent EXCEPT ![m] = "run"]
  /\ pending' = Unlisted(m)
  /\ UNCHANGED <<pc, ident, sent, target, sessions, tasks, answer>>

AgentEnds(m) ==
  /\ agent[m] = "run"
  /\ agent' = [agent EXCEPT ![m] = "done"]
  /\ UNCHANGED <<pc, ident, sent, target, sessions, tasks, pending, answer>>

-----------------------------------------------------------------------------
Handle(m) ==
  \/ Route(m) \/ SubmitAnswer(m)
  \/ LookUp(m) \/ TakeTurn(m) \/ Reset(m)
  \/ PopTask(m) \/ SetCancel(m) \/ Strike(m) \/ InsertTask(m) \/ Raise(m)
  \/ Start(m) \/ Drain(m) \/ Finish(m)

Next ==
  \/ \E m \in Msgs : Arrive(m) \/ Handle(m) \/ Ask(m) \/ GoOn(m) \/ AgentEnds(m)
  \/ \E u \in Users : Clean(u)

Spec == Init /\ [][Next]_vars

(* Handlers go on, the agent ends or asks (its graph has a recursion       *)
(* limit), and an agent that has its answer goes on.                       *)
FairSpec ==
  /\ Spec
  /\ \A m \in Msgs : WF_vars(Handle(m)) /\ WF_vars(AgentEnds(m)) /\ WF_vars(GoOn(m))

-----------------------------------------------------------------------------
(* Properties.                                                             *)

(* A task in the registry belongs to its user, nobody has told it to stop, *)
(* and its handler is at work on it, however registrations, stops and ends *)
(* interleave. An entry outlives its handler, and keeps its user's session *)
(* from being cleaned, only where the handler fell to a kill of another    *)
(* task, whose thread had ended and left its identifier to this one.       *)
RegisteredAreAtWork ==
  \A u \in Users :
    LET m == registry[u]
    IN m # None =>
         /\ sent[m].user = u /\ m \notin cancel
         /\ pc[m] \in Registered \/ (pc[m] = "done" /\ m \in stray)

(* Of messages that race to answer a question the first one counts: an     *)
(* answer that was taken is never replaced (submit_answers, __init__.py:64).*)
AnswerStands == [][\A q \in Msgs : answer[q] # None => answer'[q] = answer[q]]_vars

(* No session takes more than MAX_TURNS turns, the reset that opened it    *)
(* included, whatever resets without the lock and clean-ups do.            *)
TurnsPerSession ==
  \A t \in Msgs : Cardinality({m \in Msgs : tid[m] = t}) <= MaxTurns

(* Every handler returns, unless its agent waits for an answer and nobody  *)
(* has stopped the task.                                                   *)
HandlersReturn ==
  \A m \in Msgs :
    pc[m] \in {"route", "sess"} ~> pc[m] = "done" \/ (agent[m] = "asking" /\ m \notin cancel)
=============================================================================
