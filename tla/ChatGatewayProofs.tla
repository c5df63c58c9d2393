-------------------------- MODULE ChatGatewayProofs --------------------------
(***************************************************************************)
(* For any number of messages and users.                                   *)
(* The registry of running tasks: who is registered is at work and untold  *)
(* to stop. A task leaves the registry before anybody cancels or kills it, *)
(* and is entered only once, so what is cancelled or about to be killed is *)
(* never registered again. Whom a kill hits is the task it was meant for,  *)
(* which has left the registry, or is recorded as stray.                   *)
(* The sessions: none takes more turns than it may. The questions: each    *)
(* agent that waits is listed once.                                        *)
(***************************************************************************)
EXTENDS ChatGateway, FiniteSetTheorems, SequenceTheorems, TLAPS

(* The types this argument needs.                                          *)
TaskTypes ==
  /\ pc \in [Msgs -> Stages]
  /\ sent \in [Msgs -> [kind : Kinds, user : Users]]
  /\ victim \in [Msgs -> Msgs \cup {None}]
  /\ registry \in [Users -> Msgs \cup {None}]
  /\ cancel \subseteq Msgs /\ thrown \subseteq Msgs /\ stray \subseteq Msgs
  /\ answer \in [Msgs -> Msgs \cup {None}]

(* A task that was registered and is not any more.                         *)
OutOfRegistry(q) == pc[q] \in Registered \cup {"done"} /\ registry[sent[q].user] # q

(* Whom a handler has taken out to kill it, and who was cancelled, is out  *)
(* of the registry; so is whom a kill hit that was meant for him.          *)
TakenOut ==
  /\ \A m \in Msgs :
       /\ victim[m] # None => pc[m] \in {"kill", "strike"} /\ OutOfRegistry(victim[m])
       /\ pc[m] = "strike" => victim[m] # None
  /\ \A q \in cancel : OutOfRegistry(q)
  /\ \A q \in thrown : OutOfRegistry(q) \/ q \in stray

TaskInv == TaskTypes /\ TakenOut /\ RegisteredAreAtWork

LEMMA ArriveKeeps ==
  ASSUME TaskInv, NEW m \in Msgs, Arrive(m)
  PROVE  TaskInv'
<1> USE GatewayAssumption DEF TaskInv, sessions, tasks, questions, At, Goto, Stages, Registered
<1>1. TaskTypes'
  BY DEF TaskTypes, TakenOut, Arrive
<1>2. TakenOut'
  BY DEF TaskTypes, TakenOut, OutOfRegistry, RegisteredAreAtWork, Arrive
<1>3. RegisteredAreAtWork'
  BY DEF TaskTypes, TakenOut, OutOfRegistry, RegisteredAreAtWork, Arrive
<1>. QED  BY <1>1, <1>2, <1>3

LEMMA RouteKeeps ==
  ASSUME TaskInv, NEW m \in Msgs, Route(m)
  PROVE  TaskInv'
<1> USE GatewayAssumption DEF TaskInv, sessions, tasks, questions, At, Goto, Stages, Registered
<1>1. TaskTypes'
  BY DEF TaskTypes, TakenOut, Route
<1>2. TakenOut'
  <2>1. \E s \in {"answer", "sess", "pop"} : pc' = [pc EXCEPT ![m] = s]
    BY DEF Route
  <2>2. pc[m] = "route" /\ UNCHANGED <<sent, registry, victim, cancel, thrown, stray>>
    BY DEF Route
  <2>. QED  BY <2>1, <2>2 DEF TaskTypes, TakenOut, OutOfRegistry
<1>3. RegisteredAreAtWork'
  BY DEF TaskTypes, TakenOut, OutOfRegistry, RegisteredAreAtWork, Route
<1>. QED  BY <1>1, <1>2, <1>3

LEMMA SubmitAnswerKeeps ==
  ASSUME TaskInv, NEW m \in Msgs, SubmitAnswer(m)
  PROVE  TaskInv'
<1> USE GatewayAssumption DEF TaskInv, sessions, tasks, questions, At, Goto, Stages, Registered, Accepts
<1>1. TaskTypes'
  BY DEF TaskTypes, TakenOut, SubmitAnswer
<1>2. TakenOut'
  BY DEF TaskTypes, TakenOut, OutOfRegistry, RegisteredAreAtWork, SubmitAnswer
<1>3. RegisteredAreAtWork'
  BY DEF TaskTypes, TakenOut, OutOfRegistry, RegisteredAreAtWork, SubmitAnswer
<1>. QED  BY <1>1, <1>2, <1>3

LEMMA LookUpKeeps ==
  ASSUME TaskInv, NEW m \in Msgs, LookUp(m)
  PROVE  TaskInv'
<1> USE GatewayAssumption DEF TaskInv, sessions, tasks, questions, At, Goto, Stages, Registered, NewSession
<1>1. TaskTypes'
  BY DEF TaskTypes, TakenOut, LookUp
<1>2. TakenOut'
  <2>1. \E s \in {"pop", "turn"} : pc' = [pc EXCEPT ![m] = s]
    BY DEF LookUp
  <2>2. pc[m] = "sess" /\ UNCHANGED <<sent, registry, victim, cancel, thrown, stray>>
    BY DEF LookUp
  <2>. QED  BY <2>1, <2>2 DEF TaskTypes, TakenOut, OutOfRegistry
<1>3. RegisteredAreAtWork'
  BY DEF TaskTypes, TakenOut, OutOfRegistry, RegisteredAreAtWork, LookUp
<1>. QED  BY <1>1, <1>2, <1>3

LEMMA TakeTurnKeeps ==
  ASSUME TaskInv, NEW m \in Msgs, TakeTurn(m)
  PROVE  TaskInv'
<1> USE GatewayAssumption DEF TaskInv, sessions, tasks, questions, At, Goto, Stages, Registered, NewSession
<1>1. TaskTypes'
  BY DEF TaskTypes, TakenOut, TakeTurn
<1>2. TakenOut'
  BY DEF TaskTypes, TakenOut, OutOfRegistry, RegisteredAreAtWork, TakeTurn
<1>3. RegisteredAreAtWork'
  BY DEF TaskTypes, TakenOut, OutOfRegistry, RegisteredAreAtWork, TakeTurn
<1>. QED  BY <1>1, <1>2, <1>3

LEMMA ResetKeeps ==
  ASSUME TaskInv, NEW m \in Msgs, Reset(m)
  PROVE  TaskInv'
<1> USE GatewayAssumption DEF TaskInv, sessions, tasks, questions, At, Goto, Stages, Registered, NewSession
<1>1. TaskTypes'
  BY DEF TaskTypes, TakenOut, Reset
<1>2. TakenOut'
  BY DEF TaskTypes, TakenOut, OutOfRegistry, RegisteredAreAtWork, Reset
<1>3. RegisteredAreAtWork'
  BY DEF TaskTypes, TakenOut, OutOfRegistry, RegisteredAreAtWork, Reset
<1>. QED  BY <1>1, <1>2, <1>3

LEMMA PopTaskKeeps ==
  ASSUME TaskInv, NEW m \in Msgs, PopTask(m)
  PROVE  TaskInv'
<1> USE GatewayAssumption DEF TaskInv, sessions, tasks, questions, At, Goto, Stages, Registered
<1>1. TaskTypes'
  BY DEF TaskTypes, TakenOut, PopTask
<1>2. TakenOut'
  BY DEF TaskTypes, TakenOut, OutOfRegistry, RegisteredAreAtWork, PopTask
<1>3. RegisteredAreAtWork'
  BY DEF TaskTypes, TakenOut, OutOfRegistry, RegisteredAreAtWork, PopTask
<1>. QED  BY <1>1, <1>2, <1>3

LEMMA SetCancelKeeps ==
  ASSUME TaskInv, NEW m \in Msgs, SetCancel(m)
  PROVE  TaskInv'
<1> USE GatewayAssumption DEF TaskInv, sessions, tasks, questions, At, Goto, Stages, Registered, AfterKill
<1>1. TaskTypes'
  BY DEF TaskTypes, TakenOut, SetCancel
<1>2. TakenOut'
  <2>1. \E s \in {"done", "reset", "insert", "strike"} :
          pc' = [pc EXCEPT ![m] = s] /\ (victim[m] = None <=> s # "strike")
    BY DEF SetCancel
  <2>2. /\ pc[m] = "kill" /\ UNCHANGED <<sent, registry, victim, thrown, stray>>
        /\ cancel' = cancel \cup ({victim[m]} \ {None})
    BY DEF SetCancel
  <2>3. \A q \in Msgs : OutOfRegistry(q) => OutOfRegistry(q)'
    BY <2>1, <2>2 DEF TaskTypes, OutOfRegistry
  <2>. QED  BY <2>1, <2>2, <2>3 DEF TaskTypes, TakenOut
<1>3. RegisteredAreAtWork'
  BY DEF TaskTypes, TakenOut, OutOfRegistry, RegisteredAreAtWork, SetCancel
<1>. QED  BY <1>1, <1>2, <1>3

LEMMA StrikeKeeps ==
  ASSUME TaskInv, NEW m \in Msgs, Strike(m)
  PROVE  TaskInv'
<1> USE GatewayAssumption DEF TaskInv, sessions, tasks, questions, At, Goto, Stages, Registered, AfterKill, Hit
<1>1. TaskTypes'
  BY DEF TaskTypes, TakenOut, Strike
<1>2. TakenOut'
  BY DEF TaskTypes, TakenOut, OutOfRegistry, RegisteredAreAtWork, Strike
<1>3. RegisteredAreAtWork'
  BY DEF TaskTypes, TakenOut, OutOfRegistry, RegisteredAreAtWork, Strike
<1>. QED  BY <1>1, <1>2, <1>3

LEMMA InsertTaskKeeps ==
  ASSUME TaskInv, NEW m \in Msgs, InsertTask(m)
  PROVE  TaskInv'
<1> USE GatewayAssumption DEF TaskInv, sessions, tasks, questions, At, Goto, Stages, Registered
<1>1. TaskTypes'
  BY DEF TaskTypes, TakenOut, InsertTask
<1>2. TakenOut'
  BY DEF TaskTypes, TakenOut, OutOfRegistry, RegisteredAreAtWork, InsertTask
<1>3. RegisteredAreAtWork'
  BY DEF TaskTypes, TakenOut, OutOfRegistry, RegisteredAreAtWork, InsertTask
<1>. QED  BY <1>1, <1>2, <1>3

LEMMA RaiseKeeps ==
  ASSUME TaskInv, NEW m \in Msgs, Raise(m)
  PROVE  TaskInv'
<1> USE GatewayAssumption DEF TaskInv, sessions, tasks, questions, At, Goto, Stages, Registered
<1>1. TaskTypes'
  BY DEF TaskTypes, TakenOut, Raise
<1>2. TakenOut'
  BY DEF TaskTypes, TakenOut, OutOfRegistry, RegisteredAreAtWork, Raise
<1>3. RegisteredAreAtWork'
  BY DEF TaskTypes, TakenOut, OutOfRegistry, RegisteredAreAtWork, Raise
<1>. QED  BY <1>1, <1>2, <1>3

LEMMA StartKeeps ==
  ASSUME TaskInv, NEW m \in Msgs, Start(m)
  PROVE  TaskInv'
<1> USE GatewayAssumption DEF TaskInv, sessions, tasks, questions, At, Goto, Stages, Registered
<1>1. TaskTypes'
  BY DEF TaskTypes, TakenOut, Start
<1>2. TakenOut'
  BY DEF TaskTypes, TakenOut, OutOfRegistry, RegisteredAreAtWork, Start
<1>3. RegisteredAreAtWork'
  BY DEF TaskTypes, TakenOut, OutOfRegistry, RegisteredAreAtWork, Start
<1>. QED  BY <1>1, <1>2, <1>3

LEMMA DrainKeeps ==
  ASSUME TaskInv, NEW m \in Msgs, Drain(m)
  PROVE  TaskInv'
<1> USE GatewayAssumption DEF TaskInv, sessions, tasks, questions, At, Goto, Stages, Registered
<1>1. TaskTypes'
  BY DEF TaskTypes, TakenOut, Drain
<1>2. TakenOut'
  BY DEF TaskTypes, TakenOut, OutOfRegistry, RegisteredAreAtWork, Drain
<1>3. RegisteredAreAtWork'
  BY DEF TaskTypes, TakenOut, OutOfRegistry, RegisteredAreAtWork, Drain
<1>. QED  BY <1>1, <1>2, <1>3

LEMMA FinishKeeps ==
  ASSUME TaskInv, NEW m \in Msgs, Finish(m)
  PROVE  TaskInv'
<1> USE GatewayAssumption DEF TaskInv, sessions, tasks, questions, At, Goto, Stages, Registered, Deregistered
<1>1. TaskTypes'
  BY DEF TaskTypes, TakenOut, Finish
<1>2. TakenOut'
  BY DEF TaskTypes, TakenOut, OutOfRegistry, RegisteredAreAtWork, Finish
<1>3. RegisteredAreAtWork'
  BY DEF TaskTypes, TakenOut, OutOfRegistry, RegisteredAreAtWork, Finish
<1>. QED  BY <1>1, <1>2, <1>3

LEMMA AskKeeps ==
  ASSUME TaskInv, NEW m \in Msgs, Ask(m)
  PROVE  TaskInv'
<1> USE GatewayAssumption DEF TaskInv, sessions, tasks, questions, At, Goto, Stages, Registered
<1>1. TaskTypes'
  BY DEF TaskTypes, TakenOut, Ask
<1>2. TakenOut'
  BY DEF TaskTypes, TakenOut, OutOfRegistry, RegisteredAreAtWork, Ask
<1>3. RegisteredAreAtWork'
  BY DEF TaskTypes, TakenOut, OutOfRegistry, RegisteredAreAtWork, Ask
<1>. QED  BY <1>1, <1>2, <1>3

LEMMA GoOnKeeps ==
  ASSUME TaskInv, NEW m \in Msgs, GoOn(m)
  PROVE  TaskInv'
<1> USE GatewayAssumption DEF TaskInv, sessions, tasks, questions, At, Goto, Stages, Registered
<1>1. TaskTypes'
  BY DEF TaskTypes, TakenOut, GoOn
<1>2. TakenOut'
  BY DEF TaskTypes, TakenOut, OutOfRegistry, RegisteredAreAtWork, GoOn
<1>3. RegisteredAreAtWork'
  BY DEF TaskTypes, TakenOut, OutOfRegistry, RegisteredAreAtWork, GoOn
<1>. QED  BY <1>1, <1>2, <1>3

LEMMA AgentEndsKeeps ==
  ASSUME TaskInv, NEW m \in Msgs, AgentEnds(m)
  PROVE  TaskInv'
<1> USE GatewayAssumption DEF TaskInv, sessions, tasks, questions, At, Goto, Stages, Registered
<1>1. TaskTypes'
  BY DEF TaskTypes, TakenOut, AgentEnds
<1>2. TakenOut'
  BY DEF TaskTypes, TakenOut, OutOfRegistry, RegisteredAreAtWork, AgentEnds
<1>3. RegisteredAreAtWork'
  BY DEF TaskTypes, TakenOut, OutOfRegistry, RegisteredAreAtWork, AgentEnds
<1>. QED  BY <1>1, <1>2, <1>3

LEMMA CleanKeeps ==
  ASSUME TaskInv, NEW u \in Users, Clean(u)
  PROVE  TaskInv'
BY DEF TaskInv, TaskTypes, TakenOut, OutOfRegistry, RegisteredAreAtWork, Clean, tasks, questions

LEMMA StutterKeeps ==
  ASSUME TaskInv, UNCHANGED vars
  PROVE  TaskInv'
BY DEF TaskInv, TaskTypes, TakenOut, OutOfRegistry, RegisteredAreAtWork, vars, tasks, questions

LEMMA InitTasks ==
  Init => TaskInv
BY GatewayAssumption
   DEF Init, TaskInv, TaskTypes, TakenOut, OutOfRegistry, RegisteredAreAtWork, Stages

LEMMA StepKeeps ==
  ASSUME TaskInv, [Next]_vars
  PROVE  TaskInv'
<1>1. ASSUME NEW m \in Msgs, Handle(m)  PROVE TaskInv'
  BY <1>1, RouteKeeps, SubmitAnswerKeeps, LookUpKeeps, TakeTurnKeeps, ResetKeeps, PopTaskKeeps,
     SetCancelKeeps, StrikeKeeps, InsertTaskKeeps, RaiseKeeps, StartKeeps, DrainKeeps, FinishKeeps
     DEF Handle
<1>. QED  BY <1>1, ArriveKeeps, AskKeeps, GoOnKeeps, AgentEndsKeeps, CleanKeeps, StutterKeeps
          DEF Next

LEMMA AlwaysTaskInv ==
  Spec => []TaskInv
<1>1. TaskInv /\ [Next]_vars => TaskInv'
  BY StepKeeps
<1>. QED  BY <1>1, InitTasks, PTL DEF Spec

-----------------------------------------------------------------------------
(* The sessions. A session is named after the message that opened it, and  *)
(* the count that is kept of its turns is never below its members: only    *)
(* the handler that is in the locked part takes a turn in a session it did *)
(* not open, and a reset without the lock opens another session.           *)

(* Of a function from messages to the sessions they run in: the members of *)
(* a session, and that they are at most n.                                 *)
Members(f, t) == {m \in Msgs : f[m] = t}
Few(f, t, n) == IsFiniteSet(Members(f, t)) /\ Cardinality(Members(f, t)) <= n

(* A session that was opened, and whose count is not below its members.    *)
Held(f, s) == s \in Sessions /\ f[s.tid] = s.tid /\ Few(f, s.tid, s.turns)

(* A message that runs in no session yet.                                  *)
Unopened(m) ==
  \/ pc[m] \in {"away", "route", "answer", "sess", "turn"}
  \/ sent[m].kind = "reset" /\ pc[m] \in {"pop", "kill", "strike", "reset"}

SessionTypes ==
  /\ seen \in [Msgs -> Sessions \cup {None}]
  /\ tid \in [Msgs -> Msgs \cup {None}]
  /\ sess \in [Users -> Sessions \cup {None}]

(* Who is where: one handler has the lock, resets never look a session up. *)
Places ==
  /\ \A m, q \in Msgs : pc[m] = "turn" /\ pc[q] = "turn" => m = q
  /\ \A m \in Msgs : pc[m] \in {"sess", "turn"} => sent[m].kind # "reset"
  /\ \A m \in Msgs : pc[m] = "reset" => sent[m].kind = "reset"
  /\ \A m \in Msgs : Unopened(m) => tid[m] = None

(* A user's session was opened by a message of the user's.                 *)
Counts ==
  /\ \A m \in Msgs : tid[m] # None => tid[tid[m]] = tid[m]
  /\ \A t \in Msgs : Few(tid, t, MaxTurns)
  /\ \A u \in Users :
       sess[u] # None => Held(tid, sess[u]) /\ sent[sess[u].tid].user = u
  /\ \A m \in Msgs :
       pc[m] = "turn" => Held(tid, seen[m]) /\ sent[seen[m].tid].user = sent[m].user

SessionInv == SessionTypes /\ Places /\ Counts

(* A step that does not touch the sessions, lets nobody into their locked  *)
(* part and nobody back before them, keeps the invariant.                  *)
LEMMA PassingKeeps ==
  ASSUME SessionInv, UNCHANGED <<sent, tid, sess>>,
         seen' \in [Msgs -> Sessions \cup {None}],
         \A q \in Msgs : pc'[q] = "turn" => seen'[q] = seen[q],
         \A q \in Msgs : pc'[q] = "turn" => pc[q] = "turn",
         \A q \in Msgs : pc'[q] = "sess" => sent[q].kind # "reset",
         \A q \in Msgs : pc'[q] = "reset" => sent[q].kind = "reset",
         \A q \in Msgs : Unopened(q)' => Unopened(q)
  PROVE  SessionInv'
<1>1. UNCHANGED <<sent, tid, sess>>
  OBVIOUS
<1>2. SessionTypes'
  BY <1>1 DEF SessionInv, SessionTypes
<1>3. Places'
  BY <1>1 DEF SessionInv, Places
<1>4. Counts'
  BY <1>1 DEF SessionInv, Counts
<1>. QED  BY <1>2, <1>3, <1>4 DEF SessionInv

(* A message that ran nowhere opens a session: it is its first member, and *)
(* the other sessions stay as they are.                                    *)
LEMMA OpensAlone ==
  ASSUME NEW f \in [Msgs -> Msgs \cup {None}], NEW m \in Msgs, f[m] = None,
         \A q \in Msgs : f[q] # None => f[f[q]] = f[q],
         NEW g \in [Msgs -> Msgs \cup {None}], g[m] = m,
         \A q \in Msgs : q # m => g[q] = f[q]
  PROVE  /\ \A q \in Msgs : g[q] # None => g[g[q]] = g[q]
         /\ \A n \in Nat : n >= 1 => Few(g, m, n)
         /\ \A t \in Msgs : \A n : t # m /\ Few(f, t, n) => Few(g, t, n)
         /\ Held(g, [tid |-> m, turns |-> 1])
         /\ \A s : Held(f, s) => Held(g, s)
<1>. USE GatewayAssumption
<1>1. g[m] = m /\ \A q \in Msgs : q # m => g[q] = f[q]
  OBVIOUS
<1>2. \A t \in Msgs : t # m => Members(g, t) = Members(f, t)
  BY <1>1 DEF Members
<1>3. Members(g, m) = {m}
  BY <1>1 DEF Members
<1>4. \A n \in Nat : n >= 1 => Few(g, m, n)
  <2>1. IsFiniteSet({m}) /\ Cardinality({m}) = 1
    BY FS_Singleton
  <2>. QED  BY <1>3, <2>1 DEF Few
<1>5. \A t \in Msgs : \A n : t # m /\ Few(f, t, n) => Few(g, t, n)
  BY <1>2 DEF Few
<1>6. ASSUME NEW q \in Msgs, g[q] # None  PROVE g[g[q]] = g[q]
  BY <1>1, <1>6
<1>7. Held(g, [tid |-> m, turns |-> 1])
  <2>1. [tid |-> m, turns |-> 1] \in Sessions
    BY DEF Sessions
  <2>2. Few(g, m, 1)
    BY <1>4
  <2>. QED  BY <1>1, <2>1, <2>2 DEF Held
<1>8. ASSUME NEW s, Held(f, s)  PROVE Held(g, s)
  <2>1. s \in Sessions /\ f[s.tid] = s.tid /\ Few(f, s.tid, s.turns)
    BY <1>8 DEF Held
  <2>2. s.tid \in Msgs /\ s.tid # m
    BY <2>1 DEF Sessions
  <2>. QED  BY <1>1, <1>5, <2>1, <2>2 DEF Held
<1>. QED  BY <1>4, <1>5, <1>6, <1>7, <1>8

(* A message that ran nowhere joins a session that was opened: it has one  *)
(* member more, and the other sessions stay as they are.                   *)
LEMMA JoinsOne ==
  ASSUME NEW f \in [Msgs -> Msgs \cup {None}], NEW m \in Msgs, f[m] = None,
         \A q \in Msgs : f[q] # None => f[f[q]] = f[q],
         NEW r, Held(f, r), r.turns < MaxTurns,
         NEW g \in [Msgs -> Msgs \cup {None}], g[m] = r.tid,
         \A q \in Msgs : q # m => g[q] = f[q]
  PROVE  /\ \A q \in Msgs : g[q] # None => g[g[q]] = g[q]
         /\ Few(g, r.tid, r.turns + 1)
         /\ \A t \in Msgs : \A n : t # r.tid /\ Few(f, t, n) => Few(g, t, n)
         /\ \A s : Held(f, s) /\ s.tid # r.tid => Held(g, s)
<1>. USE GatewayAssumption
<1>1. /\ r.tid \in Msgs /\ r.turns \in Nat /\ f[r.tid] = r.tid /\ r.tid # m
      /\ Few(f, r.tid, r.turns)
  BY DEF Held, Sessions
<1>2. g[m] = r.tid /\ \A q \in Msgs : q # m => g[q] = f[q]
  OBVIOUS
<1>3. \A t \in Msgs : t # r.tid => Members(g, t) = Members(f, t)
  BY <1>1, <1>2 DEF Members
<1>4. Members(g, r.tid) = Members(f, r.tid) \cup {m} /\ m \notin Members(f, r.tid)
  BY <1>1, <1>2 DEF Members
<1>5. Few(g, r.tid, r.turns + 1)
  <2>1. /\ IsFiniteSet(Members(f, r.tid)) /\ Cardinality(Members(f, r.tid)) \in Nat
        /\ Cardinality(Members(f, r.tid)) <= r.turns
    BY <1>1, FS_CardinalityType DEF Few
  <2>2. /\ IsFiniteSet(Members(g, r.tid))
        /\ Cardinality(Members(g, r.tid)) = Cardinality(Members(f, r.tid)) + 1
    <3>1. /\ IsFiniteSet(Members(f, r.tid) \cup {m})
          /\ Cardinality(Members(f, r.tid) \cup {m}) = Cardinality(Members(f, r.tid)) + 1
      BY <1>4, <2>1, FS_AddElement
    <3>. QED  BY <1>4, <3>1
  <2>. QED  BY <1>1, <2>1, <2>2 DEF Few
<1>6. \A t \in Msgs : \A n : t # r.tid /\ Few(f, t, n) => Few(g, t, n)
  BY <1>3 DEF Few
<1>7. ASSUME NEW q \in Msgs, g[q] # None  PROVE g[g[q]] = g[q]
  BY <1>1, <1>2, <1>7
<1>8. ASSUME NEW s, Held(f, s), s.tid # r.tid  PROVE Held(g, s)
  <2>1. s.tid \in Msgs /\ s.tid # m
    BY <1>8 DEF Held, Sessions
  <2>. QED  BY <1>2, <1>6, <1>8, <2>1 DEF Held
<1>. QED  BY <1>5, <1>6, <1>7, <1>8

(* A session is opened: by a lookup or a turn under the lock, or by a reset*)
(* without it (gateway.py:313-345, 818-823).                               *)
LEMMA OpeningKeeps ==
  ASSUME TaskInv, SessionInv, NEW m \in Msgs, Unopened(m), NewSession(m),
         UNCHANGED sent,
         NEW p \in {"pop", "done"}, pc' = [pc EXCEPT ![m] = p],
         p = "pop" => sent[m].kind # "reset",
         seen' = seen \/ seen' = [seen EXCEPT ![m] = None]
  PROVE  SessionInv'
<1>. USE GatewayAssumption
<1>. DEFINE s == [tid |-> m, turns |-> 1]
            u == sent[m].user
<1>1. /\ tid \in [Msgs -> Msgs \cup {None}] /\ sess \in [Users -> Sessions \cup {None}]
      /\ seen \in [Msgs -> Sessions \cup {None}] /\ pc \in [Msgs -> Stages]
      /\ u \in Users /\ tid[m] = None
      /\ \A q \in Msgs : tid[q] # None => tid[tid[q]] = tid[q]
  BY DEF SessionInv, SessionTypes, Places, Counts, TaskInv, TaskTypes
<1>2. /\ tid' = [tid EXCEPT ![m] = m] /\ sess' = [sess EXCEPT ![u] = s]
      /\ s \in Sessions /\ s.tid = m
  BY DEF NewSession, Sessions
<1>3. /\ \A q \in Msgs : tid'[q] # None => tid'[tid'[q]] = tid'[q]
      /\ \A n \in Nat : n >= 1 => Few(tid', m, n)
      /\ \A t \in Msgs : \A n : t # m /\ Few(tid, t, n) => Few(tid', t, n)
      /\ Held(tid', s)
      /\ \A r : Held(tid, r) => Held(tid', r)
  <2>1. /\ tid' \in [Msgs -> Msgs \cup {None}] /\ tid'[m] = m
        /\ \A q \in Msgs : q # m => tid'[q] = tid[q]
    BY <1>1, <1>2
  <2>. QED  BY <1>1, <2>1, OpensAlone DEF s
<1>. HIDE DEF s
<1>4. SessionTypes'
  BY <1>1, <1>2 DEF SessionTypes
<1>5. /\ pc'[m] = p /\ \A q \in Msgs : q # m => pc'[q] = pc[q] /\ tid'[q] = tid[q]
      /\ \A q \in Msgs : q # m => seen'[q] = seen[q]
  BY <1>1, <1>2
<1>6. Places'
  <2>1. \A q \in Msgs : Unopened(q)' => Unopened(q) /\ q # m
    BY <1>5 DEF Unopened
  <2>. QED  BY <1>5, <2>1 DEF SessionInv, Places
<1>7. Counts'
  <2>1. ASSUME NEW t \in Msgs  PROVE Few(tid', t, MaxTurns)
    BY <1>3 DEF SessionInv, Counts
  <2>2. ASSUME NEW v \in Users, sess'[v] # None
        PROVE  Held(tid', sess'[v]) /\ sent[sess'[v].tid].user = v
    <3>1. CASE v = u  BY <3>1, <1>1, <1>2, <1>3
    <3>2. CASE v # u
      <4>1. sess'[v] = sess[v]
        BY <3>2, <1>1, <1>2
      <4>. QED  BY <4>1, <2>2, <1>3 DEF SessionInv, Counts
    <3>. QED  BY <3>1, <3>2
  <2>3. ASSUME NEW q \in Msgs, pc'[q] = "turn"
        PROVE  Held(tid', seen'[q]) /\ sent[seen'[q].tid].user = sent[q].user
    <3>1. q # m
      BY <2>3, <1>5
    <3>. QED  BY <2>3, <3>1, <1>3, <1>5 DEF SessionInv, Counts
  <2>. QED  BY <1>3, <2>1, <2>2, <2>3 DEF Counts
<1>. QED  BY <1>4, <1>6, <1>7 DEF SessionInv

(* A lookup enters the locked part with what it saw, or opens a session    *)
(* (gateway.py:313-318).                                                   *)
LEMMA LookUpCounts ==
  ASSUME TaskInv, SessionInv, NEW m \in Msgs, LookUp(m)
  PROVE  SessionInv'
<1>1. CASE sess[sent[m].user] = None
  <2>1. /\ NewSession(m) /\ pc' = [pc EXCEPT ![m] = "pop"] /\ UNCHANGED <<seen, sent>>
        /\ pc[m] = "sess"
    BY <1>1 DEF LookUp, Goto, At
  <2>2. Unopened(m) /\ sent[m].kind # "reset"
    BY <2>1 DEF Unopened, SessionInv, Places
  <2>. QED  BY <2>1, <2>2, OpeningKeeps
<1>2. CASE sess[sent[m].user] # None
  <2>1. /\ seen' = [seen EXCEPT ![m] = sess[sent[m].user]]
        /\ pc' = [pc EXCEPT ![m] = "turn"] /\ UNCHANGED <<sent, sess, tid>>
        /\ pc[m] = "sess" /\ \A q \in Msgs : pc[q] # "turn"
    BY <1>2 DEF LookUp, Goto, At
  <2>2. /\ sess \in [Users -> Sessions \cup {None}]
        /\ seen \in [Msgs -> Sessions \cup {None}] /\ pc \in [Msgs -> Stages]
        /\ sent[m].user \in Users
    BY DEF SessionInv, SessionTypes, TaskInv, TaskTypes
  <2>3. SessionTypes'
    BY <2>1, <2>2 DEF SessionInv, SessionTypes
  <2>4. Places'
    BY <2>1, <2>2 DEF SessionInv, Places, Unopened
  <2>5. Counts'
    <3>1. \A q \in Msgs : pc'[q] = "turn" => q = m
      BY <2>1, <2>2
    <3>2. seen'[m] = sess[sent[m].user]
      BY <2>1, <2>2
    <3>. QED  BY <1>2, <2>1, <2>2, <3>1, <3>2 DEF SessionInv, Counts
  <2>. QED  BY <2>3, <2>4, <2>5 DEF SessionInv
<1>. QED  BY <1>1, <1>2

(* A turn is taken under the lock, in the session that was looked up even  *)
(* if a reset replaced it meanwhile (gateway.py:319-345).                  *)
LEMMA TakeTurnCounts ==
  ASSUME TaskInv, SessionInv, NEW m \in Msgs, TakeTurn(m)
  PROVE  SessionInv'
<1>. USE GatewayAssumption
<1>0. PICK r, u : r = seen[m] /\ u = sent[m].user
  OBVIOUS
<1>1. /\ pc[m] = "turn" /\ pc' = [pc EXCEPT ![m] = "pop"]
      /\ seen' = [seen EXCEPT ![m] = None] /\ UNCHANGED sent
      /\ \/ NewSession(m)
         \/ /\ ~UsedUp(r) /\ tid' = [tid EXCEPT ![m] = r.tid]
            /\ sess' = IF sess[u] # None /\ sess[u].tid = r.tid
                       THEN [sess EXCEPT ![u].turns = r.turns + 1] ELSE sess
  BY <1>0 DEF TakeTurn, Goto, At
<1>2. Unopened(m) /\ sent[m].kind # "reset"
  BY <1>1 DEF Unopened, SessionInv, Places
<1>3. CASE NewSession(m)
  BY <1>1, <1>2, <1>3, OpeningKeeps
<1>4. CASE ~NewSession(m)
  <2>1. /\ tid \in [Msgs -> Msgs \cup {None}] /\ sess \in [Users -> Sessions \cup {None}]
        /\ seen \in [Msgs -> Sessions \cup {None}] /\ pc \in [Msgs -> Stages]
        /\ u \in Users /\ tid[m] = None
        /\ \A q \in Msgs : tid[q] # None => tid[tid[q]] = tid[q]
    BY <1>0, <1>2 DEF SessionInv, SessionTypes, Places, Counts, TaskInv, TaskTypes
  <2>2. /\ Held(tid, r) /\ sent[r.tid].user = u
        /\ \A q \in Msgs : pc[q] = "turn" => q = m
    BY <1>0, <1>1 DEF SessionInv, Counts, Places
  <2>3. /\ r \in Sessions /\ r.tid \in Msgs /\ r.turns \in Nat /\ r.turns < MaxTurns
    BY <1>1, <1>4, <2>2 DEF Held, Sessions, UsedUp
  <2>4. /\ tid' = [tid EXCEPT ![m] = r.tid]
        /\ sess' = IF sess[u] # None /\ sess[u].tid = r.tid
                   THEN [sess EXCEPT ![u].turns = r.turns + 1] ELSE sess
    BY <1>1, <1>4
  <2>5. /\ \A q \in Msgs : tid'[q] # None => tid'[tid'[q]] = tid'[q]
        /\ Few(tid', r.tid, r.turns + 1)
        /\ \A t \in Msgs : \A n : t # r.tid /\ Few(tid, t, n) => Few(tid', t, n)
        /\ \A s : Held(tid, s) /\ s.tid # r.tid => Held(tid', s)
    <3>1. /\ tid' \in [Msgs -> Msgs \cup {None}] /\ tid'[m] = r.tid
          /\ \A q \in Msgs : q # m => tid'[q] = tid[q]
      BY <2>1, <2>3, <2>4
    <3>2. /\ tid \in [Msgs -> Msgs \cup {None}] /\ tid[m] = None
          /\ \A q \in Msgs : tid[q] # None => tid[tid[q]] = tid[q]
          /\ Held(tid, r) /\ r.turns < MaxTurns
      BY <2>1, <2>2, <2>3
    <3>. QED  BY <3>1, <3>2, JoinsOne
  <2>6. tid'[r.tid] = r.tid
    BY <2>1, <2>2, <2>3, <2>4 DEF Held
  <2>7. ASSUME NEW v \in Users, sess'[v] # None
        PROVE  /\ sess'[v] \in Sessions /\ Held(tid', sess'[v])
               /\ sent[sess'[v].tid].user = v
    <3>1. CASE v = u /\ sess[u] # None /\ sess[u].tid = r.tid
      <4>1. sess[u] \in Sessions
        BY <3>1, <2>1
      <4>2. sess'[u] = [sess[u] EXCEPT !.turns = r.turns + 1]
        BY <3>1, <2>1, <2>4
      <4>3. /\ sess'[u] \in Sessions /\ sess'[u].tid = r.tid /\ sess'[u].turns = r.turns + 1
        BY <4>1, <4>2, <2>3, <3>1 DEF Sessions
      <4>. QED  BY <3>1, <4>3, <2>2, <2>5, <2>6 DEF Held
    <3>2. CASE ~(v = u /\ sess[u] # None /\ sess[u].tid = r.tid)
      <4>1. sess'[v] = sess[v]
        BY <3>2, <2>1, <2>4
      <4>2. Held(tid, sess[v]) /\ sent[sess[v].tid].user = v
        BY <4>1, <2>7 DEF SessionInv, Counts
      <4>3. sess[v].tid # r.tid
        BY <3>2, <4>1, <4>2, <2>2, <2>7
      <4>. QED  BY <4>1, <4>2, <4>3, <2>5 DEF Held
    <3>. QED  BY <3>1, <3>2
  <2>8. SessionTypes'
    <3>1. tid' \in [Msgs -> Msgs \cup {None}] /\ seen' \in [Msgs -> Sessions \cup {None}]
      BY <1>1, <2>1, <2>3, <2>4
    <3>2. DOMAIN sess' = Users /\ sess' = [v \in Users |-> sess'[v]]
      BY <2>1, <2>4
    <3>3. \A v \in Users : sess'[v] \in Sessions \cup {None}
      BY <2>7
    <3>. QED  BY <3>1, <3>2, <3>3 DEF SessionTypes
  <2>9. /\ pc'[m] = "pop" /\ \A q \in Msgs : q # m => pc'[q] = pc[q] /\ tid'[q] = tid[q]
    BY <1>1, <2>1, <2>4
  <2>10. Places'
    <3>1. \A q \in Msgs : Unopened(q)' => Unopened(q) /\ q # m
      BY <1>1, <1>2, <2>9 DEF Unopened
    <3>. QED  BY <1>1, <2>9, <3>1 DEF SessionInv, Places
  <2>11. Counts'
    <3>1. \A t \in Msgs : Few(tid', t, MaxTurns)
      <4>1. Few(tid', r.tid, MaxTurns)
        <5>1. Cardinality(Members(tid', r.tid)) \in Nat
          BY <2>5, FS_CardinalityType DEF Few
        <5>. QED  BY <5>1, <2>3, <2>5 DEF Few
      <4>. QED  BY <4>1, <2>5 DEF SessionInv, Counts
    <3>2. \A q \in Msgs : pc'[q] # "turn"
      BY <2>2, <2>9
    <3>. QED  BY <1>1, <2>5, <2>7, <3>1, <3>2 DEF Counts
  <2>. QED  BY <2>8, <2>10, <2>11 DEF SessionInv
<1>. QED  BY <1>3, <1>4

LEMMA ResetCounts ==
  ASSUME TaskInv, SessionInv, NEW m \in Msgs, Reset(m)
  PROVE  SessionInv'
<1>1. /\ pc[m] = "reset" /\ pc' = [pc EXCEPT ![m] = "done"]
      /\ NewSession(m) /\ UNCHANGED <<sent, seen>>
  BY DEF Reset, At, Goto
<1>2. Unopened(m)
  BY <1>1 DEF Unopened, SessionInv, Places
<1>. QED  BY <1>1, <1>2, OpeningKeeps

LEMMA CleanCounts ==
  ASSUME SessionInv, NEW u \in Users, Clean(u)
  PROVE  SessionInv'
<1>1. sess' = [sess EXCEPT ![u] = None] /\ UNCHANGED <<pc, sent, seen, tid>>
  BY DEF Clean
<1>2. SessionTypes'
  BY <1>1 DEF SessionInv, SessionTypes
<1>3. Places'
  BY <1>1 DEF SessionInv, Places, Unopened
<1>4. Counts'
  <2>1. \A v \in Users : sess'[v] # None => sess'[v] = sess[v]
    BY <1>1 DEF SessionInv, SessionTypes
  <2>. QED  BY <1>1, <2>1 DEF SessionInv, Counts
<1>. QED  BY <1>2, <1>3, <1>4 DEF SessionInv

(* The steps on the way to a session and past it.                          *)
LEMMA OthersCount ==
  ASSUME TaskInv, SessionInv, NEW m \in Msgs,
         \/ Arrive(m) \/ Route(m) \/ SubmitAnswer(m)
         \/ PopTask(m) \/ SetCancel(m) \/ Strike(m) \/ InsertTask(m) \/ Raise(m)
         \/ Start(m) \/ Drain(m) \/ Finish(m) \/ Ask(m) \/ GoOn(m) \/ AgentEnds(m)
  PROVE  SessionInv'
<1>2. pc \in [Msgs -> Stages] /\ sent[m].kind \in Kinds
  BY DEF TaskInv, TaskTypes
<1>1. /\ UNCHANGED <<sent, tid, sess>>
      /\ seen' \in [Msgs -> Sessions \cup {None}]
      /\ \A q \in Msgs : pc'[q] = "turn" => seen'[q] = seen[q]
  <2>1. CASE Raise(m)
    <3>1. /\ UNCHANGED <<sent, tid, sess>> /\ seen' = [seen EXCEPT ![m] = None]
          /\ \E p \in {"finish", "done"} : pc' = [pc EXCEPT ![m] = p]
      BY <2>1 DEF Raise, Goto
    <3>. QED  BY <1>2, <3>1 DEF SessionInv, SessionTypes
  <2>2. CASE ~Raise(m)
    <3>1. UNCHANGED <<sent, sessions>>
      BY <2>2 DEF Arrive, Route, SubmitAnswer, PopTask, SetCancel, Strike, InsertTask,
                  Start, Drain, Finish, Ask, GoOn, AgentEnds
    <3>. QED  BY <3>1 DEF sessions, SessionInv, SessionTypes
  <2>. QED  BY <2>1, <2>2
<1>3. CASE Arrive(m) \/ Route(m)
  <2>1. PICK p \in {"route", "answer", "sess", "pop"} :
          /\ pc' = [pc EXCEPT ![m] = p]
          /\ p = "sess" => sent[m].kind # "reset"
    BY <1>3 DEF Arrive, Route, Goto
  <2>2. pc[m] \in {"away", "route"}
    BY <1>3 DEF Arrive, Route, At
  <2>3. \A q \in Msgs : q # m => pc'[q] = pc[q]
    BY <1>2, <2>1
  <2>4. pc'[m] = p
    BY <1>2, <2>1
  <2>. QED  BY <1>1, <2>1, <2>2, <2>3, <2>4, PassingKeeps DEF Unopened, SessionInv, Places
<1>4. CASE SetCancel(m) \/ Strike(m)
  <2>1. PICK p \in {"strike", "reset", "insert", "done"} :
          /\ pc' = [pc EXCEPT ![m] = p]
          /\ p = "reset" => sent[m].kind = "reset"
    BY <1>4, <1>2 DEF SetCancel, Strike, Goto, AfterKill, Kinds
  <2>2. pc[m] \in {"kill", "strike"}
    BY <1>4 DEF SetCancel, Strike, At
  <2>3. \A q \in Msgs : q # m => pc'[q] = pc[q]
    BY <1>2, <2>1
  <2>4. pc'[m] = p
    BY <1>2, <2>1
  <2>. QED  BY <1>1, <2>1, <2>2, <2>3, <2>4, PassingKeeps DEF Unopened, SessionInv, Places
<1>5. CASE PopTask(m)
  <2>1. pc[m] = "pop" /\ pc'[m] = "kill" /\ \A q \in Msgs : q # m => pc'[q] = pc[q]
    BY <1>2, <1>5 DEF PopTask, At, Goto
  <2>. QED  BY <1>1, <2>1, PassingKeeps DEF Unopened, SessionInv, Places
<1>6. CASE SubmitAnswer(m) \/ InsertTask(m) \/ Raise(m) \/ Start(m) \/ Drain(m) \/ Finish(m)
  <2>1. PICK p \in {"done", "start", "drain", "finish"} : pc' = [pc EXCEPT ![m] = p]
    BY <1>6 DEF SubmitAnswer, InsertTask, Raise, Start, Drain, Finish, Goto
  <2>2. pc'[m] = p /\ \A q \in Msgs : q # m => pc'[q] = pc[q]
    BY <1>2, <2>1
  <2>. QED  BY <1>1, <2>2, PassingKeeps DEF Unopened, SessionInv, Places
<1>7. CASE Ask(m) \/ GoOn(m) \/ AgentEnds(m)
  <2>1. UNCHANGED pc
    BY <1>7 DEF Ask, GoOn, AgentEnds
  <2>. QED  BY <1>1, <2>1, PassingKeeps DEF Unopened, SessionInv, Places
<1>. QED  BY <1>3, <1>4, <1>5, <1>6, <1>7

LEMMA StepCounts ==
  ASSUME TaskInv, SessionInv, [Next]_vars
  PROVE  SessionInv'
<1>1. ASSUME NEW m \in Msgs, Handle(m)  PROVE SessionInv'
  BY <1>1, LookUpCounts, TakeTurnCounts, ResetCounts, OthersCount DEF Handle
<1>2. ASSUME NEW m \in Msgs, Arrive(m) \/ Ask(m) \/ GoOn(m) \/ AgentEnds(m)
      PROVE  SessionInv'
  BY <1>2, OthersCount
<1>3. ASSUME UNCHANGED vars  PROVE SessionInv'
  BY <1>3, PassingKeeps DEF vars, sessions, Unopened, SessionInv, SessionTypes, Places
<1>. QED  BY <1>1, <1>2, <1>3, CleanCounts DEF Next

LEMMA InitSessions ==
  Init => SessionInv
<1>. SUFFICES ASSUME Init PROVE SessionInv
  OBVIOUS
<1>. USE GatewayAssumption
<1>1. SessionTypes
  BY DEF Init, SessionTypes
<1>2. Places
  BY DEF Init, Places
<1>3. Counts
  <2>1. \A t \in Msgs : Members(tid, t) = {}
    BY DEF Init, Members
  <2>2. \A t \in Msgs : Few(tid, t, MaxTurns)
    BY <2>1, FS_EmptySet DEF Few
  <2>. QED  BY <2>2 DEF Init, Counts
<1>. QED  BY <1>1, <1>2, <1>3 DEF SessionInv

LEMMA AlwaysSessionInv ==
  Spec => []SessionInv
<1>1. TaskInv /\ SessionInv /\ [Next]_vars => SessionInv'
  BY StepCounts
<1>. QED  BY <1>1, InitSessions, AlwaysTaskInv, PTL DEF Spec

-----------------------------------------------------------------------------
(* The questions: each agent that waits is listed, once.                   *)

Listed ==
  /\ pending \in Seq(Msgs) /\ IsInjective(pending)
  /\ Range(pending) = {m \in Msgs : agent[m] = "asking"}

(* A query's agent is started once.                                        *)
Begun == \A m \in Msgs : agent[m] # "none" => pc[m] \in {"drain", "finish", "done"}

PendingInv ==
  /\ target \in [Msgs -> Msgs \cup {None}]
  /\ agent \in [Msgs -> {"none", "run", "asking", "done"}]
  /\ Begun /\ Listed

LEMMA AskLists ==
  ASSUME PendingInv, NEW m \in Msgs, Ask(m)
  PROVE  PendingInv'
<1>1. /\ agent[m] = "run" /\ agent' = [agent EXCEPT ![m] = "asking"]
      /\ pending' = Append(pending, m) /\ UNCHANGED target
  BY DEF Ask
<1>2. /\ pending \in Seq(Msgs) /\ Len(pending) \in Nat
      /\ \A i, j \in 1..Len(pending) : pending[i] = pending[j] => i = j
      /\ \A q \in Msgs : agent[q] = "asking" <=> \E i \in 1..Len(pending) : pending[i] = q
      /\ \A i \in 1..Len(pending) : pending[i] \in Msgs
  BY DEF PendingInv, Listed, IsInjective, Range
<1>3. /\ pending' \in Seq(Msgs) /\ Len(pending') = Len(pending) + 1
      /\ \A i \in 1..Len(pending) : pending'[i] = pending[i]
      /\ pending'[Len(pending) + 1] = m
  BY <1>1, <1>2
<1>4. \A i \in 1..Len(pending) : pending[i] # m
  BY <1>1, <1>2
<1>5. \A i \in 1..Len(pending') : i \in 1..Len(pending) \/ i = Len(pending) + 1
  BY <1>2, <1>3
<1>6. IsInjective(pending')
  <2>1. \A i, j \in 1..Len(pending') : pending'[i] = pending'[j] => i = j
    BY <1>2, <1>3, <1>4, <1>5
  <2>. QED  BY <1>3, <2>1 DEF IsInjective
<1>7. agent' \in [Msgs -> {"none", "run", "asking", "done"}]
  BY <1>1 DEF PendingInv
<1>8. Range(pending') = {q \in Msgs : agent'[q] = "asking"}
  <2>1. \A q \in Msgs : agent'[q] = "asking" <=> q = m \/ agent[q] = "asking"
    BY <1>1 DEF PendingInv
  <2>2. \A q \in Msgs : agent'[q] = "asking" <=> \E i \in 1..Len(pending') : pending'[i] = q
    <3>1. Len(pending) + 1 \in 1..Len(pending')
      BY <1>2, <1>3
    <3>2. \A i \in 1..Len(pending) : i \in 1..Len(pending')
      BY <1>2, <1>3
    <3>. QED  BY <1>2, <1>3, <1>5, <2>1, <3>1, <3>2
  <2>3. \A i \in 1..Len(pending') : pending'[i] \in Msgs
    BY <1>2, <1>3, <1>5
  <2>. QED  BY <1>3, <2>2, <2>3 DEF Range
<1>9. Begun'
  BY <1>1 DEF PendingInv, Begun, Ask
<1>. QED  BY <1>1, <1>3, <1>6, <1>7, <1>8, <1>9 DEF PendingInv, Listed

LEMMA GoOnLists ==
  ASSUME PendingInv, NEW m \in Msgs, GoOn(m)
  PROVE  PendingInv'
<1>1. /\ agent[m] = "asking" /\ agent' = [agent EXCEPT ![m] = "run"]
      /\ pending' = Unlisted(m) /\ UNCHANGED target
  BY DEF GoOn
<1>. DEFINE n == Len(pending)
<1>2. /\ pending \in Seq(Msgs) /\ n \in Nat
      /\ \A i, j \in 1..n : pending[i] = pending[j] => i = j
      /\ \A q \in Msgs : agent[q] = "asking" <=> \E i \in 1..n : pending[i] = q
      /\ \A i \in 1..n : pending[i] \in Msgs
      /\ DOMAIN pending = 1..n
  BY DEF PendingInv, Listed, IsInjective, Range
<1>3. PICK k \in 1..n : pending[k] = m /\ pending' = RemoveAt(pending, k)
  <2>1. \E i \in DOMAIN pending : pending[i] = m
    BY <1>1, <1>2
  <2>. QED  BY <1>1, <1>2, <2>1 DEF Unlisted
<1>4. /\ pending' \in Seq(Msgs) /\ Len(pending') = n - 1
      /\ \A j \in 1..n - 1 : pending'[j] = IF j < k THEN pending[j] ELSE pending[j + 1]
  <2>1. pending' = SubSeq(pending, 1, k - 1) \o SubSeq(pending, k + 1, n)
    BY <1>3 DEF RemoveAt
  <2>. HIDE DEF n
  <2>2. k \in Nat /\ k >= 1 /\ k <= n
    BY <1>2
  <2>3. /\ SubSeq(pending, 1, k - 1) \in Seq(Msgs)
        /\ Len(SubSeq(pending, 1, k - 1)) = k - 1
        /\ \A i \in 1..k - 1 : SubSeq(pending, 1, k - 1)[i] = pending[i]
    BY <1>2, <2>2, SubSeqProperties
  <2>4. /\ SubSeq(pending, k + 1, n) \in Seq(Msgs)
        /\ Len(SubSeq(pending, k + 1, n)) = n - k
        /\ \A i \in 1..n - k : SubSeq(pending, k + 1, n)[i] = pending[k + i]
    BY <1>2, <2>2, SubSeqProperties
  <2>. DEFINE a == SubSeq(pending, 1, k - 1)
              b == SubSeq(pending, k + 1, n)
  <2>5. pending' = a \o b
    BY <2>1
  <2>6. /\ a \in Seq(Msgs) /\ Len(a) = k - 1 /\ \A i \in 1..k - 1 : a[i] = pending[i]
        /\ b \in Seq(Msgs) /\ Len(b) = n - k /\ \A i \in 1..n - k : b[i] = pending[k + i]
    BY <2>3, <2>4
  <2>. HIDE DEF a, b
  <2>7. /\ pending' \in Seq(Msgs) /\ Len(pending') = n - 1
        /\ \A j \in 1..n - 1 :
             pending'[j] = IF j <= k - 1 THEN a[j] ELSE b[j - (k - 1)]
    BY <1>2, <2>2, <2>5, <2>6, ConcatProperties
  <2>8. ASSUME NEW j \in 1..n - 1
        PROVE  pending'[j] = IF j < k THEN pending[j] ELSE pending[j + 1]
    <3>1. CASE j < k
      <4>1. j \in 1..k - 1 /\ j <= k - 1
        BY <1>2, <2>2, <3>1
      <4>2. pending'[j] = a[j] /\ a[j] = pending[j]
        BY <4>1, <2>6, <2>7
      <4>. QED  BY <4>2, <3>1
    <3>2. CASE ~(j < k)
      <4>1. j - (k - 1) \in 1..n - k /\ k + (j - (k - 1)) = j + 1 /\ ~(j <= k - 1)
        BY <1>2, <2>2, <3>2
      <4>. QED  BY <4>1, <3>2, <2>6, <2>7
    <3>. QED  BY <3>1, <3>2
  <2>. QED  BY <2>7, <2>8
<1>. HIDE DEF n
<1>5. \A j \in 1..n - 1 : IF j < k THEN j \in 1..n ELSE j + 1 \in 1..n
  BY <1>2
<1>6. IsInjective(pending')
  <2>1. \A i, j \in 1..n - 1 : pending'[i] = pending'[j] => i = j
    BY <1>2, <1>3, <1>4, <1>5
  <2>2. DOMAIN pending' = 1..n - 1
    BY <1>4
  <2>. QED  BY <2>1, <2>2 DEF IsInjective
<1>7. agent' \in [Msgs -> {"none", "run", "asking", "done"}]
  BY <1>1 DEF PendingInv
<1>8. Range(pending') = {q \in Msgs : agent'[q] = "asking"}
  <2>1. \A q \in Msgs : agent'[q] = "asking" <=> q # m /\ agent[q] = "asking"
    BY <1>1 DEF PendingInv
  <2>2. \A j \in 1..n - 1 : pending'[j] \in Msgs /\ agent'[pending'[j]] = "asking"
    BY <1>2, <1>3, <1>4, <1>5, <2>1
  <2>3. ASSUME NEW q \in Msgs, agent'[q] = "asking"
        PROVE  \E j \in 1..n - 1 : pending'[j] = q
    <3>1. PICK i \in 1..n : pending[i] = q
      BY <1>2, <2>1, <2>3
    <3>2. i # k
      BY <1>3, <2>1, <2>3, <3>1
    <3>3. CASE i < k
      <4>1. i \in 1..n - 1
        BY <3>3, <1>2
      <4>. QED  BY <4>1, <3>1, <3>3, <1>4
    <3>4. CASE i > k
      <4>1. i - 1 \in 1..n - 1 /\ ~(i - 1 < k) /\ (i - 1) + 1 = i
        BY <3>4, <1>2
      <4>. QED  BY <4>1, <3>1, <1>4
    <3>. QED  BY <3>2, <3>3, <3>4, <1>2
  <2>4. DOMAIN pending' = 1..n - 1
    BY <1>4
  <2>. QED  BY <2>2, <2>3, <2>4 DEF Range
<1>9. Begun'
  BY <1>1 DEF PendingInv, Begun, GoOn
<1>. QED  BY <1>1, <1>4, <1>6, <1>7, <1>8, <1>9 DEF PendingInv, Listed

LEMMA StepLists ==
  ASSUME TaskInv, PendingInv, [Next]_vars
  PROVE  PendingInv'
<1>. USE GatewayAssumption
<1>1. pc \in [Msgs -> Stages]
  BY DEF TaskInv, TaskTypes
<1>2. ASSUME UNCHANGED <<agent, pending>>, target' \in [Msgs -> Msgs \cup {None}],
             NEW m \in Msgs, NEW p, pc' = [pc EXCEPT ![m] = p],
             pc[m] \in {"drain", "finish", "done"} => p \in {"drain", "finish", "done"}
      PROVE  PendingInv'
  <2>1. pc'[m] = p /\ \A q \in Msgs : q # m => pc'[q] = pc[q]
    BY <1>1, <1>2
  <2>. QED  BY <1>2, <2>1 DEF PendingInv, Listed, Begun
<1>3. ASSUME NEW m \in Msgs, Route(m) \/ SubmitAnswer(m)
      PROVE  PendingInv'
  <2>1. UNCHANGED <<agent, pending>> /\ pc[m] \in {"route", "answer"}
    BY <1>3 DEF Route, SubmitAnswer, questions, At
  <2>2. pending # <<>> => Head(pending) \in Msgs
    BY DEF PendingInv, Listed
  <2>3. target' \in [Msgs -> Msgs \cup {None}]
    BY <1>3, <2>2 DEF Route, SubmitAnswer, PendingInv
  <2>4. \E p : pc' = [pc EXCEPT ![m] = p]
    BY <1>3 DEF Route, SubmitAnswer, Goto
  <2>. QED  BY <1>2, <2>1, <2>3, <2>4
<1>4. ASSUME NEW m \in Msgs,
             \/ Arrive(m) \/ LookUp(m) \/ TakeTurn(m) \/ Reset(m)
             \/ PopTask(m) \/ SetCancel(m) \/ Strike(m) \/ InsertTask(m)
      PROVE  PendingInv'
  <2>1. UNCHANGED <<agent, pending, target>>
    BY <1>4 DEF Arrive, LookUp, TakeTurn, Reset, PopTask, SetCancel, Strike, InsertTask,
                questions
  <2>2. pc[m] \notin {"drain", "finish", "done"}
    BY <1>4 DEF Arrive, LookUp, TakeTurn, Reset, PopTask, SetCancel, Strike, InsertTask, At
  <2>3. \E p : pc' = [pc EXCEPT ![m] = p]
    BY <1>4 DEF Arrive, LookUp, TakeTurn, Reset, PopTask, SetCancel, Strike, InsertTask, Goto
  <2>. QED  BY <1>2, <2>1, <2>2, <2>3 DEF PendingInv
<1>5. ASSUME NEW m \in Msgs, Raise(m) \/ Drain(m) \/ Finish(m)
      PROVE  PendingInv'
  <2>1. UNCHANGED <<agent, pending>> /\ target' \in [Msgs -> Msgs \cup {None}]
    BY <1>5 DEF Raise, Drain, Finish, questions, PendingInv
  <2>2. \E p \in {"finish", "done"} : pc' = [pc EXCEPT ![m] = p]
    BY <1>5 DEF Raise, Drain, Finish, Goto
  <2>. QED  BY <1>2, <2>1, <2>2 DEF PendingInv
<1>6. ASSUME NEW m \in Msgs, Start(m) \/ AgentEnds(m)
      PROVE  PendingInv'
  <2>1. agent[m] # "asking"
    BY <1>6 DEF Start, AgentEnds, At, PendingInv, Begun
  <2>2. /\ \E a \in {"run", "done"} : agent' = [agent EXCEPT ![m] = a]
        /\ UNCHANGED <<pending, target>>
    BY <1>6 DEF Start, AgentEnds
  <2>3. {q \in Msgs : agent'[q] = "asking"} = {q \in Msgs : agent[q] = "asking"}
    BY <2>1, <2>2 DEF PendingInv
  <2>4. Begun'
    BY <1>1, <1>6, <2>2 DEF Start, AgentEnds, Goto, PendingInv, Begun
  <2>. QED  BY <2>2, <2>3, <2>4 DEF PendingInv, Listed
<1>7. ASSUME UNCHANGED <<pc, agent, pending, target>>
      PROVE  PendingInv'
  BY <1>7 DEF PendingInv, Listed, Begun
<1>8. ASSUME NEW u \in Users, Clean(u)  PROVE PendingInv'
  BY <1>7, <1>8 DEF Clean, questions
<1>9. CASE UNCHANGED vars
  BY <1>7, <1>9 DEF vars, questions
<1>10. ASSUME NEW m \in Msgs, Handle(m)  PROVE PendingInv'
  BY <1>10, <1>3, <1>4, <1>5, <1>6 DEF Handle
<1>. QED  BY <1>4, <1>6, <1>8, <1>9, <1>10, AskLists, GoOnLists DEF Next

LEMMA InitLists ==
  Init => PendingInv
<1>. SUFFICES ASSUME Init PROVE PendingInv
  OBVIOUS
<1>1. pending = <<>> /\ \A m \in Msgs : agent[m] = "none"
  BY DEF Init
<1>2. Listed
  BY <1>1 DEF Listed, IsInjective, Range
<1>. QED  BY <1>1, <1>2 DEF Init, PendingInv, Begun

LEMMA AlwaysPendingInv ==
  Spec => []PendingInv
<1>1. TaskInv /\ PendingInv /\ [Next]_vars => PendingInv'
  BY StepLists
<1>. QED  BY <1>1, InitLists, AlwaysTaskInv, PTL DEF Spec

(* The scripts are what the messages may be, and stay what they were; each *)
(* thread has an identifier.                                               *)
Scripted == sent \in Scripts /\ ident \in [Msgs -> Msgs]

LEMMA AlwaysScripted ==
  Spec => []Scripted
<1>1. Init => Scripted
  BY DEF Init, Scripted
<1>2. ASSUME Scripted, [Next]_vars  PROVE Scripted'
  <2>1. UNCHANGED sent
    BY <1>2 DEF Next, vars, Arrive, Handle, Route, SubmitAnswer, LookUp, TakeTurn, Reset,
                PopTask, SetCancel, Strike, InsertTask, Raise, Start, Drain, Finish, Ask,
                GoOn, AgentEnds, Clean
  <2>2. CASE \E m \in Msgs : Arrive(m)
    BY <1>2, <2>1, <2>2 DEF Scripted, Arrive
  <2>3. CASE ~\E m \in Msgs : Arrive(m)
    <3>1. UNCHANGED ident
      BY <1>2, <2>3 DEF Next, vars, Handle, Route, SubmitAnswer, LookUp, TakeTurn, Reset,
                  PopTask, SetCancel, Strike, InsertTask, Raise, Start, Drain, Finish, Ask,
                  GoOn, AgentEnds, Clean
    <3>. QED  BY <1>2, <2>1, <3>1 DEF Scripted
  <2>. QED  BY <2>2, <2>3
<1>. QED  BY <1>1, <1>2, PTL DEF Spec

(* TypeOK: at most one handler is in the locked part of a lookup, and the  *)
(* registry of questions lists exactly the agents that wait, each once     *)
(* (gateway.py:313-345, ask_user/__init__.py:131-201).                     *)
THEOREM GatewayTypeCorrect ==
  Spec => []TypeOK
<1>. USE GatewayAssumption
<1>1. SessionInv => Cardinality({m \in Msgs : pc[m] = "turn"}) <= 1
  <2>. DEFINE T == {m \in Msgs : pc[m] = "turn"}
  <2>. SUFFICES ASSUME SessionInv  PROVE Cardinality(T) <= 1
    OBVIOUS
  <2>1. CASE \A m \in Msgs : pc[m] # "turn"
    <3>1. T = {}
      BY <2>1
    <3>. HIDE DEF T
    <3>2. Cardinality({}) = 0
      BY FS_EmptySet
    <3>. QED  BY <3>1, <3>2
  <2>2. CASE \E m \in Msgs : pc[m] = "turn"
    <3>1. PICK m \in Msgs : pc[m] = "turn"
      BY <2>2
    <3>2. T = {m}
      BY <3>1 DEF SessionInv, Places
    <3>. HIDE DEF T
    <3>3. Cardinality({m}) = 1
      BY FS_Singleton
    <3>. QED  BY <3>2, <3>3
  <2>. QED  BY <2>1, <2>2
<1>2. TaskInv /\ SessionInv /\ PendingInv /\ Scripted => TypeOK
  BY <1>1 DEF Scripted, TypeOK, TaskInv, TaskTypes, SessionInv, SessionTypes, PendingInv, Listed
<1>. QED  BY <1>2, AlwaysTaskInv, AlwaysSessionInv, AlwaysPendingInv, AlwaysScripted, PTL

(* TurnsPerSession: however lookups, resets without the lock and clean-ups *)
(* interleave, no session takes more than MAX_TURNS turns                  *)
(* (gateway.py:313-345, 357-370, 818-823).                                 *)
THEOREM SessionsAreBounded ==
  Spec => []TurnsPerSession
<1>1. SessionInv => TurnsPerSession
  BY DEF SessionInv, Counts, Few, Members, TurnsPerSession
<1>. QED  BY <1>1, AlwaysSessionInv, PTL

(* RegisteredAreAtWork: no entry of the registry survives its              *)
(* cancellation, and none outlives its handler but that of a handler that  *)
(* a kill hit instead of the ended one it was meant for                    *)
(* (gateway.py:248-292).                                                   *)
THEOREM TasksAreAtWork ==
  Spec => []RegisteredAreAtWork
<1>1. TaskInv => RegisteredAreAtWork
  BY DEF TaskInv
<1>. QED  BY <1>1, AlwaysTaskInv, PTL

(* AnswerStands: of the messages that race to answer a question only the   *)
(* first is taken.                                                         *)
THEOREM FirstAnswerStands ==
  Spec => AnswerStands
<1>1. TaskInv /\ [Next]_vars => [\A q \in Msgs : answer[q] # None => answer'[q] = answer[q]]_vars
  <2>. SUFFICES ASSUME TaskInv, Next, NEW q \in Msgs, answer[q] # None
                PROVE  answer'[q] = answer[q]
    OBVIOUS
  <2>. USE DEF TaskInv, TaskTypes, vars, questions
  <2>1. ASSUME NEW m \in Msgs, SubmitAnswer(m)  PROVE answer'[q] = answer[q]
    BY <2>1 DEF SubmitAnswer, Accepts
  <2>2. ASSUME NEW m \in Msgs, Handle(m), ~SubmitAnswer(m)  PROVE answer' = answer
    BY <2>2 DEF Handle, Route, LookUp, TakeTurn, Reset, PopTask, SetCancel, Strike, InsertTask,
       Raise, Start, Drain, Finish
  <2>3. ASSUME NEW m \in Msgs, Arrive(m) \/ Ask(m) \/ GoOn(m) \/ AgentEnds(m)
        PROVE  answer' = answer
    BY <2>3 DEF Arrive, Ask, GoOn, AgentEnds
  <2>4. ASSUME NEW u \in Users, Clean(u)  PROVE answer' = answer
    BY <2>4 DEF Clean
  <2>. QED  BY <2>1, <2>2, <2>3, <2>4 DEF Next
<1>. QED  BY <1>1, AlwaysTaskInv, PTL DEF Spec, AnswerStands
=============================================================================
