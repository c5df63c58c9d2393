---------------------------- MODULE ForkPoolProofs ----------------------------
(***************************************************************************)
(* Proofs about ForkPool, for every wave, every limiter and every pool.    *)
(* Counting and growth concern the limiter and are nearly inductive alone; *)
(* the exclusion of forks within a call needs to know which live forks can *)
(* be of the call that is being made: the attempt its thread waits for, or *)
(* the last one, given up at its wall clock.                               *)
(***************************************************************************)
EXTENDS ForkPool, FiniteSetTheorems, SequenceTheorems, TLAPS

-----------------------------------------------------------------------------
(* The limiter.                                                            *)

\* The bounds of the limit are integers and in order.
LEMMA BoundsInOrder == Lo \in Int /\ Hi \in Int /\ 1 <= Lo /\ Lo <= Hi
  BY PoolAssumption DEF Lo, Hi, AtLeast

Limiters == [limit : Lo .. Hi, active : Nat, succ : Nat]

\* A success leaves permits alone and counts; with as many as the limit it
\* starts again at none under a limit one higher, and never otherwise.
LEMMA SuccessCounts ==
  ASSUME NEW l \in Limiters
  PROVE  /\ Success(l) \in Limiters
         /\ Success(l).active = l.active
         /\ Success(l).limit > l.limit => l.succ + 1 >= l.limit
         /\ Success(l).succ = IF Success(l).limit # l.limit THEN 0 ELSE l.succ + 1
<1>1. CASE l.succ + 1 >= l.limit /\ l.limit < Hi
  <2>1. Success(l) = [limit |-> l.limit + 1, active |-> l.active, succ |-> 0]
    BY <1>1 DEF Success
  <2>2. QED
    BY <1>1, <2>1, BoundsInOrder DEF Limiters
<1>2. CASE ~(l.succ + 1 >= l.limit /\ l.limit < Hi)
  <2>1. Success(l) = [limit |-> l.limit, active |-> l.active, succ |-> l.succ + 1]
    BY <1>2 DEF Success
  <2>2. QED
    BY <1>2, <2>1, BoundsInOrder DEF Limiters
<1>3. QED
  BY <1>1, <1>2

\* An overload leaves permits alone, does not raise the limit and forgets the
\* successes.
LEMMA OverloadForgets ==
  ASSUME NEW l \in Limiters
  PROVE  /\ Overload(l) \in Limiters
         /\ Overload(l).active = l.active
         /\ ~(Overload(l).limit > l.limit)
         /\ Overload(l).succ = 0
<1>1. AtLeast(Lo, l.limit \div 2) \in Lo .. Hi /\ ~(AtLeast(Lo, l.limit \div 2) > l.limit)
  BY BoundsInOrder DEF AtLeast, Limiters
<1>2. QED
  BY <1>1, BoundsInOrder DEF Overload, Limiters

-----------------------------------------------------------------------------
(* The queue.                                                              *)

Distinct(q) == \A i, k \in 1 .. Len(q) : q[i] = q[k] => i = k

\* A fork that joins the queue is added to the forks in it.
LEMMA Joins ==
  ASSUME NEW q \in Seq(Forks), NEW f \in Forks
  PROVE  /\ Append(q, f) \in Seq(Forks)
         /\ Range(Append(q, f)) = Range(q) \cup {f}
         /\ Distinct(q) /\ f \notin Range(q) => Distinct(Append(q, f))
<1>1. /\ Append(q, f) \in Seq(Forks)
      /\ Len(q) \in Nat
      /\ Len(Append(q, f)) = Len(q) + 1
      /\ \A i \in 1 .. Len(q) : Append(q, f)[i] = q[i]
      /\ Append(q, f)[Len(q) + 1] = f
  BY AppendProperties
<1>2. DOMAIN q = 1 .. Len(q) /\ DOMAIN Append(q, f) = 1 .. Len(q) + 1
  BY <1>1
<1>3. \A i \in 1 .. Len(q) + 1 : i \in 1 .. Len(q) \/ i = Len(q) + 1
  BY <1>1
<1>4. 1 .. Len(q) \subseteq 1 .. Len(q) + 1 /\ Len(q) + 1 \in 1 .. Len(q) + 1
  BY <1>1
<1>5. Range(Append(q, f)) = Range(q) \cup {f}
  BY <1>1, <1>2, <1>3, <1>4, Zenon DEF Range
<1>6. ASSUME Distinct(q), f \notin Range(q)
      PROVE  Distinct(Append(q, f))
  <2>1. \A i \in 1 .. Len(q) : q[i] # f
    BY <1>2, <1>6, Zenon DEF Range
  <2>2. QED
    BY <1>1, <1>3, <1>6, <2>1 DEF Distinct
<1>7. QED
  BY <1>1, <1>5, <1>6

\* The fork at the head leaves, and is not found behind itself.
LEMMA Leaves ==
  ASSUME NEW q \in Seq(Forks), q # <<>>
  PROVE  /\ Head(q) \in Forks /\ Tail(q) \in Seq(Forks)
         /\ Range(q) = {Head(q)} \cup Range(Tail(q))
         /\ Distinct(q) => Distinct(Tail(q)) /\ Head(q) \notin Range(Tail(q))
<1>1. /\ Head(q) \in Forks
      /\ Tail(q) \in Seq(Forks)
      /\ Len(q) \in Nat \ {0}
      /\ Len(Tail(q)) = Len(q) - 1
      /\ \A i \in 1 .. Len(q) - 1 : Tail(q)[i] = q[i + 1]
      /\ Head(q) = q[1]
  BY HeadTailProperties
<1>2. DOMAIN q = 1 .. Len(q) /\ DOMAIN Tail(q) = 1 .. Len(q) - 1
  BY <1>1
<1>3. Range(q) = {q[i] : i \in 1 .. Len(q)} /\ Range(Tail(q)) = {q[i + 1] : i \in 1 .. Len(q) - 1}
  <2>1. Range(q) = {q[i] : i \in 1 .. Len(q)}
    BY <1>2, Zenon DEF Range
  <2>2. Range(Tail(q)) = {Tail(q)[i] : i \in 1 .. Len(q) - 1}
    BY <1>2, Zenon DEF Range
  <2>3. {Tail(q)[i] : i \in 1 .. Len(q) - 1} = {q[i + 1] : i \in 1 .. Len(q) - 1}
    BY <1>1
  <2>4. QED
    BY <2>1, <2>2, <2>3
<1>4. Range(q) = {Head(q)} \cup Range(Tail(q))
  <2>1. \A i \in 1 .. Len(q) : i = 1 \/ \E k \in 1 .. Len(q) - 1 : i = k + 1
    <3>1. TAKE i \in 1 .. Len(q)
    <3>2. i # 1 => i - 1 \in 1 .. Len(q) - 1 /\ i = (i - 1) + 1
      BY <1>1
    <3>3. QED
      BY <3>2
  <2>2. 1 \in 1 .. Len(q) /\ \A k \in 1 .. Len(q) - 1 : k + 1 \in 1 .. Len(q)
    BY <1>1
  <2>3. Head(q) \in Range(q)
    BY <1>1, <1>3, <2>2
  <2>4. Range(Tail(q)) \subseteq Range(q)
    BY <1>3, <2>2
  <2>5. ASSUME NEW i \in 1 .. Len(q)
        PROVE  q[i] = Head(q) \/ q[i] \in Range(Tail(q))
    BY <1>1, <1>3, <2>1
  <2>6. QED
    BY <1>3, <2>3, <2>4, <2>5
<1>5. ASSUME Distinct(q)
      PROVE  Distinct(Tail(q)) /\ Head(q) \notin Range(Tail(q))
  BY <1>1, <1>3, <1>5 DEF Distinct
<1>6. QED
  BY <1>1, <1>4, <1>5

-----------------------------------------------------------------------------
(* The invariant.                                                          *)

\* A fork is waiting or running once.
Once == Distinct(queue) /\ \A f \in running : f \notin Range(queue)

\* A live fork belongs to a call that was made. One of the call that is being
\* made is its present attempt, awaited or given up.
Current ==
  \A f \in Live :
    /\ f[2] <= dispatch[f[1]]
    /\ f[2] = dispatch[f[1]] =>
         /\ f[3] = attempt[f[1]]
         /\ \/ pc[f[1]] = "waiting"
            \/ out[f[1]] = "wallclock" /\ pc[f[1]] \in {"record", "release", "done"}

\* A thread that backs off has an attempt left.
Backoff == \A j \in Jobs : pc[j] = "backoff" => attempt[j] < Retries

\* The limiter counts the holders, within its ceiling, and the successes that
\* were reported since its limit last moved or an overload was.
Counted == lim.active = Cardinality(Holders) /\ lim.active <= Hi
Remembered == lim.succ = won

PoolInv == TypeOK /\ Counted /\ Remembered /\ Once /\ Current /\ Backoff

LEMMA InitPool == Init => PoolInv
<1> SUFFICES ASSUME Init PROVE PoolInv
  OBVIOUS
<1>1. AtLeast(Lo, AtMost(Start, Hi)) \in Lo .. Hi
  BY BoundsInOrder, PoolAssumption DEF AtLeast, AtMost
<1>2. TypeOK
  BY <1>1, PoolAssumption, BoundsInOrder DEF Init, TypeOK, Steps, Forks
<1>3. Counted
  <2>1. Holders = {}
    BY DEF Init, Holders
  <2>2. QED
    BY <2>1, FS_EmptySet, BoundsInOrder DEF Init, Counted
<1>4. Remembered
  BY <1>1, BoundsInOrder DEF Init, Remembered
<1>5. Range(queue) = {}
  BY DEF Init, Range
<1>6. Once /\ Current /\ Backoff
  BY <1>5 DEF Init, Once, Current, Backoff, Distinct, Live
<1>7. QED
  BY <1>2, <1>3, <1>4, <1>6 DEF PoolInv

-----------------------------------------------------------------------------
(* Steps of the limiter.                                                   *)

\* Holders is finite, as the wave is.
LEMMA HoldersAreFew == IsFiniteSet(Holders) /\ Cardinality(Holders) \in Nat
  BY PoolAssumption, FS_Subset, FS_CardinalityType DEF Holders

\* A step that leaves the limiter alone, and no thread in or out of the
\* holders, leaves what it counts alone.
LEMMA LimiterStutters ==
  ASSUME PoolInv, UNCHANGED <<lim, won>>,
         \A j \in Jobs : pc'[j] \in {"start", "done"} <=> pc[j] \in {"start", "done"}
  PROVE  Counted' /\ Remembered'
<1>1. Holders' = Holders
  BY DEF Holders
<1>2. QED
  BY <1>1 DEF PoolInv, Counted, Remembered

\* A step that only moves one thread and the limiter leaves the forks alone,
\* where the thread may make it.
LEMMA ForksStutter ==
  ASSUME PoolInv, UNCHANGED <<dispatch, attempt, out, queue, running>>,
         NEW j \in Jobs, NEW s, pc' = [pc EXCEPT ![j] = s],
         \/ pc[j] \in {"start", "call", "backoff"}
         \/ out[j] # "wallclock" /\ pc[j] # "waiting"
         \/ s \in {"record", "release", "done"} /\ pc[j] # "waiting",
         s = "backoff" => attempt[j] < Retries
  PROVE  Once' /\ Current' /\ Backoff'
<1>1. Live' = Live
  BY DEF Live
<1>2. Live \subseteq Forks
  BY DEF PoolInv, TypeOK, Live, Range
<1>3. Once'
  BY DEF PoolInv, Once
<1>4. Current'
  <2>1. SUFFICES ASSUME NEW f \in Live
                 PROVE  /\ f[2] <= dispatch[f[1]]
                        /\ f[2] = dispatch[f[1]] =>
                             /\ f[3] = attempt[f[1]]
                             /\ \/ pc'[f[1]] = "waiting"
                                \/ out[f[1]] = "wallclock" /\ pc'[f[1]] \in {"record", "release", "done"}
    BY <1>1 DEF Current
  <2>2. f[1] \in Jobs
    BY <1>2 DEF Forks
  <2>3. f[1] # j => pc'[f[1]] = pc[f[1]]
    BY <2>2 DEF PoolInv, TypeOK
  <2>4. pc'[j] = s
    BY DEF PoolInv, TypeOK
  <2>5. QED
    BY <2>2, <2>3, <2>4 DEF PoolInv, Current
<1>5. Backoff'
  BY DEF PoolInv, TypeOK, Backoff
<1>6. QED
  BY <1>3, <1>4, <1>5

LEMMA AcquireKeeps ==
  ASSUME PoolInv, NEW j \in Jobs, Acquire(j)
  PROVE  PoolInv'
<1>1. Holders' = Holders \cup {j} /\ j \notin Holders
  BY DEF PoolInv, TypeOK, Acquire, Holders
<1>2. Cardinality(Holders') = Cardinality(Holders) + 1
  BY <1>1, HoldersAreFew, FS_AddElement
<1>3. lim' = [limit |-> lim.limit, active |-> lim.active + 1, succ |-> lim.succ]
  BY DEF Acquire, Acquired
<1>4. TypeOK'
  BY <1>3 DEF PoolInv, TypeOK, Acquire, Steps
<1>5. Counted'
  BY <1>2, <1>3, BoundsInOrder DEF PoolInv, TypeOK, Counted, Acquire, Admits
<1>6. Remembered'
  BY <1>3 DEF PoolInv, Remembered, Acquire
<1>7. Once' /\ Current' /\ Backoff'
  BY ForksStutter DEF Acquire
<1>8. QED
  BY <1>4, <1>5, <1>6, <1>7 DEF PoolInv

LEMMA RecordKeeps ==
  ASSUME PoolInv, NEW j \in Jobs, Record(j)
  PROVE  PoolInv'
<1>1. PICK s \in {"release", "backoff"} :
        /\ pc' = [pc EXCEPT ![j] = s]
        /\ s = "backoff" => Retriable(out[j]) /\ attempt[j] < Retries
  BY DEF Record
<1>2. lim \in Limiters
  BY DEF PoolInv, TypeOK, Limiters
<1>3. lim' \in Limiters /\ lim'.active = lim.active /\ Remembered' /\ won' \in Nat
  <2>1. CASE out[j] = "transient"
    BY <1>2, <2>1, OverloadForgets DEF Record, Remembered
  <2>2. CASE out[j] # "transient"
    BY <1>2, <2>2, SuccessCounts DEF Record, PoolInv, TypeOK, Remembered
  <2>3. QED
    BY <2>1, <2>2
<1>4. TypeOK'
  BY <1>1, <1>3 DEF PoolInv, TypeOK, Record, Steps, Limiters
<1>5. Holders' = Holders
  BY <1>1 DEF PoolInv, TypeOK, Record, Holders
<1>6. Counted' /\ Remembered'
  BY <1>3, <1>5 DEF PoolInv, Counted
<1>7. Once' /\ Current' /\ Backoff'
  BY <1>1, ForksStutter DEF Record, Retriable
<1>8. QED
  BY <1>4, <1>6, <1>7 DEF PoolInv

-----------------------------------------------------------------------------
(* Steps of the executor and the pool.                                     *)

\* While a thread prepares a call, no fork of that call is alive.
LEMMA CallIsNew ==
  ASSUME PoolInv, NEW j \in Jobs, pc[j] = "call"
  PROVE  Fork(j) \in Forks /\ Fork(j) \notin Live
<1>1. Fork(j) \in Forks
  BY PoolAssumption DEF PoolInv, TypeOK, Fork, Forks
<1>2. Fork(j)[1] = j /\ Fork(j)[2] = dispatch[j]
  BY DEF Fork
<1>3. QED
  BY <1>1, <1>2 DEF PoolInv, Current

LEMMA SubmitKeeps ==
  ASSUME PoolInv, NEW j \in Jobs, Submit(j)
  PROVE  PoolInv'
<1>1. Fork(j) \in Forks /\ Fork(j) \notin Live
  BY CallIsNew DEF Submit
<1>2. /\ queue' \in Seq(Forks)
      /\ Range(queue') = Range(queue) \cup {Fork(j)}
      /\ Distinct(queue')
  BY <1>1, Joins DEF PoolInv, TypeOK, Submit, Live, Once
<1>3. TypeOK'
  BY <1>2 DEF PoolInv, TypeOK, Submit, Steps
<1>4. Counted' /\ Remembered'
  BY LimiterStutters DEF PoolInv, TypeOK, Submit
<1>5. Once'
  BY <1>1, <1>2 DEF PoolInv, Once, Submit, Live
<1>6. Current'
  <2>1. Live' = Live \cup {Fork(j)}
    BY <1>2 DEF Live, Submit
  <2>2. Live \subseteq Forks
    BY DEF PoolInv, TypeOK, Live, Range
  <2>3. SUFFICES ASSUME NEW f \in Live'
                 PROVE  /\ f[2] <= dispatch[f[1]]
                        /\ f[2] = dispatch[f[1]] =>
                             /\ f[3] = attempt[f[1]]
                             /\ \/ pc'[f[1]] = "waiting"
                                \/ out[f[1]] = "wallclock" /\ pc'[f[1]] \in {"record", "release", "done"}
    BY DEF Current, Submit
  <2>4. CASE f = Fork(j)
    BY <2>4 DEF Fork, PoolInv, TypeOK, Submit
  <2>5. CASE f \in Live
    <3>1. f[1] \in Jobs
      BY <2>2, <2>5 DEF Forks
    <3>2. pc'[f[1]] = IF f[1] = j THEN "waiting" ELSE pc[f[1]]
      BY <3>1 DEF PoolInv, TypeOK, Submit
    <3>3. QED
      BY <2>5, <3>2 DEF PoolInv, Current
  <2>6. QED
    BY <2>1, <2>4, <2>5
<1>7. Backoff'
  BY DEF PoolInv, TypeOK, Backoff, Submit
<1>8. QED
  BY <1>3, <1>4, <1>5, <1>6, <1>7 DEF PoolInv

LEMMA TimeOutKeeps ==
  ASSUME PoolInv, NEW j \in Jobs, TimeOut(j)
  PROVE  PoolInv'
<1>1. TypeOK'
  BY DEF PoolInv, TypeOK, TimeOut, Steps
<1>2. Counted' /\ Remembered'
  BY LimiterStutters DEF PoolInv, TypeOK, TimeOut
<1>3. Once'
  BY DEF PoolInv, Once, TimeOut
<1>4. Current'
  <2>1. Live' = Live /\ Live \subseteq Forks
    BY DEF PoolInv, TypeOK, Live, Range, TimeOut
  <2>2. SUFFICES ASSUME NEW f \in Live
                 PROVE  /\ f[2] <= dispatch[f[1]]
                        /\ f[2] = dispatch[f[1]] =>
                             /\ f[3] = attempt[f[1]]
                             /\ \/ pc'[f[1]] = "waiting"
                                \/ out'[f[1]] = "wallclock" /\ pc'[f[1]] \in {"record", "release", "done"}
    BY <2>1 DEF Current, TimeOut
  <2>3. f[1] \in Jobs
    BY <2>1 DEF Forks
  <2>4. IF f[1] = j THEN pc'[f[1]] = "record" /\ out'[f[1]] = "wallclock"
                    ELSE pc'[f[1]] = pc[f[1]] /\ out'[f[1]] = out[f[1]]
    BY <2>3 DEF PoolInv, TypeOK, TimeOut
  <2>5. f[1] = j => pc[f[1]] = "waiting"
    BY DEF TimeOut
  <2>6. QED
    BY <2>4, <2>5 DEF PoolInv, Current
<1>5. Backoff'
  BY DEF PoolInv, TypeOK, Backoff, TimeOut
<1>6. QED
  BY <1>1, <1>2, <1>3, <1>4, <1>5 DEF PoolInv

LEMMA TryAgainKeeps ==
  ASSUME PoolInv, NEW j \in Jobs, TryAgain(j)
  PROVE  PoolInv'
<1>1. attempt[j] + 1 \in 0 .. Retries
  BY PoolAssumption DEF PoolInv, TypeOK, Backoff, TryAgain
<1>2. TypeOK'
  BY <1>1 DEF PoolInv, TypeOK, TryAgain, Steps
<1>3. Counted' /\ Remembered'
  BY LimiterStutters DEF PoolInv, TypeOK, TryAgain
<1>4. Once'
  BY DEF PoolInv, Once, TryAgain
<1>5. Current'
  <2>1. Live' = Live /\ Live \subseteq Forks
    BY DEF PoolInv, TypeOK, Live, Range, TryAgain
  <2>2. SUFFICES ASSUME NEW f \in Live
                 PROVE  /\ f[2] <= dispatch[f[1]]
                        /\ f[2] = dispatch[f[1]] =>
                             /\ f[3] = attempt'[f[1]]
                             /\ \/ pc'[f[1]] = "waiting"
                                \/ out[f[1]] = "wallclock" /\ pc'[f[1]] \in {"record", "release", "done"}
    BY <2>1 DEF Current, TryAgain
  <2>3. f[1] \in Jobs
    BY <2>1 DEF Forks
  <2>4. f[1] # j => pc'[f[1]] = pc[f[1]] /\ attempt'[f[1]] = attempt[f[1]]
    BY <2>3 DEF PoolInv, TypeOK, TryAgain
  <2>5. f[1] = j => pc[f[1]] = "backoff"
    BY DEF TryAgain
  <2>6. QED
    BY <2>4, <2>5 DEF PoolInv, Current
<1>6. Backoff'
  BY DEF PoolInv, TypeOK, Backoff, TryAgain
<1>7. QED
  BY <1>2, <1>3, <1>4, <1>5, <1>6 DEF PoolInv

LEMMA ReleaseKeeps ==
  ASSUME PoolInv, NEW j \in Jobs, Release(j)
  PROVE  PoolInv'
<1>1. PICK s \in {"done", "start"} :
        /\ pc' = [pc EXCEPT ![j] = s]
        /\ IF s = "done" THEN UNCHANGED <<dispatch, attempt>>
           ELSE /\ dispatch[j] < Reworks
                /\ dispatch' = [dispatch EXCEPT ![j] = @ + 1]
                /\ attempt' = [attempt EXCEPT ![j] = 0]
  BY DEF Release
<1>2. Holders' = Holders \ {j} /\ j \in Holders
  BY <1>1 DEF PoolInv, TypeOK, Release, Holders
<1>3. Cardinality(Holders') = Cardinality(Holders) - 1 /\ Cardinality(Holders') \in Nat
  BY <1>2, HoldersAreFew, FS_RemoveElement, FS_CardinalityType
<1>4. lim' = [limit |-> lim.limit, active |-> lim.active - 1, succ |-> lim.succ]
  BY <1>3, HoldersAreFew DEF Release, Released, AtLeast, PoolInv, Counted
<1>5. TypeOK'
  <2>1. lim' \in Limiters
    BY <1>3, <1>4, HoldersAreFew DEF PoolInv, TypeOK, Counted, Limiters
  <2>2. pc' \in [Jobs -> Steps]
    BY <1>1 DEF PoolInv, TypeOK, Steps
  <2>3. dispatch' \in [Jobs -> 0 .. Reworks] /\ attempt' \in [Jobs -> 0 .. Retries]
    <3>1. CASE s = "done"
      BY <1>1, <3>1 DEF PoolInv, TypeOK
    <3>2. CASE s = "start"
      <4>1. dispatch[j] + 1 \in 0 .. Reworks /\ 0 \in 0 .. Retries
        BY <1>1, <3>2, PoolAssumption DEF PoolInv, TypeOK
      <4>2. QED
        BY <1>1, <3>2, <4>1 DEF PoolInv, TypeOK
    <3>3. QED
      BY <3>1, <3>2
  <2>4. QED
    BY <2>1, <2>2, <2>3 DEF PoolInv, TypeOK, Release, Limiters
<1>6. Counted'
  BY <1>3, <1>4, HoldersAreFew, BoundsInOrder DEF PoolInv, Counted
<1>7. Remembered'
  BY <1>4 DEF PoolInv, Remembered, Release
<1>8. Once'
  BY DEF PoolInv, Once, Release
<1>9. Current'
  <2>1. Live' = Live /\ Live \subseteq Forks
    BY DEF PoolInv, TypeOK, Live, Range, Release
  <2>2. SUFFICES ASSUME NEW f \in Live
                 PROVE  /\ f[2] <= dispatch'[f[1]]
                        /\ f[2] = dispatch'[f[1]] =>
                             /\ f[3] = attempt'[f[1]]
                             /\ \/ pc'[f[1]] = "waiting"
                                \/ out[f[1]] = "wallclock" /\ pc'[f[1]] \in {"record", "release", "done"}
    BY <2>1 DEF Current, Release
  <2>3. f[1] \in Jobs /\ f[2] \in Nat
    BY <2>1 DEF Forks
  <2>4. f[1] # j => /\ pc'[f[1]] = pc[f[1]]
                    /\ attempt'[f[1]] = attempt[f[1]]
                    /\ dispatch'[f[1]] = dispatch[f[1]]
    BY <1>1, <2>3 DEF PoolInv, TypeOK
  <2>5. CASE f[1] # j
    BY <2>4, <2>5 DEF PoolInv, Current
  <2>6. CASE f[1] = j /\ s = "done"
    <3>1. pc'[j] = "done" /\ pc[j] = "release" /\ dispatch' = dispatch /\ attempt' = attempt
      BY <1>1, <2>6 DEF PoolInv, TypeOK, Release
    <3>2. QED
      BY <2>6, <3>1 DEF PoolInv, Current
  <2>7. CASE f[1] = j /\ s = "start"
    <3>1. dispatch'[j] = dispatch[j] + 1 /\ dispatch[j] \in Nat
      BY <1>1, <2>7, PoolAssumption DEF PoolInv, TypeOK
    <3>2. f[2] <= dispatch[j]
      BY <2>7 DEF PoolInv, Current
    <3>3. QED
      BY <2>3, <2>7, <3>1, <3>2
  <2>8. QED
    BY <2>5, <2>6, <2>7
<1>10. Backoff'
  BY <1>1 DEF PoolInv, TypeOK, Backoff, Release
<1>11. QED
  BY <1>5, <1>6, <1>7, <1>8, <1>9, <1>10 DEF PoolInv

LEMMA StartForkKeeps ==
  ASSUME PoolInv, StartFork
  PROVE  PoolInv'
<1>1. /\ Head(queue) \in Forks /\ queue' \in Seq(Forks)
      /\ Range(queue) = {Head(queue)} \cup Range(queue')
      /\ Distinct(queue') /\ Head(queue) \notin Range(queue')
  BY Leaves DEF PoolInv, TypeOK, Once, StartFork
<1>2. TypeOK'
  BY <1>1 DEF PoolInv, TypeOK, StartFork
<1>3. Counted' /\ Remembered'
  BY LimiterStutters DEF StartFork
<1>4. Once'
  BY <1>1 DEF PoolInv, Once, StartFork
<1>5. Live' = Live
  BY <1>1 DEF Live, StartFork
<1>6. Current' /\ Backoff'
  BY <1>5 DEF PoolInv, Current, Backoff, StartFork
<1>7. QED
  BY <1>2, <1>3, <1>4, <1>6 DEF PoolInv

LEMMA EndForkKeeps ==
  ASSUME PoolInv, NEW f \in running, EndFork(f)
  PROVE  PoolInv'
<1>1. f \in Forks /\ f[1] \in Jobs
  BY DEF PoolInv, TypeOK, Forks
<1>2. Live' = Live \ {f} /\ Live \subseteq Forks
  BY DEF PoolInv, TypeOK, Once, Live, Range, EndFork
<1>3. Once'
  BY DEF PoolInv, Once, EndFork
<1>4. CASE pc[f[1]] = "waiting" /\ f = Fork(f[1])
  <2>1. PICK result \in {"transient", "answer"} : out' = [out EXCEPT ![f[1]] = result]
    BY <1>4 DEF EndFork
  <2>2. pc' = [pc EXCEPT ![f[1]] = "record"]
    BY <1>4 DEF EndFork
  <2>3. TypeOK'
    BY <1>1, <2>1, <2>2 DEF PoolInv, TypeOK, EndFork, Steps
  <2>4. Counted' /\ Remembered'
    BY <1>1, <1>4, <2>2, LimiterStutters DEF PoolInv, TypeOK, EndFork
  <2>5. Current'
    <3>1. SUFFICES ASSUME NEW g \in Live, g # f
                   PROVE  /\ g[2] <= dispatch[g[1]]
                          /\ g[2] = dispatch[g[1]] =>
                               /\ g[3] = attempt[g[1]]
                               /\ \/ pc'[g[1]] = "waiting"
                                  \/ out'[g[1]] = "wallclock" /\ pc'[g[1]] \in {"record", "release", "done"}
      BY <1>2 DEF Current, EndFork
    <3>2. g \in Forks /\ g[1] \in Jobs
      BY <1>2 DEF Forks
    <3>3. CASE g[1] # f[1]
      BY <1>1, <2>1, <2>2, <3>2, <3>3 DEF PoolInv, TypeOK, Current
    <3>4. CASE g[1] = f[1]
      <4>1. g[2] <= dispatch[g[1]] /\ (g[2] = dispatch[g[1]] => g[3] = attempt[g[1]])
        BY DEF PoolInv, Current
      <4>2. g[2] = dispatch[g[1]] => g = f
        BY <1>4, <3>2, <3>4, <4>1 DEF Fork, Forks
      <4>3. QED
        BY <3>1, <4>1, <4>2
    <3>5. QED
      BY <3>3, <3>4
  <2>6. Backoff'
    BY <1>1, <2>2 DEF PoolInv, TypeOK, Backoff, EndFork
  <2>7. QED
    BY <1>3, <2>3, <2>4, <2>5, <2>6 DEF PoolInv
<1>5. CASE ~(pc[f[1]] = "waiting" /\ f = Fork(f[1]))
  <2>1. UNCHANGED <<lim, pc, dispatch, attempt, out, queue, won>> /\ running' = running \ {f}
    BY <1>5 DEF EndFork
  <2>2. TypeOK'
    BY <2>1 DEF PoolInv, TypeOK
  <2>3. Counted' /\ Remembered'
    BY <2>1, LimiterStutters
  <2>4. Current' /\ Backoff'
    BY <1>2, <2>1 DEF PoolInv, Current, Backoff
  <2>5. QED
    BY <1>3, <2>2, <2>3, <2>4 DEF PoolInv
<1>6. QED
  BY <1>4, <1>5

LEMMA NextKeepsPool == PoolInv /\ [Next]_vars => PoolInv'
<1> SUFFICES ASSUME PoolInv, [Next]_vars PROVE PoolInv'
  OBVIOUS
<1>1. ASSUME NEW j \in Jobs, Thread(j) PROVE PoolInv'
  BY <1>1, AcquireKeeps, SubmitKeeps, TimeOutKeeps, RecordKeeps, TryAgainKeeps, ReleaseKeeps
    DEF Thread
<1>2. CASE StartFork
  BY <1>2, StartForkKeeps
<1>3. ASSUME NEW f \in running, EndFork(f) PROVE PoolInv'
  BY <1>3, EndForkKeeps
<1>4. CASE UNCHANGED vars
  BY <1>4 DEF vars, PoolInv, TypeOK, Counted, Holders, Remembered, Once, Current,
              Backoff, Live, Distinct
<1>5. QED
  BY <1>1, <1>2, <1>3, <1>4 DEF Next

-----------------------------------------------------------------------------
(* The theorems.                                                           *)

\* The invariant holds of every wave (resilience.py:73-131, 289-375).
THEOREM PoolInvariant == Spec => []PoolInv
<1>1. Init => PoolInv
  BY InitPool
<1>2. PoolInv /\ [Next]_vars => PoolInv'
  BY NextKeepsPool
<1>3. QED
  BY <1>1, <1>2, PTL DEF Spec

\* The limit stays within its bounds, and dispatches and attempts within
\* theirs (resilience.py:87-91, 364).
THEOREM PoolTypeCorrect == Spec => []TypeOK
<1>1. PoolInv => TypeOK
  BY DEF PoolInv
<1>2. QED
  BY <1>1, PoolInvariant, PTL

\* Only an admission adds to the holders, and only a report moves the limit:
\* the one below the limit, the other with as many successes as it had.
LEMMA NextMovesLimiter ==
  ASSUME PoolInv, [Next]_vars
  PROVE  /\ Holders' \subseteq Holders \/ Cardinality(Holders') <= lim.limit
         /\ lim'.limit > lim.limit => won + 1 >= lim.limit
<1>1. lim \in Limiters
  BY DEF PoolInv, TypeOK, Limiters
<1>2. ASSUME NEW j \in Jobs, Acquire(j)
      PROVE  Cardinality(Holders') <= lim.limit /\ lim'.limit = lim.limit
  <2>1. Holders' = Holders \cup {j} /\ j \notin Holders
    BY <1>2 DEF PoolInv, TypeOK, Acquire, Holders
  <2>2. Cardinality(Holders') = Cardinality(Holders) + 1
    BY <2>1, HoldersAreFew, FS_AddElement
  <2>3. lim.limit \in Int /\ Cardinality(Holders) < lim.limit
    BY <1>1, <1>2, BoundsInOrder DEF Acquire, Admits, PoolInv, Counted, Limiters
  <2>4. QED
    BY <1>2, <2>2, <2>3, HoldersAreFew DEF Acquire, Acquired
<1>3. ASSUME NEW j \in Jobs, Record(j)
      PROVE  Holders' \subseteq Holders /\ (lim'.limit > lim.limit => won + 1 >= lim.limit)
  <2>1. Holders' \subseteq Holders
    BY <1>3 DEF Record, PoolInv, TypeOK, Holders
  <2>2. CASE out[j] = "transient"
    BY <1>1, <1>3, <2>1, <2>2, OverloadForgets DEF Record
  <2>3. CASE out[j] # "transient"
    BY <1>1, <1>3, <2>1, <2>3, SuccessCounts DEF Record, PoolInv, Remembered
  <2>4. QED
    BY <2>2, <2>3
<1>4. ASSUME NEW j \in Jobs, Release(j)
      PROVE  Holders' \subseteq Holders /\ lim'.limit = lim.limit
  BY <1>4 DEF Release, Released, PoolInv, TypeOK, Holders
<1>5. ASSUME NEW j \in Jobs, Submit(j) \/ TimeOut(j) \/ TryAgain(j)
      PROVE  Holders' \subseteq Holders /\ lim' = lim
  BY <1>5 DEF Submit, TimeOut, TryAgain, PoolInv, TypeOK, Holders
<1>6. ASSUME StartFork PROVE Holders' \subseteq Holders /\ lim' = lim
  BY <1>6 DEF StartFork, Holders
<1>7. ASSUME NEW f \in running, EndFork(f) PROVE Holders' \subseteq Holders /\ lim' = lim
  BY <1>7 DEF EndFork, PoolInv, TypeOK, Holders
<1>8. CASE UNCHANGED vars
  BY <1>1, <1>8, BoundsInOrder DEF vars, Holders, Limiters
<1>9. lim.limit \in Int
  BY <1>1, BoundsInOrder DEF Limiters
<1>10. QED
  BY <1>2, <1>3, <1>4, <1>5, <1>6, <1>7, <1>8, <1>9 DEF Next, Thread

\* The limiter counts the threads that hold a permit, and admits one only where
\* that leaves no more of them than the limit (resilience.py:96-105).
THEOREM PermitsAreCounted == Spec => PermitsCounted
<1>1. PoolInv => lim.active = Cardinality(Holders)
  BY DEF PoolInv, Counted
<1>2. PoolInv /\ [Next]_vars =>
        [Holders' \subseteq Holders \/ Cardinality(Holders') <= lim.limit]_vars
  BY NextMovesLimiter
<1>3. QED
  BY <1>1, <1>2, PoolInvariant, PTL DEF Spec, PermitsCounted

\* Every raise is earned under the limit it raises (resilience.py:117-131).
THEOREM GrowthIsEarned == Spec => GrowthEarned
<1>1. PoolInv /\ [Next]_vars => [lim'.limit > lim.limit => won + 1 >= lim.limit]_vars
  BY NextMovesLimiter
<1>2. QED
  BY <1>1, PoolInvariant, PTL DEF Spec, GrowthEarned

\* Forks only come to life in Submit, where none of their call is alive.
LEMMA NextKeepsExclusion ==
  ASSUME PoolInv, OneForkPerCall, [Next]_vars
  PROVE  OneForkPerCall'
<1>1. ASSUME NEW j \in Jobs, Submit(j) PROVE OneForkPerCall'
  <2>1. Live' = Live \cup {Fork(j)}
    BY <1>1, CallIsNew, Joins DEF PoolInv, TypeOK, Submit, Live
  <2>2. \A f \in Live : ~(f[1] = j /\ f[2] = dispatch[j])
    BY <1>1 DEF PoolInv, Current, Submit
  <2>3. Fork(j)[1] = j /\ Fork(j)[2] = dispatch[j]
    BY DEF Fork
  <2>4. QED
    BY <2>1, <2>2, <2>3 DEF OneForkPerCall
<1>2. ASSUME Live' \subseteq Live PROVE OneForkPerCall'
  BY <1>2 DEF OneForkPerCall
<1>3. ASSUME NEW j \in Jobs, Thread(j), ~Submit(j) PROVE Live' \subseteq Live
  BY <1>3 DEF Thread, Acquire, TimeOut, Record, TryAgain, Release, Live
<1>4. ASSUME StartFork PROVE Live' \subseteq Live
  BY <1>4, Leaves DEF PoolInv, TypeOK, StartFork, Live
<1>5. ASSUME NEW f \in running, EndFork(f) PROVE Live' \subseteq Live
  BY <1>5 DEF EndFork, Live
<1>6. ASSUME UNCHANGED vars PROVE Live' \subseteq Live
  BY <1>6 DEF vars, Live
<1>7. QED
  BY <1>1, <1>2, <1>3, <1>4, <1>5, <1>6 DEF Next

\* In one call of the executor no two forks live at once
\* (resilience.py:297-298).
THEOREM ForksExclude == Spec => []OneForkPerCall
<1>1. Init => OneForkPerCall
  BY DEF Init, OneForkPerCall, Live, Range
<1>2. PoolInv /\ OneForkPerCall /\ [Next]_vars => OneForkPerCall'
  BY NextKeepsExclusion
<1>3. QED
  BY <1>1, <1>2, PoolInvariant, PTL DEF Spec
=============================================================================
