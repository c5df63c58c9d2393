------------------------- MODULE TranscriptFeedProofs -------------------------
(* Proofs about TranscriptFeed, for any number of turns and events.         *)
EXTENDS TranscriptFeed, SequenceTheorems, TLAPS

-----------------------------------------------------------------------------
(* The inductive invariant.                                                *)

\* A snapshot of the reducer's present history holds exactly the messages
\* made up to its revision.
Cut(s) ==
  /\ Len(s.messages) <= Len(reducer.messages)
  /\ \A i \in 1..Len(s.messages) :
       s.messages[i] = reducer.messages[i] /\ s.messages[i] <= s.rev
  /\ \A i \in Len(s.messages) + 1..Len(reducer.messages) :
       reducer.messages[i] > s.rev

\* The reducer's own messages are in order.
Made ==
  /\ Ordered(reducer.messages)
  /\ \A i \in 1..Len(reducer.messages) : reducer.messages[i] <= reducer.rev

\* A revision belongs to one snapshot.
Own(s) == s.rev <= reducer.rev /\ (s.rev = reducer.rev => s = reducer)

\* What was shown is of this history; what is on its way is so if it is newer.
Known ==
  /\ Own(shown) /\ Cut(shown)
  /\ \A th \in Threads : \A s \in out[th] :
       Own(s) /\ (s.rev > shown.rev => Cut(s))

\* The reducer's last state was shown or is on its way.
Carried == shown = reducer \/ \E th \in Threads : reducer \in out[th]

\* The rows are in order and of the past.
Drawn == Ordered(rows) /\ \A i \in 1..Len(rows) : rows[i] <= shown.rev

Feed == Made /\ Known /\ Carried /\ Drawn

FeedInv == TypeOK /\ (bridge # "second" => Feed)

-----------------------------------------------------------------------------

\* The initial states satisfy the invariant (reducer.py:130-162).
LEMMA InitFeed == Init => FeedInv
<1> SUFFICES ASSUME Init PROVE FeedInv
  OBVIOUS
<1>1. /\ Empty \in Snapshots /\ Empty.messages = <<>> /\ Empty.rev = 0
  BY DEF Empty, Snapshots
<1>2. Loop \in Threads
  BY FeedAssumption DEF Loop, Threads
<1>3. TypeOK
  <2>1. out \in [Threads -> SUBSET Snapshots] /\ \A th \in Threads : out[th] = {}
    BY DEF Init
  <2>2. rows \in Seq(Nat) /\ reducer \in Snapshots /\ shown \in Snapshots
    BY <1>1 DEF Init
  <2>3. turn \in 0..MaxTurns /\ events \in 0..MaxEvents
    BY FeedAssumption DEF Init
  <2>4. agent \in [Agents -> {"off", "between", "call", "over"}]
    BY DEF Init
  <2>5. loading \in BOOLEAN /\ streamed \in BOOLEAN /\ tokens \in Nat
    BY DEF Init
  <2> QED BY <2>1, <2>2, <2>3, <2>4, <2>5, <1>2 DEF Init, TypeOK, Free
<1>4. Made /\ Drawn /\ Carried
  BY <1>1 DEF Init, Made, Drawn, Carried, Ordered
<1>5. Known
  BY <1>1 DEF Init, Known, Own, Cut
<1> QED BY <1>3, <1>4, <1>5 DEF FeedInv, Feed

\* A dispatch makes a snapshot and leaves the interface alone: types
\* (reducer.py:204-226).
LEMMA DispatchTyped ==
  ASSUME TypeOK, NEW th \in Threads,
         NEW messages \in {reducer.messages, More}, NEW streaming \in BOOLEAN,
         NEW status \in {"idle", "running", "done", "error"},
         Dispatch(th, messages, streaming, status)
  PROVE  /\ reducer' \in Snapshots
         /\ out' \in [Threads -> SUBSET Snapshots]
         /\ \A t \in Threads : \A s, r \in out'[t] : s = r
         /\ \A t \in Threads : t # th => out'[t] = out[t]
<1>1. messages \in Seq(Nat)
  <2>1. reducer.messages \in Seq(Nat) /\ reducer.rev + 1 \in Nat
    BY DEF TypeOK, Snapshots
  <2>2. Append(reducer.messages, reducer.rev + 1) \in Seq(Nat)
    BY <2>1
  <2> QED BY <2>1, <2>2 DEF More
<1>2. reducer' \in Snapshots
  BY <1>1 DEF TypeOK, Snapshots, Dispatch
<1> QED BY <1>2 DEF TypeOK, Dispatch

\* A dispatch keeps what is known of the feed (reducer.py:204-226).
LEMMA DispatchFeeds ==
  ASSUME TypeOK, Feed, NEW th \in Threads,
         NEW messages \in {reducer.messages, More}, NEW streaming \in BOOLEAN,
         NEW status \in {"idle", "running", "done", "error"},
         Dispatch(th, messages, streaming, status), UNCHANGED uiVars
  PROVE  Feed'
<1>1. /\ reducer' \in Snapshots
      /\ reducer'.messages = messages /\ reducer'.rev = reducer.rev + 1
      /\ out' = [out EXCEPT ![th] = {reducer'}]
  BY DispatchTyped DEF Dispatch
<1>2. /\ reducer.rev \in Nat /\ reducer.messages \in Seq(Nat)
      /\ shown.rev \in Nat /\ shown.messages \in Seq(Nat)
  BY DEF TypeOK, Snapshots
<1>3. /\ Len(messages) >= Len(reducer.messages)
      /\ Len(messages) <= Len(reducer.messages) + 1
      /\ messages \in Seq(Nat)
      /\ \A i \in 1..Len(reducer.messages) : messages[i] = reducer.messages[i]
      /\ \A i \in Len(reducer.messages) + 1..Len(messages) :
           messages[i] = reducer.rev + 1
  <2>1. CASE messages = reducer.messages
    BY <2>1, <1>2
  <2>2. CASE messages = Append(reducer.messages, reducer.rev + 1)
    BY <2>2, <1>2
  <2> QED BY <2>1, <2>2 DEF More
<1>4. Made'
  <2>1. /\ \A i, j \in 1..Len(reducer.messages) :
             i < j => reducer.messages[i] < reducer.messages[j]
        /\ \A i \in 1..Len(reducer.messages) : reducer.messages[i] <= reducer.rev
    BY DEF Feed, Made, Ordered
  <2>2. \A i \in 1..Len(messages) :
          i \in 1..Len(reducer.messages) \/ i = Len(reducer.messages) + 1
    BY <1>2, <1>3
  <2>3. \A i \in 1..Len(messages) : messages[i] \in Nat /\ messages[i] <= reducer.rev + 1
    BY <1>2, <1>3, <2>1, <2>2
  <2>4. \A i, j \in 1..Len(messages) : i < j => messages[i] < messages[j]
    <3> SUFFICES ASSUME NEW i \in 1..Len(messages), NEW j \in 1..Len(messages), i < j
                 PROVE  messages[i] < messages[j]
      OBVIOUS
    <3>1. i \in 1..Len(reducer.messages)
      BY <1>2, <1>3
    <3>2. messages[i] = reducer.messages[i] /\ reducer.messages[i] <= reducer.rev
      BY <3>1, <1>3, <2>1
    <3>3. CASE j \in 1..Len(reducer.messages)
      BY <3>1, <3>3, <1>3, <2>1
    <3>4. CASE j = Len(reducer.messages) + 1
      <4>1. messages[j] = reducer.rev + 1
        BY <3>4, <1>2, <1>3
      <4>2. messages[i] \in Nat
        BY <2>3
      <4> QED BY <4>1, <4>2, <3>2, <1>2
    <3> QED BY <3>3, <3>4, <2>2
  <2> QED BY <2>3, <2>4, <1>1 DEF Made, Ordered
<1>5. ASSUME NEW s \in Snapshots, Own(s), Cut(s)
      PROVE  Cut(s)'
  <2>1. /\ s.rev \in Nat /\ s.rev <= reducer.rev /\ s.messages \in Seq(Nat)
        /\ Len(s.messages) \in Nat
    BY <1>5 DEF Own, Snapshots
  <2>2. Len(s.messages) <= Len(messages)
    BY <2>1, <1>2, <1>3, <1>5 DEF Cut
  <2>3. \A i \in 1..Len(s.messages) : s.messages[i] = messages[i] /\ s.messages[i] <= s.rev
    BY <2>1, <1>2, <1>3, <1>5 DEF Cut
  <2>4. ASSUME NEW i \in Len(s.messages) + 1..Len(messages)
        PROVE  messages[i] > s.rev
    <3>1. CASE i \in Len(s.messages) + 1..Len(reducer.messages)
      <4>1. reducer.messages[i] > s.rev
        BY <3>1, <1>5 DEF Cut
      <4>2. i \in 1..Len(reducer.messages)
        BY <3>1, <2>1, <1>2
      <4> QED BY <4>1, <4>2, <1>3
    <3>2. CASE i \in Len(reducer.messages) + 1..Len(messages)
      BY <3>2, <2>1, <1>2, <1>3
    <3> QED BY <3>1, <3>2, <2>1, <1>2, <1>3
  <2> QED BY <2>2, <2>3, <2>4, <1>1 DEF Cut
<1>6. ASSUME NEW s \in Snapshots, Own(s)
      PROVE  Own(s)'
  BY <1>1, <1>2, <1>6 DEF Own, Snapshots
<1>7. ASSUME NEW s, s = reducer'
      PROVE  Own(s)' /\ Cut(s)'
  <2>1. \A i \in 1..Len(messages) : messages[i] <= reducer'.rev
    BY <1>4, <1>1 DEF Made
  <2>2. s.messages = messages /\ s.rev = reducer'.rev /\ reducer'.messages = messages
    BY <1>1, <1>7
  <2>3. Len(messages) <= Len(messages) /\ Len(messages) + 1..Len(messages) = {}
    BY <1>3
  <2>4. Cut(s)'
    BY <2>1, <2>2, <2>3 DEF Cut
  <2>5. Own(s)'
    BY <1>1, <1>2, <1>7 DEF Own
  <2> QED BY <2>4, <2>5
<1>8. Known'
  <2>1. Own(shown)' /\ Cut(shown)'
    BY <1>5, <1>6 DEF Feed, Known, TypeOK, uiVars, Own, Cut
  <2>2. ASSUME NEW t \in Threads, NEW s \in out'[t]
        PROVE  Own(s)' /\ (s.rev > shown'.rev => Cut(s)')
    <3>1. CASE t = th
      <4>1. s = reducer'
        BY <3>1, <1>1 DEF TypeOK
      <4> QED BY <4>1, <1>7
    <3>2. CASE t # th
      <4>1. s \in out[t] /\ s \in Snapshots
        BY <3>2, <1>1 DEF TypeOK
      <4>2. Own(s) /\ (s.rev > shown.rev => Cut(s))
        BY <4>1 DEF Feed, Known
      <4> QED BY <4>1, <4>2, <1>5, <1>6 DEF uiVars
    <3> QED BY <3>1, <3>2
  <2> QED BY <2>1, <2>2 DEF Known
<1>9. Carried'
  BY <1>1 DEF TypeOK, Carried
<1>10. Drawn'
  BY DEF Feed, Drawn, uiVars, Ordered
<1> QED BY <1>4, <1>8, <1>9, <1>10 DEF Feed
\* An ordered sequence whose elements are at most b stays ordered when the
\* end of another, whose elements lie beyond b, is put behind it.
LEMMA Extended ==
  ASSUME NEW p \in Seq(Nat), NEW q \in Seq(Nat), NEW k \in Nat,
         NEW b \in Nat, NEW c \in Nat, b <= c,
         Ordered(p), \A i \in 1..Len(p) : p[i] <= b,
         \A i, j \in 1..Len(q) : i < j => q[i] < q[j],
         \A i \in 1..Len(q) : q[i] <= c,
         \A i \in k + 1..Len(q) : q[i] > b
  PROVE  LET r == p \o SubSeq(q, k + 1, Len(q))
         IN  r \in Seq(Nat) /\ Ordered(r) /\ \A i \in 1..Len(r) : r[i] <= c
<1> DEFINE t == SubSeq(q, k + 1, Len(q))
           r == p \o t
           n == Len(p)
<1>1. Len(q) \in Nat /\ n \in Nat
  BY LenProperties
<1>2. \A i \in k + 1..Len(q) : i \in 1..Len(q) /\ q[i] \in Nat
  BY <1>1, ElementOfSeq
<1>3. /\ t \in Seq(Nat)
      /\ Len(t) = IF k + 1 <= Len(q) THEN Len(q) - (k + 1) + 1 ELSE 0
      /\ \A i \in 1..Len(q) - (k + 1) + 1 : t[i] = q[k + 1 + i - 1]
  <2>1. k + 1 \in Int /\ Len(q) \in Int
    BY <1>1
  <2> HIDE DEF t
  <2>2. \A i \in k + 1..Len(q) : q[i] \in Nat
    BY <1>2
  <2> QED BY <2>1, <2>2, SubSeqProperties DEF t
<1> HIDE DEF t
<1>4. Len(t) \in Nat /\ \A i \in 1..Len(t) : t[i] = q[k + i] /\ k + i \in k + 1..Len(q)
  BY <1>1, <1>3
<1>5. /\ r \in Seq(Nat) /\ Len(r) = n + Len(t)
      /\ \A i \in 1..n + Len(t) : r[i] = IF i <= n THEN p[i] ELSE t[i - n]
  BY <1>3, ConcatProperties
<1> HIDE DEF r
<1>6. \A i \in 1..n : r[i] = p[i] /\ p[i] \in Nat /\ p[i] <= b
  BY <1>1, <1>4, <1>5, ElementOfSeq
<1>7. ASSUME NEW i \in n + 1..n + Len(t)
      PROVE  /\ r[i] = q[k + i - n] /\ k + i - n \in 1..Len(q)
             /\ r[i] \in Nat /\ r[i] > b /\ r[i] <= c
  <2>1. i - n \in 1..Len(t) /\ k + (i - n) = k + i - n
    BY <1>1, <1>4
  <2>2. r[i] = t[i - n]
    BY <1>1, <1>4, <1>5
  <2>3. r[i] = q[k + i - n] /\ k + i - n \in k + 1..Len(q)
    BY <2>1, <2>2, <1>4
  <2> QED BY <2>3, <1>2
<1>8. \A i \in 1..Len(r) : i \in 1..n \/ i \in n + 1..n + Len(t)
  BY <1>1, <1>4, <1>5
<1>9. \A i \in 1..Len(r) : r[i] <= c
  BY <1>6, <1>7, <1>8
<1>10. ASSUME NEW i \in 1..Len(r), NEW j \in 1..Len(r), i < j
       PROVE  r[i] < r[j]
  <2>1. CASE j \in 1..n
    <3>1. i \in 1..n
      BY <2>1, <1>1, <1>10
    <3> QED BY <3>1, <2>1, <1>6, <1>10 DEF Ordered
  <2>2. CASE i \in 1..n /\ j \in n + 1..n + Len(t)
    <3>1. r[i] \in Nat /\ r[i] <= b
      BY <2>2, <1>6
    <3>2. r[j] \in Nat /\ r[j] > b
      BY <2>2, <1>7
    <3> QED BY <3>1, <3>2
  <2>3. CASE i \in n + 1..n + Len(t) /\ j \in n + 1..n + Len(t)
    <3>1. k + i - n < k + j - n
      BY <2>3, <1>1, <1>4, <1>10
    <3> QED BY <3>1, <2>3, <1>7
  <2>4. i \in n + 1..n + Len(t) => j \in n + 1..n + Len(t)
    BY <1>1, <1>4, <1>5, <1>10
  <2> QED BY <2>1, <2>2, <2>3, <2>4, <1>8
<1> QED BY <1>5, <1>9, <1>10 DEF Ordered, r, t

\* A step that leaves the feed alone keeps what is known of it.
LEMMA RestFeeds ==
  ASSUME Feed, UNCHANGED <<reducer, out, shown, rows>>
  PROVE  Feed'
<1>1. ASSUME NEW s
      PROVE  (Own(s)' <=> Own(s)) /\ (Cut(s)' <=> Cut(s))
  BY DEF Own, Cut
<1>2. Own(shown)' /\ Cut(shown)'
  BY DEF Feed, Known, Own, Cut
<1>3. Known'
  BY <1>1, <1>2 DEF Feed, Known
<1>4. Made' /\ Carried' /\ Drawn'
  BY DEF Feed, Made, Carried, Drawn, Ordered
<1> QED BY <1>3, <1>4 DEF Feed

\* A delivery that comes late is dropped, and one that is newer is rendered
\* past what was shown (ist_app.py:1487-1491, 1543-1545).
LEMMA DeliverFeeds ==
  ASSUME TypeOK, Feed, NEW th \in Threads, Deliver(th)
  PROVE  Feed'
<1>1. PICK s \in out[th] :
        IF Stale(s) THEN UNCHANGED uiVars
        ELSE /\ shown' = s
             /\ rows' = IF s.streaming THEN rows ELSE rows \o News(s)
  BY DEF Deliver
<1>2. /\ UNCHANGED reducer /\ out' = [out EXCEPT ![th] = {}]
      /\ s \in Snapshots /\ Own(s) /\ (s.rev > shown.rev => Cut(s))
      /\ \A r \in out[th] : r = s
      /\ Own(shown) /\ Cut(shown)
  BY DEF Deliver, Feed, Known, TypeOK
<1>3. /\ s.rev \in Nat /\ shown.rev \in Nat /\ reducer.rev \in Nat
      /\ s.messages \in Seq(Nat) /\ shown.messages \in Seq(Nat)
      /\ reducer.messages \in Seq(Nat) /\ rows \in Seq(Nat)
  BY <1>2 DEF TypeOK, Snapshots
<1>4. Made'
  BY <1>2 DEF Feed, Made, Ordered
<1>5. ASSUME NEW r
      PROVE  (Own(r)' <=> Own(r)) /\ (Cut(r)' <=> Cut(r))
  BY <1>2 DEF Own, Cut
<1>6. \A t \in Threads : \A r \in out'[t] : r \in out[t]
  BY <1>2 DEF TypeOK
<1>7. CASE Stale(s)
  <2>1. UNCHANGED <<shown, rows>>
    BY <1>1, <1>7 DEF uiVars
  <2>2. Own(shown)' /\ Cut(shown)'
    BY <2>1, <1>2 DEF Own, Cut
  <2>3. Known'
    BY <2>1, <2>2, <1>5, <1>6 DEF Feed, Known
  <2>4. s = reducer => shown = reducer
    BY <1>7, <1>2, <1>3 DEF Stale, Own
  <2>5. Carried'
    BY <2>1, <2>4, <1>2 DEF Feed, Carried, TypeOK
  <2>6. Drawn'
    BY <2>1 DEF Feed, Drawn, Ordered
  <2> QED BY <2>3, <2>5, <2>6, <1>4 DEF Feed
<1>8. CASE ~Stale(s)
  <2>1. shown' = s /\ s.rev > shown.rev /\ Cut(s)
    BY <1>1, <1>2, <1>3, <1>8 DEF Stale
  <2>2. Known'
    <3>1. ASSUME NEW t \in Threads, NEW r \in out'[t]
          PROVE  Own(r)' /\ (r.rev > shown'.rev => Cut(r)')
      <4>1. r \in out[t] /\ r \in Snapshots
        BY <1>6 DEF TypeOK
      <4>2. r.rev \in Nat /\ Own(r) /\ (r.rev > shown.rev => Cut(r))
        BY <4>1 DEF Feed, Known, Snapshots
      <4> QED BY <4>2, <2>1, <1>3, <1>5
    <3>2. Own(s)' /\ Cut(s)'
      BY <2>1, <1>2, <1>5
    <3>3. Own(shown)' /\ Cut(shown)'
      BY <3>2, <2>1 DEF Own, Cut
    <3> QED BY <3>1, <3>3 DEF Known
  <2>3. Carried'
    <3>1. shown # reducer
      BY <2>1, <1>2, <1>3 DEF Own
    <3>2. PICK t \in Threads : reducer \in out[t]
      BY <3>1 DEF Feed, Carried
    <3>3. CASE t = th
      BY <3>2, <3>3, <2>1, <1>2 DEF Carried
    <3>4. CASE t # th
      BY <3>2, <3>4, <1>2 DEF Carried, TypeOK
    <3> QED BY <3>3, <3>4
  <2>4. Drawn'
    <3>1. /\ Len(shown.messages) \in Nat /\ Len(s.messages) \in Nat
          /\ Len(reducer.messages) \in Nat
          /\ Len(s.messages) <= Len(reducer.messages)
          /\ \A i \in 1..Len(s.messages) :
               s.messages[i] = reducer.messages[i] /\ s.messages[i] <= s.rev
      BY <2>1, <1>3, LenProperties DEF Cut
    <3>2. ASSUME NEW i \in Len(shown.messages) + 1..Len(s.messages)
          PROVE  s.messages[i] > shown.rev
      <4>1. /\ i \in 1..Len(s.messages)
            /\ i \in Len(shown.messages) + 1..Len(reducer.messages)
        BY <3>1
      <4>2. reducer.messages[i] > shown.rev
        BY <4>1, <1>2 DEF Cut
      <4> QED BY <4>1, <4>2, <3>1
    <3>3. \A i, j \in 1..Len(s.messages) : i < j => s.messages[i] < s.messages[j]
      <4>1. \A i, j \in 1..Len(reducer.messages) :
              i < j => reducer.messages[i] < reducer.messages[j]
        BY DEF Feed, Made, Ordered
      <4>2. \A i \in 1..Len(s.messages) : i \in 1..Len(reducer.messages)
        BY <3>1
      <4> QED BY <4>1, <4>2, <3>1
    <3>4. Ordered(rows) /\ \A i \in 1..Len(rows) : rows[i] <= shown.rev
      BY DEF Feed, Drawn
    <3>5. Ordered(rows \o News(s)) /\ \A i \in 1..Len(rows \o News(s)) :
            (rows \o News(s))[i] <= s.rev
      <4>1. shown.rev <= s.rev
        BY <2>1, <1>3
      <4> QED BY <4>1, <3>1, <3>2, <3>3, <3>4, <1>3, Extended DEF News
    <3>6. \A i \in 1..Len(rows) : rows[i] \in Nat /\ rows[i] <= s.rev
      BY <3>4, <2>1, <1>3, ElementOfSeq
    <3>7. CASE s.streaming
      <4>1. rows' = rows
        BY <3>7, <1>1, <1>8
      <4> QED BY <4>1, <3>4, <3>6, <2>1 DEF Drawn, Ordered
    <3>8. CASE ~s.streaming
      <4>1. rows' = rows \o News(s)
        BY <3>8, <1>1, <1>8
      <4>2. Ordered(rows')
        BY <4>1, <3>5
      <4> QED BY <4>1, <4>2, <3>5, <2>1 DEF Drawn, Ordered
    <3> QED BY <3>7, <3>8
  <2> QED BY <2>2, <2>3, <2>4, <1>4 DEF Feed
<1> QED BY <1>7, <1>8
\* The reset of a new turn is shown at once, and newer than whatever is still
\* on its way (reducer.py:187-202).
LEMMA SubmitFeeds ==
  ASSUME TypeOK, Feed, Submit, bridge # "next"
  PROVE  Feed'
<1>1. /\ reducer' = [Empty EXCEPT !.rev = reducer.rev + 1]
      /\ UNCHANGED <<out, rows>>
      /\ reducer.rev \in Nat /\ shown.rev \in Nat /\ shown.rev <= reducer.rev
  BY DEF Submit, Cleared, TypeOK, Snapshots, Feed, Known, Own
<1>2. /\ reducer'.rev = reducer.rev + 1 /\ reducer'.messages = <<>>
  BY <1>1 DEF Empty
<1>3. shown' = reducer'
  BY <1>1, <1>2 DEF Submit, Stale
<1>4. Made' /\ Carried'
  BY <1>2, <1>3 DEF Made, Carried, Ordered
<1>5. Own(shown)' /\ Cut(shown)'
  BY <1>1, <1>2, <1>3 DEF Own, Cut
<1>6. ASSUME NEW th \in Threads, NEW s \in out'[th]
      PROVE  Own(s)' /\ (s.rev > shown'.rev => Cut(s)')
  <2>1. s.rev \in Nat /\ s.rev <= reducer.rev
    BY <1>1 DEF TypeOK, Snapshots, Feed, Known, Own
  <2> QED BY <2>1, <1>1, <1>2, <1>3 DEF Own
<1>7. Drawn'
  <2>1. Ordered(rows) /\ \A i \in 1..Len(rows) : rows[i] \in Nat /\ rows[i] <= shown.rev
    BY ElementOfSeq DEF Feed, Drawn, TypeOK
  <2>2. shown'.rev \in Nat /\ shown.rev <= shown'.rev
    BY <1>1, <1>2, <1>3
  <2> QED BY <2>1, <2>2, <1>1 DEF Drawn, Ordered
<1> QED BY <1>4, <1>5, <1>6, <1>7 DEF Feed, Known

\* A transcript drawn anew is in order (ist_app.py:2391-2434).
LEMMA ExpandFeeds ==
  ASSUME TypeOK, Feed, Expand
  PROVE  Feed'
<1>1. rows' = shown.messages /\ UNCHANGED <<reducer, out, shown>>
  BY DEF Expand
<1>2. ASSUME NEW s
      PROVE  (Own(s)' <=> Own(s)) /\ (Cut(s)' <=> Cut(s))
  BY <1>1 DEF Own, Cut
<1>3. Own(shown)' /\ Cut(shown)'
  BY <1>1 DEF Feed, Known, Own, Cut
<1>4. Known'
  BY <1>1, <1>2, <1>3 DEF Feed, Known
<1>5. Made' /\ Carried'
  BY <1>1 DEF Feed, Made, Carried, Ordered
<1>6. Drawn'
  <2>1. /\ Len(shown.messages) \in Nat /\ Len(reducer.messages) \in Nat
        /\ Len(shown.messages) <= Len(reducer.messages)
        /\ \A i \in 1..Len(shown.messages) :
             shown.messages[i] = reducer.messages[i] /\ shown.messages[i] <= shown.rev
    BY LenProperties DEF Feed, Known, Cut, TypeOK, Snapshots
  <2>2. \A i, j \in 1..Len(reducer.messages) :
          i < j => reducer.messages[i] < reducer.messages[j]
    BY DEF Feed, Made, Ordered
  <2>3. \A i \in 1..Len(shown.messages) : i \in 1..Len(reducer.messages)
    BY <2>1
  <2>4. Ordered(shown.messages)
    BY <2>1, <2>2, <2>3 DEF Ordered
  <2> QED BY <2>1, <2>4, <1>1 DEF Drawn
<1> QED BY <1>4, <1>5, <1>6 DEF Feed

\* The steps of the loop's thread keep the invariant (bridge.py:146-251).
LEMMA LoopKeeps ==
  ASSUME FeedInv, Begin \/ Pump \/ Fail \/ RunEnd \/ Mark \/ Leave
  PROVE  FeedInv'
<1>1. Loop \in Threads /\ (\A t \in Agents : t \in Threads)
  BY FeedAssumption DEF Loop, Threads, Agents
<1>2. /\ reducer.messages \in {reducer.messages, More}
      /\ More \in {reducer.messages, More}
      /\ reducer.streaming \in BOOLEAN
      /\ reducer.status \in {"idle", "running", "done", "error"}
  BY DEF FeedInv, TypeOK, Snapshots
<1>3. CASE Leave
  <2>1. TypeOK'
    BY <1>3 DEF FeedInv, TypeOK, Leave, Leaves, uiVars, turnVars, Free
  <2>2. UNCHANGED <<reducer, out, shown, rows, bridge>>
    BY <1>3 DEF Leave, uiVars, turnVars
  <2> QED BY <2>1, <2>2, RestFeeds DEF FeedInv
<1>4. ASSUME Begin \/ Pump \/ Fail \/ RunEnd \/ Mark
      PROVE  /\ \E messages \in {reducer.messages, More}, streaming \in BOOLEAN,
                   status \in {"idle", "running", "done", "error"} :
                  Dispatch(Loop, messages, streaming, status)
             /\ UNCHANGED <<uiVars, turnVars, events>>
  <2>1. CASE Begin   BY <2>1, <1>2 DEF Begin
  <2>2. CASE Pump    BY <2>2, <1>2 DEF Pump
  <2>3. CASE Fail    BY <2>3, <1>2 DEF Fail
  <2>4. CASE RunEnd  BY <2>4, <1>2 DEF RunEnd
  <2>5. CASE Mark    BY <2>5, <1>2 DEF Mark
  <2> QED BY <1>4, <2>1, <2>2, <2>3, <2>4, <2>5
<1>5. CASE Begin \/ Pump \/ Fail \/ RunEnd \/ Mark
  <2>1. PICK messages \in {reducer.messages, More}, streaming \in BOOLEAN,
             status \in {"idle", "running", "done", "error"} :
               Dispatch(Loop, messages, streaming, status)
    BY <1>4, <1>5
  <2>2. UNCHANGED <<uiVars, turnVars, events>>
    BY <1>4, <1>5
  <2>3. /\ reducer' \in Snapshots /\ out' \in [Threads -> SUBSET Snapshots]
        /\ \A t \in Threads : \A s, r \in out'[t] : s = r
    BY <2>1, <1>1, DispatchTyped DEF FeedInv
  <2>4. /\ loop' \in {"pump", "failed", "mark", "leave"}
        /\ cancel' = cancel /\ failure' = failure
        /\ tokens' \in Nat /\ streamed' \in BOOLEAN
        /\ agent' \in [Agents -> {"off", "between", "call", "over"}]
    <3>1. CASE Begin   BY <3>1 DEF FeedInv, TypeOK, Begin
    <3>2. CASE Pump
      <4>1. tokens - 1 \in Nat
        BY <3>2 DEF FeedInv, TypeOK, Pump
      <4> QED BY <3>2, <4>1 DEF FeedInv, TypeOK, Pump
    <3>3. CASE Fail    BY <3>3 DEF FeedInv, TypeOK, Fail
    <3>4. CASE RunEnd  BY <3>4 DEF FeedInv, TypeOK, RunEnd
    <3>5. CASE Mark    BY <3>5 DEF FeedInv, TypeOK, Mark
    <3> QED BY <1>5, <3>1, <3>2, <3>3, <3>4, <3>5
  <2>5. TypeOK'
    BY <2>2, <2>3, <2>4 DEF FeedInv, TypeOK, uiVars, turnVars
  <2>6. Feed => Feed'
    BY <2>1, <2>2, <1>1, DispatchFeeds DEF FeedInv
  <2> QED BY <2>2, <2>5, <2>6 DEF FeedInv, turnVars
<1> QED BY <1>3, <1>5

\* The steps of an agent's thread and of the tailer keep the invariant
\* (streaming.py:148-258, graph.py:160-323, ist_app.py:655-694).
LEMMA AgentKeeps ==
  ASSUME FeedInv,
         \/ \E t \in Agents : StartCall(t) \/ Token(t) \/ Block(t) \/ EndCall(t) \/ Finish(t)
         \/ Card
  PROVE  FeedInv'
<1>1. Loop \in Threads /\ Tailer \in Threads /\ Tailer # Loop
      /\ \A t \in Agents : t \in Threads /\ t # Loop
  BY FeedAssumption DEF Loop, Tailer, Threads, Agents
<1>2. /\ reducer.messages \in {reducer.messages, More}
      /\ More \in {reducer.messages, More}
      /\ reducer.streaming \in BOOLEAN
      /\ reducer.status \in {"idle", "running", "done", "error"}
  BY DEF FeedInv, TypeOK, Snapshots
<1>3. ASSUME NEW t \in Agents, StartCall(t) \/ Token(t) \/ Finish(t)
      PROVE  FeedInv'
  <2>1. /\ UNCHANGED <<reducer, out, uiVars, turnVars, streamed, loop, cancel>>
        /\ events' \in 0..MaxEvents /\ tokens' \in Nat
        /\ failure' \in {"none", "transient", "fatal"}
        /\ agent' \in [Agents -> {"off", "between", "call", "over"}]
    BY <1>3, FeedAssumption
    DEF FeedInv, TypeOK, StartCall, Token, Finish, Another, loopVars
  <2>2. TypeOK'
    BY <2>1 DEF FeedInv, TypeOK, uiVars, turnVars, Free
  <2> QED BY <2>1, <2>2, RestFeeds DEF FeedInv, uiVars, turnVars
<1>4. ASSUME NEW th \in Threads, th # Loop,
             NEW messages \in {reducer.messages, More}, NEW streaming \in BOOLEAN,
             Dispatch(th, messages, streaming, reducer.status),
             UNCHANGED <<uiVars, loopVars, turnVars, streamed>>,
             events' \in 0..MaxEvents,
             agent' \in [Agents -> {"off", "between", "call", "over"}]
      PROVE  FeedInv'
  <2>1. /\ reducer' \in Snapshots /\ out' \in [Threads -> SUBSET Snapshots]
        /\ \A t \in Threads : \A s, r \in out'[t] : s = r
        /\ out'[Loop] = out[Loop]
    BY <1>1, <1>2, <1>4, DispatchTyped DEF FeedInv
  <2>2. TypeOK'
    BY <2>1, <1>4 DEF FeedInv, TypeOK, uiVars, loopVars, turnVars, Free
  <2>3. Feed => Feed'
    BY <1>2, <1>4, DispatchFeeds DEF FeedInv
  <2> QED BY <1>4, <2>2, <2>3 DEF FeedInv, turnVars
<1>5. ASSUME NEW t \in Agents, Block(t)
      PROVE  FeedInv'
  <2>1. /\ Dispatch(t, More, reducer.streaming, reducer.status)
        /\ UNCHANGED <<uiVars, loopVars, turnVars, streamed, agent>>
        /\ events' \in 0..MaxEvents
        /\ agent' \in [Agents -> {"off", "between", "call", "over"}]
    BY <1>5, FeedAssumption DEF Block, Another, FeedInv, TypeOK
  <2> QED BY <2>1, <1>1, <1>2, <1>4
<1>6. ASSUME NEW t \in Agents, EndCall(t)
      PROVE  FeedInv'
  <2>1. PICK messages \in {More, reducer.messages} :
          Dispatch(t, messages, FALSE, reducer.status)
    BY <1>6 DEF EndCall
  <2>2. /\ UNCHANGED <<uiVars, loopVars, turnVars, streamed>>
        /\ events' \in 0..MaxEvents
        /\ agent' \in [Agents -> {"off", "between", "call", "over"}]
    BY <1>6 DEF EndCall, FeedInv, TypeOK
  <2> QED BY <2>1, <2>2, <1>1, <1>4
<1>7. ASSUME Card
      PROVE  FeedInv'
  <2>1. /\ Dispatch(Tailer, More, reducer.streaming, reducer.status)
        /\ UNCHANGED <<uiVars, loopVars, turnVars, streamed, agent>>
        /\ events' \in 0..MaxEvents
        /\ agent' \in [Agents -> {"off", "between", "call", "over"}]
    BY <1>7, FeedAssumption DEF Card, Another, FeedInv, TypeOK
  <2> QED BY <2>1, <1>1, <1>2, <1>4
<1> QED BY <1>3, <1>5, <1>6, <1>7

\* What the interface does keeps the invariant (ist_app.py:1313-1462, 2334-2390).
LEMMA InterfaceKeeps ==
  ASSUME FeedInv,
         \/ Submit \/ SubmitBusy \/ Cancel \/ Expand \/ Switch
         \/ \E th \in Threads : Deliver(th)
  PROVE  FeedInv'
<1>1. CASE SubmitBusy \/ Cancel \/ Switch
  <2>1. /\ UNCHANGED <<reducer, out, shown, rows, turn, events, streamed, loop>>
        /\ loading' \in BOOLEAN /\ UNCHANGED <<tokens, failure, agent>>
        /\ cancel' \in {"no", "asked", "told"}
        /\ bridge' \in {"first", "next", "second"}
        /\ bridge' # "second" => bridge # "second"
    BY <1>1 DEF FeedInv, TypeOK, SubmitBusy, Cancel, Switch, loopVars, turnVars, uiVars
  <2>2. TypeOK'
    BY <2>1 DEF FeedInv, TypeOK, Free
  <2> QED BY <2>1, <2>2, RestFeeds DEF FeedInv
<1>2. CASE Submit
  <2>1. reducer' \in Snapshots
    <3>1. PICK n \in Nat : reducer' = [Empty EXCEPT !.rev = n]
      <4>1. reducer.rev + 1 \in Nat
        BY DEF FeedInv, TypeOK, Snapshots
      <4>2. reducer' = Cleared
        BY <1>2 DEF Submit
      <4> QED BY <4>1, <4>2 DEF Cleared
    <3>2. reducer' = [messages |-> <<>>, streaming |-> FALSE, status |-> "idle", rev |-> n]
      BY <3>1 DEF Empty
    <3>3. <<>> \in Seq(Nat)
      OBVIOUS
    <3> QED BY <3>2, <3>3 DEF Snapshots
  <2>2. shown' \in Snapshots
    BY <1>2, <2>1 DEF Submit, FeedInv, TypeOK
  <2>3. turn' \in 0..MaxTurns
    BY <1>2, FeedAssumption DEF Submit, FeedInv, TypeOK
  <2>4. TypeOK'
    BY <1>2, <2>1, <2>2, <2>3 DEF Submit, FeedInv, TypeOK, Free
  <2>5. bridge' # "second" => Feed /\ bridge # "next"
    BY <1>2 DEF Submit, FeedInv, TypeOK
  <2>6. TypeOK
    BY DEF FeedInv
  <2> QED BY <1>2, <2>4, <2>5, <2>6, SubmitFeeds DEF FeedInv
<1>3. CASE Expand
  <2>1. shown.messages \in Seq(Nat)
    BY DEF FeedInv, TypeOK, Snapshots
  <2>2. TypeOK'
    BY <1>3, <2>1 DEF FeedInv, TypeOK, Expand, loopVars, turnVars, Free
  <2>3. UNCHANGED bridge
    BY <1>3 DEF Expand, turnVars
  <2> QED BY <1>3, <2>2, <2>3, ExpandFeeds DEF FeedInv
<1>4. ASSUME NEW th \in Threads, Deliver(th)
      PROVE  FeedInv'
  <2>1. PICK s \in out[th] :
          IF Stale(s) THEN UNCHANGED uiVars
          ELSE /\ shown' = s
               /\ rows' = IF s.streaming THEN rows ELSE rows \o News(s)
               /\ loading' = (loading /\ (s.streaming \/ ~Ends(s)))
    BY <1>4 DEF Deliver
  <2>2. s \in Snapshots /\ s.messages \in Seq(Nat) /\ shown.messages \in Seq(Nat)
        /\ rows \in Seq(Nat) /\ shown \in Snapshots
    BY <1>4 DEF FeedInv, TypeOK, Snapshots
  <2>3. News(s) \in Seq(Nat)
    <3>1. Len(shown.messages) + 1 \in Int /\ Len(s.messages) \in Int
          /\ \A i \in Len(shown.messages) + 1..Len(s.messages) : i \in 1..Len(s.messages)
      BY <2>2, LenProperties
    <3>2. \A i \in Len(shown.messages) + 1..Len(s.messages) : s.messages[i] \in Nat
      BY <3>1, <2>2, ElementOfSeq
    <3> QED BY <3>1, <3>2, SubSeqProperties DEF News
  <2>4. rows \o News(s) \in Seq(Nat)
    BY <2>2, <2>3, ConcatProperties
  <2>5. shown' \in Snapshots /\ rows' \in Seq(Nat)
    BY <2>1, <2>2, <2>4 DEF uiVars
  <2>6. loading' \in BOOLEAN
    BY <2>1 DEF uiVars, FeedInv, TypeOK
  <2>7. /\ out' = [out EXCEPT ![th] = {}]
        /\ UNCHANGED <<reducer, loopVars, agent, turnVars, events, streamed>>
    BY <1>4 DEF Deliver
  <2>8. out' \in [Threads -> SUBSET Snapshots]
        /\ \A t \in Threads : out'[t] = out[t] \/ out'[t] = {}
    BY <2>7 DEF FeedInv, TypeOK
  <2>9. Loop \in Threads
    BY FeedAssumption DEF Loop, Threads
  <2>10. TypeOK'
    BY <2>5, <2>6, <2>7, <2>8, <2>9 DEF FeedInv, TypeOK, loopVars, turnVars, Free
  <2>11. Feed => Feed'
    BY <1>4, DeliverFeeds DEF FeedInv
  <2> QED BY <2>7, <2>10, <2>11 DEF FeedInv, turnVars
<1> QED BY <1>1, <1>2, <1>3, <1>4

\* Every step keeps the invariant.
LEMMA StepKeeps == FeedInv /\ [Next]_vars => FeedInv'
<1> SUFFICES ASSUME FeedInv, [Next]_vars PROVE FeedInv'
  OBVIOUS
<1>1. CASE UNCHANGED vars
  <2>1. TypeOK'
    BY <1>1 DEF FeedInv, TypeOK, vars, uiVars, loopVars, turnVars, Free
  <2> QED BY <1>1, <2>1, RestFeeds DEF FeedInv, vars, uiVars, turnVars
<1>2. CASE Next
  BY <1>2, LoopKeeps, AgentKeeps, InterfaceKeeps DEF Next
<1> QED BY <1>1, <1>2

\* A thread that is to deliver a snapshot made no other, and the loop ends
\* only after it delivered its last (bridge.py:146-251).
THEOREM FeedTypeCorrect == Spec => []TypeOK
<1>1. FeedInv => TypeOK
  BY DEF FeedInv
<1> QED BY InitFeed, StepKeeps, <1>1, PTL DEF Spec

\* However many threads dispatch and however their deliveries overtake each
\* other, every message gets one row at its place (ist_app.py:1484-1491).
THEOREM RowsInOrder == Spec => []RenderedInOrder
<1>1. FeedInv => RenderedInOrder
  BY DEF FeedInv, Feed, Drawn, RenderedInOrder
<1> QED BY InitFeed, StepKeeps, <1>1, PTL DEF Spec

\* When every thread has delivered, the interface stands at the reducer's
\* last state, also across the resets between turns (reducer.py:152-156).
THEOREM LatestShown == Spec => []SettlesOnLatest
<1>1. FeedInv => SettlesOnLatest
  BY DEF FeedInv, Feed, Carried, SettlesOnLatest, Quiet, Free
<1> QED BY InitFeed, StepKeeps, <1>1, PTL DEF Spec

-----------------------------------------------------------------------------
(* A turn that has not streamed: no open stream is shown or on its way, so *)
(* that every delivery that counts draws its messages.                     *)

Whole ==
  /\ ~reducer.streaming
  /\ \A th \in Threads : \A s \in out[th] : s.rev > shown.rev => ~s.streaming
  /\ \A i \in 1..Len(shown.messages) : InRows(shown.messages[i])

WholeInv == FeedInv /\ (~streamed /\ bridge # "second" => Whole)

\* A dispatch that opens no stream keeps the turn whole (reducer.py:204-226).
LEMMA DispatchWhole ==
  ASSUME FeedInv, Whole, NEW th \in Threads, NEW messages, NEW status,
         NEW streaming, ~streaming,
         Dispatch(th, messages, streaming, status), UNCHANGED uiVars
  PROVE  Whole'
<1>1. /\ reducer'.streaming = streaming
      /\ out' = [out EXCEPT ![th] = {reducer'}]
      /\ UNCHANGED <<shown, rows>>
  BY DEF Dispatch, uiVars
<1>2. \A t \in Threads : \A s \in out'[t] : s \in out[t] \/ s = reducer'
  BY <1>1 DEF FeedInv, TypeOK
<1>3. \A t \in Threads : \A s \in out'[t] : s.rev > shown'.rev => ~s.streaming
  BY <1>1, <1>2 DEF Whole
<1> QED BY <1>1, <1>3 DEF Whole, InRows

\* The steps of the threads keep a turn whole until it streams
\* (bridge.py:146-251, streaming.py:148-258).
LEMMA ThreadsWhole ==
  ASSUME FeedInv, Whole, ~streamed', bridge' # "second",
         \/ Begin \/ Pump \/ Fail \/ RunEnd \/ Mark \/ Leave
         \/ \E t \in Agents : StartCall(t) \/ Token(t) \/ Block(t) \/ EndCall(t) \/ Finish(t)
         \/ Card
  PROVE  Whole'
<1>1. Loop \in Threads /\ Tailer \in Threads /\ \A t \in Agents : t \in Threads
  BY FeedAssumption DEF Loop, Tailer, Threads, Agents
<1>2. ~reducer.streaming
  BY DEF Whole
<1>3. CASE UNCHANGED <<reducer, out, shown, rows>>
  BY <1>3 DEF Whole, InRows
<1>4. CASE /\ UNCHANGED uiVars
           /\ \E th \in Threads : \E messages, status : \E streaming \in {reducer.streaming, FALSE} :
                Dispatch(th, messages, streaming, status)
  <2>1. PICK th \in Threads : \E messages, status : \E streaming \in {reducer.streaming, FALSE} :
               Dispatch(th, messages, streaming, status)
    BY <1>4
  <2>2. PICK messages, status : \E streaming \in {reducer.streaming, FALSE} :
               Dispatch(th, messages, streaming, status)
    BY <2>1
  <2>3. PICK streaming \in {reducer.streaming, FALSE} :
               Dispatch(th, messages, streaming, status)
    BY <2>2
  <2>4. ~streaming
    BY <1>2, <2>3
  <2> QED BY <1>4, <2>3, <2>4, DispatchWhole
<1>5. CASE Begin   BY <1>1, <1>4, <1>5 DEF Begin
<1>6. CASE Pump    BY <1>6 DEF Pump
<1>7. CASE Fail    BY <1>1, <1>4, <1>7 DEF Fail
<1>8. CASE RunEnd  BY <1>1, <1>4, <1>8 DEF RunEnd
<1>9. CASE Mark    BY <1>1, <1>4, <1>9 DEF Mark
<1>10. CASE Leave  BY <1>3, <1>10 DEF Leave, uiVars
<1>11. ASSUME NEW t \in Agents, StartCall(t) \/ Token(t) \/ Finish(t)
       PROVE  Whole'
  BY <1>3, <1>11 DEF StartCall, Token, Finish, uiVars
<1>12. ASSUME NEW t \in Agents, Block(t)
       PROVE  Whole'
  BY <1>1, <1>4, <1>12 DEF Block
<1>13. ASSUME NEW t \in Agents, EndCall(t)
       PROVE  Whole'
  BY <1>1, <1>4, <1>13 DEF EndCall
<1>14. CASE Card   BY <1>1, <1>4, <1>14 DEF Card
<1> QED BY <1>5, <1>6, <1>7, <1>8, <1>9, <1>10, <1>11, <1>12, <1>13, <1>14

\* A delivery that counts draws what the transcript lacks (ist_app.py:1484-1491).
LEMMA DeliverWhole ==
  ASSUME FeedInv, Whole, bridge # "second", NEW th \in Threads, Deliver(th)
  PROVE  Whole'
<1>1. PICK s \in out[th] :
        IF Stale(s) THEN UNCHANGED uiVars
        ELSE /\ shown' = s
             /\ rows' = IF s.streaming THEN rows ELSE rows \o News(s)
  BY DEF Deliver
<1>2. UNCHANGED reducer /\ \A t \in Threads : \A r \in out'[t] : r \in out[t]
  BY DEF Deliver, FeedInv, TypeOK
<1>3. CASE Stale(s)
  BY <1>1, <1>2, <1>3 DEF Whole, InRows, uiVars
<1>4. CASE ~Stale(s)
  <2>1. /\ s \in Snapshots /\ shown \in Snapshots /\ rows \in Seq(Nat)
        /\ Cut(shown) /\ (s.rev > shown.rev => Cut(s))
    BY DEF FeedInv, TypeOK, Feed, Known
  <2>2. /\ s.rev \in Nat /\ shown.rev \in Nat /\ s.rev > shown.rev
        /\ s.messages \in Seq(Nat) /\ shown.messages \in Seq(Nat)
        /\ Len(s.messages) \in Nat /\ Len(shown.messages) \in Nat
    BY <1>4, <2>1, LenProperties DEF Stale, Snapshots
  <2>3. shown' = s /\ rows' = rows \o News(s)
    BY <1>1, <1>4, <2>2 DEF Whole
  <2>4. \A t \in Threads : \A r \in out'[t] : r.rev > shown'.rev => ~r.streaming
    <3> SUFFICES ASSUME NEW t \in Threads, NEW r \in out'[t], r.rev > s.rev
                 PROVE  ~r.streaming
      BY <2>3
    <3>1. r \in out[t] /\ r.rev \in Nat
      BY <1>2 DEF FeedInv, TypeOK, Snapshots
    <3> QED BY <3>1, <2>2 DEF Whole
  <2>5. /\ News(s) \in Seq(Nat)
        /\ \A j \in Len(shown.messages) + 1..Len(s.messages) :
             /\ j - Len(shown.messages) \in 1..Len(News(s))
             /\ News(s)[j - Len(shown.messages)] = s.messages[j]
    <3>1. ASSUME NEW k \in Nat, NEW q \in Seq(Nat)
          PROVE  /\ SubSeq(q, k + 1, Len(q)) \in Seq(Nat)
                 /\ \A j \in k + 1..Len(q) :
                      /\ j - k \in 1..Len(SubSeq(q, k + 1, Len(q)))
                      /\ SubSeq(q, k + 1, Len(q))[j - k] = q[j]
      <4> DEFINE t == SubSeq(q, k + 1, Len(q))
      <4>1. Len(q) \in Nat /\ k + 1 \in Int /\ Len(q) \in Int
        BY LenProperties
      <4>2. \A j \in k + 1..Len(q) : q[j] \in Nat
        <5>1. \A j \in k + 1..Len(q) : j \in 1..Len(q)
          BY <4>1
        <5> QED BY <5>1, ElementOfSeq
      <4> HIDE DEF t
      <4>3. /\ t \in Seq(Nat)
            /\ Len(t) = IF k + 1 <= Len(q) THEN Len(q) - (k + 1) + 1 ELSE 0
            /\ \A i \in 1..Len(q) - (k + 1) + 1 : t[i] = q[k + 1 + i - 1]
        BY <4>1, <4>2, SubSeqProperties DEF t
      <4>4. ASSUME NEW j \in k + 1..Len(q)
            PROVE  j - k \in 1..Len(t) /\ t[j - k] = q[j]
        <5>1. /\ j - k \in 1..Len(q) - (k + 1) + 1
              /\ k + 1 <= Len(q) /\ k + 1 + (j - k) - 1 = j
          BY <4>1
        <5>2. t[j - k] = q[k + 1 + (j - k) - 1]
          BY <5>1, <4>3
        <5> QED BY <5>1, <5>2, <4>3
      <4> QED BY <4>3, <4>4 DEF t
    <3> QED BY <3>1, <2>2 DEF News
  <2>6. /\ Len(rows') = Len(rows) + Len(News(s)) /\ Len(rows) \in Nat
        /\ Len(News(s)) \in Nat
        /\ \A i \in 1..Len(rows) : rows'[i] = rows[i]
        /\ \A i \in 1..Len(News(s)) : rows'[Len(rows) + i] = News(s)[i]
    BY <2>1, <2>3, <2>5
  <2>7. ASSUME NEW i \in 1..Len(s.messages)
        PROVE  InRows(s.messages[i])'
    <3>1. CASE i <= Len(shown.messages)
      <4>1. i \in 1..Len(shown.messages) /\ s.messages[i] = shown.messages[i]
        BY <3>1, <2>1, <2>2 DEF Cut
      <4>2. PICK j \in 1..Len(rows) : rows[j] = s.messages[i]
        BY <4>1 DEF Whole, InRows
      <4>3. j \in 1..Len(rows') /\ rows'[j] = s.messages[i]
        BY <4>2, <2>6
      <4>4. \E m \in 1..Len(rows') : rows'[m] = s.messages[i]
        BY <4>3
      <4>5. UNCHANGED s
        OBVIOUS
      <4> QED BY <4>4 DEF InRows
    <3>2. CASE i > Len(shown.messages)
      <4>1. PICK j \in 1..Len(News(s)) : News(s)[j] = s.messages[i]
        <5>1. i \in Len(shown.messages) + 1..Len(s.messages)
          BY <3>2, <2>2
        <5> QED BY <5>1, <2>5
      <4>2. Len(rows) + j \in 1..Len(rows') /\ rows'[Len(rows) + j] = s.messages[i]
        BY <4>1, <2>6
      <4> QED BY <4>2 DEF InRows
    <3> QED BY <3>1, <3>2, <2>2
  <2> QED BY <1>2, <2>3, <2>4, <2>7 DEF Whole
<1> QED BY <1>3, <1>4

\* A reset shows an empty list, newer than whatever is on its way
\* (reducer.py:187-202).
LEMMA SubmitWhole ==
  ASSUME FeedInv, bridge # "second", Submit, bridge # "next"
  PROVE  Whole'
<1>1. /\ reducer' = [Empty EXCEPT !.rev = reducer.rev + 1] /\ UNCHANGED out
      /\ reducer.rev \in Nat /\ shown.rev \in Nat /\ shown.rev <= reducer.rev
  BY DEF Submit, Cleared, FeedInv, TypeOK, Snapshots, Feed, Known, Own
<1>2. /\ reducer'.rev = reducer.rev + 1 /\ reducer'.messages = <<>>
      /\ ~reducer'.streaming
  BY <1>1 DEF Empty
<1>3. shown' = reducer'
  BY <1>1, <1>2 DEF Submit, Stale
<1>4. ASSUME NEW th \in Threads, NEW s \in out'[th]
      PROVE  ~(s.rev > shown'.rev)
  <2>1. s.rev \in Nat /\ s.rev <= reducer.rev
    BY <1>1 DEF FeedInv, TypeOK, Snapshots, Feed, Known, Own
  <2> QED BY <2>1, <1>1, <1>2, <1>3
<1> QED BY <1>2, <1>3, <1>4 DEF Whole

\* Every step keeps a turn that has not streamed whole.
LEMMA StepWhole == WholeInv /\ [Next]_vars => WholeInv'
<1> SUFFICES ASSUME WholeInv, [Next]_vars, ~streamed', bridge' # "second"
             PROVE  Whole'
  BY StepKeeps DEF WholeInv
<1>1. FeedInv
  BY DEF WholeInv
<1>2. CASE /\ UNCHANGED <<reducer, out, shown, rows, streamed>>
           /\ bridge # "second"
  BY <1>2 DEF WholeInv, Whole, InRows
<1>3. CASE UNCHANGED vars
  BY <1>2, <1>3 DEF vars, uiVars, turnVars
<1>4. CASE \/ Begin \/ Pump \/ Fail \/ RunEnd \/ Mark \/ Leave
           \/ \E t \in Agents : StartCall(t) \/ Token(t) \/ Block(t) \/ EndCall(t) \/ Finish(t)
           \/ Card
  <2>1. ~streamed /\ bridge # "second"
    <3>1. CASE Begin \/ Pump \/ Fail \/ RunEnd \/ Mark \/ Leave
      <4>1. ~Pump
        <5>1. Pump => streamed' = TRUE
          BY DEF Pump
        <5> QED BY <5>1
      <4>2. UNCHANGED <<streamed, bridge>>
        BY <3>1, <4>1 DEF Begin, Fail, RunEnd, Mark, Leave, turnVars
      <4> QED BY <4>2
    <3>2. ASSUME NEW t \in Agents,
                 StartCall(t) \/ Token(t) \/ Block(t) \/ EndCall(t) \/ Finish(t)
          PROVE  ~streamed /\ bridge # "second"
      <4>1. UNCHANGED <<streamed, bridge>>
        BY <3>2 DEF StartCall, Token, Block, EndCall, Finish, turnVars
      <4> QED BY <4>1
    <3>3. CASE Card
      BY <3>3 DEF Card, turnVars
    <3> QED BY <1>4, <3>1, <3>2, <3>3
  <2> QED BY <1>1, <1>4, <2>1, ThreadsWhole DEF WholeInv
<1>5. CASE SubmitBusy \/ Cancel \/ Switch
  <2>1. bridge # "second"
    BY <1>5 DEF SubmitBusy, Cancel, Switch, turnVars
  <2> QED BY <1>2, <1>5, <2>1 DEF SubmitBusy, Cancel, Switch, uiVars
<1>6. CASE Submit
  <2>1. bridge # "next" /\ bridge # "second"
    BY <1>1, <1>6 DEF Submit, FeedInv, TypeOK
  <2> QED BY <1>1, <1>6, <2>1, SubmitWhole
<1>7. CASE Expand
  <2>1. /\ rows' = shown.messages /\ UNCHANGED <<reducer, out, shown, streamed>>
        /\ bridge # "second"
    BY <1>7 DEF Expand, turnVars
  <2> QED BY <2>1 DEF WholeInv, Whole, InRows
<1>8. ASSUME NEW th \in Threads, Deliver(th)
      PROVE  Whole'
  <2>1. ~streamed /\ bridge # "second"
    BY <1>8 DEF Deliver, turnVars
  <2> QED BY <1>1, <1>8, <2>1, DeliverWhole DEF WholeInv
<1> QED BY <1>3, <1>4, <1>5, <1>6, <1>7, <1>8 DEF Next

\* A turn that has not streamed loses no message on its way to the
\* transcript: a snapshot that was overtaken is made good by the one that
\* overtook it (reducer.py:5-8, ist_app.py:1484-1491).
THEOREM NothingLost == Spec => []NoGapsUnstreamed
<1>1. Init => WholeInv
  <2> SUFFICES ASSUME Init PROVE Whole
    BY InitFeed DEF WholeInv
  <2> QED BY DEF Init, Empty, Whole
<1>2. WholeInv => NoGapsUnstreamed
  BY DEF WholeInv, FeedInv, Feed, Carried, Whole, NoGapsUnstreamed, Quiet, Free
<1> QED BY <1>1, <1>2, StepWhole, PTL DEF Spec
=============================================================================
