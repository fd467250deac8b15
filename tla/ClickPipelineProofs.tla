-------------------------- MODULE ClickPipelineProofs --------------------------
(***************************************************************************)
(* What holds of ClickPipeline for any number of clicks, calls, workers    *)
(* and drainers, and any limits.  Whatever may go wrong: the counters know *)
(* every click the list knows of, no click is stored more often than it    *)
(* was sent, the list stays bounded, and a click is lost only where the    *)
(* code gives it up.                                                       *)
(***************************************************************************)
EXTENDS ClickPipeline, FiniteSetTheorems, TLAPS

------------------------------------------------------------------------------
(* The inductive invariant *)

\* A call that is past its HINCRBY has counted its click.
TrackCounted == \A t \in Trackers : tpc[t] \in {"sadd", "rpush"} => click[t] \in counted

\* Whatever is in the list or in the hands of a worker was put into the list.
Known == buffer \in Seq(pushed) /\ batch \in [Flushers -> Seq(pushed)]

IInv == TypeOK /\ TrackCounted /\ Known /\ CountedBeforeBuffered

------------------------------------------------------------------------------
(* Lemmas *)

\* A sequence over a set is one over any larger set.
LEMMA SeqGrows == ASSUME NEW S, NEW T, S \subseteq T, NEW s \in Seq(S) PROVE s \in Seq(T)
  OBVIOUS

\* Where the head and the tail of a sequence are.
LEMMA Ends == ASSUME NEW S, NEW s \in Seq(S), s # <<>> PROVE Head(s) \in S /\ Tail(s) \in Seq(S)
  OBVIOUS

\* What is in a sequence over S is in S.
LEMMA SeqRange == ASSUME NEW S, NEW s \in Seq(S) PROVE Range(s) \subseteq S
  BY DEF Range

\* Times is a number.
LEMMA TimesNat == ASSUME NEW S, NEW s \in Seq(S), NEW c PROVE Times(c, s) \in Nat
<1>1. Len(s) \in Nat /\ DOMAIN s = 1 .. Len(s)
  OBVIOUS
<1>2. IsFiniteSet(1 .. Len(s))
  BY <1>1, FS_Interval
<1>3. IsFiniteSet({i \in DOMAIN s : s[i] = c})
  BY <1>1, <1>2, FS_Subset
<1>4. QED BY <1>3, FS_CardinalityType DEF Times

\* The types of what a worker's step changes besides the list and its batch.
WorkerTypes ==
  /\ wpc \in [Flushers -> Running \cup {"idle", "down"}]
  /\ left \in [Flushers -> 0 .. BatchSize]
  /\ stopping \subseteq Workers
  /\ stored \in [Clicks -> Nat]
  /\ resent \subseteq Clicks

\* The types after the end of a flush.
LEMMA EndFlushTypes ==
  ASSUME IInv, NEW w \in Flushers, EndFlush(w)
  PROVE  /\ wpc' \in [Flushers -> Running \cup {"idle", "down"}]
         /\ left' \in [Flushers -> 0 .. BatchSize]
         /\ batch' \in [Flushers -> Seq(pushed)]
         /\ stopping' \subseteq Workers
  BY DEF IInv, TypeOK, Known, EndFlush, WGoto

\* The types after its beginning.
LEMMA StartFlushTypes ==
  ASSUME IInv, NEW w \in Flushers, StartFlush(w)
  PROVE  /\ wpc' \in [Flushers -> Running \cup {"idle", "down"}]
         /\ left' \in [Flushers -> 0 .. BatchSize]
  BY ClickPipelineAssumption DEF IInv, TypeOK, StartFlush, WGoto, Running

\* The types after an INSERT.
LEMMA StoreTypes ==
  ASSUME IInv, NEW w \in Flushers, NEW S, Store(w, S) PROVE stored' \in [Clicks -> Nat]
<1>1. batch[w] \in Seq(pushed)
  BY DEF IInv, Known
<1>2. ASSUME NEW c \in Clicks PROVE stored[c] + (IF c \in S THEN Times(c, batch[w]) ELSE 0) \in Nat
  BY <1>1, TimesNat DEF IInv, TypeOK
<1>3. QED BY <1>2 DEF Store

\* A step of a worker keeps the invariant if it keeps its own types and its hands on
\* known clicks.
LEMMA WorkerKeeps ==
  ASSUME IInv, WorkerTypes', UNCHANGED <<trackVars, pushed>>, Known'
  PROVE  IInv'
<1>1. buffer' \in Seq(Clicks) /\ batch' \in [Flushers -> Seq(Clicks)]
  <2>1. pushed' \subseteq Clicks
    BY DEF IInv, TypeOK
  <2>2. QED BY <2>1, SeqGrows DEF Known
<1>2. TypeOK'
  BY <1>1 DEF IInv, TypeOK, WorkerTypes, trackVars
<1>3. QED
  BY <1>2 DEF IInv, TrackCounted, CountedBeforeBuffered, trackVars

------------------------------------------------------------------------------
(* The invariant is inductive *)

\* The list of the start, of events that were in it already.
LEMMA StartList == ASSUME NEW S, IsFiniteSet(S) PROVE SetToSeq(S) \in Seq(S)
<1>1. Cardinality(S) \in Nat /\ ExistsBijection(1 .. Cardinality(S), S)
  BY FS_CardinalityType
<1>2. \E f \in [1 .. Cardinality(S) -> S] : IsInjective(f)
  BY <1>1 DEF ExistsBijection, Bijection, Injection, IsInjective
<1>3. SetToSeq(S) \in [1 .. Cardinality(S) -> S]
  BY <1>2 DEF SetToSeq
<1>4. QED BY <1>1, <1>3

\* It holds at the start.
LEMMA InitIInv == Init => IInv
<1> SUFFICES ASSUME Init PROVE IInv
  OBVIOUS
<1>1. fresh \subseteq Clicks /\ pushed \subseteq Clicks
  BY DEF Init
<1>2. IsFiniteSet(Clicks \ fresh)
  BY FS_Subset, ClickPipelineAssumption
<1>3. buffer \in Seq(pushed)
  BY <1>2, StartList DEF Init
<1>4. buffer \in Seq(Clicks)
  BY <1>1, <1>3, SeqGrows
<1>5. /\ batch \in [Flushers -> Seq(Clicks)] /\ batch \in [Flushers -> Seq(pushed)]
  BY DEF Init
<1>6. TypeOK
  BY <1>1, <1>4, <1>5, ClickPipelineAssumption DEF Init, TypeOK
<1>7. TrackCounted /\ CountedBeforeBuffered
  BY DEF Init, TrackCounted, CountedBeforeBuffered
<1>8. QED BY <1>3, <1>5, <1>6, <1>7 DEF IInv, Known

\* trackClick counts before it buffers.
LEMMA TrackKeeps == ASSUME IInv, NEW t \in Trackers, TrackStep(t) PROVE IInv'
<1> USE DEF IInv, TrackCounted, TypeOK, TGoto, TAwait
<1>1. CASE TrackClick(t)
  BY <1>1 DEF TrackClick, listVars, workVars, Known, CountedBeforeBuffered
<1>2. CASE Llen(t)
  BY <1>2 DEF Llen, listVars, workVars, Known, CountedBeforeBuffered
<1>3. CASE Hincrby(t)
  BY <1>3 DEF Hincrby, listVars, workVars, Known, CountedBeforeBuffered
<1>4. CASE Sadd(t)
  BY <1>4 DEF Sadd, listVars, workVars, Known, CountedBeforeBuffered
<1>5. CASE Rpush(t)
  <2>1. /\ tpc[t] = "rpush" /\ tpc' = [tpc EXCEPT ![t] = "idle"]
        /\ UNCHANGED <<fresh, click, counted, resent, wpc, left, batch, stopping, stored>>
    BY <1>5 DEF Rpush, workVars
  <2>2. CASE buffer' = Append(buffer, click[t]) /\ pushed' = pushed \cup {click[t]}
    <3>1. click[t] \in Clicks /\ click[t] \in counted
      BY <2>1
    <3>2. buffer \in Seq(pushed') /\ batch \in [Flushers -> Seq(pushed')]
      <4>1. pushed \subseteq pushed'
        BY <2>2
      <4>2. buffer \in Seq(pushed) /\ batch \in [Flushers -> Seq(pushed)]
        BY DEF Known
      <4>3. \A w \in Flushers : batch[w] \in Seq(pushed')
        BY <4>1, <4>2, SeqGrows
      <4>4. QED BY <4>1, <4>2, <4>3, SeqGrows
    <3>3. Known'
      BY <2>1, <2>2, <3>2 DEF Known
    <3>4. buffer' \in Seq(Clicks) /\ pushed' \subseteq Clicks
      BY <2>2, <3>1
    <3>5. TypeOK' /\ TrackCounted'
      BY <2>1, <3>4
    <3>6. CountedBeforeBuffered'
      BY <2>1, <2>2, <3>1 DEF CountedBeforeBuffered
    <3>7. QED BY <3>3, <3>5, <3>6
  <2>3. CASE UNCHANGED <<buffer, pushed>>
    BY <2>1, <2>3 DEF Known, CountedBeforeBuffered
  <2>4. QED BY <1>5, <2>2, <2>3 DEF Rpush
<1>6. QED BY <1>1, <1>2, <1>3, <1>4, <1>5 DEF TrackStep

\* What is sent again is either counted already, by its call, or known already.
LEMMA ResendKeeps ==
  ASSUME IInv, NEW c \in Clicks, c \in counted \/ c \in pushed, Resend(c)
  PROVE  IInv'
<1>1. /\ buffer' = Append(buffer, c) /\ pushed' = pushed \cup {c} /\ resent' = resent \cup {c}
      /\ UNCHANGED <<fresh, tpc, click, counted, wpc, left, batch, stopping, stored>>
  BY DEF Resend, trackVars, workVars
<1>2. buffer \in Seq(pushed') /\ batch \in [Flushers -> Seq(pushed')]
  <2>1. pushed \subseteq pushed'
    BY <1>1
  <2>2. buffer \in Seq(pushed) /\ batch \in [Flushers -> Seq(pushed)]
    BY DEF IInv, Known
  <2>3. \A w \in Flushers : batch[w] \in Seq(pushed')
    BY <2>1, <2>2, SeqGrows
  <2>4. QED BY <2>1, <2>2, <2>3, SeqGrows
<1>3. Known'
  BY <1>1, <1>2 DEF Known
<1>4. buffer' \in Seq(Clicks) /\ pushed' \subseteq Clicks /\ resent' \subseteq Clicks
  BY <1>1 DEF IInv, TypeOK
<1>5. TypeOK' /\ TrackCounted'
  BY <1>1, <1>4 DEF IInv, TypeOK, TrackCounted
<1>6. CountedBeforeBuffered'
  BY <1>1 DEF IInv, CountedBeforeBuffered
<1>7. QED BY <1>3, <1>5, <1>6 DEF IInv

\* Every step of a flush, whatever fails, keeps to clicks that were put into the list.
LEMMA FlushKeeps == ASSUME IInv, NEW w \in Flushers, FlushStep(w) PROVE IInv'
<1>1. /\ TypeOK /\ Known /\ WorkerTypes
      /\ buffer \in Seq(pushed) /\ batch \in [Flushers -> Seq(pushed)]
      /\ batch[w] \in Seq(pushed)
  BY DEF IInv, TypeOK, Known, WorkerTypes
<1> USE DEF WorkerTypes, Known
<1>2. ASSUME UNCHANGED <<trackVars, pushed>>, resent' \subseteq Clicks,
             stored' \in [Clicks -> Nat], buffer' \in Seq(pushed), EndFlush(w)
      PROVE  IInv'
  BY <1>1, <1>2, EndFlushTypes, WorkerKeeps
<1>3. ASSUME UNCHANGED <<trackVars, pushed>>, resent' \subseteq Clicks,
             stored' \in [Clicks -> Nat], buffer' \in Seq(pushed),
             NEW l \in Running, WGoto(w, l), UNCHANGED <<left, batch, stopping>>
      PROVE  IInv'
  BY <1>1, <1>3, WorkerKeeps DEF WGoto
<1>4. CASE Lpop(w)
  <2>1. left' \in [Flushers -> 0 .. BatchSize]
    BY <1>1, <1>4, ClickPipelineAssumption DEF Lpop
  <2>2. buffer' \in Seq(pushed) /\ batch' \in [Flushers -> Seq(pushed)]
    <3>1. buffer # <<>> => Head(buffer) \in pushed /\ Tail(buffer) \in Seq(pushed)
      BY <1>1, Ends
    <3>2. buffer # <<>> => Append(batch[w], Head(buffer)) \in Seq(pushed)
      BY <1>1, <3>1
    <3>3. QED BY <1>1, <1>4, <3>1, <3>2 DEF Lpop
  <2>3. QED BY <1>1, <1>4, <2>1, <2>2, WorkerKeeps DEF Lpop
<1>5. CASE Popped(w)
  BY <1>1, <1>2, <1>3, <1>5 DEF Popped, listVars, Running
<1>6. CASE Connect(w)
  BY <1>1, <1>2, <1>3, <1>6 DEF Connect, listVars, Running
<1>7. CASE Insert(w)
  BY <1>1, <1>3, <1>7 DEF Insert, QueryFails, listVars, Running
<1>8. CASE Commit(w)
  <2>1. Range(batch[w]) \subseteq Clicks
    <3>1. pushed \subseteq Clicks
      BY <1>1 DEF TypeOK
    <3>2. QED BY <1>1, <3>1, SeqRange
  <2>2. CASE Store(w, Valid(w)) /\ EndFlush(w) /\ UNCHANGED resent
    BY <1>1, <1>2, <1>8, <2>2, StoreTypes DEF Commit
  <2>3. CASE /\ Store(w, Valid(w)) /\ WGoto(w, "discard")
             /\ UNCHANGED <<resent, left, batch, stopping>>
    BY <1>1, <1>3, <1>8, <2>3, StoreTypes DEF Commit, Running
  <2>4. CASE /\ Store(w, Valid(w)) /\ resent' = resent \cup Range(batch[w])
             /\ WGoto(w, "rollback") /\ UNCHANGED <<left, batch, stopping>>
    BY <1>1, <1>3, <1>8, <2>1, <2>4, StoreTypes DEF Commit, Running
  <2>5. CASE QueryFails(w, "commit") /\ UNCHANGED resent
    BY <1>1, <1>3, <1>8, <2>5 DEF Commit, QueryFails, Running
  <2>6. QED BY <1>8, <2>2, <2>3, <2>4, <2>5 DEF Commit
<1>9. CASE Rollback(w) \/ Discard(w)
  BY <1>1, <1>2, <1>3, <1>9 DEF Rollback, Discard, listVars, Running
<1>10. CASE Requeue(w)
  <2>1. batch[w] # <<>> => /\ Head(batch[w]) \in pushed /\ Tail(batch[w]) \in Seq(pushed)
                           /\ Append(buffer, Head(batch[w])) \in Seq(pushed)
    <3>1. batch[w] # <<>> => Head(batch[w]) \in pushed /\ Tail(batch[w]) \in Seq(pushed)
      BY <1>1, Ends
    <3>2. QED BY <1>1, <3>1
  <2>2. CASE /\ batch[w] # <<>> /\ buffer' = Append(buffer, Head(batch[w]))
             /\ batch' = [batch EXCEPT ![w] = Tail(batch[w])]
             /\ UNCHANGED <<wpc, left, stopping>>
    <3>1. Known'
      BY <1>1, <1>10, <2>1, <2>2 DEF Requeue
    <3>2. QED BY <1>1, <1>10, <2>2, <3>1, WorkerKeeps DEF Requeue
  <2>3. CASE EndFlush(w) /\ buffer' \in Seq(pushed)
    BY <1>1, <1>2, <1>10, <2>3 DEF Requeue
  <2>4. QED BY <1>1, <1>10, <2>1, <2>2, <2>3 DEF Requeue
<1>11. CASE Take(w)
  <2>1. buffer # <<>> => /\ Head(buffer) \in pushed /\ Tail(buffer) \in Seq(pushed)
                         /\ Append(batch[w], Head(buffer)) \in Seq(pushed)
    <3>1. buffer # <<>> => Head(buffer) \in pushed /\ Tail(buffer) \in Seq(pushed)
      BY <1>1, Ends
    <3>2. QED BY <1>1, <3>1
  <2>2. CASE /\ left[w] > 0 /\ buffer # <<>> /\ buffer' = Tail(buffer)
             /\ left' = [left EXCEPT ![w] = left[w] - 1]
             /\ batch' = IF Kind[Head(buffer)] = "garbled" THEN batch
                         ELSE [batch EXCEPT ![w] = Append(batch[w], Head(buffer))]
             /\ UNCHANGED <<wpc, stopping>>
    <3>1. Known'
      BY <1>1, <1>11, <2>1, <2>2 DEF Take
    <3>2. left' \in [Flushers -> 0 .. BatchSize]
      BY <1>1, <2>2, ClickPipelineAssumption
    <3>3. QED BY <1>1, <1>11, <2>2, <3>1, <3>2, WorkerKeeps DEF Take
  <2>3. CASE EndFlush(w) /\ buffer' \in Seq(pushed)
    BY <1>1, <1>2, <1>11, <2>3 DEF Take
  <2>4. CASE WGoto(w, "connect") /\ UNCHANGED <<left, batch, stopping, buffer>>
    BY <1>1, <1>3, <1>11, <2>4 DEF Take, Running
  <2>5. QED BY <1>1, <1>11, <2>1, <2>2, <2>3, <2>4 DEF Take
<1>12. CASE Bulk(w)
  <2>1. Range(batch[w]) \subseteq Clicks
    <3>1. pushed \subseteq Clicks
      BY <1>1 DEF TypeOK
    <3>2. QED BY <1>1, <3>1, SeqRange
  <2>2. CASE Store(w, Clicks) /\ EndFlush(w) /\ UNCHANGED resent
    BY <1>1, <1>2, <1>12, <2>2, StoreTypes DEF Bulk
  <2>3. CASE WGoto(w, "requeue") /\ UNCHANGED <<resent, left, batch, stopping, stored>>
    BY <1>1, <1>3, <1>12, <2>3 DEF Bulk, Running
  <2>4. CASE /\ Store(w, Clicks) /\ resent' = resent \cup Range(batch[w])
             /\ WGoto(w, "requeue") /\ UNCHANGED <<left, batch, stopping>>
    BY <1>1, <1>3, <1>12, <2>1, <2>4, StoreTypes DEF Bulk, Running
  <2>5. QED BY <1>12, <2>2, <2>3, <2>4 DEF Bulk
<1>13. QED
  BY <1>4, <1>5, <1>6, <1>7, <1>8, <1>9, <1>10, <1>11, <1>12 DEF FlushStep

\* So do its ends and beginnings.
LEMMA ProcessKeeps ==
  ASSUME IInv, NEW w \in Flushers,
         \/ w \in Workers /\ (Tick(w) \/ PipelineResent(w) \/ Stop(w))
         \/ Drain(w) \/ Crash(w) \/ Restart(w)
  PROVE  IInv'
<1>1. /\ TypeOK /\ Known /\ WorkerTypes
      /\ buffer \in Seq(pushed) /\ batch \in [Flushers -> Seq(pushed)]
  BY DEF IInv, TypeOK, Known, WorkerTypes
<1> USE DEF WorkerTypes, Known
<1>2. CASE Tick(w)
  BY <1>1, <1>2, StartFlushTypes, WorkerKeeps DEF Tick, listVars
<1>3. CASE PipelineResent(w)
  BY <1>1, <1>3, StartFlushTypes, WorkerKeeps DEF PipelineResent, listVars
<1>4. ASSUME Die(w) PROVE IInv'
  BY <1>1, <1>4, WorkerKeeps DEF Die, WGoto, listVars
<1>5. CASE w \in Workers /\ Stop(w)
  <2>1. CASE /\ StartFlush(w) /\ stopping' = stopping \cup {w}
             /\ UNCHANGED <<trackVars, listVars, batch, stored>>
    BY <1>1, <1>5, <2>1, StartFlushTypes, WorkerKeeps DEF listVars
  <2>2. QED BY <1>4, <1>5, <2>1 DEF Stop
<1>6. CASE Crash(w)
  BY <1>4, <1>6 DEF Crash
<1>7. CASE Drain(w)
  BY <1>1, <1>7, ClickPipelineAssumption, WorkerKeeps DEF Drain, WGoto, Running, listVars
<1>8. CASE Restart(w)
  BY <1>1, <1>8, WorkerKeeps DEF Restart, WGoto, listVars
<1>9. QED BY <1>2, <1>3, <1>5, <1>6, <1>7, <1>8

\* Every step keeps it.
LEMMA StepIInv == IInv /\ [Next]_vars => IInv'
<1> SUFFICES ASSUME IInv, [Next]_vars PROVE IInv'
  OBVIOUS
<1>1. ASSUME NEW t \in Trackers, TrackStep(t) PROVE IInv'
  BY <1>1, TrackKeeps
<1>2. ASSUME NEW t \in Trackers, RpushResent(t) PROVE IInv'
  <2>1. click[t] \in Clicks /\ click[t] \in counted /\ Resend(click[t])
    BY <1>2 DEF RpushResent, IInv, TypeOK, TrackCounted
  <2>2. QED BY <2>1, ResendKeeps
<1>3. ASSUME NEW w \in Flushers, RequeueResent(w) PROVE IInv'
  <2>1. Head(batch[w]) \in pushed /\ Resend(Head(batch[w]))
    BY <1>3, Ends DEF RequeueResent, IInv, Known
  <2>2. pushed \subseteq Clicks
    BY DEF IInv, TypeOK
  <2>3. QED BY <2>1, <2>2, ResendKeeps
<1>4. ASSUME NEW w \in Flushers, FlushStep(w) PROVE IInv'
  BY <1>4, FlushKeeps
<1>5. ASSUME NEW w \in Workers, Tick(w) \/ PipelineResent(w) \/ Stop(w) PROVE IInv'
  BY <1>5, ProcessKeeps DEF Flushers
<1>6. ASSUME NEW d \in Drainers, Drain(d) PROVE IInv'
  BY <1>6, ProcessKeeps DEF Flushers
<1>7. ASSUME NEW w \in Flushers, Crash(w) \/ Restart(w) PROVE IInv'
  BY <1>7, ProcessKeeps
<1>8. CASE UNCHANGED vars
  BY <1>8 DEF vars, trackVars, listVars, workVars, IInv, TypeOK, TrackCounted, Known,
              CountedBeforeBuffered
<1>9. QED BY <1>1, <1>2, <1>3, <1>4, <1>5, <1>6, <1>7, <1>8 DEF Next

------------------------------------------------------------------------------
(* Counting what is in a sequence, and in the sequences of all workers *)

\* The places of s at which an element of S stands: Times(c, s) counts those of {c},
\* Len(s) those of any set that holds all elements.
At(S, s) == {i \in DOMAIN s : s[i] \in S}

\* There are finitely many such places, and no more than the sequence is long.
LEMMA AtFinite ==
  ASSUME NEW S, NEW T, NEW s \in Seq(T)
  PROVE  /\ IsFiniteSet(At(S, s)) /\ Cardinality(At(S, s)) \in Nat
         /\ Cardinality(At(S, s)) <= Len(s)
<1>1. Len(s) \in Nat /\ DOMAIN s = 1 .. Len(s)
  OBVIOUS
<1>2. IsFiniteSet(1 .. Len(s)) /\ Cardinality(1 .. Len(s)) = Len(s)
  BY <1>1, FS_Interval
<1>3. At(S, s) \in SUBSET (1 .. Len(s))
  BY <1>1 DEF At
<1>4. QED BY <1>2, <1>3, FS_Subset, FS_CardinalityType

\* In a sequence over S, all of them.
LEMMA AtAll == ASSUME NEW S, NEW s \in Seq(S) PROVE Cardinality(At(S, s)) = Len(s)
<1>1. Len(s) \in Nat /\ At(S, s) = 1 .. Len(s)
  BY DEF At
<1>2. QED BY <1>1, FS_Interval

\* In the empty sequence, none.
LEMMA AtEmpty == ASSUME NEW S PROVE Cardinality(At(S, <<>>)) = 0
  BY FS_EmptySet DEF At

\* Append adds one place, if its element counts.
LEMMA AtAppend ==
  ASSUME NEW S, NEW T, NEW s \in Seq(T), NEW e \in T
  PROVE  Cardinality(At(S, Append(s, e))) = Cardinality(At(S, s)) + (IF e \in S THEN 1 ELSE 0)
<1>1. /\ Len(s) \in Nat /\ DOMAIN s = 1 .. Len(s) /\ DOMAIN Append(s, e) = 1 .. Len(s) + 1
      /\ \A i \in 1 .. Len(s) : Append(s, e)[i] = s[i]
      /\ Append(s, e)[Len(s) + 1] = e
  OBVIOUS
<1>2. IsFiniteSet(At(S, s)) /\ Cardinality(At(S, s)) \in Nat /\ Len(s) + 1 \notin At(S, s)
  <2>1. IsFiniteSet(At(S, s)) /\ Cardinality(At(S, s)) \in Nat
    BY AtFinite
  <2>2. QED BY <1>1, <2>1 DEF At
<1>3. CASE e \in S
  <2>1. At(S, Append(s, e)) = At(S, s) \cup {Len(s) + 1}
    BY <1>1, <1>3 DEF At
  <2>2. QED BY <1>2, <1>3, <2>1, FS_AddElement
<1>4. CASE e \notin S
  <2>1. At(S, Append(s, e)) = At(S, s)
    BY <1>1, <1>4 DEF At
  <2>2. QED BY <1>2, <1>4, <2>1
<1>5. QED BY <1>3, <1>4

\* Tail takes one, if the head counted.
LEMMA AtTail ==
  ASSUME NEW S, NEW T, NEW s \in Seq(T), s # <<>>
  PROVE  Cardinality(At(S, s)) = Cardinality(At(S, Tail(s))) + (IF Head(s) \in S THEN 1 ELSE 0)
<1>1. /\ Len(s) \in Nat \ {0} /\ DOMAIN s = 1 .. Len(s)
      /\ Tail(s) \in Seq(T) /\ DOMAIN Tail(s) = 1 .. Len(s) - 1
      /\ \A i \in 1 .. Len(s) - 1 : Tail(s)[i] = s[i + 1]
      /\ Head(s) = s[1]
  OBVIOUS
<1> DEFINE rest == At(S, s) \ {1}
<1>2. IsFiniteSet(At(S, Tail(s))) /\ Cardinality(At(S, Tail(s))) \in Nat
  BY <1>1, AtFinite
<1>3. Cardinality(rest) = Cardinality(At(S, Tail(s)))
  <2> DEFINE f == [i \in At(S, Tail(s)) |-> i + 1]
  <2>1. f \in [At(S, Tail(s)) -> rest]
    BY <1>1 DEF At
  <2>2. \A i, j \in At(S, Tail(s)) : f[i] = f[j] => i = j
    BY <1>1 DEF At
  <2>3. \A k \in rest : \E i \in At(S, Tail(s)) : f[i] = k
    <3> SUFFICES ASSUME NEW k \in rest PROVE \E i \in At(S, Tail(s)) : f[i] = k
      OBVIOUS
    <3>1. k \in 2 .. Len(s) /\ s[k] \in S
      BY <1>1 DEF At
    <3>2. k - 1 \in At(S, Tail(s)) /\ (k - 1) + 1 = k
      BY <1>1, <3>1 DEF At
    <3>3. f[k - 1] = k
      BY <3>2
    <3>4. QED BY <3>2, <3>3
  <2>4. f \in Bijection(At(S, Tail(s)), rest)
    BY <2>1, <2>2, <2>3 DEF Bijection, Injection, Surjection, IsInjective
  <2>5. QED BY <1>2, <2>4, FS_Bijection DEF ExistsBijection
<1>4. IsFiniteSet(At(S, s)) /\ Cardinality(At(S, s)) \in Nat
  BY AtFinite
<1>5. 1 \in At(S, s) <=> Head(s) \in S
  BY <1>1 DEF At
<1>6. QED
  <2>1. Cardinality(rest) = IF 1 \in At(S, s) THEN Cardinality(At(S, s)) - 1 ELSE Cardinality(At(S, s))
    BY <1>4, FS_RemoveElement
  <2> HIDE DEF rest
  <2>2. QED BY <1>2, <1>3, <1>4, <1>5, <2>1

\* The same over all the sequences of a function h.
AtAny(S, h) == {p \in Flushers \X Nat : p[2] \in At(S, h[p[1]])}

\* Replacing the sequence of one worker changes the count by the difference of the two.
LEMMA AtAnySplit ==
  ASSUME NEW S, NEW h \in [Flushers -> Seq(Clicks)], NEW w \in Flushers, NEW s \in Seq(Clicks),
         IsFiniteSet(AtAny(S, h)), NEW g, g = [h EXCEPT ![w] = s]
  PROVE  /\ IsFiniteSet(AtAny(S, g))
         /\ Cardinality(AtAny(S, g)) \in Nat
         /\ Cardinality(AtAny(S, h)) \in Nat
         /\ Cardinality(AtAny(S, g)) + Cardinality(At(S, h[w]))
              = Cardinality(AtAny(S, h)) + Cardinality(At(S, s))
<1> DEFINE others == {p \in AtAny(S, h) : p[1] # w}
           own(q) == {w} \X At(S, q)
<1>1. ASSUME NEW q \in Seq(Clicks)
      PROVE  IsFiniteSet(own(q)) /\ Cardinality(own(q)) = Cardinality(At(S, q)) /\ Cardinality(own(q)) \in Nat
  <2>1. IsFiniteSet(At(S, q)) /\ Cardinality(At(S, q)) \in Nat
    BY AtFinite
  <2>2. IsFiniteSet({w}) /\ Cardinality({w}) = 1
    BY FS_Singleton
  <2>3. IsFiniteSet({w} \X At(S, q)) /\ Cardinality({w} \X At(S, q)) = 1 * Cardinality(At(S, q))
    BY <2>1, <2>2, FS_Product
  <2>4. QED BY <2>1, <2>3
<1>2. IsFiniteSet(others) /\ Cardinality(others) \in Nat
  <2>1. others \in SUBSET AtAny(S, h)
    OBVIOUS
  <2>2. QED BY <2>1, FS_Subset, FS_CardinalityType
<1>3. h[w] \in Seq(Clicks) /\ g \in [Flushers -> Seq(Clicks)]
  OBVIOUS
<1>4. /\ AtAny(S, h) = others \cup own(h[w]) /\ others \cap own(h[w]) = {}
      /\ AtAny(S, g) = others \cup own(s) /\ others \cap own(s) = {}
  <2>1. ASSUME NEW q \in Seq(Clicks) PROVE At(S, q) \subseteq Nat
    BY DEF At
  <2>2. At(S, h[w]) \subseteq Nat /\ At(S, s) \subseteq Nat
    BY <1>3, <2>1
  <2>3. g[w] = s /\ \A v \in Flushers : v # w => g[v] = h[v]
    OBVIOUS
  <2>4. QED BY <2>2, <2>3 DEF AtAny
<1> HIDE DEF others, own
<1>5. Cardinality({}) = 0
  BY FS_EmptySet
<1>6. ASSUME NEW q \in Seq(Clicks), others \cap own(q) = {}
      PROVE  /\ IsFiniteSet(others \cup own(q))
             /\ Cardinality(others \cup own(q)) = Cardinality(others) + Cardinality(At(S, q))
  <2>1. IsFiniteSet(own(q)) /\ Cardinality(own(q)) = Cardinality(At(S, q)) /\ Cardinality(own(q)) \in Nat
    BY <1>1
  <2>2. /\ IsFiniteSet(others \cup own(q))
        /\ Cardinality(others \cup own(q)) =
             Cardinality(others) + Cardinality(own(q)) - Cardinality(others \cap own(q))
    BY <1>2, <2>1, FS_Union
  <2>3. Cardinality(others \cap own(q)) = 0
    BY <1>5, <1>6, Zenon
  <2>4. QED BY <1>2, <2>1, <2>2, <2>3
<1>7. /\ Cardinality(AtAny(S, h)) = Cardinality(others) + Cardinality(At(S, h[w]))
      /\ IsFiniteSet(AtAny(S, g))
      /\ Cardinality(AtAny(S, g)) = Cardinality(others) + Cardinality(At(S, s))
  BY <1>3, <1>4, <1>6
<1>8. Cardinality(At(S, h[w])) \in Nat /\ Cardinality(At(S, s)) \in Nat
  BY <1>3, AtFinite
<1>9. QED BY <1>2, <1>7, <1>8

------------------------------------------------------------------------------
(* The sizes of the batches *)

\* No batch outgrows ANALYTICS_BATCH_SIZE, and between two flushes there is none.
Sizes ==
  \A w \in Flushers :
    /\ Len(batch[w]) <= BatchSize
    /\ wpc[w] \in {"pop", "take"} => Len(batch[w]) + left[w] <= BatchSize
    /\ wpc[w] \in {"idle", "down"} => batch[w] = <<>>

\* While no batch is larger than BatchSize, there are finitely many places, and their number
\* is bounded.
LEMMA AtAnyFinite ==
  ASSUME NEW S, NEW T, NEW h \in [Flushers -> Seq(T)], \A w \in Flushers : Len(h[w]) <= BatchSize
  PROVE  /\ IsFiniteSet(AtAny(S, h)) /\ Cardinality(AtAny(S, h)) \in Nat
         /\ Cardinality(AtAny(S, h)) <= Cardinality(Flushers) * BatchSize
<1>1. IsFiniteSet(Flushers)
  BY FS_Union, ClickPipelineAssumption DEF Flushers
<1>2. BatchSize \in Nat /\ IsFiniteSet(1 .. BatchSize) /\ Cardinality(1 .. BatchSize) = BatchSize
  <2>1. BatchSize \in Nat \ {0}
    BY ClickPipelineAssumption
  <2>2. QED BY <2>1, FS_Interval
<1>3. AtAny(S, h) \subseteq Flushers \X (1 .. BatchSize)
  <2> SUFFICES ASSUME NEW w \in Flushers, NEW i \in Nat, i \in At(S, h[w]) PROVE i \in 1 .. BatchSize
    BY DEF AtAny
  <2>1. h[w] \in Seq(T)
    OBVIOUS
  <2>2. Len(h[w]) \in Nat /\ i \in 1 .. Len(h[w]) /\ Len(h[w]) <= BatchSize
    BY <2>1 DEF At
  <2>3. QED BY <1>2, <2>2
<1>4. /\ IsFiniteSet(Flushers \X (1 .. BatchSize))
      /\ Cardinality(Flushers \X (1 .. BatchSize)) = Cardinality(Flushers) * BatchSize
  BY <1>1, <1>2, FS_Product
<1>5. QED
  <2>1. AtAny(S, h) \in SUBSET (Flushers \X (1 .. BatchSize))
    BY <1>3
  <2>2. QED BY <1>4, <2>1, FS_Subset, FS_CardinalityType

\* It holds at the start.
LEMMA InitSizes == Init => Sizes
<1> SUFFICES ASSUME Init, NEW w \in Flushers PROVE Len(batch[w]) <= BatchSize /\ batch[w] = <<>>
                                                 /\ wpc[w] = "idle"
  BY DEF Sizes
<1>1. QED BY ClickPipelineAssumption DEF Init

\* Every step keeps it: the LPOPs that are left are counted against the size.
LEMMA SizesStep == IInv /\ Sizes /\ [Next]_vars => Sizes'
<1> SUFFICES ASSUME IInv, Sizes, [Next]_vars PROVE Sizes'
  OBVIOUS
<1>1. /\ wpc \in [Flushers -> Running \cup {"idle", "down"}]
      /\ left \in [Flushers -> 0 .. BatchSize]
      /\ batch \in [Flushers -> Seq(Clicks)] /\ buffer \in Seq(Clicks)
      /\ BatchSize \in Nat
  BY ClickPipelineAssumption DEF IInv, TypeOK
<1>2. CASE UNCHANGED <<wpc, left, batch>>
  BY <1>2 DEF Sizes
<1>3. ASSUME NEW w \in Flushers, EndFlush(w) PROVE Sizes'
  BY <1>1, <1>3 DEF EndFlush, WGoto, Sizes
<1>0. ASSUME NEW w \in Flushers, Die(w) PROVE Sizes'
  BY <1>1, <1>0 DEF Die, WGoto, Sizes
<1>4. ASSUME NEW w \in Flushers, NEW l \in Running, l # "pop", l # "take", WGoto(w, l),
             UNCHANGED left, UNCHANGED batch
      PROVE Sizes'
  BY <1>1, <1>4 DEF WGoto, Running, Sizes
<1>5. ASSUME NEW w \in Flushers, NEW l, l = "pop" \/ l = "take", WGoto(w, l),
             left' = [left EXCEPT ![w] = BatchSize],
             batch' = [batch EXCEPT ![w] = <<>>]
      PROVE Sizes'
  BY <1>1, <1>5 DEF WGoto, Sizes
<1>6. ASSUME NEW w \in Flushers, FlushStep(w) PROVE Sizes'
  <2>1. CASE Lpop(w)
    <3>1. wpc[w] = "pop" /\ Len(batch[w]) + left[w] <= BatchSize
      BY <2>1 DEF Lpop, Sizes
    <3>2. /\ left[w] > 0 /\ left' = [left EXCEPT ![w] = left[w] - 1] /\ UNCHANGED wpc
          /\ batch' \in {batch, [batch EXCEPT ![w] = Append(batch[w], Head(buffer))]}
          /\ batch' # batch => buffer # <<>>
      BY <2>1 DEF Lpop
    <3>3. buffer # <<>> => Len(Append(batch[w], Head(buffer))) = Len(batch[w]) + 1
      BY <1>1
    <3>4. Len(batch[w]) \in Nat
      BY <1>1
    <3>5. QED BY <1>1, <3>1, <3>2, <3>3, <3>4 DEF Sizes
  <2>2. CASE Popped(w) \/ Connect(w) \/ Rollback(w) \/ Discard(w)
    BY <1>3, <1>4, <2>2 DEF Popped, Connect, Rollback, Discard, Running
  <2>3. CASE Insert(w) \/ Commit(w)
    BY <1>3, <1>4, <2>3 DEF Insert, Commit, QueryFails, Running
  <2>4. CASE Bulk(w)
    BY <1>3, <1>4, <2>4 DEF Bulk, Running
  <2>5. CASE Requeue(w)
    <3>1. CASE batch[w] # <<>> /\ batch' = [batch EXCEPT ![w] = Tail(batch[w])] /\ UNCHANGED <<wpc, left>>
      <4>1. Len(Tail(batch[w])) <= Len(batch[w]) /\ Len(batch[w]) \in Nat /\ wpc[w] = "requeue"
            /\ Len(Tail(batch[w])) \in Nat
        BY <1>1, <2>5, <3>1 DEF Requeue
      <4>2. QED BY <1>1, <3>1, <4>1 DEF Sizes
    <3>2. QED BY <1>3, <2>5, <3>1 DEF Requeue
  <2>6. CASE Take(w)
    <3>1. CASE /\ left[w] > 0 /\ buffer # <<>>
               /\ left' = [left EXCEPT ![w] = left[w] - 1]
               /\ batch' = IF Kind[Head(buffer)] = "garbled" THEN batch
                           ELSE [batch EXCEPT ![w] = Append(batch[w], Head(buffer))]
               /\ UNCHANGED wpc
      <4>1. Len(Append(batch[w], Head(buffer))) = Len(batch[w]) + 1 /\ Len(batch[w]) \in Nat
        BY <1>1, <3>1
      <4>2. Len(batch[w]) + left[w] <= BatchSize /\ wpc[w] = "take"
        BY <2>6 DEF Take, Sizes
      <4>3. QED BY <1>1, <3>1, <4>1, <4>2 DEF Sizes
    <3>2. QED BY <1>3, <1>4, <2>6, <3>1 DEF Take, Running
  <2>7. QED BY <1>6, <2>1, <2>2, <2>3, <2>4, <2>5, <2>6 DEF FlushStep
<1>7. ASSUME NEW w \in Flushers, Tick(w) \/ PipelineResent(w) \/ Stop(w) \/ Drain(w) PROVE Sizes'
  <2>1. wpc[w] = "idle" => [batch EXCEPT ![w] = <<>>] = batch
    BY <1>1 DEF Sizes
  <2>2. QED BY <1>0, <1>5, <1>7, <2>1 DEF Tick, PipelineResent, Stop, Drain, StartFlush, workVars
<1>8. ASSUME NEW w \in Flushers, Crash(w) \/ Restart(w) PROVE Sizes'
  <2>1. CASE Crash(w)
    BY <1>0, <2>1 DEF Crash
  <2>2. CASE Restart(w)
    BY <1>1, <2>2 DEF Restart, WGoto, Sizes
  <2>3. QED BY <1>8, <2>1, <2>2
<1>9. ASSUME NEW t \in Trackers, TrackStep(t) \/ RpushResent(t) PROVE Sizes'
  BY <1>2, <1>9 DEF TrackStep, TrackClick, Llen, Hincrby, Sadd, Rpush, RpushResent, Resend, workVars
<1>10. ASSUME NEW w \in Flushers, RequeueResent(w) PROVE Sizes'
  BY <1>2, <1>10 DEF RequeueResent, Resend, workVars
<1>11. CASE UNCHANGED vars
  BY <1>2, <1>11 DEF vars, workVars
<1>12. QED BY <1>6, <1>7, <1>8, <1>9, <1>10, <1>11 DEF Next, Flushers

------------------------------------------------------------------------------
(* No row twice: the rows of a click and all the places another could come from *)

\* How often c is in the sequences of h.
Hands(c, h) == Cardinality(AtAny({c}, h))

\* The same facts for the places of one click.
LEMMA TimesAt == ASSUME NEW c, NEW s PROVE Times(c, s) = Cardinality(At({c}, s))
<1>1. {i \in DOMAIN s : s[i] = c} = At({c}, s)
  BY DEF At
<1>2. QED BY <1>1 DEF Times

LEMMA TimesEmpty == ASSUME NEW c PROVE Times(c, <<>>) = 0
  BY TimesAt, AtEmpty

LEMMA TimesAppend ==
  ASSUME NEW s \in Seq(Clicks), NEW c, NEW e \in Clicks
  PROVE  Times(c, Append(s, e)) = Times(c, s) + (IF e = c THEN 1 ELSE 0)
<1> DEFINE S == {c}
<1>1. e \in S <=> e = c
  OBVIOUS
<1>2. \A q : Times(c, q) = Cardinality(At(S, q))
  BY TimesAt
<1> HIDE DEF S
<1>3. Cardinality(At(S, Append(s, e))) = Cardinality(At(S, s)) + (IF e \in S THEN 1 ELSE 0)
  BY AtAppend
<1>4. QED BY <1>1, <1>2, <1>3

LEMMA TimesTail ==
  ASSUME NEW s \in Seq(Clicks), NEW c, s # <<>>
  PROVE  Times(c, s) = Times(c, Tail(s)) + (IF Head(s) = c THEN 1 ELSE 0)
<1> DEFINE S == {c}
<1>1. Head(s) \in S <=> Head(s) = c
  OBVIOUS
<1>2. \A q : Times(c, q) = Cardinality(At(S, q))
  BY TimesAt
<1> HIDE DEF S
<1>3. Cardinality(At(S, s)) = Cardinality(At(S, Tail(s))) + (IF Head(s) \in S THEN 1 ELSE 0)
  BY AtTail
<1>4. QED BY <1>1, <1>2, <1>3

LEMMA HandsTypes ==
  ASSUME NEW c, NEW h \in [Flushers -> Seq(Clicks)], \A w \in Flushers : Len(h[w]) <= BatchSize
  PROVE  IsFiniteSet(AtAny({c}, h)) /\ Hands(c, h) \in Nat
  BY AtAnyFinite DEF Hands

\* Replacing the sequence of one worker, for one click.
LEMMA HandsUpdate ==
  ASSUME NEW c, NEW h \in [Flushers -> Seq(Clicks)], \A v \in Flushers : Len(h[v]) <= BatchSize,
         NEW w \in Flushers, NEW s \in Seq(Clicks), NEW g, g = [h EXCEPT ![w] = s]
  PROVE  /\ Hands(c, g) \in Nat
         /\ Hands(c, g) + Times(c, h[w]) = Hands(c, h) + Times(c, s)
<1> DEFINE S == {c}
<1>1. IsFiniteSet(AtAny(S, h))
  BY HandsTypes
<1>2. \A q : Times(c, q) = Cardinality(At(S, q)) /\ Hands(c, q) = Cardinality(AtAny(S, q))
  BY TimesAt DEF Hands
<1> HIDE DEF S
<1>3. /\ Cardinality(AtAny(S, g)) \in Nat
      /\ Cardinality(AtAny(S, g)) + Cardinality(At(S, h[w])) = Cardinality(AtAny(S, h)) + Cardinality(At(S, s))
  BY <1>1, AtAnySplit
<1>4. QED BY <1>2, <1>3

\* The calls that have a click in their hands and may still put it into the list.
Calls(c) == {t \in Trackers : tpc[t] # "idle" /\ click[t] = c}

\* What a worker may still store or put back: in "discard" it does neither.
Hand(l, b) == IF l = "discard" THEN <<>> ELSE b
HeldOf(l, b) == [w \in Flushers |-> Hand(l[w], b[w])]
Held == HeldOf(wpc, batch)

\* The rows of c, and the places from where c may get another one.
Rows(c) ==
  (IF c \in fresh THEN 1 ELSE 0) + Cardinality(Calls(c)) + Times(c, buffer)
    + Hands(c, Held) + stored[c]

Allowed(c) == IF c \in resent THEN 2 ELSE 1

OnceInv == \A c \in Clicks : Rows(c) <= Allowed(c)

\* The types of Held.
LEMMA HeldTypes ==
  ASSUME NEW l, NEW b \in [Flushers -> Seq(Clicks)], \A w \in Flushers : Len(b[w]) <= BatchSize
  PROVE  /\ HeldOf(l, b) \in [Flushers -> Seq(Clicks)]
         /\ \A w \in Flushers : Len(HeldOf(l, b)[w]) <= BatchSize
<1>1. BatchSize \in Nat \ {0}
  BY ClickPipelineAssumption
<1>2. \A w \in Flushers : HeldOf(l, b)[w] = Hand(l[w], b[w])
  BY DEF HeldOf
<1>3. <<>> \in Seq(Clicks) /\ Len(<<>>) = 0
  OBVIOUS
<1>4. ASSUME NEW w \in Flushers PROVE Hand(l[w], b[w]) \in Seq(Clicks) /\ Len(Hand(l[w], b[w])) <= BatchSize
  BY <1>1, <1>3 DEF Hand
<1>5. QED BY <1>2, <1>4 DEF HeldOf

\* There are finitely many calls.
LEMMA CallsFinite == ASSUME NEW c PROVE IsFiniteSet(Calls(c)) /\ Cardinality(Calls(c)) \in Nat
<1>1. Calls(c) \in SUBSET Trackers
  BY DEF Calls
<1>2. QED BY <1>1, FS_Subset, FS_CardinalityType, ClickPipelineAssumption

\* What Rows adds up are numbers.
LEMMA RowsTypes ==
  ASSUME IInv, Sizes, NEW c \in Clicks
  PROVE  /\ Cardinality(Calls(c)) \in Nat /\ Times(c, buffer) \in Nat
         /\ Held \in [Flushers -> Seq(Clicks)] /\ (\A w \in Flushers : Len(Held[w]) <= BatchSize)
         /\ Hands(c, Held) \in Nat /\ stored[c] \in Nat
<1>1. buffer \in Seq(Clicks) /\ stored[c] \in Nat /\ batch \in [Flushers -> Seq(Clicks)]
  BY DEF IInv, TypeOK
<1>2. Times(c, buffer) \in Nat
  BY <1>1, TimesNat
<1>3. Held \in [Flushers -> Seq(Clicks)] /\ \A w \in Flushers : Len(Held[w]) <= BatchSize
  BY <1>1, HeldTypes DEF Held, Sizes
<1>4. Hands(c, Held) \in Nat
  BY <1>3, HandsTypes
<1>5. QED BY <1>1, <1>2, <1>3, <1>4, CallsFinite

\* What a step of w does to Held.
LEMMA HeldUpdate ==
  ASSUME IInv, Sizes, NEW w \in Flushers, NEW l, NEW b \in Seq(Clicks), NEW c,
         wpc' = [wpc EXCEPT ![w] = l], batch' = [batch EXCEPT ![w] = b]
  PROVE  /\ Hands(c, Held') \in Nat
         /\ Hands(c, Held') + Times(c, Hand(wpc[w], batch[w])) = Hands(c, Held) + Times(c, Hand(l, b))
<1>1. wpc \in [Flushers -> Running \cup {"idle", "down"}] /\ batch \in [Flushers -> Seq(Clicks)]
  BY DEF IInv, TypeOK
<1>2. Hand(l, b) \in Seq(Clicks)
  BY DEF Hand
<1>3. Held \in [Flushers -> Seq(Clicks)] /\ \A v \in Flushers : Len(Held[v]) <= BatchSize
  BY <1>1, HeldTypes DEF Held, Sizes
<1>4. Held[w] = Hand(wpc[w], batch[w])
  BY DEF Held, HeldOf
<1>5. Held' = [Held EXCEPT ![w] = Hand(l, b)]
  BY <1>1 DEF Held, HeldOf
<1>6. Hands(c, Held') \in Nat
  BY <1>2, <1>3, <1>5, HandsUpdate
<1>7. Hands(c, Held') + Times(c, Held[w]) = Hands(c, Held) + Times(c, Hand(l, b))
  BY <1>2, <1>3, <1>5, HandsUpdate
<1>8. QED BY <1>4, <1>6, <1>7

\* What leaves the list and w's hand is at least what enters them and the table, but for
\* what is sent again.
Balanced(w, l, b) ==
  \A c \in Clicks :
    Times(c, buffer') + Times(c, Hand(l, b)) + stored'[c] + Allowed(c)
      <= Times(c, buffer) + Times(c, Hand(wpc[w], batch[w])) + stored[c] + Allowed(c)'

\* A step of one worker that is balanced keeps the count.
LEMMA OnceWorker ==
  ASSUME IInv, Sizes, OnceInv, IInv', NEW w \in Flushers, UNCHANGED trackVars,
         NEW l, NEW b \in Seq(Clicks), wpc' = [wpc EXCEPT ![w] = l], batch' = [batch EXCEPT ![w] = b],
         Balanced(w, l, b)
  PROVE  OnceInv'
<1> SUFFICES ASSUME NEW c \in Clicks PROVE Rows(c)' <= Allowed(c)'
  BY DEF OnceInv
<1> DEFINE waiting == (IF c \in fresh THEN 1 ELSE 0) + Cardinality(Calls(c))
           list == Times(c, buffer)
           listAfter == Times(c, buffer')
           hands == Hands(c, Held)
           handsAfter == Hands(c, Held')
           hand == Times(c, Hand(wpc[w], batch[w]))
           handAfter == Times(c, Hand(l, b))
           rows == stored[c]
           rowsAfter == stored'[c]
           most == Allowed(c)
           mostAfter == Allowed(c)'
<1>1. waiting \in Nat /\ list \in Nat /\ hands \in Nat /\ rows \in Nat
  BY RowsTypes
<1>2. listAfter \in Nat /\ rowsAfter \in Nat
  BY TimesNat DEF IInv, TypeOK
<1>3. hand \in Nat /\ handAfter \in Nat
  <2>1. batch[w] \in Seq(Clicks) /\ <<>> \in Seq(Clicks)
    BY DEF IInv, TypeOK
  <2>2. QED BY <2>1, TimesNat DEF Hand
<1>4. most \in Nat /\ mostAfter \in Nat
  BY DEF Allowed
<1>5. handsAfter \in Nat /\ handsAfter + hand = hands + handAfter
  BY HeldUpdate
<1>6. waiting + list + hands + rows <= most
  BY DEF OnceInv, Rows
<1>7. listAfter + handAfter + rowsAfter + most <= list + hand + rows + mostAfter
  BY DEF Balanced
<1>8. Rows(c)' = waiting + listAfter + handsAfter + rowsAfter
  <2>1. UNCHANGED <<fresh, tpc, click>> /\ Calls(c)' = Calls(c)
    BY DEF trackVars, Calls
  <2>2. QED BY <2>1 DEF Rows
<1>9. waiting + listAfter + handsAfter + rowsAfter <= mostAfter
  <2> HIDE DEF waiting, list, listAfter, hands, handsAfter, hand, handAfter, rows, rowsAfter, most, mostAfter
  <2>1. QED BY <1>1, <1>2, <1>3, <1>4, <1>5, <1>6, <1>7
<1>10. QED BY <1>8, <1>9

\* What is in the list of the start is in it once.
LEMMA StartOnce ==
  ASSUME NEW S, IsFiniteSet(S), NEW c PROVE Times(c, SetToSeq(S)) <= (IF c \in S THEN 1 ELSE 0)
<1> DEFINE s == SetToSeq(S)
           n == Cardinality(S)
<1>1. n \in Nat /\ ExistsBijection(1 .. n, S)
  BY FS_CardinalityType
<1>2. \E f \in [1 .. n -> S] : IsInjective(f)
  BY <1>1 DEF ExistsBijection, Bijection, Injection, IsInjective
<1>3. s \in [1 .. n -> S] /\ IsInjective(s)
  BY <1>2 DEF SetToSeq
<1> HIDE DEF s, n
<1>4. DOMAIN s = 1 .. n /\ (\A i \in 1 .. n : s[i] \in S) /\ \A i, j \in 1 .. n : s[i] = s[j] => i = j
  BY <1>3 DEF IsInjective
<1> DEFINE P == {i \in DOMAIN s : s[i] = c}
<1>5. CASE P = {}
  BY <1>5, FS_EmptySet DEF Times, s
<1>6. ASSUME NEW i \in P PROVE Cardinality(P) = 1 /\ c \in S
  <2>1. P = {i} /\ c \in S
    BY <1>4
  <2>2. QED BY <2>1, FS_Singleton
<1>7. CASE P # {}
  <2>1. Cardinality(P) = 1 /\ c \in S
    BY <1>6, <1>7
  <2>2. QED BY <2>1 DEF Times, s
<1>8. QED BY <1>5, <1>7

\* At the start every click is either to come or in the list, once.
LEMMA InitOnce == Init => OnceInv
<1> SUFFICES ASSUME Init, NEW c \in Clicks PROVE Rows(c) <= Allowed(c)
  BY DEF OnceInv
<1>1. IsFiniteSet(Clicks \ fresh)
  BY FS_Subset, ClickPipelineAssumption
<1>2. Times(c, buffer) <= (IF c \in Clicks \ fresh THEN 1 ELSE 0) /\ Times(c, buffer) \in Nat
  BY <1>1, StartOnce, InitIInv, TimesNat DEF Init, IInv, TypeOK
<1>3. Calls(c) = {}
  BY DEF Init, Calls
<1>4. Cardinality(Calls(c)) = 0
  BY <1>3, FS_EmptySet
<1>5. Hands(c, Held) = 0
  <2>1. \A w \in Flushers : Held[w] = <<>>
    BY DEF Init, Held, HeldOf, Hand
  <2>2. AtAny({c}, Held) = {}
    BY <2>1 DEF AtAny, At
  <2>3. QED BY <2>2, FS_EmptySet DEF Hands
<1>6. stored[c] = 0 /\ Allowed(c) = 1
  BY DEF Init, Allowed
<1>7. QED BY <1>2, <1>4, <1>5, <1>6 DEF Rows

\* A step of trackClick hands a click on, or lets go of it.
LEMMA OnceTrack ==
  ASSUME IInv, Sizes, OnceInv, IInv', NEW t \in Trackers, TrackStep(t)
  PROVE  OnceInv'
<1>1. UNCHANGED <<resent, wpc, left, batch, stored>>
  BY DEF TrackStep, TrackClick, Llen, Hincrby, Sadd, Rpush, listVars, workVars
<1> SUFFICES ASSUME NEW c \in Clicks PROVE Rows(c)' <= Allowed(c)'
  BY DEF OnceInv
<1>2. Held' = Held
  BY <1>1 DEF Held, HeldOf
<1> DEFINE first == IF c \in fresh THEN 1 ELSE 0
           firstAfter == IF c \in fresh' THEN 1 ELSE 0
           calls == Cardinality(Calls(c))
           callsAfter == Cardinality(Calls(c)')
           list == Times(c, buffer)
           listAfter == Times(c, buffer')
           hands == Hands(c, Held)
           rows == stored[c]
           most == Allowed(c)
<1>3. calls \in Nat /\ list \in Nat /\ hands \in Nat /\ rows \in Nat /\ first \in Nat /\ firstAfter \in Nat
  BY RowsTypes
<1>4. most \in Nat /\ Allowed(c)' = most
  BY <1>1 DEF Allowed
<1>5. first + calls + list + hands + rows <= most
  BY DEF OnceInv, Rows
<1>6. Rows(c)' = firstAfter + callsAfter + listAfter + hands + rows
  BY <1>1, <1>2 DEF Rows
<1>7. IsFiniteSet(Calls(c))
  BY CallsFinite
<1>8. callsAfter \in Nat /\ listAfter \in Nat /\ firstAfter + callsAfter + listAfter <= first + calls + list
  <2>1. CASE TrackClick(t)
    <3>1. PICK e \in fresh : fresh' = fresh \ {e} /\ click' = [click EXCEPT ![t] = e]
      BY <2>1 DEF TrackClick
    <3>2. buffer' = buffer
      BY <2>1 DEF TrackClick, listVars
    <3>3. t \notin Calls(c) /\ Calls(c)' \subseteq Calls(c) \cup {t}
      BY <2>1, <3>1 DEF TrackClick, TGoto, Calls, IInv, TypeOK
    <3>4. IsFiniteSet(Calls(c) \cup {t}) /\ Cardinality(Calls(c) \cup {t}) = calls + 1
      BY <1>7, <3>3, FS_AddElement
    <3>5. CASE e = c
      <4>1. Calls(c)' \in SUBSET (Calls(c) \cup {t})
        BY <3>3
      <4>2. callsAfter \in Nat /\ callsAfter <= calls + 1
        BY <3>4, <4>1, FS_Subset, FS_CardinalityType
      <4>3. first = 1 /\ firstAfter = 0
        BY <3>1, <3>5
      <4> HIDE DEF first, firstAfter, calls, callsAfter, list, listAfter
      <4>4. QED BY <1>3, <3>2, <4>2, <4>3 DEF list, listAfter
    <3>6. CASE e # c
      <4>1. Calls(c)' \in SUBSET Calls(c)
        BY <2>1, <3>1, <3>6 DEF TrackClick, TGoto, Calls, IInv, TypeOK
      <4>2. callsAfter \in Nat /\ callsAfter <= calls
        BY <1>7, <4>1, FS_Subset, FS_CardinalityType
      <4>3. first = firstAfter
        BY <3>1, <3>6
      <4> HIDE DEF first, firstAfter, calls, callsAfter, list, listAfter
      <4>4. QED BY <1>3, <3>2, <4>2, <4>3 DEF list, listAfter
    <3>7. QED BY <3>5, <3>6
  <2>2. CASE Llen(t) \/ Hincrby(t) \/ Sadd(t)
    <3>1. UNCHANGED <<fresh, click, buffer>>
      BY <2>2 DEF Llen, Hincrby, Sadd, listVars
    <3>2. Calls(c)' \in SUBSET Calls(c)
      BY <2>2, <3>1 DEF Llen, Hincrby, Sadd, TAwait, TGoto, Calls, IInv, TypeOK
    <3>3. callsAfter \in Nat /\ callsAfter <= calls
      BY <1>7, <3>2, FS_Subset, FS_CardinalityType
    <3>4. first = firstAfter /\ list = listAfter
      BY <3>1
    <3> HIDE DEF first, firstAfter, calls, callsAfter, list, listAfter
    <3>5. QED BY <1>3, <3>3, <3>4
  <2>3. CASE Rpush(t)
    <3>1. /\ tpc[t] = "rpush" /\ tpc' = [tpc EXCEPT ![t] = "idle"] /\ UNCHANGED <<fresh, click>>
          /\ buffer' = Append(buffer, click[t]) \/ buffer' = buffer
      BY <2>3 DEF Rpush, TGoto
    <3>2. Calls(c)' = Calls(c) \ {t} /\ (t \in Calls(c) <=> click[t] = c)
      BY <3>1 DEF Calls, IInv, TypeOK
    <3>3. callsAfter = IF click[t] = c THEN calls - 1 ELSE calls
      BY <1>7, <3>2, FS_RemoveElement
    <3>4. callsAfter \in Nat
      BY <1>7, <3>2, FS_RemoveElement, FS_CardinalityType
    <3>5. buffer \in Seq(Clicks) /\ click[t] \in Clicks
      BY DEF IInv, TypeOK
    <3>6. Times(c, Append(buffer, click[t])) = list + (IF click[t] = c THEN 1 ELSE 0)
      BY <3>5, TimesAppend
    <3>7. listAfter \in {list, list + (IF click[t] = c THEN 1 ELSE 0)}
      BY <3>1, <3>6
    <3>8. first = firstAfter
      BY <3>1
    <3> HIDE DEF first, firstAfter, calls, callsAfter, list, listAfter
    <3>9. CASE click[t] = c
      BY <1>3, <3>3, <3>4, <3>7, <3>8, <3>9
    <3>10. CASE click[t] # c
      BY <1>3, <3>3, <3>4, <3>7, <3>8, <3>10
    <3>11. QED BY <3>9, <3>10
  <2>4. QED BY <2>1, <2>2, <2>3 DEF TrackStep
<1>9. firstAfter + callsAfter + listAfter + hands + rows <= most
  <2> HIDE DEF first, firstAfter, calls, callsAfter, list, listAfter, hands, rows, most
  <2>1. QED BY <1>3, <1>4, <1>5, <1>8
<1>10. QED BY <1>4, <1>6, <1>9

\* What is sent again is allowed for by being sent again.
LEMMA OnceResend ==
  ASSUME IInv, Sizes, OnceInv, IInv', NEW e \in Clicks, Resend(e)
  PROVE  OnceInv'
<1>1. /\ UNCHANGED <<fresh, tpc, click, wpc, batch, stored>>
      /\ buffer' = Append(buffer, e) /\ e \notin resent /\ resent' = resent \cup {e}
  BY DEF Resend, trackVars, workVars
<1> SUFFICES ASSUME NEW c \in Clicks PROVE Rows(c)' <= Allowed(c)'
  BY DEF OnceInv
<1>2. Held' = Held /\ Calls(c)' = Calls(c)
  BY <1>1 DEF Held, HeldOf, Calls
<1> DEFINE waiting == (IF c \in fresh THEN 1 ELSE 0) + Cardinality(Calls(c))
           list == Times(c, buffer)
           listAfter == Times(c, buffer')
           hands == Hands(c, Held)
           rows == stored[c]
<1>3. waiting \in Nat /\ list \in Nat /\ hands \in Nat /\ rows \in Nat
  BY RowsTypes
<1>4. waiting + list + hands + rows <= Allowed(c)
  BY DEF OnceInv, Rows
<1>5. Rows(c)' = waiting + listAfter + hands + rows
  BY <1>1, <1>2 DEF Rows
<1>6. listAfter = list + (IF e = c THEN 1 ELSE 0)
  <2>1. buffer \in Seq(Clicks)
    BY DEF IInv, TypeOK
  <2>2. QED BY <1>1, <2>1, TimesAppend
<1> HIDE DEF waiting, list, listAfter, hands, rows
<1>7. CASE e = c
  <2>1. Allowed(c) = 1 /\ Allowed(c)' = 2
    BY <1>1, <1>7 DEF Allowed
  <2>2. QED BY <1>3, <1>4, <1>5, <1>6, <1>7, <2>1
<1>8. CASE e # c
  <2>1. Allowed(c)' = Allowed(c) /\ Allowed(c) \in Nat
    BY <1>1, <1>8 DEF Allowed
  <2>2. QED BY <1>3, <1>4, <1>5, <1>6, <1>8, <2>1
<1>9. QED BY <1>7, <1>8

\* A worker goes on with less in its hand, or the same.
LEMMA OnceLess ==
  ASSUME IInv, Sizes, OnceInv, IInv', NEW w \in Flushers, UNCHANGED <<trackVars, resent, stored>>,
         buffer' = buffer \/ (buffer # <<>> /\ buffer' = Tail(buffer)),
         NEW l, NEW b, wpc' = [wpc EXCEPT ![w] = l], batch' = [batch EXCEPT ![w] = b],
         b = <<>> \/ l = "discard" \/ (b = batch[w] /\ wpc[w] # "discard")
  PROVE  OnceInv'
<1>1. batch[w] \in Seq(Clicks) /\ buffer \in Seq(Clicks) /\ stored \in [Clicks -> Nat] /\ b \in Seq(Clicks)
  <2>1. batch \in [Flushers -> Seq(Clicks)] /\ batch' \in [Flushers -> Seq(Clicks)]
    BY DEF IInv, TypeOK
  <2>2. batch'[w] = b
    BY <2>1
  <2>3. QED BY <2>1, <2>2 DEF IInv, TypeOK
<1>2. ASSUME NEW c \in Clicks
      PROVE  /\ Times(c, buffer') + Times(c, Hand(l, b)) + stored'[c] + Allowed(c)
                  <= Times(c, buffer) + Times(c, Hand(wpc[w], batch[w])) + stored[c] + Allowed(c)'
  <2> DEFINE list == Times(c, buffer)
             listAfter == Times(c, buffer')
             hand == Times(c, Hand(wpc[w], batch[w]))
             handAfter == Times(c, Hand(l, b))
             most == Allowed(c)
             rows == stored[c]
  <2>1. list \in Nat /\ hand \in Nat /\ rows \in Nat /\ most \in Nat
    BY <1>1, TimesNat, TimesEmpty DEF Hand, Allowed
  <2>2. listAfter \in Nat /\ listAfter <= list
    <3>1. CASE buffer' = buffer
      BY <2>1, <3>1
    <3>2. CASE buffer # <<>> /\ buffer' = Tail(buffer)
      <4>1. Tail(buffer) \in Seq(Clicks)
        BY <1>1, <3>2
      <4>2. list = Times(c, Tail(buffer)) + (IF Head(buffer) = c THEN 1 ELSE 0)
        BY <1>1, <3>2, TimesTail
      <4>3. Times(c, Tail(buffer)) \in Nat
        BY <4>1, TimesNat
      <4>4. listAfter = Times(c, Tail(buffer))
        BY <3>2
      <4>5. Times(c, Tail(buffer)) <= list
        BY <2>1, <4>2, <4>3
      <4>6. QED BY <4>3, <4>4, <4>5
    <3>3. QED BY <3>1, <3>2
  <2>3. handAfter \in Nat /\ handAfter <= hand
    BY <1>1, <2>1, TimesEmpty DEF Hand
  <2>4. stored'[c] = rows /\ Allowed(c)' = most
    BY DEF Allowed
  <2> HIDE DEF list, listAfter, hand, handAfter, most, rows
  <2>5. listAfter + handAfter + rows + most <= list + hand + rows + most
    BY <2>1, <2>2, <2>3
  <2>6. QED BY <2>4, <2>5 DEF list, listAfter, hand, handAfter, most, rows
<1>3. Balanced(w, l, b)
  BY <1>2 DEF Balanced
<1>4. UNCHANGED trackVars
  OBVIOUS
<1>5. QED BY <1>1, <1>3, <1>4, OnceWorker

\* One event goes from the list into its hand.
LEMMA OncePop ==
  ASSUME IInv, Sizes, OnceInv, IInv', NEW w \in Flushers, UNCHANGED <<trackVars, resent, stored, wpc>>,
         buffer # <<>>, buffer' = Tail(buffer), wpc[w] # "discard",
         batch' = [batch EXCEPT ![w] = Append(batch[w], Head(buffer))]
  PROVE  OnceInv'
<1> DEFINE l == wpc[w]
           b == Append(batch[w], Head(buffer))
<1>1. batch[w] \in Seq(Clicks) /\ buffer \in Seq(Clicks) /\ stored \in [Clicks -> Nat]
      /\ wpc \in [Flushers -> Running \cup {"idle", "down"}]
  BY DEF IInv, TypeOK
<1>2. Head(buffer) \in Clicks /\ b \in Seq(Clicks) /\ wpc' = [wpc EXCEPT ![w] = l]
  BY <1>1
<1>3. ASSUME NEW c \in Clicks
      PROVE  /\ Times(c, buffer') + Times(c, Hand(l, b)) + stored'[c] + Allowed(c)
                  <= Times(c, buffer) + Times(c, Hand(wpc[w], batch[w])) + stored[c] + Allowed(c)'
  <2> DEFINE listAfter == Times(c, Tail(buffer))
             hand == Times(c, batch[w])
             one == IF Head(buffer) = c THEN 1 ELSE 0
             most == Allowed(c)
             rows == stored[c]
  <2>1. listAfter \in Nat /\ hand \in Nat /\ rows \in Nat /\ most \in Nat /\ one \in Nat
    <3>1. Tail(buffer) \in Seq(Clicks)
      BY <1>1
    <3>2. QED BY <1>1, <3>1, TimesNat DEF Allowed
  <2>2. Times(c, buffer) = listAfter + one
    BY <1>1, TimesTail
  <2>3. Times(c, Append(batch[w], Head(buffer))) = hand + one
    BY <1>1, <1>2, TimesAppend
  <2>4. Hand(l, b) = Append(batch[w], Head(buffer)) /\ Hand(wpc[w], batch[w]) = batch[w]
    BY DEF Hand
  <2>5. stored'[c] = rows /\ Allowed(c)' = most
    BY DEF Allowed
  <2> HIDE DEF listAfter, hand, one, most, rows, l, b
  <2>6. listAfter + (hand + one) + rows + most <= (listAfter + one) + hand + rows + most
    BY <2>1
  <2>7. QED BY <2>2, <2>3, <2>4, <2>5, <2>6 DEF listAfter, hand, most, rows
<1>4. Balanced(w, l, b)
  BY <1>3 DEF Balanced
<1> HIDE DEF l
<1>5. UNCHANGED trackVars
  OBVIOUS
<1>6. QED BY <1>2, <1>4, <1>5, OnceWorker

\* One event goes from its hand into the list, and what it goes on with is the rest,
\* or nothing.
LEMMA OncePush ==
  ASSUME IInv, Sizes, OnceInv, IInv', NEW w \in Flushers, UNCHANGED <<trackVars, resent, stored>>,
         batch[w] # <<>>, buffer' = Append(buffer, Head(batch[w])), wpc[w] # "discard",
         NEW l, NEW b \in {<<>>, Tail(batch[w])},
         wpc' = [wpc EXCEPT ![w] = l], batch' = [batch EXCEPT ![w] = b]
  PROVE  OnceInv'
<1>1. batch[w] \in Seq(Clicks) /\ buffer \in Seq(Clicks) /\ stored \in [Clicks -> Nat]
  BY DEF IInv, TypeOK
<1>2. Head(batch[w]) \in Clicks /\ Tail(batch[w]) \in Seq(Clicks) /\ b \in Seq(Clicks)
  <2>1. Head(batch[w]) \in Clicks /\ Tail(batch[w]) \in Seq(Clicks)
    BY <1>1, Ends
  <2>2. <<>> \in Seq(Clicks)
    OBVIOUS
  <2>3. QED BY <2>1, <2>2
<1>3. ASSUME NEW c \in Clicks
      PROVE  /\ Times(c, buffer') + Times(c, Hand(l, b)) + stored'[c] + Allowed(c)
                  <= Times(c, buffer) + Times(c, Hand(wpc[w], batch[w])) + stored[c] + Allowed(c)'
  <2> DEFINE list == Times(c, buffer)
             rest == Times(c, Tail(batch[w]))
             handAfter == Times(c, Hand(l, b))
             one == IF Head(batch[w]) = c THEN 1 ELSE 0
             most == Allowed(c)
             rows == stored[c]
  <2>1. list \in Nat /\ rest \in Nat /\ rows \in Nat /\ most \in Nat /\ one \in Nat
    BY <1>1, <1>2, TimesNat DEF Allowed
  <2>2. Times(c, batch[w]) = rest + one
    BY <1>1, TimesTail
  <2>3. Times(c, buffer') = list + one
    BY <1>1, <1>2, TimesAppend
  <2>4. Hand(wpc[w], batch[w]) = batch[w]
    BY DEF Hand
  <2>5. handAfter \in Nat /\ handAfter <= rest
    <3>1. Hand(l, b) = <<>> \/ Hand(l, b) = Tail(batch[w])
      BY DEF Hand
    <3>2. Times(c, <<>>) = 0
      BY TimesEmpty
    <3>3. CASE Hand(l, b) = <<>>
      BY <2>1, <3>2, <3>3
    <3>4. CASE Hand(l, b) = Tail(batch[w])
      BY <2>1, <3>4
    <3>5. QED BY <3>1, <3>3, <3>4
  <2>6. stored'[c] = rows /\ Allowed(c)' = most
    BY DEF Allowed
  <2> HIDE DEF list, rest, handAfter, one, most, rows
  <2>7. (list + one) + handAfter + rows + most <= list + (rest + one) + rows + most
    BY <2>1, <2>5
  <2>8. QED BY <2>2, <2>3, <2>4, <2>6, <2>7 DEF list, handAfter, most, rows
<1>4. Balanced(w, l, b)
  BY <1>3 DEF Balanced
<1>5. UNCHANGED trackVars
  OBVIOUS
<1>6. QED BY <1>2, <1>4, <1>5, OnceWorker

\* A batch is stored, and forgotten or not looked at again.
LEMMA OnceStore ==
  ASSUME IInv, Sizes, OnceInv, IInv', NEW w \in Flushers, UNCHANGED <<trackVars, resent, buffer>>,
         wpc[w] # "discard", NEW S, Store(w, S), NEW l, NEW b \in Seq(Clicks), b = <<>> \/ l = "discard",
         wpc' = [wpc EXCEPT ![w] = l], batch' = [batch EXCEPT ![w] = b]
  PROVE  OnceInv'
<1>1. batch[w] \in Seq(Clicks) /\ buffer \in Seq(Clicks) /\ stored \in [Clicks -> Nat]
  BY DEF IInv, TypeOK
<1>2. ASSUME NEW c \in Clicks
      PROVE  /\ Times(c, buffer') + Times(c, Hand(l, b)) + stored'[c] + Allowed(c)
                  <= Times(c, buffer) + Times(c, Hand(wpc[w], batch[w])) + stored[c] + Allowed(c)'
  <2> DEFINE list == Times(c, buffer)
             hand == Times(c, batch[w])
             new == IF c \in S THEN hand ELSE 0
             most == Allowed(c)
             rows == stored[c]
  <2>1. list \in Nat /\ hand \in Nat /\ rows \in Nat /\ most \in Nat
    BY <1>1, TimesNat DEF Allowed
  <2>2. stored'[c] = rows + new
    BY DEF Store
  <2>3. Hand(wpc[w], batch[w]) = batch[w] /\ Hand(l, b) = <<>>
    BY DEF Hand
  <2>4. Times(c, <<>>) = 0
    BY TimesEmpty
  <2>5. Times(c, buffer') = list /\ Allowed(c)' = most
    BY DEF Allowed
  <2>6. new \in Nat /\ new <= hand
    BY <2>1
  <2> HIDE DEF list, hand, new, most, rows
  <2>7. list + 0 + (rows + new) + most <= list + hand + rows + most
    BY <2>1, <2>6
  <2>8. QED BY <2>2, <2>3, <2>4, <2>5, <2>7 DEF list, hand, most, rows
<1>3. Balanced(w, l, b)
  BY <1>2 DEF Balanced
<1>4. UNCHANGED trackVars
  OBVIOUS
<1>5. QED BY <1>3, <1>4, OnceWorker

\* What is in its hand is counted.
LEMMA HandsCounted ==
  ASSUME NEW c, NEW h \in [Flushers -> Seq(Clicks)], \A v \in Flushers : Len(h[v]) <= BatchSize,
         NEW w \in Flushers
  PROVE  Times(c, h[w]) <= Hands(c, h)
<1> DEFINE g == [h EXCEPT ![w] = <<>>]
<1>1. <<>> \in Seq(Clicks) /\ g = [h EXCEPT ![w] = <<>>] /\ h[w] \in Seq(Clicks)
  OBVIOUS
<1> HIDE DEF g
<1>2. Hands(c, g) \in Nat
  BY <1>1, HandsUpdate
<1>3. Hands(c, g) + Times(c, h[w]) = Hands(c, h) + Times(c, <<>>)
  BY <1>1, HandsUpdate
<1>4. Times(c, h[w]) \in Nat /\ Times(c, <<>>) = 0 /\ Hands(c, h) \in Nat
  BY <1>1, TimesNat, TimesEmpty, HandsTypes
<1>5. QED BY <1>2, <1>3, <1>4

\* A batch is stored and re-queued: by the count, each of its clicks was in it once.
LEMMA OnceAckLost ==
  ASSUME IInv, Sizes, OnceInv, IInv', NEW w \in Flushers, UNCHANGED <<trackVars, buffer, batch>>,
         wpc[w] # "discard", NEW S, Store(w, S), resent \cap Range(batch[w]) = {},
         resent' = resent \cup Range(batch[w]), NEW l, l # "discard", WGoto(w, l)
  PROVE  OnceInv'
<1>1. /\ batch \in [Flushers -> Seq(Clicks)]
      /\ batch[w] \in Seq(Clicks) /\ buffer \in Seq(Clicks) /\ stored \in [Clicks -> Nat]
  BY DEF IInv, TypeOK
<1>2. ASSUME NEW c \in Clicks
      PROVE  /\ Times(c, buffer') + Times(c, Hand(l, batch[w])) + stored'[c] + Allowed(c)
                  <= Times(c, buffer) + Times(c, Hand(wpc[w], batch[w])) + stored[c] + Allowed(c)'
  <2> DEFINE list == Times(c, buffer)
             hand == Times(c, batch[w])
             new == IF c \in S THEN hand ELSE 0
             rows == stored[c]
  <2>1. /\ list \in Nat /\ hand \in Nat /\ rows \in Nat
        /\ new \in Nat /\ new <= hand
    BY <1>1, TimesNat
  <2>2. stored'[c] = rows + new
    BY DEF Store
  <2>3. Hand(wpc[w], batch[w]) = batch[w] /\ Hand(l, batch[w]) = batch[w]
    BY DEF Hand
  <2>4. Times(c, buffer') = list
    OBVIOUS
  <2>5. CASE c \in Range(batch[w])
    <3>1. Allowed(c) = 1 /\ Allowed(c)' = 2
      BY <2>5 DEF Allowed
    <3>2. hand <= 1
      <4> DEFINE waiting == (IF c \in fresh THEN 1 ELSE 0) + Cardinality(Calls(c))
                 hands == Hands(c, Held)
      <4>1. waiting \in Nat /\ hands \in Nat
        BY RowsTypes
      <4>2. waiting + list + hands + rows <= 1
        BY <3>1 DEF OnceInv, Rows
      <4>3. hand <= hands
        <5>1. Held[w] = batch[w]
          BY DEF Held, HeldOf, Hand
        <5>2. Held \in [Flushers -> Seq(Clicks)] /\ \A v \in Flushers : Len(Held[v]) <= BatchSize
          BY RowsTypes
        <5>3. Times(c, Held[w]) <= Hands(c, Held)
          BY <5>2, HandsCounted
        <5>4. QED BY <5>1, <5>3
      <4> HIDE DEF waiting, list, hands, hand, new, rows
      <4>4. QED BY <2>1, <4>1, <4>2, <4>3
    <3> HIDE DEF list, hand, new, rows
    <3>3. list + hand + (rows + new) + 1 <= list + hand + rows + 2
      BY <2>1, <3>2
    <3>4. QED BY <2>2, <2>3, <2>4, <3>1, <3>3 DEF list, hand, new, rows
  <2>6. CASE c \notin Range(batch[w])
    <3>1. Allowed(c)' = Allowed(c) /\ Allowed(c) \in Nat
      BY <2>6 DEF Allowed
    <3>2. hand = 0
      <4>1. {i \in DOMAIN batch[w] : batch[w][i] = c} = {}
        BY <2>6 DEF Range
      <4>2. QED BY <4>1, FS_EmptySet DEF Times
    <3> HIDE DEF list, hand, new, rows
    <3>3. list + hand + (rows + new) + Allowed(c) <= list + hand + rows + Allowed(c)
      BY <2>1, <3>1, <3>2
    <3>4. QED BY <2>2, <2>3, <2>4, <3>1, <3>3 DEF list, hand, new, rows
  <2>7. QED BY <2>5, <2>6
<1>3. Balanced(w, l, batch[w])
  BY <1>2 DEF Balanced
<1>4. batch' = [batch EXCEPT ![w] = batch[w]] /\ wpc' = [wpc EXCEPT ![w] = l] /\ UNCHANGED trackVars
  BY <1>1 DEF WGoto
<1>5. QED BY <1>1, <1>3, <1>4, OnceWorker

\* Every step of a flush is balanced.
LEMMA OnceFlush ==
  ASSUME IInv, Sizes, OnceInv, IInv', NEW w \in Flushers, FlushStep(w)
  PROVE  OnceInv'
<1>1. /\ wpc \in [Flushers -> Running \cup {"idle", "down"}] /\ wpc' \in [Flushers -> Running \cup {"idle", "down"}]
      /\ batch \in [Flushers -> Seq(Clicks)] /\ batch' \in [Flushers -> Seq(Clicks)]
  BY DEF IInv, TypeOK
<1>2. wpc = [wpc EXCEPT ![w] = wpc[w]] /\ batch = [batch EXCEPT ![w] = batch[w]] /\ batch[w] \in Seq(Clicks)
      /\ <<>> \in Seq(Clicks)
  BY <1>1
<1>3. ASSUME UNCHANGED <<trackVars, resent, stored>>, EndFlush(w),
             buffer' = buffer \/ (buffer # <<>> /\ buffer' = Tail(buffer))
      PROVE  OnceInv'
  <2> DEFINE l == IF w \in stopping THEN "down" ELSE "idle"
  <2>1. wpc' = [wpc EXCEPT ![w] = l] /\ batch' = [batch EXCEPT ![w] = <<>>]
    BY <1>3 DEF EndFlush, WGoto
  <2> HIDE DEF l
  <2>2. QED BY <1>3, <2>1, OnceLess
<1>4. ASSUME UNCHANGED <<trackVars, resent, stored, buffer>>, UNCHANGED batch, NEW l, WGoto(w, l),
             wpc[w] # "discard"
      PROVE  OnceInv'
  BY <1>2, <1>4, OnceLess DEF WGoto
<1>5. ASSUME UNCHANGED <<trackVars, resent, buffer>>, NEW S, Store(w, S), wpc[w] # "discard",
             EndFlush(w) \/ (WGoto(w, "discard") /\ UNCHANGED batch)
      PROVE  OnceInv'
  <2> DEFINE l == IF w \in stopping THEN "down" ELSE "idle"
  <2>1. CASE EndFlush(w)
    <3>1. wpc' = [wpc EXCEPT ![w] = l] /\ batch' = [batch EXCEPT ![w] = <<>>]
      BY <2>1 DEF EndFlush, WGoto
    <3> HIDE DEF l
    <3>2. QED BY <1>2, <1>5, <3>1, OnceStore
  <2>2. CASE WGoto(w, "discard") /\ UNCHANGED batch
    BY <1>2, <1>5, <2>2, OnceStore DEF WGoto
  <2>3. QED BY <1>5, <2>1, <2>2
<1>6. CASE Lpop(w)
  <2>1. wpc[w] = "pop" /\ UNCHANGED <<trackVars, resent, stored, wpc>>
    BY <1>6 DEF Lpop
  <2>2. CASE UNCHANGED batch /\ (buffer' = buffer \/ (buffer # <<>> /\ buffer' = Tail(buffer)))
    BY <1>2, <2>1, <2>2, OnceLess
  <2>3. CASE /\ buffer # <<>> /\ buffer' = Tail(buffer)
             /\ batch' = [batch EXCEPT ![w] = Append(batch[w], Head(buffer))]
    BY <2>1, <2>3, OncePop
  <2>4. QED BY <1>6, <2>2, <2>3 DEF Lpop
<1>7. CASE Popped(w) \/ Connect(w) \/ Rollback(w) \/ Discard(w)
  <2>1. UNCHANGED <<trackVars, resent, stored, buffer>>
    BY <1>7 DEF Popped, Connect, Rollback, Discard, listVars
  <2>2. EndFlush(w) \/ (wpc[w] # "discard" /\ UNCHANGED batch /\ \E l : WGoto(w, l))
    BY <1>7 DEF Popped, Connect, Rollback, Discard
  <2>3. QED BY <1>3, <1>4, <2>1, <2>2
<1>8. CASE Insert(w)
  <2>1. UNCHANGED <<trackVars, resent, stored, buffer>>
    BY <1>8 DEF Insert, QueryFails, listVars
  <2>2. wpc[w] # "discard" /\ UNCHANGED batch /\ \E l : WGoto(w, l)
    BY <1>8 DEF Insert, QueryFails
  <2>3. QED BY <1>4, <2>1, <2>2
<1>9. CASE Commit(w)
  <2>1. UNCHANGED <<trackVars, buffer>> /\ wpc[w] # "discard"
    BY <1>9 DEF Commit
  <2>2. CASE QueryFails(w, "commit") /\ UNCHANGED resent
    <3>1. UNCHANGED <<batch, stored>> /\ \E l : WGoto(w, l)
      BY <2>2 DEF QueryFails
    <3>2. QED BY <1>4, <2>1, <2>2, <3>1
  <2>3. CASE /\ Store(w, Valid(w)) /\ UNCHANGED resent
             /\ EndFlush(w) \/ (WGoto(w, "discard") /\ UNCHANGED batch)
    BY <1>5, <2>1, <2>3
  <2>4. CASE /\ Store(w, Valid(w)) /\ resent \cap Range(batch[w]) = {}
             /\ resent' = resent \cup Range(batch[w]) /\ WGoto(w, "rollback") /\ UNCHANGED batch
    BY <2>1, <2>4, OnceAckLost
  <2>5. QED BY <1>9, <2>2, <2>3, <2>4 DEF Commit
<1>10. CASE Requeue(w)
  <2>1. UNCHANGED <<trackVars, resent, stored>> /\ wpc[w] = "requeue"
    BY <1>10 DEF Requeue
  <2>2. CASE /\ batch[w] # <<>> /\ buffer' = Append(buffer, Head(batch[w]))
             /\ batch' = [batch EXCEPT ![w] = Tail(batch[w])] /\ UNCHANGED wpc
    BY <1>2, <2>1, <2>2, OncePush
  <2>3. CASE EndFlush(w) /\ UNCHANGED buffer
    BY <1>3, <2>1, <2>3
  <2>4. CASE EndFlush(w) /\ batch[w] # <<>> /\ buffer' = Append(buffer, Head(batch[w]))
    <3> DEFINE l == IF w \in stopping THEN "down" ELSE "idle"
    <3>1. wpc' = [wpc EXCEPT ![w] = l] /\ batch' = [batch EXCEPT ![w] = <<>>]
      BY <2>4 DEF EndFlush, WGoto
    <3> HIDE DEF l
    <3>2. QED BY <2>1, <2>4, <3>1, OncePush
  <2>5. QED BY <1>10, <2>2, <2>3, <2>4 DEF Requeue
<1>11. CASE Take(w)
  <2>1. UNCHANGED <<trackVars, resent, stored>> /\ wpc[w] = "take"
    BY <1>11 DEF Take
  <2>2. CASE /\ buffer # <<>> /\ buffer' = Tail(buffer) /\ UNCHANGED wpc
             /\ batch' = [batch EXCEPT ![w] = Append(batch[w], Head(buffer))]
    BY <2>1, <2>2, OncePop
  <2>3. CASE buffer # <<>> /\ buffer' = Tail(buffer) /\ UNCHANGED <<wpc, batch>>
    BY <1>2, <2>1, <2>3, OnceLess
  <2>4. CASE EndFlush(w) /\ (buffer' = buffer \/ (buffer # <<>> /\ buffer' = Tail(buffer)))
    BY <1>3, <2>1, <2>4
  <2>5. CASE WGoto(w, "connect") /\ UNCHANGED <<batch, buffer>>
    BY <1>4, <2>1, <2>5
  <2>6. QED BY <1>11, <2>2, <2>3, <2>4, <2>5 DEF Take
<1>12. CASE Bulk(w)
  <2>1. UNCHANGED <<trackVars, buffer>> /\ wpc[w] = "bulk"
    BY <1>12 DEF Bulk
  <2>2. CASE Store(w, Clicks) /\ EndFlush(w) /\ UNCHANGED resent
    BY <1>5, <2>1, <2>2
  <2>3. CASE WGoto(w, "requeue") /\ UNCHANGED <<resent, batch, stored>>
    BY <1>4, <2>1, <2>3
  <2>4. CASE /\ Store(w, Clicks) /\ resent \cap Range(batch[w]) = {}
             /\ resent' = resent \cup Range(batch[w]) /\ WGoto(w, "requeue") /\ UNCHANGED batch
    BY <2>1, <2>4, OnceAckLost
  <2>5. QED BY <1>12, <2>2, <2>3, <2>4 DEF Bulk
<1>13. QED
  BY <1>6, <1>7, <1>8, <1>9, <1>10, <1>11, <1>12 DEF FlushStep

\* Its beginnings, and the ends of its process, let go of the batch at most.
LEMMA OnceProcess ==
  ASSUME IInv, Sizes, OnceInv, IInv', NEW w \in Flushers,
         Tick(w) \/ PipelineResent(w) \/ Stop(w) \/ Drain(w) \/ Crash(w) \/ Restart(w)
  PROVE  OnceInv'
<1>1. batch \in [Flushers -> Seq(Clicks)]
  BY DEF IInv, TypeOK
<1>2. UNCHANGED <<trackVars, resent, stored, buffer>>
  BY DEF Tick, PipelineResent, Stop, Drain, Crash, Restart, Die, listVars
<1>3. /\ \E l : wpc' = [wpc EXCEPT ![w] = l]
      /\ batch' = [batch EXCEPT ![w] = <<>>] \/ (UNCHANGED batch /\ wpc[w] \in {"idle", "down"})
  BY DEF Tick, PipelineResent, Stop, Drain, Crash, Restart, Die, StartFlush, WGoto
<1>4. wpc[w] \in {"idle", "down"} => batch = [batch EXCEPT ![w] = <<>>]
  BY <1>1 DEF Sizes
<1>5. batch' = [batch EXCEPT ![w] = <<>>]
  BY <1>3, <1>4
<1>6. QED BY <1>2, <1>3, <1>5, OnceLess

\* Every step keeps the count.
LEMMA OnceStep == IInv /\ Sizes /\ OnceInv /\ [Next]_vars => OnceInv'
<1> SUFFICES ASSUME IInv, Sizes, OnceInv, [Next]_vars PROVE OnceInv'
  OBVIOUS
<1>1. IInv'
  BY StepIInv
<1>2. ASSUME NEW t \in Trackers, TrackStep(t) PROVE OnceInv'
  BY <1>1, <1>2, OnceTrack
<1>3. ASSUME NEW t \in Trackers, RpushResent(t) PROVE OnceInv'
  <2>1. click[t] \in Clicks /\ Resend(click[t])
    BY <1>3 DEF RpushResent, IInv, TypeOK
  <2>2. QED BY <1>1, <2>1, OnceResend
<1>4. ASSUME NEW w \in Flushers, RequeueResent(w) PROVE OnceInv'
  <2>1. batch[w] \in Seq(Clicks) /\ batch[w] # <<>> /\ Resend(Head(batch[w]))
    BY <1>4 DEF RequeueResent, IInv, TypeOK
  <2>2. Head(batch[w]) \in Clicks
    BY <2>1, Ends
  <2>3. QED BY <1>1, <2>1, <2>2, OnceResend
<1>5. ASSUME NEW w \in Flushers, FlushStep(w) PROVE OnceInv'
  BY <1>1, <1>5, OnceFlush
<1>6. ASSUME NEW w \in Flushers, Tick(w) \/ PipelineResent(w) \/ Stop(w) \/ Drain(w) \/ Crash(w) \/ Restart(w)
      PROVE  OnceInv'
  BY <1>1, <1>6, OnceProcess
<1>7. CASE UNCHANGED vars
  <2>1. Held' = Held
    BY <1>7 DEF vars, workVars, Held, HeldOf
  <2>2. QED BY <1>7, <2>1 DEF vars, trackVars, listVars, workVars, OnceInv, Rows, Allowed, Calls
<1>8. QED BY <1>2, <1>3, <1>4, <1>5, <1>6, <1>7 DEF Next, Flushers

------------------------------------------------------------------------------
(* The size of the list *)

\* The calls that have read the size of the list and are on their way to the RPUSH.
Pushers == {t \in Trackers : tpc[t] \in {"hincrby", "sadd", "rpush"}}

\* How many events the workers have in their hands.
InHands(h) == Cardinality(AtAny(Clicks, h))

Room == Cardinality(Flushers) * BatchSize

BoundInv ==
  Len(buffer) + Cardinality(Pushers) + InHands(batch)
    < MaxBuffer + Cardinality(Trackers) + Room + Cardinality(resent)

\* What BoundInv adds up are numbers, and what the workers have in their hands fits.
LEMMA BoundTypes ==
  ASSUME IInv, Sizes
  PROVE  /\ IsFiniteSet(Pushers) /\ Cardinality(Pushers) \in Nat
         /\ Cardinality(Pushers) <= Cardinality(Trackers) /\ Cardinality(Trackers) \in Nat
         /\ InHands(batch) \in Nat /\ InHands(batch) <= Room /\ Room \in Nat
         /\ Len(buffer) \in Nat /\ MaxBuffer \in Nat
         /\ IsFiniteSet(resent) /\ Cardinality(resent) \in Nat
<1>1. /\ IsFiniteSet(Pushers) /\ Cardinality(Pushers) \in Nat
      /\ Cardinality(Pushers) <= Cardinality(Trackers) /\ Cardinality(Trackers) \in Nat
  <2>1. Pushers \in SUBSET Trackers
    BY DEF Pushers
  <2>2. QED BY <2>1, FS_Subset, FS_CardinalityType, ClickPipelineAssumption
<1>2. InHands(batch) \in Nat /\ InHands(batch) <= Room
  <2>1. batch \in [Flushers -> Seq(Clicks)] /\ \A w \in Flushers : Len(batch[w]) <= BatchSize
    BY DEF IInv, TypeOK, Sizes
  <2>2. QED BY <2>1, AtAnyFinite DEF InHands, Room
<1>3. Room \in Nat
  <2>1. IsFiniteSet(Flushers)
    BY FS_Union, ClickPipelineAssumption DEF Flushers
  <2>2. Cardinality(Flushers) \in Nat /\ BatchSize \in Nat
    BY <2>1, FS_CardinalityType, ClickPipelineAssumption
  <2>3. QED BY <2>2 DEF Room
<1>4. IsFiniteSet(resent) /\ Cardinality(resent) \in Nat
  <2>1. resent \in SUBSET Clicks
    BY DEF IInv, TypeOK
  <2>2. QED BY <2>1, FS_Subset, FS_CardinalityType, ClickPipelineAssumption
<1>5. Len(buffer) \in Nat /\ MaxBuffer \in Nat
  BY ClickPipelineAssumption DEF IInv, TypeOK
<1>6. QED BY <1>1, <1>2, <1>3, <1>4, <1>5

\* What replacing one batch does to the number of events in hands.
LEMMA InHandsUpdate ==
  ASSUME NEW h \in [Flushers -> Seq(Clicks)], \A v \in Flushers : Len(h[v]) <= BatchSize,
         NEW w \in Flushers, NEW s \in Seq(Clicks), NEW g, g = [h EXCEPT ![w] = s]
  PROVE  /\ InHands(g) \in Nat
         /\ InHands(g) + Len(h[w]) = InHands(h) + Len(s)
<1>1. IsFiniteSet(AtAny(Clicks, h))
  BY AtAnyFinite
<1>2. InHands(g) \in Nat /\ InHands(g) + Cardinality(At(Clicks, h[w])) = InHands(h) + Cardinality(At(Clicks, s))
  BY <1>1, AtAnySplit DEF InHands
<1>3. Cardinality(At(Clicks, h[w])) = Len(h[w]) /\ Cardinality(At(Clicks, s)) = Len(s)
  <2>1. h[w] \in Seq(Clicks)
    OBVIOUS
  <2>2. QED BY <2>1, AtAll
<1>4. QED BY <1>2, <1>3

\* At the start the list holds what trackClick never writes, and somebody may call it.
LEMMA InitBound == Init => BoundInv
<1> SUFFICES ASSUME Init PROVE BoundInv
  OBVIOUS
<1>1. IInv /\ Sizes
  BY InitIInv, InitSizes
<1> DEFINE junk == {c \in Clicks : Kind[c] \in {"garbled", "malformed"}}
<1>2. Clicks \ fresh = junk
  BY ClickPipelineAssumption DEF Init, Kinds
<1>3. IsFiniteSet(junk) /\ Cardinality(junk) \in Nat /\ Cardinality(junk) <= MaxBuffer
  <2>1. junk \in SUBSET Clicks
    OBVIOUS
  <2>2. QED BY <2>1, FS_Subset, FS_CardinalityType, ClickPipelineAssumption
<1>4. Len(buffer) = Cardinality(junk)
  <2> DEFINE n == Cardinality(junk)
  <2>1. n \in Nat /\ ExistsBijection(1 .. n, junk)
    BY <1>3, FS_CardinalityType
  <2>2. \E f \in [1 .. n -> junk] : IsInjective(f)
    BY <2>1 DEF ExistsBijection, Bijection, Injection, IsInjective
  <2> HIDE DEF junk
  <2>3. SetToSeq(junk) \in [1 .. n -> junk]
    BY <2>2 DEF SetToSeq
  <2>4. buffer \in [1 .. n -> junk] /\ buffer \in Seq(Clicks)
    BY <1>1, <1>2, <2>3 DEF Init, IInv, TypeOK
  <2>5. QED BY <2>1, <2>4
<1> HIDE DEF junk
<1>5. Pushers = {} /\ AtAny(Clicks, batch) = {} /\ resent = {}
  BY DEF Init, Pushers, AtAny, At
<1>6. Cardinality(Pushers) = 0 /\ InHands(batch) = 0 /\ Cardinality(resent) = 0
  BY <1>5, FS_EmptySet DEF InHands
<1>7. Cardinality(Trackers) \in Nat /\ Cardinality(Trackers) # 0 /\ Room \in Nat /\ MaxBuffer \in Nat
  BY <1>1, BoundTypes, FS_EmptySet, ClickPipelineAssumption
<1>8. QED BY <1>3, <1>4, <1>6, <1>7 DEF BoundInv

\* A step of one worker keeps the bound if what it puts back it had in its hand.
LEMMA BoundWorker ==
  ASSUME IInv, Sizes, BoundInv, IInv', NEW w \in Flushers, UNCHANGED trackVars,
         NEW b \in Seq(Clicks), batch' = [batch EXCEPT ![w] = b], resent \subseteq resent',
         Len(buffer') + Len(b) <= Len(buffer) + Len(batch[w])
  PROVE  BoundInv'
<1> DEFINE calls == Cardinality(Pushers)
           list == Len(buffer)
           listAfter == Len(buffer')
           hands == InHands(batch)
           handsAfter == InHands(batch')
           hand == Len(batch[w])
           handAfter == Len(b)
           twice == Cardinality(resent)
           twiceAfter == Cardinality(resent')
           most == MaxBuffer + Cardinality(Trackers) + Room
<1>1. calls \in Nat /\ list \in Nat /\ hands \in Nat /\ twice \in Nat /\ most \in Nat
  BY BoundTypes
<1>2. listAfter \in Nat /\ hand \in Nat /\ handAfter \in Nat
  BY DEF IInv, TypeOK
<1>3. handsAfter \in Nat /\ handsAfter + hand = hands + handAfter
  <2>1. batch \in [Flushers -> Seq(Clicks)] /\ \A v \in Flushers : Len(batch[v]) <= BatchSize
    BY DEF IInv, TypeOK, Sizes
  <2>2. handsAfter \in Nat
    BY <2>1, InHandsUpdate
  <2>3. handsAfter + hand = hands + handAfter
    BY <2>1, InHandsUpdate
  <2>4. QED BY <2>2, <2>3
<1>4. twiceAfter \in Nat /\ twice <= twiceAfter
  <2>1. resent' \in SUBSET Clicks /\ resent \in SUBSET resent'
    BY DEF IInv, TypeOK
  <2>2. QED BY <2>1, FS_Subset, FS_CardinalityType, ClickPipelineAssumption
<1>5. Pushers' = Pushers
  BY DEF Pushers, trackVars
<1>6. list + calls + hands < most + twice /\ listAfter + handAfter <= list + hand
  BY DEF BoundInv
<1>7. listAfter + calls + handsAfter < most + twiceAfter
  <2> HIDE DEF calls, list, listAfter, hands, handsAfter, hand, handAfter, twice, twiceAfter, most
  <2>1. QED BY <1>1, <1>2, <1>3, <1>4, <1>6
<1>8. QED BY <1>5, <1>7 DEF BoundInv

\* A call that finds room takes the place it counts for; one that pushes leaves it.
LEMMA BoundTrack ==
  ASSUME IInv, Sizes, BoundInv, IInv', NEW t \in Trackers, TrackStep(t)
  PROVE  BoundInv'
<1>1. UNCHANGED <<resent, batch>>
  BY DEF TrackStep, TrackClick, Llen, Hincrby, Sadd, Rpush, listVars, workVars
<1> DEFINE calls == Cardinality(Pushers)
           callsAfter == Cardinality(Pushers')
           list == Len(buffer)
           listAfter == Len(buffer')
           hands == InHands(batch)
           twice == Cardinality(resent)
           trackers == Cardinality(Trackers)
<1>2. /\ calls \in Nat /\ list \in Nat /\ hands \in Nat /\ twice \in Nat
      /\ trackers \in Nat /\ Room \in Nat /\ MaxBuffer \in Nat /\ hands <= Room
  BY BoundTypes
<1>3. list + calls + hands < MaxBuffer + trackers + Room + twice
  BY DEF BoundInv
<1>4. IsFiniteSet(Pushers)
  BY BoundTypes
<1>5. callsAfter \in Nat /\ callsAfter <= trackers
  <2>1. Pushers' \in SUBSET Trackers
    BY DEF Pushers
  <2>2. QED BY <2>1, FS_Subset, FS_CardinalityType, ClickPipelineAssumption
<1>6. listAfter + callsAfter + hands < MaxBuffer + trackers + Room + twice
  <2>1. CASE Pushers' \subseteq Pushers /\ buffer' = buffer
    <3>1. Pushers' \in SUBSET Pushers
      BY <2>1
    <3>2. callsAfter <= calls /\ listAfter = list
      BY <1>4, <2>1, <3>1, FS_Subset
    <3> HIDE DEF calls, callsAfter, list, listAfter, hands, twice, trackers
    <3>3. QED BY <1>2, <1>3, <1>5, <3>2
  <2>2. CASE TrackClick(t) \/ Hincrby(t) \/ Sadd(t)
    <3>1. buffer' = buffer
      BY <2>2 DEF TrackClick, Hincrby, Sadd, listVars
    <3>2. Pushers' \subseteq Pushers
      BY <2>2 DEF TrackClick, Hincrby, Sadd, TAwait, TGoto, Pushers, IInv, TypeOK
    <3>3. QED BY <2>1, <3>1, <3>2
  <2>3. CASE Llen(t)
    <3>1. buffer' = buffer
      BY <2>3 DEF Llen, listVars
    <3>2. CASE Full(Len(buffer))
      <4>1. Pushers' \subseteq Pushers
        BY <2>3, <3>2 DEF Llen, TGoto, Pushers, IInv, TypeOK
      <4>2. QED BY <2>1, <3>1, <4>1
    <3>3. CASE ~Full(Len(buffer))
      <4>1. list < MaxBuffer /\ listAfter = list
        BY <1>2, <3>1, <3>3 DEF Full
      <4> HIDE DEF calls, callsAfter, list, listAfter, hands, twice, trackers
      <4>2. QED BY <1>2, <1>5, <4>1
    <3>4. QED BY <3>2, <3>3
  <2>4. CASE Rpush(t)
    <3>1. /\ tpc[t] = "rpush" /\ tpc' = [tpc EXCEPT ![t] = "idle"]
          /\ buffer' = Append(buffer, click[t]) \/ buffer' = buffer
      BY <2>4 DEF Rpush, TGoto
    <3>2. Pushers' = Pushers \ {t} /\ t \in Pushers
      BY <3>1 DEF Pushers, IInv, TypeOK
    <3>3. callsAfter = calls - 1
      BY <1>4, <3>2, FS_RemoveElement
    <3>4. listAfter = list \/ listAfter = list + 1
      BY <3>1 DEF IInv, TypeOK
    <3> HIDE DEF calls, callsAfter, list, listAfter, hands, twice, trackers
    <3>5. QED BY <1>2, <1>3, <1>5, <3>3, <3>4
  <2>5. QED BY <2>2, <2>3, <2>4 DEF TrackStep
<1>7. QED BY <1>1, <1>6 DEF BoundInv

\* What is sent again is one more, and is counted as one more.
LEMMA BoundResend ==
  ASSUME IInv, Sizes, BoundInv, NEW e \in Clicks, Resend(e)
  PROVE  BoundInv'
<1>1. /\ UNCHANGED <<tpc, batch>> /\ buffer' = Append(buffer, e)
      /\ e \notin resent /\ resent' = resent \cup {e}
  BY DEF Resend, trackVars, workVars
<1> DEFINE calls == Cardinality(Pushers)
           list == Len(buffer)
           hands == InHands(batch)
           twice == Cardinality(resent)
           most == MaxBuffer + Cardinality(Trackers) + Room
<1>2. calls \in Nat /\ list \in Nat /\ hands \in Nat /\ twice \in Nat /\ most \in Nat
  BY BoundTypes
<1>3. list + calls + hands < most + twice
  BY DEF BoundInv
<1>4. Cardinality(resent') = twice + 1
  BY <1>1, BoundTypes, FS_AddElement
<1>5. Len(buffer') = list + 1
  BY <1>1 DEF IInv, TypeOK
<1>6. Pushers' = Pushers
  BY <1>1 DEF Pushers
<1>7. (list + 1) + calls + hands < most + (twice + 1)
  <2> HIDE DEF calls, list, hands, twice, most
  <2>1. QED BY <1>2, <1>3
<1>8. QED BY <1>1, <1>4, <1>5, <1>6, <1>7 DEF BoundInv

\* No worker puts back more than it took.
LEMMA BoundFlush ==
  ASSUME IInv, Sizes, BoundInv, IInv', NEW w \in Flushers,
         \/ FlushStep(w) \/ Tick(w) \/ PipelineResent(w) \/ Stop(w) \/ Drain(w)
         \/ Crash(w) \/ Restart(w)
  PROVE  BoundInv'
<1>1. /\ batch \in [Flushers -> Seq(Clicks)] /\ batch' \in [Flushers -> Seq(Clicks)]
      /\ buffer \in Seq(Clicks) /\ batch[w] \in Seq(Clicks)
  BY DEF IInv, TypeOK
<1>2. batch = [batch EXCEPT ![w] = batch[w]] /\ <<>> \in Seq(Clicks) /\ Len(<<>>) = 0
      /\ Len(batch[w]) \in Nat /\ Len(buffer) \in Nat
  BY <1>1
<1>3. ASSUME UNCHANGED trackVars, resent \subseteq resent', batch' = [batch EXCEPT ![w] = <<>>],
             Len(buffer') <= Len(buffer) + Len(batch[w]), Len(buffer') \in Nat
      PROVE  BoundInv'
  <2>1. Len(buffer') + Len(<<>>) <= Len(buffer) + Len(batch[w])
    BY <1>2, <1>3
  <2>2. QED BY <1>2, <1>3, <2>1, BoundWorker
<1>4. ASSUME UNCHANGED trackVars, resent \subseteq resent', UNCHANGED batch,
             Len(buffer') <= Len(buffer), Len(buffer') \in Nat
      PROVE  BoundInv'
  BY <1>1, <1>2, <1>4, BoundWorker
<1>5. buffer # <<>> => Len(Tail(buffer)) \in Nat /\ Len(Tail(buffer)) + 1 = Len(buffer)
  BY <1>1
<1>6. \A e : Len(Append(buffer, e)) = Len(buffer) + 1
  BY <1>1
<1>7. ASSUME UNCHANGED <<trackVars, resent>>, buffer # <<>>, buffer' = Tail(buffer),
             batch' = [batch EXCEPT ![w] = Append(batch[w], Head(buffer))]
      PROVE  BoundInv'
  <2>1. Append(batch[w], Head(buffer)) \in Seq(Clicks)
        /\ Len(Append(batch[w], Head(buffer))) = Len(batch[w]) + 1
    BY <1>1, <1>7
  <2>2. Len(buffer') + Len(Append(batch[w], Head(buffer))) <= Len(buffer) + Len(batch[w])
    BY <1>2, <1>5, <1>7, <2>1
  <2>3. QED BY <1>7, <2>1, <2>2, BoundWorker
<1>8. ASSUME UNCHANGED <<trackVars, resent>>, batch[w] # <<>>, buffer' = Append(buffer, Head(batch[w])),
             batch' = [batch EXCEPT ![w] = Tail(batch[w])]
      PROVE  BoundInv'
  <2>1. Tail(batch[w]) \in Seq(Clicks) /\ Len(Tail(batch[w])) + 1 = Len(batch[w])
        /\ Len(Tail(batch[w])) \in Nat
    BY <1>1, <1>8
  <2>2. Len(buffer') + Len(Tail(batch[w])) <= Len(buffer) + Len(batch[w])
    <3>1. Len(buffer') = Len(buffer) + 1
      BY <1>6, <1>8
    <3> DEFINE rest == Len(Tail(batch[w]))
               hand == Len(batch[w])
               list == Len(buffer)
    <3>2. rest \in Nat /\ hand = rest + 1 /\ list \in Nat
      BY <1>2, <2>1
    <3> HIDE DEF rest, hand, list
    <3>3. (list + 1) + rest <= list + hand
      BY <3>2
    <3>4. QED BY <3>1, <3>3 DEF rest, hand, list
  <2>3. QED BY <1>8, <2>1, <2>2, BoundWorker
<1>9. ASSUME UNCHANGED trackVars, resent \subseteq resent',
             UNCHANGED batch \/ batch' = [batch EXCEPT ![w] = <<>>],
             buffer' = buffer \/ (buffer # <<>> /\ buffer' = Tail(buffer))
      PROVE  BoundInv'
  <2>1. Len(buffer') <= Len(buffer) /\ Len(buffer') \in Nat
    BY <1>2, <1>5, <1>9
  <2>2. Len(buffer') <= Len(buffer) + Len(batch[w])
    BY <1>2, <2>1
  <2>3. QED BY <1>3, <1>4, <1>9, <2>1, <2>2
<1>10. CASE Lpop(w)
  <2>1. UNCHANGED <<trackVars, resent>>
    BY <1>10 DEF Lpop
  <2>2. \/ UNCHANGED batch /\ (buffer' = buffer \/ (buffer # <<>> /\ buffer' = Tail(buffer)))
        \/ /\ buffer # <<>> /\ buffer' = Tail(buffer)
           /\ batch' = [batch EXCEPT ![w] = Append(batch[w], Head(buffer))]
    BY <1>10 DEF Lpop
  <2>3. QED BY <1>7, <1>9, <2>1, <2>2
<1>11. CASE Take(w)
  <2>1. UNCHANGED <<trackVars, resent>>
    BY <1>11 DEF Take
  <2>2. \/ /\ UNCHANGED batch \/ batch' = [batch EXCEPT ![w] = <<>>]
           /\ buffer' = buffer \/ (buffer # <<>> /\ buffer' = Tail(buffer))
        \/ /\ buffer # <<>> /\ buffer' = Tail(buffer)
           /\ batch' = [batch EXCEPT ![w] = Append(batch[w], Head(buffer))]
    BY <1>11 DEF Take, EndFlush
  <2>3. QED BY <1>7, <1>9, <2>1, <2>2
<1>12. CASE Requeue(w)
  <2>1. UNCHANGED <<trackVars, resent>>
    BY <1>12 DEF Requeue
  <2>2. CASE batch' = [batch EXCEPT ![w] = <<>>] /\ UNCHANGED buffer
    BY <1>9, <2>1, <2>2
  <2>3. CASE /\ batch[w] # <<>> /\ buffer' = Append(buffer, Head(batch[w]))
             /\ batch' = [batch EXCEPT ![w] = <<>>]
    <3>1. Len(batch[w]) # 0
      BY <1>1, <2>3
    <3>2. Len(buffer') <= Len(buffer) + Len(batch[w]) /\ Len(buffer') \in Nat
      BY <1>2, <1>6, <2>3, <3>1
    <3>3. QED BY <1>3, <2>1, <2>3, <3>2
  <2>4. CASE /\ batch[w] # <<>> /\ buffer' = Append(buffer, Head(batch[w]))
             /\ batch' = [batch EXCEPT ![w] = Tail(batch[w])]
    BY <1>8, <2>1, <2>4
  <2>5. QED BY <1>12, <2>2, <2>3, <2>4 DEF Requeue, EndFlush
<1>13. CASE Popped(w) \/ Connect(w) \/ Rollback(w) \/ Discard(w)
  BY <1>9, <1>13 DEF Popped, Connect, Rollback, Discard, EndFlush, listVars
<1>14. CASE Insert(w)
  BY <1>9, <1>14 DEF Insert, QueryFails, listVars
<1>15. CASE Commit(w) \/ Bulk(w)
  <2>1. UNCHANGED <<trackVars, buffer>> /\ resent \subseteq resent'
    BY <1>15 DEF Commit, Bulk
  <2>2. UNCHANGED batch \/ batch' = [batch EXCEPT ![w] = <<>>]
    BY <1>15 DEF Commit, Bulk, QueryFails, EndFlush
  <2>3. QED BY <1>9, <2>1, <2>2
<1>16. CASE Tick(w) \/ PipelineResent(w) \/ Stop(w) \/ Drain(w) \/ Crash(w) \/ Restart(w)
  BY <1>9, <1>16 DEF Tick, PipelineResent, Stop, Drain, Crash, Restart, Die, listVars
<1>17. QED
  BY <1>10, <1>11, <1>12, <1>13, <1>14, <1>15, <1>16 DEF FlushStep

\* Every step keeps the bound.
LEMMA BoundStep == IInv /\ Sizes /\ BoundInv /\ [Next]_vars => BoundInv'
<1> SUFFICES ASSUME IInv, Sizes, BoundInv, [Next]_vars PROVE BoundInv'
  OBVIOUS
<1>1. IInv'
  BY StepIInv
<1>2. ASSUME NEW t \in Trackers, TrackStep(t) PROVE BoundInv'
  BY <1>1, <1>2, BoundTrack
<1>3. ASSUME NEW t \in Trackers, RpushResent(t) PROVE BoundInv'
  <2>1. click[t] \in Clicks /\ Resend(click[t])
    BY <1>3 DEF RpushResent, IInv, TypeOK
  <2>2. QED BY <2>1, BoundResend
<1>4. ASSUME NEW w \in Flushers, RequeueResent(w) PROVE BoundInv'
  <2>1. batch[w] \in Seq(Clicks) /\ batch[w] # <<>> /\ Resend(Head(batch[w]))
    BY <1>4 DEF RequeueResent, IInv, TypeOK
  <2>2. Head(batch[w]) \in Clicks
    BY <2>1, Ends
  <2>3. QED BY <2>1, <2>2, BoundResend
<1>5. ASSUME NEW w \in Flushers,
             \/ FlushStep(w) \/ Tick(w) \/ PipelineResent(w) \/ Stop(w) \/ Drain(w)
             \/ Crash(w) \/ Restart(w)
      PROVE  BoundInv'
  BY <1>1, <1>5, BoundFlush
<1>6. CASE UNCHANGED vars
  BY <1>6 DEF vars, trackVars, listVars, workVars, BoundInv, Pushers
<1>7. QED BY <1>2, <1>3, <1>4, <1>5, <1>6 DEF Next, Flushers

------------------------------------------------------------------------------
(* A click is lost only where the code gives it up *)

\* Append adds its element.
LEMMA RangeAppend ==
  ASSUME NEW s \in Seq(Clicks), NEW e \in Clicks PROVE Range(Append(s, e)) = Range(s) \cup {e}
<1>1. /\ Len(s) \in Nat /\ DOMAIN s = 1 .. Len(s) /\ DOMAIN Append(s, e) = 1 .. Len(s) + 1
      /\ \A i \in 1 .. Len(s) : Append(s, e)[i] = s[i]
      /\ Append(s, e)[Len(s) + 1] = e
  OBVIOUS
<1>2. 1 .. Len(s) + 1 = (1 .. Len(s)) \cup {Len(s) + 1}
  BY <1>1
<1>3. QED BY <1>1, <1>2 DEF Range

\* Tail takes no more than the head.
LEMMA RangeTail ==
  ASSUME NEW s \in Seq(Clicks), s # <<>> PROVE Range(s) = Range(Tail(s)) \cup {Head(s)}
<1>1. /\ Len(s) \in Nat \ {0} /\ DOMAIN s = 1 .. Len(s)
      /\ DOMAIN Tail(s) = 1 .. Len(s) - 1
      /\ \A i \in 1 .. Len(s) - 1 : Tail(s)[i] = s[i + 1]
      /\ Head(s) = s[1]
  OBVIOUS
<1>2. ASSUME NEW i \in DOMAIN s PROVE s[i] \in Range(Tail(s)) \cup {Head(s)}
  <2>1. CASE i = 1
    BY <1>1, <2>1
  <2>2. CASE i # 1
    <3>1. i - 1 \in 1 .. Len(s) - 1 /\ (i - 1) + 1 = i
      BY <1>1, <2>2
    <3>2. Tail(s)[i - 1] = s[i]
      BY <1>1, <3>1
    <3>3. QED BY <1>1, <3>1, <3>2 DEF Range
  <2>3. QED BY <2>1, <2>2
<1>3. ASSUME NEW i \in DOMAIN Tail(s) PROVE Tail(s)[i] \in Range(s)
  <2>1. i + 1 \in DOMAIN s
    BY <1>1
  <2>2. QED BY <1>1, <2>1 DEF Range
<1>4. Head(s) \in Range(s)
  BY <1>1 DEF Range
<1>5. Range(s) \subseteq Range(Tail(s)) \cup {Head(s)}
  BY <1>2 DEF Range
<1>6. Range(Tail(s)) \subseteq Range(s)
  BY <1>3 DEF Range
<1>7. QED BY <1>4, <1>5, <1>6

\* Nothing is in the empty sequence.
LEMMA RangeEmpty == Range(<<>>) = {}
  BY DEF Range

\* What is in a sequence is in it at least once.
LEMMA TimesSome == ASSUME NEW s \in Seq(Clicks), NEW c \in Range(s) PROVE Times(c, s) \in Nat /\ Times(c, s) > 0
<1>1. {i \in DOMAIN s : s[i] = c} # {}
  BY DEF Range
<1>2. IsFiniteSet({i \in DOMAIN s : s[i] = c})
  <2>1. Len(s) \in Nat /\ {i \in DOMAIN s : s[i] = c} \in SUBSET (1 .. Len(s))
    OBVIOUS
  <2>2. QED BY <2>1, FS_Interval, FS_Subset
<1>3. Times(c, s) # 0
  BY <1>1, <1>2, FS_EmptySet DEF Times
<1>4. Times(c, s) \in Nat
  BY TimesNat
<1>5. QED BY <1>3, <1>4

\* What LostOnlyWhereGivenUp says of a step.
NoneLost ==
  \A c \in Clicks : Kind[c] = "good" /\ Accounted(c) /\ ~Accounted(c)' =>
    \E w \in Flushers : InHand(c, w) /\ GivesUp(w)

\* Every event of the list and of w's hand has its row, is still in one of the two, or
\* is given up by w, whose batch is b from now on.
Kept(w, b) ==
  /\ \A c \in Clicks : stored[c] > 0 => stored'[c] > 0
  /\ \A c \in Range(buffer) \cup Range(batch[w]) : Kind[c] = "good" =>
       \/ stored'[c] > 0
       \/ c \in Range(buffer') \cup Range(b)
       \/ InHand(c, w) /\ GivesUp(w)

\* A step of one worker that keeps its events, or gives them up, loses none of another.
LEMMA LossWorker ==
  ASSUME IInv, NEW w \in Flushers, NEW b, batch' = [batch EXCEPT ![w] = b], Kept(w, b)
  PROVE  NoneLost
<1> SUFFICES ASSUME NEW c \in Clicks, Kind[c] = "good", Accounted(c), ~Accounted(c)'
             PROVE  \E v \in Flushers : InHand(c, v) /\ GivesUp(v)
  BY DEF NoneLost
<1>1. ~(stored'[c] > 0) /\ c \notin Range(buffer') /\ \A v \in Flushers : c \notin Range(batch'[v])
  BY DEF Accounted
<1>2. batch'[w] = b /\ \A v \in Flushers : v # w => batch'[v] = batch[v]
  BY DEF IInv, TypeOK
<1>3. CASE stored[c] > 0
  BY <1>1, <1>3 DEF Kept
<1>4. CASE c \in Range(buffer) \/ c \in Range(batch[w])
  <2>1. c \notin Range(b)
    BY <1>1, <1>2
  <2>2. InHand(c, w) /\ GivesUp(w)
    BY <1>1, <1>4, <2>1 DEF Kept
  <2>3. QED BY <2>2
<1>5. CASE \E v \in Flushers \ {w} : c \in Range(batch[v])
  BY <1>1, <1>2, <1>5
<1>6. QED BY <1>3, <1>4, <1>5 DEF Accounted

\* Nor does a step that leaves batches and rows alone and takes nothing from the list.
LEMMA LossNone ==
  ASSUME UNCHANGED <<stored, batch>>, Range(buffer) \subseteq Range(buffer') PROVE NoneLost
  BY DEF NoneLost, Accounted

\* Every step of a flush keeps its events, puts them into the table, or gives them up.
LEMMA LossFlush == ASSUME IInv, NEW w \in Flushers, FlushStep(w) PROVE NoneLost
<1>1. /\ batch \in [Flushers -> Seq(Clicks)] /\ batch[w] \in Seq(Clicks) /\ buffer \in Seq(Clicks)
      /\ stored \in [Clicks -> Nat]
  BY DEF IInv, TypeOK
<1>2. batch = [batch EXCEPT ![w] = batch[w]]
  BY <1>1
<1>3. ASSUME UNCHANGED stored, EndFlush(w), Range(buffer) \subseteq Range(buffer'),
             GivesUp(w) \/ \A c \in Range(batch[w]) : Kind[c] # "good"
      PROVE  NoneLost
  <2>1. batch' = [batch EXCEPT ![w] = <<>>]
    BY <1>3 DEF EndFlush
  <2>2. Kept(w, <<>>)
    BY <1>3 DEF Kept, InHand
  <2>3. QED BY <2>1, <2>2, LossWorker
<1>4. ASSUME UNCHANGED <<stored, batch, buffer>> PROVE NoneLost
  BY <1>4, LossNone
<1>5. ASSUME NEW S, Store(w, S), \A c \in Range(batch[w]) : Kind[c] = "good" => c \in S
      PROVE  /\ \A c \in Range(batch[w]) : Kind[c] = "good" => stored'[c] > 0
             /\ \A c \in Clicks : stored[c] > 0 => stored'[c] > 0
  <2>1. ASSUME NEW c \in Range(batch[w]), Kind[c] = "good" PROVE stored'[c] > 0
    <3>1. c \in Clicks /\ c \in S
      BY <1>1, <1>5, <2>1, SeqRange
    <3>2. stored'[c] = stored[c] + Times(c, batch[w])
      BY <1>5, <3>1 DEF Store
    <3>3. Times(c, batch[w]) \in Nat /\ Times(c, batch[w]) > 0
      BY <1>1, TimesSome
    <3>4. stored[c] \in Nat
      BY <1>1, <3>1
    <3>5. QED BY <3>2, <3>3, <3>4
  <2>2. ASSUME NEW c \in Clicks, stored[c] > 0 PROVE stored'[c] > 0
    <3>1. stored'[c] = stored[c] + (IF c \in S THEN Times(c, batch[w]) ELSE 0)
      BY <1>5 DEF Store
    <3>2. Times(c, batch[w]) \in Nat /\ stored[c] \in Nat
      BY <1>1, TimesNat
    <3>3. QED BY <2>2, <3>1, <3>2
  <2>3. QED BY <2>1, <2>2
<1>6. ASSUME UNCHANGED buffer, NEW S, Store(w, S),
             \A c \in Range(batch[w]) : Kind[c] = "good" => c \in S,
             EndFlush(w) \/ UNCHANGED batch
      PROVE  NoneLost
  <2>1. /\ \A c \in Range(batch[w]) : Kind[c] = "good" => stored'[c] > 0
        /\ \A c \in Clicks : stored[c] > 0 => stored'[c] > 0
    BY <1>5, <1>6
  <2>2. ASSUME NEW b PROVE Kept(w, b)
    BY <1>6, <2>1 DEF Kept
  <2>3. CASE EndFlush(w)
    BY <2>2, <2>3, LossWorker DEF EndFlush
  <2>4. CASE UNCHANGED batch
    BY <1>2, <2>2, <2>4, LossWorker
  <2>5. QED BY <1>6, <2>3, <2>4
<1>7. buffer # <<>> =>
        /\ Range(buffer) = Range(Tail(buffer)) \cup {Head(buffer)}
        /\ Range(Append(batch[w], Head(buffer))) = Range(batch[w]) \cup {Head(buffer)}
  <2> SUFFICES ASSUME buffer # <<>>
               PROVE  /\ Range(buffer) = Range(Tail(buffer)) \cup {Head(buffer)}
                      /\ Range(Append(batch[w], Head(buffer))) = Range(batch[w]) \cup {Head(buffer)}
    OBVIOUS
  <2>1. Range(buffer) = Range(Tail(buffer)) \cup {Head(buffer)} /\ Head(buffer) \in Clicks
    BY <1>1, RangeTail, Ends
  <2>2. QED BY <1>1, <2>1, RangeAppend
<1>8. ASSUME UNCHANGED stored, wpc[w] \in {"pop", "take"}, buffer # <<>>, buffer' = Tail(buffer),
             NEW b, batch' = [batch EXCEPT ![w] = b],
             \/ b = Append(batch[w], Head(buffer))
             \/ b = batch[w] /\ (Kind[Head(buffer)] # "good" \/ GivesUp(w))
             \/ GivesUp(w)
      PROVE  NoneLost
  <2>1. InHand(Head(buffer), w) /\ \A c \in Range(batch[w]) : InHand(c, w)
    BY <1>8 DEF InHand
  <2>2. Kept(w, b)
    BY <1>7, <1>8, <2>1 DEF Kept
  <2>3. QED BY <1>8, <2>2, LossWorker
<1>9. CASE Lpop(w)
  <2>1. UNCHANGED <<stored, wpc>> /\ wpc[w] = "pop"
    BY <1>9 DEF Lpop
  <2>2. CASE UNCHANGED <<buffer, batch>>
    BY <1>4, <2>1, <2>2
  <2>3. CASE /\ buffer # <<>> /\ buffer' = Tail(buffer)
             /\ batch' = [batch EXCEPT ![w] = Append(batch[w], Head(buffer))]
    BY <1>8, <2>1, <2>3
  <2>4. CASE May("lpop") /\ buffer # <<>> /\ buffer' = Tail(buffer) /\ UNCHANGED batch
    <3>1. GivesUp(w)
      BY <2>1, <2>4 DEF GivesUp
    <3>2. QED BY <1>2, <1>8, <2>1, <2>4, <3>1
  <2>5. QED BY <1>9, <2>2, <2>3, <2>4 DEF Lpop
<1>10. CASE Popped(w)
  <2>1. UNCHANGED <<stored, buffer>>
    BY <1>10 DEF Popped, listVars
  <2>2. CASE Valid(w) = {} /\ EndFlush(w)
    <3>1. \A c \in Range(batch[w]) : Kind[c] # "good"
      BY <2>2 DEF Valid
    <3>2. QED BY <1>3, <2>1, <2>2, <3>1
  <2>3. QED BY <1>4, <1>10, <2>1, <2>2 DEF Popped
<1>11. CASE Connect(w)
  <2>1. UNCHANGED <<stored, buffer>> /\ wpc[w] = "connect"
    BY <1>11 DEF Connect, listVars
  <2>2. CASE May("connect") /\ EndFlush(w)
    <3>1. GivesUp(w)
      BY <2>1, <2>2 DEF GivesUp
    <3>2. QED BY <1>3, <2>1, <2>2, <3>1
  <2>3. QED BY <1>4, <1>11, <2>1, <2>2 DEF Connect
<1>12. CASE Insert(w) \/ Rollback(w)
  BY <1>4, <1>12 DEF Insert, Rollback, QueryFails, listVars
<1>13. CASE Commit(w)
  <2>1. UNCHANGED buffer
    BY <1>13 DEF Commit
  <2>2. CASE QueryFails(w, "commit")
    BY <1>4, <2>1, <2>2 DEF QueryFails
  <2>3. CASE Store(w, Valid(w)) /\ (EndFlush(w) \/ UNCHANGED batch)
    <3>1. \A c \in Range(batch[w]) : Kind[c] = "good" => c \in Valid(w)
      BY DEF Valid
    <3>2. QED BY <1>6, <2>1, <2>3, <3>1
  <2>4. QED BY <1>13, <2>2, <2>3 DEF Commit
<1>14. CASE Discard(w)
  <2>1. UNCHANGED <<stored, buffer>> /\ EndFlush(w) /\ GivesUp(w)
    BY <1>14 DEF Discard, GivesUp, listVars
  <2>2. QED BY <1>3, <2>1
<1>15. CASE Requeue(w)
  <2>1. UNCHANGED stored /\ wpc[w] = "requeue"
    BY <1>15 DEF Requeue
  <2>2. batch[w] # <<>> =>
          /\ Range(batch[w]) = Range(Tail(batch[w])) \cup {Head(batch[w])}
          /\ Range(Append(buffer, Head(batch[w]))) = Range(buffer) \cup {Head(batch[w])}
    <3> SUFFICES ASSUME batch[w] # <<>>
                 PROVE  /\ Range(batch[w]) = Range(Tail(batch[w])) \cup {Head(batch[w])}
                        /\ Range(Append(buffer, Head(batch[w]))) = Range(buffer) \cup {Head(batch[w])}
      OBVIOUS
    <3>1. Range(batch[w]) = Range(Tail(batch[w])) \cup {Head(batch[w])} /\ Head(batch[w]) \in Clicks
      BY <1>1, RangeTail, Ends
    <3>2. QED BY <1>1, <3>1, RangeAppend
  <2>3. CASE /\ batch[w] # <<>> /\ buffer' = Append(buffer, Head(batch[w]))
             /\ batch' = [batch EXCEPT ![w] = Tail(batch[w])]
    <3>1. Kept(w, Tail(batch[w]))
      BY <2>1, <2>2, <2>3 DEF Kept
    <3>2. QED BY <2>3, <3>1, LossWorker
  <2>4. CASE batch[w] = <<>> /\ EndFlush(w) /\ UNCHANGED buffer
    BY <1>3, <2>1, <2>4, RangeEmpty
  <2>5. CASE /\ May("rpush") /\ batch[w] # <<>> /\ EndFlush(w)
             /\ buffer' \in {buffer, Append(buffer, Head(batch[w]))}
    <3>1. GivesUp(w)
      BY <2>1, <2>5 DEF GivesUp
    <3>2. Range(buffer) \subseteq Range(buffer')
      BY <2>2, <2>5
    <3>3. QED BY <1>3, <2>1, <2>5, <3>1, <3>2
  <2>6. QED BY <1>15, <2>3, <2>4, <2>5 DEF Requeue
<1>16. CASE Take(w)
  <2>1. UNCHANGED stored /\ wpc[w] = "take"
    BY <1>16 DEF Take
  <2>2. CASE /\ buffer # <<>> /\ buffer' = Tail(buffer)
             /\ batch' = IF Kind[Head(buffer)] = "garbled" THEN batch
                         ELSE [batch EXCEPT ![w] = Append(batch[w], Head(buffer))]
    BY <1>2, <1>8, <2>1, <2>2
  <2>3. CASE batch[w] = <<>> /\ EndFlush(w) /\ UNCHANGED buffer
    BY <1>3, <2>1, <2>3, RangeEmpty
  <2>4. CASE UNCHANGED <<batch, buffer>>
    BY <1>4, <2>1, <2>4
  <2>5. CASE /\ May("lpop") /\ left[w] > 0 /\ EndFlush(w)
             /\ UNCHANGED buffer \/ (buffer # <<>> /\ buffer' = Tail(buffer))
    <3>1. GivesUp(w) /\ batch' = [batch EXCEPT ![w] = <<>>]
      BY <2>1, <2>5 DEF GivesUp, EndFlush
    <3>2. CASE UNCHANGED buffer
      BY <1>3, <2>1, <2>5, <3>1, <3>2
    <3>3. CASE buffer # <<>> /\ buffer' = Tail(buffer)
      BY <1>8, <2>1, <3>1, <3>3
    <3>4. QED BY <2>5, <3>2, <3>3
  <2>6. QED BY <1>16, <2>2, <2>3, <2>4, <2>5 DEF Take
<1>17. CASE Bulk(w)
  <2>1. UNCHANGED buffer
    BY <1>17 DEF Bulk
  <2>2. CASE Store(w, Clicks) /\ (EndFlush(w) \/ UNCHANGED batch)
    <3>1. \A c \in Range(batch[w]) : c \in Clicks
      BY <1>1, SeqRange
    <3>2. QED BY <1>6, <2>1, <2>2, <3>1
  <2>3. CASE UNCHANGED <<batch, stored>>
    BY <1>4, <2>1, <2>3
  <2>4. QED BY <1>17, <2>2, <2>3 DEF Bulk
<1>18. QED
  BY <1>9, <1>10, <1>11, <1>12, <1>13, <1>14, <1>15, <1>16, <1>17 DEF FlushStep

\* The end of a process gives up what its flush has in hand.
LEMMA LossDeath ==
  ASSUME IInv, NEW w \in Flushers, Die(w), May("crash") \/ (May("stop") /\ w \notin stopping)
  PROVE  NoneLost
<1>1. UNCHANGED <<stored, buffer>> /\ batch' = [batch EXCEPT ![w] = <<>>]
  BY DEF Die, listVars
<1>2. GivesUp(w)
  BY DEF Die, WGoto, GivesUp, IInv, TypeOK
<1>3. Kept(w, <<>>)
  BY <1>1, <1>2 DEF Kept, InHand
<1>4. QED BY <1>1, <1>3, LossWorker

\* What Redis appends unseen is one more place of the click.
LEMMA LossResend == ASSUME IInv, NEW c \in Clicks, Resend(c) PROVE NoneLost
<1>1. Range(buffer') = Range(buffer) \cup {c}
  BY RangeAppend DEF Resend, IInv, TypeOK
<1>2. QED BY <1>1, LossNone DEF Resend, workVars

\* trackClick takes nothing away.
LEMMA LossTrack == ASSUME IInv, NEW t \in Trackers, TrackStep(t) PROVE NoneLost
<1>1. UNCHANGED <<batch, stored>>
  BY DEF TrackStep, TrackClick, Llen, Hincrby, Sadd, Rpush, workVars
<1>2. buffer' = buffer \/ buffer' = Append(buffer, click[t])
  BY DEF TrackStep, TrackClick, Llen, Hincrby, Sadd, Rpush, listVars
<1>3. Range(buffer) \subseteq Range(buffer')
  BY <1>2, RangeAppend DEF IInv, TypeOK
<1>4. QED BY <1>1, <1>3, LossNone

\* A step loses nothing but what it gives up.
LEMMA LossStep == IInv /\ [Next]_vars => NoneLost
<1> SUFFICES ASSUME IInv, [Next]_vars PROVE NoneLost
  OBVIOUS
<1>1. ASSUME NEW t \in Trackers, TrackStep(t) PROVE NoneLost
  BY <1>1, LossTrack
<1>2. ASSUME NEW t \in Trackers, RpushResent(t) PROVE NoneLost
  BY <1>2, LossResend DEF RpushResent, IInv, TypeOK
<1>3. ASSUME NEW w \in Flushers, RequeueResent(w) PROVE NoneLost
  BY <1>3, Ends, LossResend DEF RequeueResent, IInv, TypeOK
<1>4. ASSUME NEW w \in Flushers, FlushStep(w) PROVE NoneLost
  BY <1>4, LossFlush
<1>5. ASSUME UNCHANGED <<stored, batch, buffer>> PROVE NoneLost
  BY <1>5, LossNone
<1>6. ASSUME NEW w \in Flushers, Tick(w) \/ Drain(w) \/ Restart(w) PROVE NoneLost
  BY <1>5, <1>6 DEF Tick, Drain, Restart, listVars
<1>7. ASSUME NEW w \in Flushers, PipelineResent(w) PROVE NoneLost
  <2>1. UNCHANGED <<stored, buffer>> /\ batch' = [batch EXCEPT ![w] = <<>>]
    BY <1>7 DEF PipelineResent, listVars
  <2>2. GivesUp(w)
    BY <1>7 DEF PipelineResent, StartFlush, WGoto, GivesUp, IInv, TypeOK
  <2>3. Kept(w, <<>>)
    BY <2>1, <2>2 DEF Kept, InHand
  <2>4. QED BY <2>1, <2>3, LossWorker
<1>8. ASSUME NEW w \in Flushers, Stop(w) PROVE NoneLost
  <2>1. CASE UNCHANGED <<trackVars, listVars, batch, stored>>
    BY <1>5, <2>1 DEF listVars
  <2>2. QED BY <1>8, <2>1, LossDeath DEF Stop
<1>9. ASSUME NEW w \in Flushers, Crash(w) PROVE NoneLost
  BY <1>9, LossDeath DEF Crash
<1>10. CASE UNCHANGED vars
  BY <1>5, <1>10 DEF vars, listVars, workVars
<1>11. QED
  BY <1>1, <1>2, <1>3, <1>4, <1>6, <1>7, <1>8, <1>9, <1>10 DEF Next, Flushers

------------------------------------------------------------------------------
(* Theorems *)

\* Every state satisfies the invariant.
THEOREM Invariance == Spec => []IInv
<1>1. QED BY InitIInv, StepIInv, PTL DEF Spec

\* The types.
THEOREM TypeCorrect == Spec => []TypeOK
<1>1. IInv => TypeOK
  BY DEF IInv
<1>2. QED BY Invariance, <1>1, PTL

\* No click reaches the list, and so the table, that the counters do not know, whatever
\* command of trackClick fails or is sent again.
THEOREM CountersComeFirst == Spec => []CountedBeforeBuffered
<1>1. IInv => CountedBeforeBuffered
  BY DEF IInv
<1>2. QED BY Invariance, <1>1, PTL

\* No click has more rows than times it was sent, however batches are popped, re-queued,
\* cut off by a crash or committed without the worker learning of it.
THEOREM NoRowTwice == Spec => []StoredAtMostOnce
<1>1. IInv /\ Sizes /\ OnceInv => StoredAtMostOnce
  <2> SUFFICES ASSUME IInv, Sizes, OnceInv, NEW c \in Clicks PROVE stored[c] <= Allowed(c)
    BY DEF StoredAtMostOnce, Allowed
  <2> DEFINE waiting == (IF c \in fresh THEN 1 ELSE 0) + Cardinality(Calls(c))
             list == Times(c, buffer)
             hands == Hands(c, Held)
             rows == stored[c]
             most == Allowed(c)
  <2>1. waiting \in Nat /\ list \in Nat /\ hands \in Nat /\ rows \in Nat /\ most \in Nat
    BY RowsTypes DEF Allowed
  <2>2. waiting + list + hands + rows <= most
    BY DEF OnceInv, Rows
  <2> HIDE DEF waiting, list, hands, rows, most
  <2>3. rows <= most
    BY <2>1, <2>2
  <2>4. QED BY <2>3 DEF rows, most
<1>2. Spec => [](IInv /\ Sizes /\ OnceInv)
  <2>1. Init => IInv /\ Sizes /\ OnceInv
    BY InitIInv, InitSizes, InitOnce
  <2>2. IInv /\ Sizes /\ OnceInv /\ [Next]_vars => (IInv /\ Sizes /\ OnceInv)'
    BY StepIInv, SizesStep, OnceStep
  <2>3. QED BY <2>1, <2>2, PTL DEF Spec
<1>3. QED BY <1>1, <1>2, PTL

\* The list stays within its limit, and what calls and workers may still add to it.
THEOREM BufferStaysBounded == Spec => []BufferBound
<1>1. IInv /\ Sizes /\ BoundInv => BufferBound
  <2> SUFFICES ASSUME IInv, Sizes, BoundInv PROVE BufferBound
    OBVIOUS
  <2>1. /\ Cardinality(Pushers) \in Nat /\ Cardinality(Trackers) \in Nat /\ InHands(batch) \in Nat
        /\ Room \in Nat /\ Len(buffer) \in Nat /\ MaxBuffer \in Nat /\ Cardinality(resent) \in Nat
    BY BoundTypes
  <2>2. Len(buffer) < MaxBuffer + Cardinality(Trackers) + Room + Cardinality(resent)
    BY <2>1 DEF BoundInv
  <2>3. QED BY <2>2 DEF BufferBound, Room
<1>2. Spec => [](IInv /\ Sizes /\ BoundInv)
  <2>1. Init => IInv /\ Sizes /\ BoundInv
    BY InitIInv, InitSizes, InitBound
  <2>2. IInv /\ Sizes /\ BoundInv /\ [Next]_vars => (IInv /\ Sizes /\ BoundInv)'
    BY StepIInv, SizesStep, BoundStep
  <2>3. QED BY <2>1, <2>2, PTL DEF Spec
<1>3. QED BY <1>1, <1>2, PTL

\* Whatever goes wrong, no step takes the last place of a click of the right form, its
\* row, its place in the list or in the hands of a worker, but one of a worker that has
\* it in hand and stands where the code gives its batch up: at an LPOP that rejects or is
\* sent again, at the pool, after a ROLLBACK that rejects or an error isTransient does not
\* know, at an RPUSH of the re-queueing loop, or at the end of its process.
THEOREM LossesGivenUp == Spec => LostOnlyWhereGivenUp
<1>1. IInv /\ [Next]_vars => [NoneLost]_vars
  BY LossStep
<1>2. LostOnlyWhereGivenUp <=> [][NoneLost]_vars
  BY PTL DEF LostOnlyWhereGivenUp, NoneLost
<1>3. QED BY Invariance, <1>1, <1>2, PTL DEF Spec

================================================================================
