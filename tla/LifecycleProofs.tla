---------------------------- MODULE LifecycleProofs ----------------------------
(***************************************************************************)
(* What a process of Lifecycle leaves behind, and how many of them the     *)
(* primary forks, for any number of workers, any threshold, any window and *)
(* any number of requests.                                                 *)
(***************************************************************************)
EXTENDS Lifecycle, FiniteSetTheorems, WellFoundedInduction, TLAPS

------------------------------------------------------------------------------
(* What the filter of isForkBombing returns *)

\* Induction over the naturals, as the least counterexample: the intervals 0 .. n of
\* the set's members are finite sets, and strict inclusion of those is well-founded.
LEMMA LeastElement ==
  ASSUME NEW T, T \subseteq Nat, T # {} PROVE \E n \in T : \A m \in T : n <= m
<1> DEFINE Below == {0 .. n : n \in T}
<1>1. IsWellFoundedOn(StrictSubsetOrdering(Nat), FiniteSubsetsOf(Nat))
  BY FS_StrictSubsetOrderingWellFounded
<1>2. Below \subseteq FiniteSubsetsOf(Nat) /\ Below # {}
  <2>1. ASSUME NEW n \in T PROVE 0 .. n \subseteq Nat /\ IsFiniteSet(0 .. n)
    BY FS_Interval
  <2>2. QED BY <2>1 DEF FiniteSubsetsOf
<1> HIDE DEF Below
<1>3. PICK b \in Below : \A c \in Below : ~ (<<c, b>> \in StrictSubsetOrdering(Nat))
  BY <1>1, <1>2, WFMin
<1>4. PICK n \in T : b = 0 .. n
  BY <1>3 DEF Below
<1>5. ASSUME NEW m \in T, m < n PROVE FALSE
  <2>1. /\ 0 .. m \subseteq 0 .. n /\ 0 .. n \subseteq Nat
        /\ n \in 0 .. n /\ n \notin 0 .. m
    BY <1>5
  <2>2. <<0 .. m, 0 .. n>> \in StrictSubsetOrdering(Nat)
    BY <2>1 DEF StrictSubsetOrdering
  <2>3. 0 .. m \in Below
    BY DEF Below
  <2>4. QED BY <1>3, <1>4, <2>2, <2>3
<1>6. QED BY <1>5

\* What one element adds to the filtered history.
Keep(kept, age) == IF age <= ForkWindow THEN Append(kept, age) ELSE kept

\* g is the recursive function of Within on the first n elements.
Filters(g, history, n) ==
  g = [i \in 0 .. n |-> IF i = 0 THEN <<>> ELSE Keep(g[i - 1], history[i])]

LEMMA FilterExists ==
  ASSUME NEW history, NEW n \in Nat PROVE \E g : Filters(g, history, n)
<1> DEFINE T == {m \in Nat : ~ \E g : Filters(g, history, m)}
<1> SUFFICES ASSUME T # {} PROVE FALSE
  OBVIOUS
<1>1. PICK m \in T : \A k \in T : m <= k
  <2>1. T \subseteq Nat
    OBVIOUS
  <2> HIDE DEF T
  <2>2. QED BY <2>1, LeastElement
<1>2. CASE m = 0
  <2>1. Filters([i \in 0 .. 0 |-> <<>>], history, 0)
    BY DEF Filters
  <2>2. QED BY <1>1, <1>2, <2>1
<1>3. CASE m # 0
  <2>1. m \in Nat /\ m - 1 \in Nat /\ m - 1 \notin T
    BY <1>1, <1>3
  <2>2. PICK g : Filters(g, history, m - 1)
    BY <2>1
  <2> DEFINE h == [i \in 0 .. m |-> IF i = m THEN Keep(g[m - 1], history[m]) ELSE g[i]]
  <2>3. ASSUME NEW i \in 0 .. m
        PROVE  h[i] = IF i = 0 THEN <<>> ELSE Keep(h[i - 1], history[i])
    BY <1>3, <2>1, <2>2 DEF Filters
  <2>4. Filters(h, history, m)
    BY <2>3 DEF Filters
  <2>5. QED BY <1>1, <2>4
<1>4. QED BY <1>2, <1>3

\* The filter keeps ages within the window, and no more than there were.
LEMMA WithinShorter ==
  ASSUME NEW history \in Seq(Nat)
  PROVE  Within(history) \in Seq(0 .. ForkWindow) /\ Len(Within(history)) <= Len(history)
<1> DEFINE n == Len(history)
           g == CHOOSE g : g = [i \in 0 .. n |->
                  IF i = 0 THEN <<>>
                  ELSE IF history[i] <= ForkWindow THEN Append(g[i - 1], history[i])
                  ELSE g[i - 1]]
<1>1. Within(history) = g[n]
  BY DEF Within
<1>2. Filters(g, history, n)
  <2>1. n \in Nat
    OBVIOUS
  <2>2. \E h : Filters(h, history, n)
    BY <2>1, FilterExists
  <2>3. QED BY <2>2 DEF Filters, Keep
<1> HIDE DEF g
<1> DEFINE Good(i) == g[i] \in Seq(0 .. ForkWindow) /\ Len(g[i]) <= i
           T == {m \in 0 .. n : ~Good(m)}
<1>3. T = {}
  <2> SUFFICES ASSUME T # {} PROVE FALSE
    OBVIOUS
  <2>1. PICK m \in T : \A k \in T : m <= k
    <3>1. T \subseteq Nat
      OBVIOUS
    <3> HIDE DEF T
    <3>2. QED BY <3>1, LeastElement
  <2>2. CASE m = 0
    BY <1>2, <2>1, <2>2 DEF Filters
  <2>3. CASE m # 0
    <3>1. m \in 1 .. n /\ m - 1 \in 0 .. n /\ m - 1 \notin T
      BY <2>1, <2>3
    <3>2. Good(m - 1) /\ history[m] \in Nat /\ m \in 0 .. n
      BY <3>1
    <3>3. g[m] = Keep(g[m - 1], history[m])
      BY <1>2, <2>3, <3>2 DEF Filters
    <3>4. Good(m)
      <4> HIDE DEF n
      <4>1. CASE history[m] <= ForkWindow
        <5>1. history[m] \in 0 .. ForkWindow
          BY <3>2, <4>1, LifecycleAssumption
        <5>2. g[m] = Append(g[m - 1], history[m])
          BY <3>3, <4>1 DEF Keep
        <5>3. QED BY <3>1, <3>2, <5>1, <5>2
      <4>2. CASE ~ (history[m] <= ForkWindow)
        BY <3>1, <3>2, <3>3, <4>2 DEF Keep
      <4>3. QED BY <4>1, <4>2
    <3>5. QED BY <2>1, <3>4
  <2>4. QED BY <2>2, <2>3
<1>4. Good(n)
  BY <1>3
<1>5. QED BY <1>1, <1>4

------------------------------------------------------------------------------
(* The inductive invariant *)

\* The types of what the workers have.
WorkerTypes ==
  /\ worker \in [Workers -> {"booting", "up", "draining", "closing", "gone", "down"}]
  /\ inflight \in [Workers -> 0 .. MaxRequests]
  /\ ending \in [Workers -> {"none", "crash", "timeout", "orphaned", "exit"}]

\* Requests are under way only where the server is open, or waits for them.
ServedWhileOpen ==
  \A w \in Workers : inflight[w] > 0 => worker[w] \in {"up", "draining"}

IInv == WorkerTypes /\ ServedWhileOpen

\* The types of what the primary has, and of the messages and signals.
PrimaryTypes ==
  /\ primary \in {"up", "stopping", "waiting", "exited"}
  /\ forkHistory \in Seq(0 .. ForkWindow + 1)
  /\ deaths \in 0 .. Slack + 1
  /\ fatal \in BOOLEAN

SignalTypes == channel \subseteq Workers /\ twice \subseteq Workers

\* What the history holds, aged forks included: no more than the threshold, and no
\* more than start() forked and the deaths called for.
HistoryCounted ==
  /\ Len(forkHistory) <= Cardinality(Workers) + Slack
  /\ deaths <= Slack => Len(forkHistory) <= Cardinality(Workers) + deaths

ForkInv == PrimaryTypes /\ HistoryCounted /\ StartIsNoForkBomb

\* One step of RequestsDrained.
Drained ==
  \A w \in Workers : inflight[w] > 0 /\ worker'[w] \in {"gone", "down"} => Excused(w)

------------------------------------------------------------------------------
(* Lemmas *)

LEMMA InitIInv == Init => IInv
  BY LifecycleAssumption DEF Init, IInv, WorkerTypes, ServedWhileOpen

\* A process that exits takes the requests with it; only a crash, a timeout or the
\* primary's giving up does so while there are any.
LEMMA ExitKeeps ==
  ASSUME IInv, NEW w \in Workers, NEW why \in {"crash", "timeout", "orphaned", "exit"},
         Exit(w, why),
         why = "exit" => worker[w] \notin {"up", "draining"} \/ inflight[w] = 0,
         why = "timeout" => worker[w] = "draining" \/ (primary = "exited" /\ ~fatal),
         why = "orphaned" => primary = "exited" /\ fatal
  PROVE  IInv' /\ Drained
<1> USE LifecycleAssumption DEF IInv, WorkerTypes, ServedWhileOpen
<1>1. IInv'
  BY DEF Exit, Become
<1>2. Drained
  BY DEF Exit, Become, Drained, Excused
<1>3. QED BY <1>1, <1>2

LEMMA HandleKeeps ==
  ASSUME IInv, NEW w \in Workers, HandleSignal(w), UNCHANGED <<inflight, ending>>
  PROVE  IInv' /\ Drained
  BY DEF IInv, WorkerTypes, ServedWhileOpen, Drained, HandleSignal, Become

LEMMA WorkerKeeps ==
  ASSUME IInv, NEW w \in Workers, WorkerStep(w) PROVE IInv' /\ Drained
<1>1. /\ MaxRequests \in Nat
      /\ inflight[w] > 0 => worker[w] \in {"up", "draining"}
  BY LifecycleAssumption DEF IInv, ServedWhileOpen
<1>2. inflight[w] \in 0 .. MaxRequests
  BY DEF IInv, WorkerTypes
<1>3. CASE Boot(w)
  BY <1>3 DEF Boot, Become, IInv, WorkerTypes, ServedWhileOpen, Drained
<1>4. CASE RequestArrives(w)
  BY <1>1, <1>4 DEF RequestArrives, IInv, WorkerTypes, ServedWhileOpen, Drained
<1>5. CASE RequestEnds(w)
  BY <1>1, <1>5 DEF RequestEnds, IInv, WorkerTypes, ServedWhileOpen, Drained
<1>6. CASE Message(w) \/ OsSignal(w)
  <2>1. CASE HandleSignal(w) /\ UNCHANGED <<inflight, ending>>
    BY <2>1, HandleKeeps
  <2>2. CASE worker[w] \in {"booting", "closing"} /\ Exit(w, "exit")
    BY <2>2, ExitKeeps
  <2>3. QED BY <1>6, <2>1, <2>2 DEF Message, Handle, OsSignal
<1>7. CASE Closed(w)
  <2>1. CASE Become(w, "closing") /\ inflight[w] = 0 /\ UNCHANGED <<inflight, ending>>
    BY <2>1 DEF Become, IInv, WorkerTypes, ServedWhileOpen, Drained
  <2>2. CASE inflight[w] = 0 /\ Exit(w, "exit")
    BY <2>2, ExitKeeps
  <2>3. QED BY <1>7, <2>1, <2>2 DEF Closed
<1>8. CASE ResourcesClosed(w)
  BY <1>8, ExitKeeps DEF ResourcesClosed
<1>9. CASE TimedOut(w) \/ Orphaned(w)
  BY <1>9, ExitKeeps DEF TimedOut, Orphaned
<1>10. CASE Crash(w)
  BY <1>10, ExitKeeps DEF Crash
<1>11. QED
  BY <1>3, <1>4, <1>5, <1>6, <1>7, <1>8, <1>9, <1>10 DEF WorkerStep

LEMMA StepIInv == IInv /\ [Next]_vars => IInv' /\ Drained
<1> SUFFICES ASSUME IInv, [Next]_vars PROVE IInv' /\ Drained
  OBVIOUS
<1>1. ASSUME NEW w \in Workers, WorkerStep(w) PROVE IInv' /\ Drained
  BY <1>1, WorkerKeeps
<1>2. ASSUME NEW w \in Workers, HandleWorkerExit(w) PROVE IInv' /\ Drained
  <2>1. worker[w] = "gone" /\ inflight' = inflight /\ ending' = ending
    BY <1>2 DEF HandleWorkerExit
  <2>2. worker' \in {[worker EXCEPT ![w] = "booting"], [worker EXCEPT ![w] = "down"]}
    BY <1>2 DEF HandleWorkerExit, ForkWorker, Become
  <2>3. QED BY <2>1, <2>2 DEF IInv, WorkerTypes, ServedWhileOpen, Drained
<1>3. ASSUME UNCHANGED <<worker, inflight, ending>> PROVE IInv' /\ Drained
  BY <1>3 DEF IInv, WorkerTypes, ServedWhileOpen, Drained
<1>4. CASE Signal \/ StopReturns \/ PrimaryTimeout \/ Tick \/ UNCHANGED vars
  BY <1>3, <1>4 DEF Signal, StopReturns, PrimaryTimeout, Tick, vars, workerVars
<1>5. QED BY <1>1, <1>2, <1>4 DEF Next

------------------------------------------------------------------------------
(* The forks *)

LEMMA WorkersCounted == Cardinality(Workers) \in Nat
  BY LifecycleAssumption, FS_CardinalityType

LEMMA InitForkInv == Init => ForkInv
<1> SUFFICES ASSUME Init PROVE ForkInv
  OBVIOUS
<1> DEFINE n == Cardinality(Workers)
<1>1. n \in Nat /\ Slack \in Nat \ {0} /\ ForkWindow \in Nat
  BY WorkersCounted, LifecycleAssumption
<1>2. forkHistory = [i \in 1 .. n |-> 0] /\ primary = "up" /\ deaths = 0 /\ fatal = FALSE
  BY DEF Init
<1>3. forkHistory \in Seq(0 .. ForkWindow + 1) /\ Len(forkHistory) = n
  <2> HIDE DEF n
  <2>1. 0 \in 0 .. ForkWindow + 1
    BY <1>1
  <2>2. QED BY <1>1, <1>2, <2>1
<1>4. PrimaryTypes
  <2>1. deaths \in 0 .. Slack + 1
    BY <1>1, <1>2
  <2>2. primary = "up" /\ fatal \in BOOLEAN
    BY <1>2
  <2>3. QED BY <1>3, <2>1, <2>2 DEF PrimaryTypes
<1>5. HistoryCounted
  BY <1>1, <1>2, <1>3 DEF HistoryCounted
<1>6. StartIsNoForkBomb
  BY <1>2 DEF StartIsNoForkBomb
<1>7. QED BY <1>4, <1>5, <1>6 DEF ForkInv

\* What is recent is part of the history.
LEMMA RecentCounted ==
  ASSUME ForkInv
  PROVE  /\ Recent \in Seq(0 .. ForkWindow)
         /\ Len(Recent) \in Nat
         /\ Len(Recent) <= Len(forkHistory)
<1>1. forkHistory \in Seq(Nat)
  BY LifecycleAssumption DEF ForkInv, PrimaryTypes
<1>2. QED BY <1>1, WithinShorter DEF Recent

\* A fork makes the history one longer, and a death calls for it; at the threshold the
\* history, no longer than the workers and the deaths, shows Slack deaths before.
LEMMA ExitKeepsForkInv ==
  ASSUME ForkInv, NEW w \in Workers, HandleWorkerExit(w) PROVE ForkInv'
<1> DEFINE n == Cardinality(Workers)
           h == Len(forkHistory)
           r == Len(Recent)
<1>1. n \in Nat /\ Slack \in Nat \ {0} /\ ForkWindow \in Nat
  BY WorkersCounted, LifecycleAssumption
<1>2. /\ Recent \in Seq(0 .. ForkWindow + 1)
      /\ r \in Nat /\ r <= h
  BY <1>1, RecentCounted
<1>3. h \in Nat /\ deaths \in 0 .. Slack + 1
  BY DEF ForkInv, PrimaryTypes
<1>4. h <= n + Slack /\ (deaths <= Slack => h <= n + deaths)
  BY DEF ForkInv, HistoryCounted
<1>5. deaths' = IF deaths <= Slack THEN deaths + 1 ELSE deaths
  BY DEF HandleWorkerExit
<1> HIDE DEF n, h, r
<1>6. deaths' \in 0 .. Slack + 1
  BY <1>1, <1>3, <1>5
<1>7. ASSUME primary' = primary, forkHistory' = forkHistory, fatal' = fatal PROVE ForkInv'
  <2>1. PrimaryTypes'
    BY <1>6, <1>7 DEF ForkInv, PrimaryTypes
  <2>2. h' = h /\ n' = n
    BY <1>7 DEF h, n
  <2>3. h <= n + Slack /\ (deaths' <= Slack => h <= n + deaths')
    BY <1>1, <1>3, <1>4, <1>5
  <2>4. HistoryCounted'
    BY <2>2, <2>3 DEF HistoryCounted, h, n
  <2>5. StartIsNoForkBomb'
    BY <1>1, <1>3, <1>5, <1>7 DEF ForkInv, StartIsNoForkBomb
  <2>6. QED BY <2>1, <2>4, <2>5 DEF ForkInv
<1>8. ASSUME ~ForkBombing, forkHistory' = Append(Recent, 0), UNCHANGED <<primary, fatal>>
      PROVE  ForkInv'
  <2>1. r < n + Slack
    BY <1>1, <1>2, <1>8 DEF ForkBombing, FORK_THRESHOLD, r, n
  <2>2. /\ forkHistory' \in Seq(0 .. ForkWindow + 1)
        /\ h' = r + 1
    <3>1. 0 \in 0 .. ForkWindow + 1
      BY <1>1
    <3>2. QED BY <1>2, <1>8, <3>1 DEF h, r
  <2>3. PrimaryTypes'
    BY <1>6, <1>8, <2>2 DEF ForkInv, PrimaryTypes
  <2>4. r + 1 <= n + Slack /\ (deaths' <= Slack => r + 1 <= n + deaths')
    BY <1>1, <1>2, <1>3, <1>4, <1>5, <2>1
  <2>5. HistoryCounted'
    BY <2>2, <2>4 DEF HistoryCounted, h, n
  <2>6. StartIsNoForkBomb'
    BY <1>1, <1>3, <1>5, <1>8 DEF ForkInv, StartIsNoForkBomb
  <2>7. QED BY <2>3, <2>5, <2>6 DEF ForkInv
<1>9. ASSUME ForkBombing, forkHistory' = Recent, primary' = "exited", fatal' = TRUE
      PROVE  ForkInv'
  <2>1. r >= n + Slack
    BY <1>9 DEF ForkBombing, FORK_THRESHOLD, r, n
  <2>2. h' = r
    BY <1>9 DEF h, r
  <2>3. PrimaryTypes'
    BY <1>2, <1>6, <1>9 DEF ForkInv, PrimaryTypes
  <2>4. /\ r <= n + Slack
        /\ deaths' > Slack
    BY <1>1, <1>2, <1>3, <1>4, <1>5, <2>1
  <2>5. HistoryCounted'
    <3>1. ~ (deaths' <= Slack)
      BY <1>1, <1>6, <2>4
    <3>2. QED BY <2>2, <2>4, <3>1 DEF HistoryCounted, h, n
  <2>6. StartIsNoForkBomb'
    BY <2>4 DEF StartIsNoForkBomb
  <2>7. QED BY <2>3, <2>5, <2>6 DEF ForkInv
<1>10. QED BY <1>7, <1>8, <1>9 DEF HandleWorkerExit, ForkWorker

LEMMA StepForkInv == ForkInv /\ [Next]_vars => ForkInv'
<1> SUFFICES ASSUME ForkInv, [Next]_vars PROVE ForkInv'
  OBVIOUS
<1>1. ASSUME UNCHANGED <<forkHistory, deaths, fatal>>,
             primary' \in {primary, "stopping", "waiting", "exited"}
      PROVE  ForkInv'
  BY <1>1 DEF ForkInv, PrimaryTypes, HistoryCounted, StartIsNoForkBomb
<1>2. ASSUME NEW w \in Workers, WorkerStep(w) PROVE ForkInv'
  <2>1. UNCHANGED primaryVars
    BY <1>2 DEF WorkerStep, Boot, RequestArrives, RequestEnds, Message, Handle, OsSignal,
       Closed, ResourcesClosed, TimedOut, Crash, Orphaned, Exit
  <2>2. QED BY <1>1, <2>1 DEF primaryVars
<1>3. ASSUME NEW w \in Workers, HandleWorkerExit(w) PROVE ForkInv'
  BY <1>3, ExitKeepsForkInv
<1>4. CASE Signal \/ StopReturns \/ PrimaryTimeout \/ UNCHANGED vars
  BY <1>1, <1>4 DEF Signal, StopReturns, PrimaryTimeout, vars, primaryVars
<1>5. CASE Tick
  <2>1. /\ forkHistory \in Seq(0 .. ForkWindow + 1)
        /\ ForkWindow \in Nat
    BY LifecycleAssumption DEF ForkInv, PrimaryTypes
  <2>2. forkHistory' = [i \in DOMAIN forkHistory |->
          IF forkHistory[i] <= ForkWindow THEN forkHistory[i] + 1 ELSE forkHistory[i]]
    BY <1>5 DEF Tick
  <2>3. forkHistory' \in Seq(0 .. ForkWindow + 1) /\ Len(forkHistory') = Len(forkHistory)
    <3>1. ASSUME NEW i \in DOMAIN forkHistory
          PROVE  forkHistory'[i] \in 0 .. ForkWindow + 1
      BY <2>1, <2>2
    <3>2. Len(forkHistory) \in Nat /\ DOMAIN forkHistory' = 1 .. Len(forkHistory)
      BY <2>1, <2>2
    <3>3. QED BY <2>1, <2>2, <3>1, <3>2
  <2>4. UNCHANGED <<primary, deaths, fatal>>
    BY <1>5 DEF Tick
  <2>5. QED BY <2>3, <2>4 DEF ForkInv, PrimaryTypes, HistoryCounted, StartIsNoForkBomb
<1>6. QED BY <1>2, <1>3, <1>4, <1>5 DEF Next

LEMMA StepSignalTypes == SignalTypes /\ [Next]_vars => SignalTypes'
<1> SUFFICES ASSUME SignalTypes, [Next]_vars PROVE SignalTypes'
  OBVIOUS
<1>1. ASSUME NEW w \in Workers, WorkerStep(w) PROVE SignalTypes'
  <2>1. channel' \in {channel, channel \ {w}} /\ twice' \in {twice, twice \ {w}, twice \cup {w}}
    BY <1>1 DEF WorkerStep, Boot, RequestArrives, RequestEnds, Message, Handle, HandleSignal,
       OsSignal, Closed, ResourcesClosed, TimedOut, Crash, Orphaned, Exit
  <2>2. QED BY <2>1 DEF SignalTypes
<1>2. ASSUME NEW w \in Workers, HandleWorkerExit(w) PROVE SignalTypes'
  BY <1>2 DEF HandleWorkerExit, SignalTypes
<1>3. CASE Signal
  BY <1>3 DEF Signal, Live, SignalTypes
<1>4. CASE StopReturns \/ PrimaryTimeout \/ Tick \/ UNCHANGED vars
  BY <1>4 DEF StopReturns, PrimaryTimeout, Tick, vars, workerVars, SignalTypes
<1>5. QED BY <1>1, <1>2, <1>3, <1>4 DEF Next

------------------------------------------------------------------------------
(* Theorems *)

\* Every state satisfies the invariant.
THEOREM Invariance == Spec => []IInv
<1>1. QED BY InitIInv, StepIInv, PTL DEF Spec

\* forkHistory has an entry for each fork of start() and one for each death that was
\* counted at most, and never more than workers and slack (clusterManager.ts:78-104).
THEOREM ForkInvariance == Spec => []ForkInv
<1>1. QED BY InitForkInv, StepForkInv, PTL DEF Spec

\* The types, of the primary, its signals and its workers.
THEOREM TypeCorrect == Spec => []TypeOK
<1>1. Init => SignalTypes
  BY DEF Init, SignalTypes
<1>2. Spec => []SignalTypes
  BY <1>1, StepSignalTypes, PTL DEF Spec
<1>3. IInv /\ ForkInv /\ SignalTypes => TypeOK
  BY DEF IInv, WorkerTypes, ForkInv, PrimaryTypes, SignalTypes, TypeOK
<1>4. QED BY Invariance, ForkInvariance, <1>2, <1>3, PTL

\* However many workers die and however fast, no window has more forks than the threshold
\* of isForkBombing admits.
THEOREM ForksStayBounded == Spec => []ForkRateBounded
<1>1. ForkInv => ForkRateBounded
  <2> SUFFICES ASSUME ForkInv PROVE ForkRateBounded
    OBVIOUS
  <2>1. Len(Recent) \in Nat /\ Len(Recent) <= Len(forkHistory)
    BY RecentCounted
  <2>2. Len(forkHistory) \in Nat /\ Len(forkHistory) <= Cardinality(Workers) + Slack
    BY DEF ForkInv, PrimaryTypes, HistoryCounted
  <2>3. Cardinality(Workers) \in Nat /\ Slack \in Nat
    BY WorkersCounted, LifecycleAssumption
  <2>4. QED BY <2>1, <2>2, <2>3 DEF ForkRateBounded
<1>2. QED BY ForkInvariance, <1>1, PTL

\* start() forks all workers at once, and as long as no more died than the slack, the
\* primary does not take that for a fork bomb.
THEOREM NoEarlyForkBomb == Spec => []StartIsNoForkBomb
<1>1. ForkInv => StartIsNoForkBomb
  BY DEF ForkInv
<1>2. QED BY ForkInvariance, <1>1, PTL

\* However signals, messages and deaths follow one another, a process leaves requests
\* behind only if it crashed, its time or the primary's was up (specifications.md:48), or
\* the primary gave up on a fork bomb and took it along (clusterManager.ts:81-83).
THEOREM NaturalCompletion == Spec => RequestsDrained
<1>1. IInv /\ [Next]_vars => [Drained]_vars
  BY StepIInv
<1>2. RequestsDrained <=> [][Drained]_vars
  BY PTL DEF RequestsDrained, Drained
<1>3. QED BY Invariance, <1>1, <1>2, PTL DEF Spec

================================================================================
