---------------------------- MODULE TeardownProofs -----------------------------
(***************************************************************************)
(* The safety of Teardown, for any number of requests and any pool.        *)
(***************************************************************************)
EXTENDS Teardown, FiniteSetTheorems, TLAPS

------------------------------------------------------------------------------
(* The inductive invariant *)

FlushHolds == flush \in {"persist", "requeue"}

\* What the order server, pool, Redis gives at each stage: before the pool ends nobody
\* was refused a client; after it nobody is connected, since the server closed first;
\* QUIT finds every client back; and exit(0) comes after QUIT.  Nothing is said of the
\* clicks: what a trackClick sends behind QUIT is never answered, so NoClickCutOff fails.
Order ==
  /\ PoolOpen => refused = {}
  /\ ~PoolOpen => conn = {}
  /\ phase = "quitting" => Holders = {} /\ ~FlushHolds
  /\ exit = "clean" => phase = "quitting"

IInv == TypeOK /\ Order

------------------------------------------------------------------------------
(* Lemmas *)

\* Types without the pool's limit, which needs a count.
Shape ==
  /\ single \in BOOLEAN /\ twice \in BOOLEAN
  /\ phase \in {"up", "draining", "ending", "quitting"}
  /\ exit \in {"none", "clean", "failed", "stopped"}
  /\ conn \subseteq Requests /\ refused \subseteq Requests
  /\ pc \in [Requests -> {"idle", "connect", "lookup", "tx", "warm", "rollback",
                          "get", "select", "fill"}]
  /\ tpc \in [Requests -> {"idle", "llen", "hincrby", "sadd", "rpush", "behind"}]
  /\ flush \in {"idle", "pop", "connect", "persist", "requeue", "behind"}

LEMMA TypeSplits == TypeOK <=> Shape /\ Held <= PoolMax
  BY DEF TypeOK, Shape

\* The clients that are out are finitely many.
LEMMA HoldersFinite ==
  /\ IsFiniteSet(Holders) /\ Cardinality(Holders) \in Nat
  /\ IsFiniteSet(Holders') /\ Cardinality(Holders') \in Nat
<1>1. Holders \subseteq Requests /\ Holders' \subseteq Requests
  BY DEF Holders
<1>2. IsFiniteSet(Holders) /\ IsFiniteSet(Holders')
  BY <1>1, FS_Subset, TeardownAssumption
<1>3. QED BY <1>2, FS_CardinalityType

\* A step of a handler keeps the types.
LEMMA HandlerShape ==
  ASSUME Shape, NEW r \in Requests, Handler(r) PROVE Shape'
<1> USE DEF Shape, Handler, Goto, Respond, Redirect, Sent
<1>3. CASE Connect(r) BY <1>3 DEF Connect
<1>4. CASE NoClient(r) BY <1>4 DEF NoClient
<1>5. CASE Transact(r) BY <1>5 DEF Transact
<1>6. CASE Warm(r) BY <1>6 DEF Warm
<1>7. CASE Rollback(r) BY <1>7 DEF Rollback
<1>8. CASE Get(r) BY <1>8 DEF Get
<1>9. CASE Select(r) BY <1>9 DEF Select
<1>10. CASE Fill(r) BY <1>10 DEF Fill
<1>11. QED
  BY <1>3, <1>4, <1>5, <1>6, <1>7, <1>8, <1>9, <1>10

\* So does every step.
LEMMA StepShape == Shape /\ [Next]_vars => Shape'
<1> SUFFICES ASSUME Shape, [Next]_vars PROVE Shape'
  OBVIOUS
<1> USE DEF Shape
<1>1. ASSUME NEW r \in Requests, Arrive(r) PROVE Shape'
  BY <1>1 DEF Arrive, Goto
<1>2. ASSUME NEW r \in Requests, HangUp(r) PROVE Shape'
  BY <1>2 DEF HangUp
<1>3. ASSUME NEW r \in Requests, Handler(r) PROVE Shape'
  BY <1>3, HandlerShape
<1>4. ASSUME NEW r \in Requests, Track(r) PROVE Shape'
  <2>1. tpc[r] # "rpush" => Sent(NextCommand[tpc[r]]) \in {"hincrby", "sadd", "rpush", "behind"}
    BY <1>4 DEF Track, Sent, NextCommand
  <2>2. tpc' \in [Requests -> {"idle", "llen", "hincrby", "sadd", "rpush", "behind"}]
    BY <1>4, <2>1 DEF Track
  <2>3. QED BY <1>4, <2>2 DEF Track
<1>5. CASE FlushTick BY <1>5 DEF FlushTick
<1>6. CASE Flush BY <1>6 DEF Flush, FlushEnds
<1>7. CASE Signal BY <1>7 DEF Signal
<1>8. CASE SignalAgain BY <1>8 DEF SignalAgain
<1>9. CASE ServerClosed BY <1>9 DEF ServerClosed
<1>10. CASE DrainTimesOut BY <1>10 DEF DrainTimesOut
<1>11. CASE PoolEnded BY <1>11 DEF PoolEnded
<1>12. CASE QuitAnswered BY <1>12 DEF QuitAnswered
<1>13. CASE UNCHANGED vars BY <1>13 DEF vars
<1>14. QED
  BY <1>1, <1>2, <1>3, <1>4, <1>5, <1>6, <1>7, <1>8, <1>9, <1>10, <1>11, <1>12, <1>13
     DEF Next

\* Nobody takes a client that was not there: what is out shrinks, or one more goes out
\* of a pool that is open and has one left.
NoneTaken == Holders' \subseteq Holders /\ (FlushHolds' => FlushHolds)
OneTaken ==
  /\ PoolOpen /\ Held < PoolMax
  /\ \/ (FlushHolds' => FlushHolds) /\ \E r \in Requests : Holders' \subseteq Holders \cup {r}
     \/ Holders' \subseteq Holders

\* Only Connect takes a client for a handler.
LEMMA HandlerTakes ==
  ASSUME Shape, NEW r \in Requests, Handler(r) PROVE NoneTaken \/ OneTaken
<1>1. flush' = flush /\ (FlushHolds' => FlushHolds)
  BY DEF Handler, FlushHolds
<1>2. CASE Connect(r)
  <2>1. Holders' \subseteq Holders \cup {r}
    BY <1>2 DEF Shape, Connect, Goto, Holders
  <2>2. QED BY <1>1, <1>2, <2>1 DEF OneTaken, Connect
<1>3. CASE NoClient(r)
  BY <1>1, <1>3 DEF Shape, NoClient, Respond, Goto, Holders, NoneTaken
<1>4. CASE Transact(r)
  BY <1>1, <1>4 DEF Shape, Transact, Goto, Holders, NoneTaken
<1>5. CASE Warm(r)
  BY <1>1, <1>5 DEF Shape, Warm, Respond, Goto, Holders, NoneTaken
<1>6. CASE Rollback(r)
  BY <1>1, <1>6 DEF Shape, Rollback, Respond, Goto, Holders, NoneTaken
<1>7. CASE Get(r)
  BY <1>1, <1>7 DEF Shape, Get, Redirect, Goto, Holders, NoneTaken
<1>8. CASE Select(r)
  BY <1>1, <1>8 DEF Shape, Select, Respond, Goto, Holders, NoneTaken
<1>9. CASE Fill(r)
  BY <1>1, <1>9 DEF Shape, Fill, Redirect, Goto, Holders, NoneTaken
<1>10. QED
  BY <1>2, <1>3, <1>4, <1>5, <1>6, <1>7, <1>8, <1>9 DEF Handler

\* So it is for every step.
LEMMA StepTakes == Shape /\ [Next]_vars => NoneTaken \/ OneTaken
<1> SUFFICES ASSUME Shape, [Next]_vars PROVE NoneTaken \/ OneTaken
  OBVIOUS
<1>1. ASSUME NEW r \in Requests, Arrive(r) PROVE NoneTaken
  BY <1>1 DEF Shape, Arrive, Goto, NoneTaken, Holders, FlushHolds
<1>2. ASSUME NEW r \in Requests, Handler(r) PROVE NoneTaken \/ OneTaken
  BY <1>2, HandlerTakes
<1>3. CASE Flush
  <2>1. Holders' = Holders
    BY <1>3 DEF Flush, Holders
  <2>2. QED BY <1>3, <2>1 DEF Flush, FlushEnds, NoneTaken, OneTaken, FlushHolds
<1>4. ASSUME pc' = pc, flush' = flush \/ flush' = "pop" PROVE NoneTaken
  BY <1>4 DEF NoneTaken, Holders, FlushHolds
<1>5. ASSUME NEW r \in Requests, HangUp(r) \/ Track(r) PROVE NoneTaken
  BY <1>4, <1>5 DEF HangUp, Track
<1>6. CASE FlushTick \/ Signal \/ SignalAgain
  BY <1>4, <1>6 DEF FlushTick, Signal, SignalAgain
<1>7. CASE ServerClosed \/ DrainTimesOut \/ PoolEnded \/ QuitAnswered
  BY <1>4, <1>7 DEF ServerClosed, DrainTimesOut, PoolEnded, QuitAnswered
<1>8. CASE UNCHANGED vars
  BY <1>4, <1>8 DEF vars
<1>9. QED
  BY <1>1, <1>2, <1>3, <1>5, <1>6, <1>7, <1>8 DEF Next

\* The pool's limit holds, since who takes a client looked at it.
LEMMA StepHeld == Shape /\ Held <= PoolMax /\ [Next]_vars => Held' <= PoolMax
<1> SUFFICES ASSUME Shape, Held <= PoolMax, [Next]_vars PROVE Held' <= PoolMax
  OBVIOUS
<1> DEFINE c  == Cardinality(Holders)
           d  == Cardinality(Holders')
           f  == IF FlushHolds THEN 1 ELSE 0
           g  == IF FlushHolds' THEN 1 ELSE 0
<1>1. c \in Nat /\ d \in Nat /\ PoolMax \in Nat
  BY HoldersFinite, TeardownAssumption
<1>2. Held = c + f /\ Held' = d + g
  BY DEF Held, FlushHolds
<1>3. ASSUME Holders' \subseteq Holders PROVE d <= c
  BY <1>3, HoldersFinite, FS_Subset
<1>4. ASSUME NEW r \in Requests, Holders' \subseteq Holders \cup {r} PROVE d <= c + 1
  <2>1. /\ IsFiniteSet(Holders \cup {r})
        /\ Cardinality(Holders \cup {r}) = c \/ Cardinality(Holders \cup {r}) = c + 1
    BY HoldersFinite, FS_AddElement
  <2>2. d <= Cardinality(Holders \cup {r})
    BY <1>4, <2>1, FS_Subset
  <2>3. QED BY <1>1, <2>1, <2>2
<1>5. CASE NoneTaken
  <2>1. d <= c /\ (FlushHolds' => FlushHolds)
    BY <1>3, <1>5 DEF NoneTaken
  <2>2. QED BY <1>1, <1>2, <2>1
<1>6. CASE OneTaken
  <2>1. \/ d <= c + 1 /\ (FlushHolds' => FlushHolds)
        \/ d <= c
    BY <1>3, <1>4, <1>6 DEF OneTaken
  <2>2. Held < PoolMax
    BY <1>6 DEF OneTaken
  <2> HIDE DEF c, d
  <2>3. f \in {0, 1} /\ g \in {0, 1}
    OBVIOUS
  <2>4. d + g <= c + f + 1
    BY <1>1, <2>1
  <2>5. QED BY <1>1, <1>2, <2>2, <2>3, <2>4
<1>7. QED BY <1>5, <1>6, StepTakes

\* No client is out exactly when nobody holds one.
LEMMA HeldZero == Held = 0 <=> Holders = {} /\ ~FlushHolds
<1>1. Cardinality(Holders) \in Nat /\ (Cardinality(Holders) = 0 <=> Holders = {})
  BY HoldersFinite, FS_EmptySet
<1>2. Held = Cardinality(Holders) + IF FlushHolds THEN 1 ELSE 0
  BY DEF Held, FlushHolds
<1>3. QED BY <1>1, <1>2

------------------------------------------------------------------------------
(* The invariant is inductive *)

LEMMA InitIInv == Init => IInv
<1> SUFFICES ASSUME Init PROVE IInv
  OBVIOUS
<1>1. Shape
  BY DEF Init, Shape
<1>2. Holders = {} /\ ~FlushHolds
  BY DEF Init, Holders, FlushHolds
<1>3. Held <= PoolMax
  BY <1>2, HeldZero, TeardownAssumption
<1>4. Order
  BY DEF Init, Order, PoolOpen
<1>5. QED BY <1>1, <1>3, <1>4, TypeSplits DEF IInv

\* Who is connected, who was refused and how far the shutdown is: a connection opens
\* only before the signal, and a handler is refused only by a pool that has ended.
LEMMA StepOrder == Shape /\ Order /\ [Next]_vars => Order'
<1> SUFFICES ASSUME Shape, Order, [Next]_vars PROVE Order'
  OBVIOUS
<1> USE DEF PoolOpen
<1>1. CASE UNCHANGED vars
  BY <1>1 DEF vars, Order, Holders, FlushHolds
<1>2. CASE Next
  <2>1. exit = "none"
    BY <1>2 DEF Next, Arrive, HangUp, Handler, Track, FlushTick, Flush, Signal,
                SignalAgain, ServerClosed, DrainTimesOut, PoolEnded, QuitAnswered
  <2>2. \/ phase' = phase
        \/ phase = "up" /\ phase' = "draining" /\ UNCHANGED <<conn, refused>>
        \/ phase = "draining" /\ phase' = "ending" /\ conn = {} /\ UNCHANGED <<conn, refused>>
        \/ PoolEnded
    BY <1>2 DEF Next, Arrive, HangUp, Handler, Track, FlushTick, Flush, Signal,
                SignalAgain, ServerClosed, DrainTimesOut, QuitAnswered
  <2>3. (PoolOpen => refused = {})'
    <3>1. ASSUME NEW r \in Requests, Handler(r), PoolOpen PROVE refused' = refused
      BY <3>1 DEF Handler, Connect, NoClient, Transact, Warm, Rollback, Get, Select, Fill
    <3>2. PoolOpen => refused' = refused
      BY <1>2, <3>1 DEF Next, Arrive, HangUp, Track, FlushTick, Flush, Signal,
                SignalAgain, ServerClosed, DrainTimesOut, PoolEnded, QuitAnswered
    <3>3. PoolOpen' => PoolOpen
      BY <2>2 DEF PoolEnded
    <3>4. QED BY <3>2, <3>3 DEF Order
  <2>4. (~PoolOpen => conn = {})'
    <3>1. conn = {} /\ phase # "up" => conn' = {}
      BY <1>2 DEF Next, Arrive, HangUp, Handler, Track, FlushTick, Flush, Signal,
                  SignalAgain, ServerClosed, DrainTimesOut, PoolEnded, QuitAnswered
    <3>2. ~PoolOpen' => conn = {} /\ phase # "up"
      BY <2>2 DEF PoolEnded, Order
    <3>3. QED BY <3>1, <3>2
  <2>5. (phase = "quitting" => Holders = {} /\ ~FlushHolds)'
    <3>1. CASE PoolEnded
      <4>1. Holders = {} /\ ~FlushHolds
        BY <3>1, HeldZero DEF PoolEnded
      <4>2. QED BY <3>1, <4>1 DEF PoolEnded, Holders, FlushHolds
    <3>2. CASE ~PoolEnded
      <4>1. phase' = "quitting" => phase = "quitting"
        BY <2>2, <3>2
      <4>2. phase = "quitting" => NoneTaken
        BY StepTakes DEF OneTaken
      <4>3. QED BY <4>1, <4>2 DEF Order, NoneTaken
    <3>3. QED BY <3>1, <3>2
  <2>6. (exit = "clean" => phase = "quitting")'
    <3>1. exit' = "clean" => QuitAnswered
      BY <1>2, <2>1 DEF Next, Arrive, HangUp, Handler, Track, FlushTick, Flush, FlushEnds,
                  Signal, SignalAgain, ServerClosed, DrainTimesOut, PoolEnded
    <3>2. QED BY <3>1 DEF QuitAnswered
  <2>7. QED BY <2>3, <2>4, <2>5, <2>6 DEF Order
<1>3. QED BY <1>1, <1>2

LEMMA StepIInv == IInv /\ [Next]_vars => IInv'
<1> SUFFICES ASSUME IInv, [Next]_vars PROVE IInv'
  OBVIOUS
<1>1. Shape /\ Held <= PoolMax /\ Order
  BY TypeSplits DEF IInv
<1>2. Shape' /\ Held' <= PoolMax /\ Order'
  BY <1>1, StepShape, StepHeld, StepOrder
<1>3. TypeOK'
  BY <1>2 DEF TypeOK, Shape
<1>4. QED BY <1>2, <1>3 DEF IInv

------------------------------------------------------------------------------
(* Theorems *)

\* Every state satisfies the invariant.
THEOREM Invariance == Spec => []IInv
<1>1. QED BY InitIInv, StepIInv, PTL DEF Spec

\* The types, and the limit of the pool, which the flush worker shares with the handlers
\* (DB_POOL_MAX, pool.ts).
THEOREM TypeCorrect == Spec => []TypeOK
<1>1. IInv => TypeOK
  BY DEF IInv
<1>2. QED BY Invariance, <1>1, PTL

\* No client that is still connected is refused by a pool that has ended
\* (specifications.md:48): the pool ends when nobody is connected any more.
THEOREM PoolStaysOpen == Spec => []ClientsMeetAnOpenPool
<1>1. IInv => ClientsMeetAnOpenPool
  BY DEF IInv, Order, ClientsMeetAnOpenPool
<1>2. QED BY Invariance, <1>1, PTL

\* closeResources sends QUIT after every transaction has ended, so no link that is stored
\* fails to reach the cache because of the shutdown.
THEOREM WarmBeforeQuit == Spec => []WarmNeverMeetsQuit
<1>1. IInv => WarmNeverMeetsQuit
  BY DEF IInv, Order, WarmNeverMeetsQuit
<1>2. QED BY Invariance, <1>1, PTL

\* handleSignal's exit(0) cuts off no transaction, and no request of a client that is
\* still there.
THEOREM CleanExit == Spec => []CleanExitSeversNothing
<1>1. IInv => CleanExitSeversNothing
  <2> SUFFICES ASSUME IInv, exit = "clean" PROVE CleanExitSeversNothing
    BY DEF CleanExitSeversNothing
  <2>1. phase = "quitting" /\ Holders = {} /\ ~FlushHolds
    BY DEF IInv, Order
  <2>2. conn = {}
    BY <2>1 DEF IInv, Order, PoolOpen
  <2>3. Held = 0
    BY <2>1, HeldZero
  <2>4. QED BY <2>2, <2>3 DEF CleanExitSeversNothing
<1>2. QED BY Invariance, <1>1, PTL

\* What sets a cluster's worker apart: no flush of its own, and no exit(0) of index.ts.
WorkerOfCluster == ~single => flush = "idle" /\ exit # "stopped"

\* In a worker of a cluster, exit(0) severs no transaction (README.md:58): the run
\* teardown_single shows that single-process mode is what it takes.
THEOREM ClusterSeversNothing == Spec => [](~single => NoTransactionSevered)
<1>1. Init => WorkerOfCluster
  BY DEF Init, WorkerOfCluster
<1>2. WorkerOfCluster /\ [Next]_vars => WorkerOfCluster'
  BY DEF WorkerOfCluster, Next, vars, Arrive, HangUp, Handler, Track, FlushTick, Flush,
     Signal, SignalAgain, ServerClosed, DrainTimesOut, PoolEnded, QuitAnswered
<1>3. IInv /\ WorkerOfCluster => (~single => NoTransactionSevered)
  BY DEF IInv, Order, WorkerOfCluster, NoTransactionSevered
<1>4. Spec => []WorkerOfCluster
  BY <1>1, <1>2, PTL DEF Spec
<1>5. QED BY Invariance, <1>3, <1>4, PTL

================================================================================
