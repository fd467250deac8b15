------------------------------ MODULE Lifecycle -------------------------------
(***************************************************************************)
(* The processes of one deployment, from the forks of start() to the last  *)
(* exit: the primary's ClusterManager                                      *)
(* (src/src/bootstrap/cluster/clusterManager.ts), the ShutdownManager of   *)
(* each HTTP worker (src/src/bootstrap/lifecycle/shutdown.ts, server.ts).  *)
(* What a worker does to the handlers, the pool and Redis, and the single  *)
(* process of WORKER_COUNT 1, are the subject of Teardown.                 *)
(***************************************************************************)
EXTENDS Naturals, Sequences, FiniteSets

CONSTANTS
  Workers,     \* one name for a worker process and those forked in its place
  Slack,       \* FORK_THRESHOLD is the number of workers plus this
  ForkWindow,  \* FORK_WINDOW_MS, in ticks of the clock
  MaxRequests  \* bound on the requests a worker has under way

ASSUME LifecycleAssumption ==
  /\ IsFiniteSet(Workers)
  /\ Slack \in Nat \ {0} /\ ForkWindow \in Nat /\ MaxRequests \in Nat

VARIABLES
  primary,     \* "up", "stopping" (in analyticsWorker.stop()), "waiting" (for
               \* its timer), "exited"
  forkHistory, \* the ages of the forks it remembers, oldest first; ages beyond
               \* ForkWindow + 1 are all the same
  deaths,      \* exits of workers it has been told of, up to Slack + 1
  fatal,       \* it gave up, with exit code 1
  worker,      \* "booting", "up", "draining", "closing", "gone" (the primary has
               \* not been told), "down"
  channel,     \* workers with a SHUTDOWN message on its way
  twice,       \* workers whose handleSignal ran again before the server closed
  inflight,    \* [Workers -> HTTP requests under way]
  ending       \* what made its last process end: "crash", "timeout" (its own or the
               \* primary's time was up), "orphaned" (the primary gave up), "exit" (any
               \* other call of process.exit)

primaryVars == <<primary, forkHistory, deaths, fatal>>
workerVars == <<worker, channel, twice, inflight, ending>>
vars == <<primaryVars, workerVars>>

Live == {w \in Workers : worker[w] \notin {"gone", "down"}}

\* start() has forked every worker.
Init ==
  /\ primary = "up"
  /\ forkHistory = [i \in 1 .. Cardinality(Workers) |-> 0]
  /\ deaths = 0
  /\ fatal = FALSE
  /\ worker = [w \in Workers |-> "booting"]
  /\ channel = {}
  /\ twice = {}
  /\ inflight = [w \in Workers |-> 0]
  /\ ending = [w \in Workers |-> "none"]

------------------------------------------------------------------------------
(* A worker *)

Become(w, l) == worker' = [worker EXCEPT ![w] = l]

\* The process is no more, nor what it had under way.
Exit(w, why) ==
  /\ Become(w, "gone")
  /\ ending' = [ending EXCEPT ![w] = why]
  /\ inflight' = [inflight EXCEPT ![w] = 0]
  /\ channel' = channel \ {w}
  /\ twice' = twice \ {w}
  /\ UNCHANGED primaryVars

\* startServer: the port is bound, the handlers are installed.
Boot(w) ==
  /\ worker[w] = "booting"
  /\ Become(w, "up")
  /\ UNCHANGED <<primaryVars, channel, twice, inflight, ending>>

RequestArrives(w) ==
  /\ worker[w] = "up" /\ inflight[w] < MaxRequests
  /\ inflight' = [inflight EXCEPT ![w] = inflight[w] + 1]
  /\ UNCHANGED <<primaryVars, worker, channel, twice, ending>>

\* Mutant: the end of a request is counted on 'finish' and again on 'close'.
RequestEndsTwice(w) ==
  /\ inflight[w] > 0
  /\ inflight' = [inflight EXCEPT ![w] = inflight[w] - 2]
  /\ UNCHANGED <<primaryVars, worker, channel, twice, ending>>

RequestEnds(w) ==
  /\ inflight[w] > 0
  /\ inflight' = [inflight EXCEPT ![w] = inflight[w] - 1]
  /\ UNCHANGED <<primaryVars, worker, channel, twice, ending>>

\* handleSignal: server.close() and a timer.  It does not ask whether it ran before:
\* its second call of close() reports an error, but not before the server closed.
HandleSignal(w) ==
  \/ worker[w] = "up" /\ Become(w, "draining") /\ UNCHANGED twice
  \/ worker[w] = "draining" /\ twice' = twice \cup {w} /\ UNCHANGED worker

\* In "closing" the error of the second close() is immediate, and exit(1) follows.
Handle(w) ==
  \/ /\ HandleSignal(w)
     /\ channel' = channel \ {w}
     /\ UNCHANGED <<primaryVars, inflight, ending>>
  \/ worker[w] = "closing" /\ Exit(w, "exit")

\* SHUTDOWN arrives and is turned into a SIGTERM; before the listener is there it
\* waits in the channel.
Message(w) == w \in channel /\ Handle(w)

\* The worker is sent a signal itself, as by Ctrl-C to the process group.
OsSignal(w) ==
  \/ HandleSignal(w) /\ UNCHANGED <<primaryVars, channel, inflight, ending>>
  \/ worker[w] \in {"booting", "closing"} /\ Exit(w, "exit")

\* Mutant: the connections are not waited for.
ClosedAtOnce(w) ==
  /\ worker[w] = "draining"
  /\ Exit(w, "exit")

\* The last connection ends and the timer is cleared: on to the resources, unless
\* the error of a second close() is reported along with it.
Closed(w) ==
  /\ worker[w] = "draining" /\ inflight[w] = 0
  /\ \/ w \notin twice /\ Become(w, "closing") /\ UNCHANGED <<primaryVars, channel, twice, inflight, ending>>
     \/ w \in twice /\ Exit(w, "exit")

\* pool.end() and redis.quit() have settled: exit(0).
ResourcesClosed(w) == worker[w] = "closing" /\ Exit(w, "exit")

\* SHUTDOWN_TIMEOUT_MS after handleSignal: exit(1), requests or not.
TimedOut(w) == worker[w] = "draining" /\ Exit(w, "timeout")

\* The boot fails, an exception is not caught, memory runs out.
Crash(w) == w \in Live /\ Exit(w, "crash")

------------------------------------------------------------------------------
(* The primary *)

\* Mutant: the limit leaves no room for the forks of start() (specifications.md:38).
FixedThreshold == Slack

FORK_THRESHOLD == Cardinality(Workers) + Slack

\* The ages of a history that are within the window, in their order: the filter of
\* isForkBombing as a recursive function, which the proofs can reason about.
Within(history) ==
  LET kept[i \in 0 .. Len(history)] ==
        IF i = 0 THEN <<>>
        ELSE IF history[i] <= ForkWindow THEN Append(kept[i - 1], history[i])
        ELSE kept[i - 1]
  IN  kept[Len(history)]

Recent == Within(forkHistory)

\* Mutant: the history may exceed the threshold before it counts.
ForkBombingLate == Len(Recent) > FORK_THRESHOLD

ForkBombing == Len(Recent) >= FORK_THRESHOLD

\* forkWorker: a new process, or exit(1).
ForkWorker(w) ==
  \/ /\ ~ForkBombing
     /\ forkHistory' = Append(Recent, 0)
     /\ Become(w, "booting")
     /\ UNCHANGED <<primary, fatal>>
  \/ /\ ForkBombing
     /\ forkHistory' = Recent
     /\ Become(w, "down")
     /\ primary' = "exited"
     /\ fatal' = TRUE

\* The event 'exit' of a worker.
HandleWorkerExit(w) ==
  /\ primary # "exited" /\ worker[w] = "gone"
  /\ deaths' = IF deaths <= Slack THEN deaths + 1 ELSE deaths
  /\ \/ primary = "up" /\ ForkWorker(w)
     \/ primary # "up" /\ Become(w, "down") /\ UNCHANGED <<primary, forkHistory, fatal>>
  /\ UNCHANGED <<channel, twice, inflight, ending>>

\* SIGTERM or SIGINT.  cluster.workers holds those the primary was not told had
\* exited.
Signal ==
  /\ primary = "up"
  /\ primary' = "stopping"
  /\ channel' = channel \cup Live
  /\ UNCHANGED <<forkHistory, deaths, fatal, worker, twice, inflight, ending>>

\* analyticsWorker.stop() returns (or throws, which is logged): the timer is set.
StopReturns ==
  /\ primary = "stopping"
  /\ primary' = "waiting"
  /\ UNCHANGED <<forkHistory, deaths, fatal, workerVars>>

\* Mutant: the timer is not set.
NoTimer == FALSE

\* SHUTDOWN_TIMEOUT_MS later: exit(0), whether the workers are gone or not.
PrimaryTimeout ==
  /\ primary = "waiting"
  /\ primary' = "exited"
  /\ UNCHANGED <<forkHistory, deaths, fatal, workerVars>>

\* A worker whose channel to the primary closes exits, as node's cluster has it: the
\* primary's time was up, or it took the forks for a fork bomb.
Orphaned(w) ==
  /\ primary = "exited" /\ w \in Live
  /\ Exit(w, IF fatal THEN "orphaned" ELSE "timeout")

Tick ==
  /\ \E i \in DOMAIN forkHistory : forkHistory[i] <= ForkWindow
  /\ forkHistory' = [i \in DOMAIN forkHistory |->
       IF forkHistory[i] <= ForkWindow THEN forkHistory[i] + 1 ELSE forkHistory[i]]
  /\ UNCHANGED <<primary, deaths, fatal, workerVars>>

------------------------------------------------------------------------------

WorkerStep(w) ==
  \/ Boot(w) \/ RequestArrives(w) \/ RequestEnds(w) \/ Message(w) \/ OsSignal(w)
  \/ Closed(w) \/ ResourcesClosed(w) \/ TimedOut(w) \/ Crash(w) \/ Orphaned(w)

Next ==
  \/ \E w \in Workers : WorkerStep(w) \/ HandleWorkerExit(w)
  \/ Signal \/ StopReturns \/ PrimaryTimeout \/ Tick

Spec == Init /\ [][Next]_vars

\* What the runtime guarantees: timers fire, events are delivered.  Neither that a
\* request ends nor that the resources close; but that the last flush of the
\* analytics does: the timer waits for it.
Fairness ==
  /\ WF_vars(StopReturns) /\ WF_vars(PrimaryTimeout)
  /\ \A w \in Workers : WF_vars(HandleWorkerExit(w)) /\ WF_vars(Orphaned(w))

FairSpec == Spec /\ Fairness

------------------------------------------------------------------------------
(* Properties *)

TypeOK ==
  /\ primary \in {"up", "stopping", "waiting", "exited"}
  /\ forkHistory \in Seq(0 .. ForkWindow + 1)
  /\ deaths \in 0 .. Slack + 1
  /\ fatal \in BOOLEAN
  /\ worker \in [Workers -> {"booting", "up", "draining", "closing", "gone", "down"}]
  /\ channel \subseteq Workers
  /\ twice \subseteq Workers
  /\ inflight \in [Workers -> 0 .. MaxRequests]
  /\ ending \in [Workers -> {"none", "crash", "timeout", "orphaned", "exit"}]

\* In no window of FORK_WINDOW_MS does the primary fork more than FORK_THRESHOLD
\* processes, whatever is purged of its history in between.
ForkRateBounded == Len(Recent) <= Cardinality(Workers) + Slack

\* The primary takes nothing for a fork bomb before Slack + 1 workers have died,
\* though start() alone forks as many processes as there are workers.
StartIsNoForkBomb == fatal => deaths > Slack

\* Why the process w may leave with requests under way: it crashed; its own time was up
\* after a signal, or the primary's; or the primary took the forks for a fork bomb and
\* left with code 1 (clusterManager.ts:81-83), which takes every live worker along,
\* signal or none.
Excused(w) ==
  \/ ending'[w] = "crash"
  \/ ending'[w] = "timeout" /\ (worker[w] = "draining" \/ (primary = "exited" /\ ~fatal))
  \/ ending'[w] = "orphaned" /\ primary = "exited" /\ fatal

\* "Existing HTTP requests are allowed to complete naturally" (specifications.md:48):
\* however signals, messages and exits follow one another, nothing else ends a process
\* that has requests under way.
RequestsDrained ==
  [][\A w \in Workers :
       inflight[w] > 0 /\ worker'[w] \in {"gone", "down"} => Excused(w)]_vars

\* "a hard timeout (SHUTDOWN_TIMEOUT_MS) acts as a safeguard" (README.md:62): once
\* the last flush is over every process ends, requests and resources that hang
\* notwithstanding.
ShutdownEnds == primary = "stopping" ~> primary = "exited" /\ Live = {}

================================================================================
