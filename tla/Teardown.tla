------------------------------- MODULE Teardown --------------------------------
(***************************************************************************)
(* The last moments of one process that serves HTTP: the ShutdownManager   *)
(* of src/src/bootstrap/lifecycle/shutdown.ts takes away the server, the   *)
(* pool and Redis, in this order, from handlers that may still be running: *)
(* shortenUrl and resolveUrl, and the trackClick calls nobody waits for.   *)
(* In single-process mode src/src/index.ts reacts to the same signal and   *)
(* stops its flush worker.  A step is the code between two awaits.         *)
(***************************************************************************)
EXTENDS Naturals, FiniteSets

CONSTANTS
  Requests,  \* slots: a connection, the handler it runs, the trackClick it left
  PoolMax    \* DB_POOL_MAX

ASSUME TeardownAssumption == IsFiniteSet(Requests) /\ PoolMax \in Nat \ {0}

VARIABLES
  single,    \* WORKER_COUNT is 1: the flush worker runs in this process, too
  phase,     \* what handleSignal waits for: "up" (no signal yet), "draining"
             \* (the server), "ending" (the pool), "quitting" (Redis)
  twice,     \* handleSignal ran again while the server was draining
  exit,      \* "none"; "clean": handleSignal's exit(0); "failed": its exit(1);
             \* "stopped": the exit(0) of index.ts
  conn,      \* slots whose connection is open
  pc,        \* the await each handler stands at
  tpc,       \* the Redis command each trackClick stands at; "behind": one that was
             \* written behind QUIT
  flush,     \* the await the flush stands at; "behind": an LPOP behind QUIT
  refused    \* slots whose handler was refused a client by a pool that had ended

vars == <<single, phase, twice, exit, conn, pc, tpc, flush, refused>>

Init ==
  /\ single \in BOOLEAN
  /\ phase = "up" /\ twice = FALSE /\ exit = "none"
  /\ conn = {}
  /\ pc = [r \in Requests |-> "idle"]
  /\ tpc = [r \in Requests |-> "idle"]
  /\ flush = "idle"
  /\ refused = {}

\* Those that hold a client of the pool, the flush besides.
Holders == {r \in Requests : pc[r] \in {"tx", "warm", "rollback", "select"}}
Held == Cardinality(Holders) + IF flush \in {"persist", "requeue"} THEN 1 ELSE 0

\* pool.end() was called: connect() rejects, and who waits for a client waits until
\* the time is up.
PoolOpen == phase \in {"up", "draining"}

\* No QUIT was sent yet.  quit() leaves ioredis ready, so it writes what comes later,
\* behind QUIT, where Redis does not serve it; it is rejected when the socket closes,
\* which comes after QUIT's OK, and with it after exit(0).
RedisOpen == phase # "quitting"

\* Where a trackClick stands that sends a command.
Sent(l) == IF RedisOpen THEN l ELSE "behind"

------------------------------------------------------------------------------
(* The handlers *)

Goto(r, l) == pc' = [pc EXCEPT ![r] = l]

\* The handler answers, if anybody is there to read it; finally has released.
Respond(r) == Goto(r, "idle") /\ UNCHANGED tpc

\* 302, and trackClick is called but not awaited.
Redirect(r) ==
  /\ Goto(r, "idle")
  /\ tpc' = [tpc EXCEPT ![r] = Sent("llen")]

\* A POST or a GET, on a new connection or on one kept alive.
Arrive(r) ==
  /\ exit = "none" /\ pc[r] = "idle" /\ tpc[r] = "idle"
  /\ phase = "up" \/ r \in conn
  /\ conn' = conn \cup {r}
  /\ Goto(r, "connect") \/ Goto(r, "get")
  /\ UNCHANGED <<single, phase, twice, exit, tpc, flush, refused>>

\* The connection ends; the handler does not notice.
HangUp(r) ==
  /\ exit = "none" /\ r \in conn
  /\ conn' = conn \ {r}
  /\ UNCHANGED <<single, phase, twice, exit, pc, tpc, flush, refused>>

\* Mutant: the pool's limit is not looked at.
ConnectBeyond(r) ==
  /\ PoolOpen
  /\ \/ pc[r] = "connect" /\ Goto(r, "tx")
     \/ pc[r] = "lookup" /\ Goto(r, "select")
  /\ UNCHANGED <<tpc, refused>>

Connect(r) ==
  /\ PoolOpen /\ Held < PoolMax
  /\ \/ pc[r] = "connect" /\ Goto(r, "tx")
     \/ pc[r] = "lookup" /\ Goto(r, "select")
  /\ UNCHANGED <<tpc, refused>>

\* The pool ended, or connectionTimeoutMillis passed: 500.
NoClient(r) ==
  /\ pc[r] \in {"connect", "lookup"}
  /\ Respond(r)
  /\ refused' = IF PoolOpen THEN refused ELSE refused \cup {r}

\* BEGIN to COMMIT, then redis.set with the client still in hand; after an error
\* the catch block.
Transact(r) ==
  /\ pc[r] = "tx"
  /\ Goto(r, "rollback") \/ Goto(r, "warm")
  /\ UNCHANGED <<tpc, refused>>

Warm(r) ==
  /\ pc[r] = "warm"
  /\ Respond(r) \/ (Goto(r, "rollback") /\ UNCHANGED tpc)
  /\ UNCHANGED refused

Rollback(r) == pc[r] = "rollback" /\ Respond(r) /\ UNCHANGED refused

Get(r) ==
  /\ pc[r] = "get"
  /\ Redirect(r) \/ (Goto(r, "lookup") /\ UNCHANGED tpc)
  /\ UNCHANGED refused

\* The SELECT of pool.query, which releases its client: a row, none, or an error.
Select(r) ==
  /\ pc[r] = "select"
  /\ Respond(r) \/ (Goto(r, "fill") /\ UNCHANGED tpc)
  /\ UNCHANGED refused

\* redis.set, whose rejection is swallowed.
Fill(r) == pc[r] = "fill" /\ Redirect(r) /\ UNCHANGED refused

Handler(r) ==
  /\ exit = "none"
  /\ \/ Connect(r) \/ NoClient(r) \/ Transact(r) \/ Warm(r) \/ Rollback(r)
     \/ Get(r) \/ Select(r) \/ Fill(r)
  /\ UNCHANGED <<single, phase, twice, exit, conn, flush>>

NextCommand == [llen |-> "hincrby", hincrby |-> "sadd", sadd |-> "rpush"]

\* The command is served and the next one sent; or it was the last one, or it rejects,
\* or the buffer is full, and the call ends.
Track(r) ==
  /\ exit = "none" /\ tpc[r] \notin {"idle", "behind"}
  /\ \/ tpc' = [tpc EXCEPT ![r] = "idle"]
     \/ tpc[r] # "rpush" /\ tpc' = [tpc EXCEPT ![r] = Sent(NextCommand[@])]
  /\ UNCHANGED <<single, phase, twice, exit, conn, pc, flush, refused>>

------------------------------------------------------------------------------
(* The flush worker of single-process mode *)

\* stop() returns when its flush does, and process.exit(0) follows.
FlushEnds ==
  IF phase = "up" THEN flush' = "idle" /\ UNCHANGED exit
  ELSE exit' = "stopped" /\ UNCHANGED flush

FlushTick ==
  /\ exit = "none" /\ single /\ phase = "up" /\ flush = "idle"
  /\ flush' = "pop"
  /\ UNCHANGED <<single, phase, twice, exit, conn, pc, tpc, refused>>

\* The LPOPs, the client, the transaction and, with the client still in hand, the
\* RPUSHs after a transient error; every rejection ends the flush.
Flush ==
  /\ exit = "none" /\ flush \notin {"idle", "behind"}
  /\ \/ /\ flush = "pop" /\ flush' = "connect"
        /\ UNCHANGED exit
     \/ /\ flush = "pop" /\ ~RedisOpen /\ flush' = "behind"
        /\ UNCHANGED exit
     \/ /\ flush = "connect" /\ PoolOpen /\ Held < PoolMax /\ flush' = "persist"
        /\ UNCHANGED exit
     \/ /\ flush = "persist" /\ flush' = "requeue"
        /\ UNCHANGED exit
     \/ FlushEnds
  /\ UNCHANGED <<single, phase, twice, conn, pc, tpc, refused>>

------------------------------------------------------------------------------
(* The shutdown *)

\* SIGTERM or SIGINT.  In single-process mode stop() starts a last flush, or finds
\* one running, whose isRunning makes its own return at once.
Signal ==
  /\ exit = "none" /\ phase = "up"
  /\ phase' = "draining"
  /\ \/ ~single /\ UNCHANGED <<flush, exit>>
     \/ single /\ flush = "idle" /\ flush' = "pop" /\ UNCHANGED exit
     \/ single /\ flush # "idle" /\ exit' = "stopped" /\ UNCHANGED flush
  /\ UNCHANGED <<single, twice, conn, pc, tpc, refused>>

\* A second one.  server.close() reports that the server was closed: at once, or
\* when it is.  The last flush of single-process mode is still running.
SignalAgain ==
  /\ exit = "none" /\ phase # "up"
  /\ \/ single /\ exit' = "stopped" /\ UNCHANGED twice
     \/ phase # "draining" /\ exit' = "failed" /\ UNCHANGED twice
     \/ ~single /\ phase = "draining" /\ twice' = TRUE /\ UNCHANGED exit
  /\ UNCHANGED <<single, phase, conn, pc, tpc, flush, refused>>

\* Mutant: server.close() is called and not waited for.
ServerClosedAtOnce ==
  /\ exit = "none" /\ phase = "draining"
  /\ IF twice THEN exit' = "failed" /\ UNCHANGED phase
     ELSE phase' = "ending" /\ UNCHANGED exit
  /\ UNCHANGED <<single, twice, conn, pc, tpc, flush, refused>>

\* Mutant: QUIT comes before the end of the pool, as in specifications.md:50.
ServerClosedQuitFirst ==
  /\ exit = "none" /\ phase = "draining" /\ conn = {}
  /\ IF twice THEN exit' = "failed" /\ UNCHANGED phase
     ELSE phase' = "quitting" /\ UNCHANGED exit
  /\ UNCHANGED <<single, twice, conn, pc, tpc, flush, refused>>

\* The last connection ended, whatever the handlers do: drainServer resolves, unless
\* a second call of it rejects along with it.
ServerClosed ==
  /\ exit = "none" /\ phase = "draining" /\ conn = {}
  /\ IF twice THEN exit' = "failed" /\ UNCHANGED phase
     ELSE phase' = "ending" /\ UNCHANGED exit
  /\ UNCHANGED <<single, twice, conn, pc, tpc, flush, refused>>

\* Mutant: there is no timer.
NoTimer == FALSE

\* SHUTDOWN_TIMEOUT_MS passes: exit(1).  The timer covers no more than the drain.
DrainTimesOut ==
  /\ exit = "none" /\ phase = "draining"
  /\ exit' = "failed"
  /\ UNCHANGED <<single, phase, twice, conn, pc, tpc, flush, refused>>

\* Mutant: pool.end() is called and not waited for.
PoolEndedAtOnce ==
  /\ exit = "none" /\ phase = "ending"
  /\ phase' = "quitting"
  /\ UNCHANGED <<single, twice, exit, conn, pc, tpc, flush, refused>>

\* pool.end() waits for the clients that are checked out.
PoolEnded ==
  /\ exit = "none" /\ phase = "ending" /\ Held = 0
  /\ phase' = "quitting"
  /\ UNCHANGED <<single, twice, exit, conn, pc, tpc, flush, refused>>

\* QUIT is answered after every command that was sent before it; exit(0) does not wait
\* for those behind it.
QuitAnswered ==
  /\ exit = "none" /\ phase = "quitting"
  /\ \A r \in Requests : /\ pc[r] \notin {"get", "warm", "fill"}
                         /\ tpc[r] \in {"idle", "behind"}
  /\ flush \notin {"pop", "requeue"}
  /\ exit' = "clean"
  /\ UNCHANGED <<single, phase, twice, conn, pc, tpc, flush, refused>>

Next ==
  \/ \E r \in Requests : Arrive(r) \/ HangUp(r) \/ Handler(r) \/ Track(r)
  \/ FlushTick \/ Flush \/ Signal \/ SignalAgain
  \/ ServerClosed \/ DrainTimesOut \/ PoolEnded \/ QuitAnswered

Spec == Init /\ [][Next]_vars

\* Commands and queries settle (nothing in the code bounds how long they take), the
\* timer fires, close(), end() and quit() report what they wait for.  No client is
\* asked to hang up.
Fairness ==
  /\ \A r \in Requests : WF_vars(Handler(r)) /\ WF_vars(Track(r))
  /\ WF_vars(Flush)
  /\ WF_vars(ServerClosed) /\ WF_vars(DrainTimesOut)
  /\ WF_vars(PoolEnded) /\ WF_vars(QuitAnswered)

FairSpec == Spec /\ Fairness

------------------------------------------------------------------------------
(* Properties *)

\* Types, and DB_POOL_MAX.
TypeOK ==
  /\ single \in BOOLEAN /\ twice \in BOOLEAN
  /\ phase \in {"up", "draining", "ending", "quitting"}
  /\ exit \in {"none", "clean", "failed", "stopped"}
  /\ conn \subseteq Requests /\ refused \subseteq Requests
  /\ pc \in [Requests -> {"idle", "connect", "lookup", "tx", "warm", "rollback",
                          "get", "select", "fill"}]
  /\ tpc \in [Requests -> {"idle", "llen", "hincrby", "sadd", "rpush", "behind"}]
  /\ flush \in {"idle", "pop", "connect", "persist", "requeue", "behind"}
  /\ Held <= PoolMax

\* "Existing HTTP requests are allowed to complete naturally" (specifications.md:48):
\* a client that is still connected is never refused because the pool has ended.
\* Only handlers whose client hung up meet that.
ClientsMeetAnOpenPool == refused \cap conn = {}

\* redis.quit() finds no link between COMMIT and the cache: a POST whose link is
\* stored is not answered 500 because the service is shutting down.  (It rests on
\* closeResources ending the pool first; specifications.md:50 has QUIT first.)
WarmNeverMeetsQuit == phase = "quitting" => Holders = {}

\* handleSignal's exit(0) cuts off no transaction, whether or not its client is still
\* there, and no request of a client that is.
CleanExitSeversNothing ==
  exit = "clean" => Held = 0 /\ \A r \in conn : pc[r] = "idle"

\* The shutdown "prevents data loss" (architecture_breakdown.md:39): exit(0) cuts off no
\* trackClick, so that a click is counted and buffered, or what failed is logged.
NoClickCutOff == exit = "clean" => \A r \in Requests : tpc[r] = "idle"

\* "Abruptly killing the process would instantly sever active database transactions"
\* (README.md:58): an exit with code 0 does not.
NoTransactionSevered == exit \in {"clean", "stopped"} => Holders = {}

\* Once signalled, the process ends, even if a client never hangs up.
ShutdownEnds == phase # "up" ~> exit # "none"

================================================================================
