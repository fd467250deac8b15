------------------------------ MODULE Readiness --------------------------------
(***************************************************************************)
(* The readiness probe of one process, src/src/bootstrap/health/health.ts: *)
(* checkDatabase, a query raced with a timer, next to checkRedis, a PING   *)
(* that is not; and what they leave in the pool they share with the        *)
(* requests.  (The liveness probe answers 200 without looking at anything.)*)
(***************************************************************************)
EXTENDS Naturals, FiniteSets

CONSTANTS
  Probes,      \* probes that can be under way at once
  Users,       \* requests that can be
  Conns,       \* connections of the pool, DB_POOL_MAX of them
  Nobody,      \* holds a connection that is idle
  MaxAhead     \* stands for this many abandoned queries or more

ASSUME ReadinessAssumption ==
  /\ Probes \cap Users = {} /\ Nobody \notin Probes \cup Users
  /\ IsFiniteSet(Conns) /\ MaxAhead \in Nat \ {0}

VARIABLES
  db,          \* "up"; "hung": it answers nothing, or refuses and ends connections
  cache,       \* "up", "down" (a PING rejects), "frozen" (it never settles)
  dpc,         \* checkDatabase: "off", "connect", "query", then "ok" or "fail"
  cpc,         \* checkRedis: "off", "ping", then "ok" or "fail"
  upc,         \* a request: "idle", "connect", "query"
  holder,      \* [Conns -> who has checked the client out]
  ahead,       \* [Conns -> queries still under way that nobody waits for]
  answer,      \* what each probe was last told: "none" yet, "ready", "unavailable"
  seen         \* dependencies that were up at some time since it came

process == <<dpc, cpc, upc, holder, ahead, answer>>
vars == <<db, cache, process, seen>>

Up == (IF db = "up" THEN {"db"} ELSE {}) \cup (IF cache = "up" THEN {"cache"} ELSE {})

Off == [p \in Probes |-> "off"]
Unasked == [p \in Probes |-> "none"]
AllIdle == [u \in Users |-> "idle"]
NoneOut == [c \in Conns |-> Nobody]
NoneAhead == [c \in Conns |-> 0]

Init ==
  /\ db = "up" /\ cache = "up"
  /\ dpc = Off /\ cpc = Off /\ answer = Unasked
  /\ upc = AllIdle
  /\ holder = NoneOut /\ ahead = NoneAhead
  /\ seen = [p \in Probes |-> {}]

Idle == {c \in Conns : holder[c] = Nobody}

\* Mutant: the pool drops the client that is given back.
Drop(h) == [c \in {d \in Conns : holder[d] # h} |-> holder[c]]

\* client.release().
Free(h) == [c \in Conns |-> IF holder[c] = h THEN Nobody ELSE holder[c]]

------------------------------------------------------------------------------
(* The probe *)

\* Mutant: a failure is kept, and answered again without a check.
ProbeOnlyOnce(p) ==
  /\ dpc[p] = "off" /\ answer[p] # "unavailable"
  /\ dpc' = [dpc EXCEPT ![p] = "connect"]
  /\ cpc' = [cpc EXCEPT ![p] = "ping"]
  /\ answer' = [answer EXCEPT ![p] = "none"]
  /\ seen' = [seen EXCEPT ![p] = Up]
  /\ UNCHANGED <<db, cache, upc, holder, ahead>>

\* GET /health/ready: Promise.all starts both checks.
Probe(p) ==
  /\ dpc[p] = "off"
  /\ dpc' = [dpc EXCEPT ![p] = "connect"]
  /\ cpc' = [cpc EXCEPT ![p] = "ping"]
  /\ answer' = [answer EXCEPT ![p] = "none"]
  /\ seen' = [seen EXCEPT ![p] = Up]
  /\ UNCHANGED <<db, cache, upc, holder, ahead>>

\* pool.connect(), and SELECT 1 is sent, behind what is still under way there.
ProbeConnects(p) ==
  /\ dpc[p] = "connect"
  /\ \E c \in Idle : holder' = [holder EXCEPT ![c] = p]
  /\ dpc' = [dpc EXCEPT ![p] = "query"]
  /\ UNCHANGED <<db, cache, cpc, upc, ahead, answer, seen>>

\* connect() rejects: no client is free within connectionTimeoutMillis, or there is
\* room for one and the database lets nobody connect.
NoClient == Idle = {} \/ db = "hung"

ProbeGetsNone(p) ==
  /\ dpc[p] = "connect" /\ NoClient
  /\ dpc' = [dpc EXCEPT ![p] = "fail"]
  /\ UNCHANGED <<db, cache, cpc, upc, holder, ahead, answer, seen>>

\* The query left behind.
Abandon(p) == ahead' = [c \in Conns |->
  IF holder[c] = p /\ ahead[c] < MaxAhead THEN ahead[c] + 1 ELSE ahead[c]]

\* Mutant: client.release() stands behind the race, in the try block.
TimerKeepsClient(p) ==
  /\ dpc[p] = "query" /\ db = "hung"
  /\ dpc' = [dpc EXCEPT ![p] = "fail"]
  /\ Abandon(p)
  /\ UNCHANGED <<db, cache, cpc, upc, holder, answer, seen>>

\* Mutant: the timer resolves where it should reject.
TimerResolves(p) ==
  /\ dpc[p] = "query" /\ db = "hung"
  /\ dpc' = [dpc EXCEPT ![p] = "ok"]
  /\ Abandon(p)
  /\ holder' = Free(p)
  /\ UNCHANGED <<db, cache, cpc, upc, answer, seen>>

\* Mutant: the query is raced with nothing.
NoTimer(p) == FALSE

\* dbTimeoutMs: finally releases the client with the query still under way.  (That a
\* sound database answers in time is taken for granted.)
TimerFires(p) ==
  /\ dpc[p] = "query" /\ db = "hung"
  /\ dpc' = [dpc EXCEPT ![p] = "fail"]
  /\ Abandon(p)
  /\ holder' = Free(p)
  /\ UNCHANGED <<db, cache, cpc, upc, answer, seen>>

\* SELECT 1 rejects, being the query the database refuses as it ends the connection:
\* finally gives the client back, before the pool hears of the end.
ProbeRejected(p) ==
  /\ dpc[p] = "query" /\ db = "hung"
  /\ \A c \in Conns : holder[c] = p => ahead[c] = 0
  /\ dpc' = [dpc EXCEPT ![p] = "fail"]
  /\ holder' = Free(p)
  /\ UNCHANGED <<db, cache, cpc, upc, ahead, answer, seen>>

\* PONG, or an error.
Ping(p) ==
  /\ cpc[p] = "ping" /\ cache # "frozen"
  /\ cpc' = [cpc EXCEPT ![p] = IF cache = "up" THEN "ok" ELSE "fail"]
  /\ UNCHANGED <<db, cache, dpc, upc, holder, ahead, answer, seen>>

\* 200 or 503, when both checks have ended.
Conclude(p) ==
  /\ {dpc[p], cpc[p]} \subseteq {"ok", "fail"}
  /\ answer' = [answer EXCEPT ![p] =
       IF dpc[p] = "ok" /\ cpc[p] = "ok" THEN "ready" ELSE "unavailable"]
  /\ dpc' = [dpc EXCEPT ![p] = "off"]
  /\ cpc' = [cpc EXCEPT ![p] = "off"]
  /\ UNCHANGED <<db, cache, upc, holder, ahead, seen>>

------------------------------------------------------------------------------
(* The requests, the pool, the dependencies *)

\* A request waits for a client, and has one, or none.
Request(u) ==
  /\ \/ upc[u] = "idle" /\ upc' = [upc EXCEPT ![u] = "connect"] /\ UNCHANGED holder
     \/ /\ upc[u] = "connect"
        /\ \E c \in Idle : holder' = [holder EXCEPT ![c] = u]
        /\ upc' = [upc EXCEPT ![u] = "query"]
     \/ upc[u] = "connect" /\ NoClient /\ upc' = [upc EXCEPT ![u] = "idle"] /\ UNCHANGED holder
  /\ UNCHANGED <<db, cache, dpc, cpc, ahead, answer, seen>>

\* A connection answers in the order of its queries: those nobody waits for, then
\* the one of its holder, who releases it.
Answer(c) ==
  /\ db = "up"
  /\ \/ /\ ahead[c] > 0
        /\ ahead' = [ahead EXCEPT ![c] = ahead[c] - 1]
        /\ UNCHANGED <<dpc, upc, holder>>
     \/ /\ ahead[c] = 0 /\ holder[c] # Nobody
        /\ holder' = [holder EXCEPT ![c] = Nobody]
        /\ dpc' = [p \in Probes |-> IF p = holder[c] THEN "ok" ELSE dpc[p]]
        /\ upc' = [u \in Users |-> IF u = holder[c] THEN "idle" ELSE upc[u]]
        /\ UNCHANGED ahead
  /\ UNCHANGED <<db, cache, cpc, answer, seen>>

\* A connection of such a database breaks.  The pool listens for the error of an
\* idle client, and replaces it.
BreakIdle(c) ==
  /\ db = "hung" /\ holder[c] = Nobody
  /\ ahead' = [ahead EXCEPT ![c] = 0]
  /\ UNCHANGED <<db, cache, dpc, cpc, upc, holder, answer, seen>>

\* pool.query() listens for the error of its client: a request that used it is told.
BreakQueried(c) ==
  /\ db = "hung" /\ holder[c] \in Users
  /\ holder' = [holder EXCEPT ![c] = Nobody]
  /\ ahead' = [ahead EXCEPT ![c] = 0]
  /\ upc' = [upc EXCEPT ![holder[c]] = "idle"]
  /\ UNCHANGED <<db, cache, dpc, cpc, answer, seen>>

\* Nobody listens for the error of a client that was taken by pool.connect(): the
\* process ends, and is started again.
BreakHeld(c) ==
  /\ db = "hung" /\ holder[c] # Nobody
  /\ dpc' = Off /\ cpc' = Off /\ answer' = Unasked
  /\ upc' = AllIdle
  /\ holder' = NoneOut /\ ahead' = NoneAhead
  /\ UNCHANGED <<db, cache, seen>>

Environment ==
  /\ db' \in {"up", "hung"} /\ cache' \in {"up", "down", "frozen"}
  /\ seen' = [p \in Probes |-> seen[p] \cup Up']
  /\ UNCHANGED process

CheckStep(p) ==
  \/ ProbeConnects(p) \/ ProbeGetsNone(p) \/ TimerFires(p) \/ ProbeRejected(p)
  \/ Ping(p) \/ Conclude(p)

Next ==
  \/ \E p \in Probes : Probe(p) \/ CheckStep(p)
  \/ \E u \in Users : Request(u)
  \/ \E c \in Conns : Answer(c) \/ BreakIdle(c) \/ BreakQueried(c) \/ BreakHeld(c)
  \/ Environment

Spec == Init /\ [][Next]_vars

\* Probes keep coming; a PING settles unless Redis is frozen; a database that stays up
\* answers.  A timer runs on while the database comes and goes, so that one that goes
\* again and again does not stop it; who waits for a client is not passed over for ever
\* (the pool's queue is first come, first served): both are strong fairness.
Fairness ==
  /\ \A p \in Probes :
       /\ WF_vars(Probe(p)) /\ SF_vars(TimerFires(p)) /\ WF_vars(Ping(p))
       /\ WF_vars(Conclude(p)) /\ WF_vars(ProbeGetsNone(p)) /\ SF_vars(ProbeConnects(p))
  /\ \A c \in Conns : WF_vars(Answer(c))

FairSpec == Spec /\ Fairness

------------------------------------------------------------------------------
(* Properties *)

TypeOK ==
  /\ db \in {"up", "hung"} /\ cache \in {"up", "down", "frozen"}
  /\ dpc \in [Probes -> {"off", "connect", "query", "ok", "fail"}]
  /\ cpc \in [Probes -> {"off", "ping", "ok", "fail"}]
  /\ upc \in [Users -> {"idle", "connect", "query"}]
  /\ holder \in [Conns -> Probes \cup Users \cup {Nobody}]
  /\ ahead \in [Conns -> 0 .. MaxAhead]
  /\ answer \in [Probes -> {"none", "ready", "unavailable"}]
  /\ seen \in [Probes -> SUBSET {"db", "cache"}]

\* A probe is answered 200 only if both dependencies were there while it was under
\* way, whatever earlier probes have left in the pool.
ReadyIsTrue == \A p \in Probes : answer[p] = "ready" => seen[p] = {"db", "cache"}

\* Whatever way checkDatabase ends, its client is back in the pool: every client that
\* is out is that of a query somebody waits for.
ClientsReturn ==
  \A c \in Conns : holder[c] # Nobody =>
    \/ holder[c] \in Probes /\ dpc[holder[c]] = "query"
    \/ holder[c] \in Users /\ upc[holder[c]] = "query"

\* A probe ends, also while the database hangs and all its clients are taken; unless
\* Redis is frozen, for which there is no timer.
ProbeEnds == \A p \in Probes : dpc[p] # "off" ~> dpc[p] = "off" \/ cache = "frozen"

\* Once both dependencies are back for good, and the load leaves the probe a client in
\* time, so is readiness: the queries the probes have abandoned, one behind the other,
\* do not keep it away.
Recovers ==
  \A p \in Probes :
    <>[](Up = {"db", "cache"}) /\ <>[][~ProbeGetsNone(p)]_vars => []<>(answer[p] = "ready")

================================================================================
