----------------------------- MODULE RateLimiter ------------------------------
(***************************************************************************)
(* The fixed-window limiter of src/src/middleware/rate_limiter/index.ts,   *)
(* as the application mounts it: once for every request                    *)
(* (src/src/bootstrap/main/server.ts) and again on the two routes          *)
(* (src/src/routes/shortener.ts).  A step is one command Redis serves, or  *)
(* its refusal; the commands of a pipeline are no transaction.             *)
(***************************************************************************)
EXTENDS Naturals, FiniteSets

CONSTANTS
  Requests,  \* slots for requests under way; a client may use one again
  Ips,
  Ip,        \* [Requests -> Ips]
  Passages,  \* [Requests -> {1, 2}]: limiters on the way, 2 for an API route
  Max,       \* RATE_LIMIT_MAX
  Window,    \* RATE_LIMIT_WINDOW_SECONDS
  RedisFails \* BOOLEAN: may a command reject?

ASSUME RateLimiterAssumption ==
  /\ IsFiniteSet(Requests)
  /\ Ip \in [Requests -> Ips]
  /\ Passages \in [Requests -> {1, 2}]
  /\ Max \in Nat \ {0} /\ Window \in Nat \ {0}
  /\ RedisFails \in BOOLEAN

VARIABLES
  nx,        \* EXPIRE knows NX, as of Redis 7
  count,     \* [Ips -> value of ratelimit:<ip>, 0 for no key]; Max + 1 stands
             \* for every larger value, the code tells none of them apart
  ttl,       \* [Ips -> seconds left, 0 for a key without a TTL or no key]
  pc,        \* the command each request stands at
  layer,     \* the limiter it is in, of its Passages
  value,     \* what its INCR returned
  era,       \* the window of that INCR: "none" yet, the "open" one, a "past" one
  asked,     \* requests of each client counted in the open window, capped alike
  passed,    \* how many of its INCRs that window let through
  resent,    \* clients one of whose INCRs was sent again in the open window
  cut,       \* clients one of whose pipelines was cut off in the open window
  locked     \* clients that were answered 429 in the open window, before that

redis == <<nx, count, ttl>>
request == <<pc, layer, value, era>>
ghosts == <<asked, passed, resent, cut, locked>>
vars == <<redis, request, ghosts>>

Cap(n) == IF n > Max THEN Max + 1 ELSE n

Init ==
  /\ nx \in BOOLEAN
  /\ count = [i \in Ips |-> 0]
  /\ ttl = [i \in Ips |-> 0]
  /\ pc = [r \in Requests |-> "idle"]
  /\ layer = [r \in Requests |-> 1]
  /\ value = [r \in Requests |-> 0]
  /\ era = [r \in Requests |-> "none"]
  /\ asked = [i \in Ips |-> 0]
  /\ passed = [i \in Ips |-> 0]
  /\ resent = {}
  /\ cut = {}
  /\ locked = {}

------------------------------------------------------------------------------
(* The middleware *)

Goto(r, l) == pc' = [pc EXCEPT ![r] = l]

Arrive(r) ==
  /\ pc[r] = "idle"
  /\ Goto(r, "incr")
  /\ UNCHANGED <<redis, layer, value, era, ghosts>>

\* The request leaves the limiters, for the handler or with a 429.
Leave(r) ==
  /\ Goto(r, "idle")
  /\ layer' = [layer EXCEPT ![r] = 1]
  /\ value' = [value EXCEPT ![r] = 0]
  /\ era' = [era EXCEPT ![r] = "none"]

\* Mutant: the router mounts the limiter a second time.
AdmitAgain(r) ==
  IF layer[r] <= Passages[r]
  THEN /\ Goto(r, "incr")
       /\ layer' = [layer EXCEPT ![r] = layer[r] + 1]
       /\ value' = [value EXCEPT ![r] = 0]
       /\ UNCHANGED era
  ELSE Leave(r)

\* next(): the following limiter, or the handler.
Admit(r) ==
  IF layer[r] < Passages[r]
  THEN /\ Goto(r, "incr")
       /\ layer' = [layer EXCEPT ![r] = layer[r] + 1]
       /\ value' = [value EXCEPT ![r] = 0]
       /\ UNCHANGED era
  ELSE Leave(r)

\* Mutant: the counter is SET to 1 as long as the key has no TTL.
IncrRestarts(r) ==
  /\ pc[r] = "incr"
  /\ count' = [count EXCEPT ![Ip[r]] = IF ttl[Ip[r]] = 0 THEN 1 ELSE Cap(count[Ip[r]] + 1)]
  /\ value' = [value EXCEPT ![r] = count'[Ip[r]]]
  /\ asked' = [asked EXCEPT ![Ip[r]] = IF era[r] = "open" THEN @ ELSE Cap(@ + 1)]
  /\ era' = [era EXCEPT ![r] = "open"]
  /\ Goto(r, "expire")
  /\ UNCHANGED <<nx, ttl, layer, passed, resent, cut, locked>>

Incr(r) ==
  /\ pc[r] = "incr"
  /\ count' = [count EXCEPT ![Ip[r]] = Cap(count[Ip[r]] + 1)]
  /\ value' = [value EXCEPT ![r] = count'[Ip[r]]]
  /\ asked' = [asked EXCEPT ![Ip[r]] = IF era[r] = "open" THEN @ ELSE Cap(@ + 1)]
  /\ era' = [era EXCEPT ![r] = "open"]
  /\ Goto(r, "expire")
  /\ UNCHANGED <<nx, ttl, layer, passed, resent, cut, locked>>

\* Mutant: EXPIRE without NX: every request of the client starts the window anew.
ExpireAlways(r) ==
  /\ pc[r] = "expire"
  /\ ttl' = IF count[Ip[r]] > 0 THEN [ttl EXCEPT ![Ip[r]] = Window] ELSE ttl
  /\ Goto(r, "ttl")
  /\ UNCHANGED <<nx, count, layer, value, era, ghosts>>

\* EXPIRE NX: an error in its place of the results, before Redis 7, is not looked at.
Expire(r) ==
  /\ pc[r] = "expire"
  /\ ttl' = IF nx /\ count[Ip[r]] > 0 /\ ttl[Ip[r]] = 0
            THEN [ttl EXCEPT ![Ip[r]] = Window] ELSE ttl
  /\ Goto(r, "ttl")
  /\ UNCHANGED <<nx, count, layer, value, era, ghosts>>

\* Mutant: the counter is read once more, behind the pipeline.
OverByNow(r) == count[Ip[r]] > Max

Over(r) == value[r] > Max

\* The end of the middleware: 429, or next().
Decide(r) ==
  IF Over(r)
  THEN /\ Leave(r)
       /\ locked' = IF era[r] = "open" THEN locked \cup ({Ip[r]} \ cut') ELSE locked
       /\ UNCHANGED passed
  ELSE /\ Admit(r)
       /\ passed' = IF era[r] = "open" THEN [passed EXCEPT ![Ip[r]] = Cap(@ + 1)] ELSE passed
       /\ UNCHANGED locked

\* Mutant: the fallback for older versions of Redis is missing.
TtlOnly(r) ==
  /\ pc[r] = "ttl"
  /\ UNCHANGED <<redis, asked, resent, cut>>
  /\ Decide(r)

\* TTL answers -1 for a key without one (-2 for no key).
Ttl(r) ==
  /\ pc[r] = "ttl"
  /\ UNCHANGED <<redis, asked, resent, cut>>
  /\ IF count[Ip[r]] > 0 /\ ttl[Ip[r]] = 0
     THEN Goto(r, "fallback") /\ UNCHANGED <<layer, value, era, passed, locked>>
     ELSE Decide(r)

\* The key, if there is one, gets a full TTL.
Rearmed(i) == IF count[i] > 0 THEN [ttl EXCEPT ![i] = Window] ELSE ttl

\* The EXPIRE of the fallback acts on whatever key there is by now.
Fallback(r) ==
  /\ pc[r] = "fallback"
  /\ ttl' = Rearmed(Ip[r])
  /\ UNCHANGED <<nx, count, asked, resent, cut>>
  /\ Decide(r)

\* INCR or the EXPIRE of the fallback rejects, having had its effect or not, and
\* the catch block lets the request pass.
FailOpen(r) ==
  /\ RedisFails
  /\ pc[r] # "idle"
  /\ Admit(r)
  /\ ttl' \in {ttl} \cup (IF pc[r] = "fallback" THEN {Rearmed(Ip[r])} ELSE {})
  /\ UNCHANGED <<nx, count, ghosts>>

\* The connection closes before INCR is answered: ioredis sends the pipeline again.
Resend(r) ==
  /\ RedisFails
  /\ pc[r] \in {"expire", "ttl"}
  /\ Goto(r, "incr")
  /\ resent' = IF era[r] = "open" THEN resent \cup {Ip[r]} ELSE resent
  /\ UNCHANGED <<redis, layer, value, era, asked, passed, cut, locked>>

\* It closes after INCR is answered: the results of EXPIRE and TTL are errors,
\* which the middleware does not look at, and the count decides.
CutOff(r) ==
  /\ RedisFails
  /\ pc[r] \in {"expire", "ttl"}
  /\ cut' = IF era[r] = "open" THEN cut \cup {Ip[r]} ELSE cut
  /\ Decide(r)
  /\ UNCHANGED <<redis, asked, resent>>

------------------------------------------------------------------------------
(* The surroundings *)

\* A second passes.  A key whose time is up is gone.
Second ==
  /\ \E i \in Ips : ttl[i] > 0
  /\ LET over == {i \in Ips : ttl[i] = 1} IN
     /\ count' = [i \in Ips |-> IF i \in over THEN 0 ELSE count[i]]
     /\ asked' = [i \in Ips |-> IF i \in over THEN 0 ELSE asked[i]]
     /\ passed' = [i \in Ips |-> IF i \in over THEN 0 ELSE passed[i]]
     /\ resent' = resent \ over
     /\ cut' = cut \ over
     /\ locked' = locked \ over
     /\ era' = [r \in Requests |->
          IF Ip[r] \in over /\ era[r] = "open" THEN "past" ELSE era[r]]
  /\ ttl' = [i \in Ips |-> IF ttl[i] > 0 THEN ttl[i] - 1 ELSE 0]
  /\ UNCHANGED <<nx, pc, layer, value>>

\* The process dies with its requests; the keys keep what was done to them.
Crash ==
  /\ \E r \in Requests : pc[r] # "idle"
  /\ pc' = [r \in Requests |-> "idle"]
  /\ layer' = [r \in Requests |-> 1]
  /\ value' = [r \in Requests |-> 0]
  /\ era' = [r \in Requests |-> "none"]
  /\ UNCHANGED <<redis, ghosts>>

Step(r) ==
  \/ Incr(r) \/ Expire(r) \/ Ttl(r) \/ Fallback(r)
  \/ FailOpen(r) \/ Resend(r) \/ CutOff(r)

Next ==
  \/ \E r \in Requests : Arrive(r) \/ Step(r)
  \/ Second
  \/ Crash

Spec == Init /\ [][Next]_vars

\* Time passes; nothing is asked of the requests.
FairSpec == Spec /\ WF_vars(Second)

------------------------------------------------------------------------------
(* Properties *)

TypeOK ==
  /\ nx \in BOOLEAN
  /\ count \in [Ips -> 0 .. Max + 1]
  /\ ttl \in [Ips -> 0 .. Window]
  /\ pc \in [Requests -> {"idle", "incr", "expire", "ttl", "fallback"}]
  /\ layer \in [Requests -> {1, 2}]
  /\ value \in [Requests -> 0 .. Max + 1]
  /\ era \in [Requests -> {"none", "open", "past"}]
  /\ asked \in [Ips -> 0 .. Max + 1]
  /\ passed \in [Ips -> 0 .. Max + 1]
  /\ resent \subseteq Ips /\ cut \subseteq Ips /\ locked \subseteq Ips

\* However the pipelines of a client's requests interleave, a window lets no more
\* than RATE_LIMIT_MAX of its passages through by their count (those Redis failed
\* are let through besides).
QuotaHeld == \A i \in Ips : passed[i] <= Max

\* A client that was answered 429 faces a key that will expire, also where EXPIRE
\* does not know NX, also when the first request of the window died or failed
\* before it gave the key its TTL.  (It says nothing of a client any of whose
\* pipelines was cut off in the open window: locked leaves those out, though it is only
\* where every one of the window was cut off behind its INCR that no TTL is set.)
RefusalHasAnEnd == \A i \in locked : ttl[i] > 0

\* A window in which a client was refused ends, even if the client keeps asking.
LockoutEnds == \A i \in Ips : i \in locked ~> i \notin locked

\* Both limiters count on one key, so that an API request is charged twice, but never
\* more: a client that is refused has made more than half of RATE_LIMIT_MAX requests in
\* the window, except where ioredis sent one of its INCRs again.  (README.md:373 has it
\* make all of them: "asserts that the first 100 return 200 OK".)
RefusedOverHalfTheQuota == \A i \in locked \ resent : 2 * asked[i] > Max

\* What was decided by the INCR of a request that has not been answered yet.
decided ==
  [r \in Requests |->
    IF pc[r] \in {"idle", "incr"} THEN "none"
    ELSE IF era[r] # "open" THEN "late"
    ELSE IF Over(r) THEN "refuse" ELSE "admit"]

Limit == INSTANCE FixedWindow WITH used <- count, verdict <- decided, Fails <- RedisFails

\* "Offloads state management to Redis using atomic operations" (index.ts:16): however
\* the commands of the pipelines interleave, expire and fail, the clients see a limiter
\* that counts and decides in one step, the INCR.
AdmitsAtomically == Limit!Spec

================================================================================
