# Verification of the URL shortener microservice

TLA+ models of the service under `src/src/`, the TLC runs that check them on small
instances, and TLAPS proofs of their safety for every instance. Paths in this file are
relative to the code's own root, `src/src/`; documents are named by themselves.

Contents: 1 the system, 2 the modules and the code they stand for, 3 the runs, 4 fairness,
5 the proofs, 6 what the checks found, 7 what is left out, 8 the plan.

## 1. The system

A Node.js/TypeScript service. Clients POST a URL and get a Base62 alias; a GET of the alias
redirects. PostgreSQL holds the links and the clicks, Redis caches links, buffers clicks and
counts requests per IP. There is no shared memory: everything that runs concurrently
interleaves at an `await`, between processes at a command of PostgreSQL or Redis.

| Component | Its state | Its operations | Talks to |
|---|---|---|---|
| URL service and routes (`services/url/urlService.ts`, `routes/shortener.ts`) | table `urls`, sequence `urls_id_seq`, Redis keys `url:<alias>` | `shortenUrl`: BEGIN, nextval, INSERT, COMMIT, SET; `resolveUrl`: GET, SELECT, SET | pool, Redis, alias generator; the GET route calls `trackClick` without waiting |
| Alias generator (`utils/hashing/aliasGenerator.ts`) | none | `generateAlias`, `decodeAlias` | called by `shortenUrl` |
| Sanitizer and validation (`middleware/security`, `validation`) | none | rewrite the body, refuse it with 400 | in front of the routes |
| Pool (`database/postgres/pool.ts`) | at most DB_POOL_MAX clients per process, a queue with a timeout | connect, query, release, end | PostgreSQL |
| Redis client (`database/redis/redisClient.ts`) | one connection per process | commands, pipelines, quit | Redis |
| Click ingestion (`services/analytics/analyticsService.ts`) | list `analytics:buffer`, hashes of counters, sets of visitors | `trackClick`: LLEN, HINCRBY, SADD, RPUSH; `processBufferedClicks`: LPOPs, INSERT, re-queueing | Redis, pool |
| Flush worker (`workers/analyticsFlushWorker.ts`) | `isRunning`, an interval, the batch in hand, table `clicks` | `flush`, `persistBatch`, re-queueing, `start`, `stop` | Redis, pool |
| Rate limiter (`middleware/rate_limiter/index.ts`) | Redis keys `ratelimit:<ip>` with a TTL | INCR, EXPIRE NX, TTL; a fallback EXPIRE | mounted in `server.ts` and again in `shortener.ts` |
| Cluster manager, entry point (`bootstrap/cluster`, `index.ts`) | `forkHistory`, the live workers | fork, re-fork on `exit`, fork-bomb limit, signals, timer | workers, by IPC; the flush worker it runs itself |
| Shutdown manager (`bootstrap/lifecycle/shutdown.ts`, `bootstrap/main/server.ts`) | the HTTP server, a timer | `handleSignal`, `drainServer`, `closeResources` | pool, Redis, primary |
| Health probes (`bootstrap/health/health.ts`) | none of their own | SELECT 1, raced against a timer, and PING, which is not | pool, Redis |
| Migration runner (`database/.../migrationRunner.js`) | an advisory lock; the tables and seven monthly partitions | lock, CREATE IF NOT EXISTS one by one, retry with back-off | pool |
| Configuration | immutable | one validation at start | everything |

What is hard about it, component by component, and what makes it correct:

- **URL service.** Every awaited call may reject, with or without having taken effect, and
  the process may die between any two. The alias must be unique without a lock; the cache is
  written by POSTs and GETs without a transaction that covers both stores; the pool client is
  acquired outside the `try` block and released in `finally`. Correct: no two links share an
  id or an alias; the cache never contradicts the table; a 201 and a 302 speak the truth; a
  link handed out is never "not found"; no client of the pool leaks.
- **Alias generator.** Carries, powers of the base, zero. Correct: decoding inverts encoding;
  larger identifiers have strictly later aliases (hence distinct ones).
- **Click pipeline.** A size is read and acted on three commands later; several processes pop
  from one list; a batch lives in memory only between LPOP and COMMIT; re-queueing races with
  new events. Correct: no click is stored twice; a buffered click is lost only where the code gives
  it up; the list stays near its bound; a flush always ends.
- **Rate limiter.** INCR, EXPIRE and TTL are three commands that interleave with those of
  other requests; old versions of Redis need a second round trip. Correct: a window lets no
  more than its quota through; nobody is locked out for ever.
- **Lifecycle.** Signals, timers, exits and IPC in any order. Correct: forks are bounded but a
  start is no fork bomb; a dead worker is replaced; requests are drained; a shutdown ends.
- **Teardown of a process.** Server, pool and Redis are closed one after the other while handlers
  whose clients hung up, `trackClick` calls nobody waits for and a flush may still be running.
  Correct: who is connected is served; a clean exit severs no transaction; the process ends.
- **Probes.** A client goes back to the pool with its query still under way; a connection that
  breaks in use ends the process. Correct: 200 is the truth; clients come back; readiness does.
- **Migrations.** The advisory lock covers nothing, so replicas interleave statement by statement.
  Correct: a migration that reports success is complete; somebody succeeds; each ends.

`PROJECT.json` lists every such hazard at its line, with the properties that watch it.

## 2. The modules

    UrlDirectory        what clients are promised (abstract)
      ^ implemented by
    UrlService          shortenUrl and resolveUrl, the pool, the cache, crashes
      ^                     ^
    UrlServiceProofs    MCUrlService --- uses Base62 in base 2
    Base62              the alias generator          <- MCBase62, Base62Proofs
    ClickPipeline       trackClick and the flushes   <- MCClickPipeline, ClickPipelineProofs
    FixedWindow         an atomic limiter (abstract)
      ^ implemented by
    RateLimiter         the limiter, mounted twice   <- MCRateLimiter, RateLimiterProofs
    Lifecycle           primary, workers, signals    <- MCLifecycle, LifecycleProofs
    Teardown            the end of one process       <- MCTeardown, TeardownProofs
    Readiness           the readiness probe          <- MCReadiness, ReadinessProofs
    Migration           replicas that migrate        <- MCMigration, MigrationProofs

`Teardown` is where components meet: the handlers of `UrlService`, the calls and the flush of
`ClickPipeline` and the `ShutdownManager` of `Lifecycle`, each reduced to the awaits at which it
holds or needs a client of the pool or the connection to Redis.

In all of them a step is the code between two awaits; where a pipeline sends several
commands to Redis, each command is a step, since Redis may serve others in between. `pc`,
`tpc` and `wpc` name the await an execution stands at. An operator under a comment "Mutant:"
is a wrong version of the definition after it; `PROJECT.json` says which property refutes it.

### UrlService, UrlDirectory

| TLA+ | Code |
|---|---|
| `PostArrives`, `PostInvalid` | the route's Joi validation, 400 |
| `Acquire`, `AcquireTimesOut` | `pool.connect()` / the one inside `pool.query()`, DB_POOL_MAX, `connectionTimeoutMillis` |
| `Begin`, `NextVal`, `Insert`, `Commit` | the four queries of `shortenUrl`; each may reject into `Rollback` |
| `WarmCache`, `WarmCacheFails` | `redis.set` *inside* the `try` block, then 201 |
| `Rollback` | catch and finally: ROLLBACK (resolved or not), release, rethrow, 500 |
| `GetArrives`, `GetInvalid` | `aliasSchema`, 400 |
| `Hit`, `Miss` | `redis.get` and `JSON.parse`, whose failures are swallowed |
| `Read` | the SELECT, 404, or 500 |
| `Fill` | `redis.set`, whose failure is swallowed, then 302 |
| `Evict`, `Poison`, `Crash` | TTL, eviction or loss of Redis; a foreign value under the key; a process dying |

`rows` are the committed rows; an uncommitted one is `row[p]` of a request in `Drafting`, which
nobody else sees. `clients` are the pool's checked-out clients. `seen` is a history variable:
what clients had been told when a GET arrived. The alias of an id is the constant `AliasOf`,
assumed injective, which `Base62Proofs` proves of the generator. `Clean`, `ValidUrls` and `Routable`
are what the sanitizer and the two Joi schemas make of a URL and an alias.

`Await(p, l)` lets each query also reject into the catch block, and a rejected `Commit` may
have committed (`CommitAckLost`): the connection is lost between the two.

`UrlDirectory` keeps only published links, requests and answers. `UrlService` implements
it under the mapping `directory <- {LinkOf(x) : x \in rows}`, `arrived <- ` requests that left
"idle", `link <- ` the row of a request answered 201 or 302. So `Commit` is `Publish`,
`WarmCache` is `Created`, `Hit` and `Fill` are `Found`, and the rest stutters. What the steps of
`UrlDirectory` add up to is its `Promise`: no alias is given twice (`NoAliasTwice`), every 201 and
302 names the link it should (`AnswersName`), nothing a client was told is denied (`NothingDenied`).

### Base62

`generateAlias` is the `while` loop as a recursive function over the digits (a character is
its index in the charset), `decodeAlias` the loop over the characters as another. `bigint` is
a natural number; TLC's are below 2^31. `MCBase62` walks from identifier to identifier, digit by digit.

### ClickPipeline

| TLA+ | Code |
|---|---|
| `TrackClick` (with the `isIP` test), `Llen`, `Hincrby`, `Sadd`, `Rpush` | one call of `trackClick`; an error ends it |
| `Tick`, `Lpop`, `Popped`, `Connect`, `Insert`, `Commit`, `Rollback`, `Discard`, `Requeue` | a flush; an interval that finds `isRunning` set does nothing, so `isRunning` is `wpc[w] \in Running` |
| `Drain`, `Take`, `Connect`, `Bulk`, `Requeue` | a call of `processBufferedClicks`: LPOP after LPOP, an INSERT without BEGIN, re-queueing after any error |
| `Resend`, `PipelineResent` | ioredis sends again what was not answered when the connection closed: an RPUSH that had its effect, a pipeline of LPOPs whose first results nobody sees |
| `Stop`, `Crash`, `Restart` | `stop()` with the exit that follows; what happens to the process |

`Faults` says what may go wrong in an instance. A query of the worker that rejects leads to one of
three places in the catch block. The codes of `isTransient` (08001, 08003, 08006, 57P01) say that the
connection is gone: then ROLLBACK, sent over that connection, rejects before the re-queueing loop, and the
batch is lost (`transient`, "severed"). Only where the code comes over a connection that stays, as a proxy between
the service and PostgreSQL may report it, does ROLLBACK resolve and the loop run (`proxied`, "rollback",
"requeue"). Any other error is discarded (`persistent` before COMMIT, `commit` at it, "discard"). `ack` is a COMMIT
that took effect and whose acknowledgement is lost. An LPOP that rejects (`lpop`) may or may not have removed
its element. A connection that breaks while its client is checked out may also end the process, since nobody listens to
the client's 'error'; that is `crash`.

`Accounted(c)`: the click has a row, is in the list or in the hands of a worker. `GivesUp(w)` names the
places at which the code lets go of what a worker has in hand: an LPOP that rejects or is sent again, `connect()`,
"severed" and "discard", an RPUSH of the re-queueing loop, the end of a process in the midst of a flush.
`LostOnlyWhereGivenUp` says that no step, of anybody, takes the last place of a click but there. `Kind` tells events `JSON.parse` refuses
(garbled), those `validateEvent` drops (malformed), and those for which PostgreSQL has no
partition, or no row in `urls` (unstorable), and which make the INSERT of the whole batch fail.
`resent` are the clicks that were sent twice without anybody learning of it, each once at most: a
bound. The counters hash is the set `counted` of clicks; the visitors' sets are not kept.

### RateLimiter

`Incr`, `Expire`, `Ttl` are the pipeline, `Fallback` the EXPIRE for a Redis that does not know
NX (`nx`, chosen in `Init`), `Decide` the comparison with RATE_LIMIT_MAX, `FailOpen` the catch
block. `Resend` and `CutOff` are what ioredis does with a pipeline whose connection closes: it
sends it again as long as no reply came, otherwise the missing replies are errors in their
places of the results, which the middleware does not look at. `FixedWindow` is the limiter that clients
are meant to see, one that counts a passage and decides on it in one step; `RateLimiter` implements it under
the mapping `used <- count`, `verdict <- decided`, which is what the INCR of an unanswered request
returned. So `Incr` is `Count`, the end of the middleware is `LetThrough` or `TurnAway`, `FailOpen` and
`Resend` are `Drop`, and `Second` is `WindowsEnd`. `Passages` is 2 for an API
route, for the limiter is mounted twice; `Second` is the clock. `era`, `asked`, `passed`,
`resent`, `cut`, `locked` are history variables about the open window.

### Lifecycle

`HandleWorkerExit` with `ForkWorker` is the `exit` handler and the fork-bomb limit, `Signal`,
`StopReturns`, `PrimaryTimeout` the primary's shutdown, `Handle` (reached from `Message` and
`OsSignal`), `Closed`, `ResourcesClosed`, `TimedOut` the worker's. `forkHistory` holds ages
instead of time stamps, so that `Tick` ages them; ages past the window are one value. `Within` is
the filter of `isForkBombing`, written as a recursive function.
A worker the primary leaves behind exits (`Orphaned`), and `ending` tells why: "timeout" if the primary's
time was up, "orphaned" if it left over a fork bomb with exit(1), which takes live workers along with whatever
requests they have under way, signal or none. `Excused` names these next to a crash.
The single process of WORKER_COUNT 1 is in `Teardown`.

### Teardown

| TLA+ | Code |
|---|---|
| `Connect`, `NoClient`, `Transact`, `Warm`, `Rollback`; `Get`, `Connect`, `Select`, `Fill`, `Redirect` | `shortenUrl`; `resolveUrl` and the GET route |
| `Track` | the next command of a `trackClick` that was not awaited |
| `FlushTick`, `Flush`, `FlushEnds` | the worker of single-process mode, and `gracefulShutdown` of `index.ts` |
| `Signal`, `SignalAgain`, `ServerClosed`, `DrainTimesOut`, `PoolEnded`, `QuitAnswered` | `handleSignal`, `drainServer`, `closeResources` |

`conn` are the open connections, which is what `server.close()` waits for; a handler does not
notice that its client hung up. After `pool.end()` no client is given (`PoolOpen`), and it returns
when all are back. `redis.quit()` leaves ioredis "ready": a command that comes later (`~RedisOpen`, `Sent`) is written
behind QUIT, is not served, and rejects when the socket closes. QUIT is answered after the commands
that were sent before it, and exit(0) follows at once (`QuitAnswered`): a `trackClick`, or a flush, that is "behind" by
then is cut off.

### Readiness

`Probe` starts `checkDatabase` (`ProbeConnects`, `ProbeGetsNone`, `ProbeRejected`, `TimerFires`, or `Answer`) and
`checkRedis` (`Ping`); `Conclude` is the answer. `ahead[c]` counts the queries on connection `c` that
nobody waits for any more: a connection answers in order, so the next holder waits behind them.
`MaxAhead` stands for that many or more. `db = "hung"` is a database that answers nothing, or that refuses and ends
connections: `connect()` may then give no client with some free (`NoClient`), and SELECT 1 may reject. `BreakIdle`, `BreakQueried`, `BreakHeld` are what pg does
with a connection that breaks: the pool's listener, the listener of `pool.query`, none.

### Migration

`Lock` takes a lock that its own statement releases again, and a client that is not used;
`Check` and `Create` are the look and the creation of one IF NOT EXISTS; `QueryFails`, `Retry`,
`BackOffEnds` are `executeWithRetry`; `NoSecondClient` is a pool of one, whose only client is kept
next to the lock. `Object` and `Advance` walk through the two tables and the partitions. Objects are
numbers, an object with its index being one (they are created by one simple query).

## 3. The runs

Run with `tlc -workers 2 -config <cfg> <MC module>`.

| Run (cfg) | Instance | Shows |
|---|---|---|
| `url_safety` (UrlService_safety) | 2 POSTs, 1 GET, 2 processes, pools of 1 client, 2 sequence values | `TypeOK`, `CollisionFree`, `CacheIsDurable`, `AnswersAreDurable`, `ReadYourWrites`, `ClientsAccounted`; that `UrlDirectory` is implemented (`KeepsPromise`) |
| `base62` (Base62) | base 62; 8192 identifiers up to 34 million whose digits are the ends of the three ranges of the charset | `RoundTrip`, `Ordered`, `RoutableFromCube` |
| `clicks_safety` (ClickPipeline_safety) | a good click, a garbled event, one that cannot be stored; 2 calls, a flush worker and a caller of `processBufferedClicks`, buffer of 1, batches of 2; every fault | `TypeOK`, `StoredAtMostOnce`, `CountedBeforeBuffered`, `LostOnlyWhereGivenUp` |
| `clicks_settle` (ClickPipeline_settle) | 2 good clicks, one malformed, one that cannot be stored; 1 call, 1 worker; every failure of a command or a query | `BufferBound`, `EventuallySettled` |
| `rate_safety` (RateLimiter_safety) | 2 requests of one client at a time, coming again and again, each through two limiters; quota 2, window 2; Redis old or new, failing anywhere | `QuotaHeld`, `RefusalHasAnEnd`, `RefusedOverHalfTheQuota`, `LockoutEnds`; that `FixedWindow` is implemented (`AdmitsAtomically`) |
| `lifecycle_cluster` (Lifecycle_cluster) | a primary and 2 workers, one request each, slack 1 | `TypeOK`, `ForkRateBounded`, `StartIsNoForkBomb`, `RequestsDrained`, `ShutdownEnds` |
| `teardown` (Teardown_safety) | 3 requests, a pool of 2 clients, a worker of a cluster or a single process | `TypeOK`, `ClientsMeetAnOpenPool`, `WarmNeverMeetsQuit`, `CleanExitSeversNothing`, `ShutdownEnds` |
| `probes` (Readiness_probes) | 2 probes and a request, 2 connections; the database hangs, Redis fails or freezes, and they come back | `TypeOK`, `ReadyIsTrue`, `ClientsReturn`, `ProbeEnds`, `Recovers` |
| `migration` (Migration_safety) | 3 replicas, one with a pool of a single client, 2 partitions ahead, one end of a month, one retry | `TypeOK`, `SuccessMeansComplete`, `SomeoneSucceeds`, `MigrationEnds` |
| `clicks_transient`, `teardown_single`, `migration_lock` | the same sizes or smaller, see the cfgs | one violated property each, section 6 |

Why these bounds are enough:

- *UrlService.* A collision needs two POSTs, in one process or in two; a leak or a starving
  wait needs a pool somebody else can exhaust, hence pools of one client that the GET shares
  with one POST; staleness needs one reader. With a sequence of two values, each POST can
  draw one, and after a failed draw a third would be refused. The aliases are the real
  generator's in base 2, where the first (one digit) is shorter than `MinLength` 2 and the
  others are not: the counterpart of one to three characters against four. The three URLs
  are one that is accepted, one that the sanitizer turns into it, and one that is refused.
- *Base62.* The sampled digits cover both sides of every boundary within a digit (9/10, 35/36,
  61/0), and all their combinations in up to five places cover the carries.
- *ClickPipeline.* A buffer of 1 is full at once and overshot by the second call; batches of 2
  let a good event meet a bad one, and let a re-queueing loop stop half-way; a worker and
  a drainer interleave their LPOPs. The calls are symmetric in the
  safety run (TLC does not check liveness under symmetry, so the liveness run has none).
  The liveness run has one worker and one call: a second adds schedules, but the re-queued batch and new
  events already race with two clicks and a buffer of 1. It leaves out commands sent again, stops and crashes,
  which `clicks_safety` has; its `BufferBound` is therefore that of one call, and `BufferStaysBounded` (section 5)
  is what says it of many calls at once.
- *RateLimiter.* Counts above the quota are one value, `Max + 1`, because the code tells none
  of them apart; so the state is finite though requests keep coming. Window 2 separates "just
  set" from "about to expire". Clients do not influence one another (keys are per IP).
- *Lifecycle.* Slack 1 keeps the threshold (workers + slack) within reach of a few crashes;
  one request per worker is enough for "requests under way". `deaths` is counted up to
  Slack + 1 only. `ForkWindow` 1 lets an entry be young, at the edge, or out.
- *Teardown.* Three requests and two clients let one handler hold a client, one wait, and one be
  between, next to a flush. A slot has one connection, one handler and one `trackClick` at a time.
- *Readiness.* Two connections let a probe meet the query it left, or one without any; two probes
  fill the pool. `MaxAhead` 2 is the first value at which queries stand behind one another.
- *Migration.* Two of the replicas can race to one object while the third is refused a client; two
  partitions, with a month that may end in between, give replicas different lists of objects.

`CHECK_DEADLOCK FALSE` stands where the system may really stop: `UrlService` when every
request is answered, `Base62` at the end of its walk, `Lifecycle` and `Teardown` when the
last process left, `Migration` when every replica is done.

## 4. Fairness

Only what the runtime or the code's own timers guarantee is assumed:

- *UrlService:* none: its properties are safety. No query is assumed to settle, there is no
  statement timeout.
- *ClickPipeline:* weak fairness of each call's and each flush's next command (ioredis and pg
  settle what they were asked), of the interval (`setInterval`) and of a restart (the primary
  runs the worker, and an orchestrator replaces it). Strong fairness of an LPOP that is served, and of an
  INSERT and a COMMIT that do not end in re-queueing (they may succeed, or lose the batch): without it Redis may
  fail every LPOP, or a proxy every batch, for ever, and no code could help. It asks for no query to succeed,
  so `EventuallySettled` says that a click is stored or given up, not that it is stored. The one of `Bulk` is
  for a caller of `processBufferedClicks`, which re-queues after every error; the liveness run has none.
- *RateLimiter:* only `Second`: time passes. Nothing is asked of requests or of Redis.
- *Lifecycle:* the primary's timer fires, the event `exit` is delivered, a worker whose
  channel closed exits (as node's cluster has it), and the last flush of the analytics settles,
  which the timer waits for (section 6). Neither that a request ends nor that the resources close.
- *Teardown:* commands and queries settle, the timer fires, `close()`, `end()` and `quit()` report
  what they wait for. No client is asked to hang up.
- *Readiness:* probes keep coming, a PING settles unless Redis is frozen, a database that stays up
  answers. Strong fairness of the timer, which runs on while the database comes and goes, and
  of getting a client, for the pool's queue is first come, first served. `Recovers` leaves out runs in
  which the load keeps the probe from a client for ever.
- *Migration:* statements settle or fail, timers fire. Nobody need start a migration.

## 5. The proofs

`UrlServiceProofs.tla` proves, for any number of requests, processes, clients per pool, URLs and
sequence values (`tlapm UrlServiceProofs.tla`):

| Theorem | States |
|---|---|
| `Invariance` | the inductive invariant `IInv` always holds |
| `TypeCorrect` | `Spec => []TypeOK` |
| `NoCollision` | `Spec => []CollisionFree` |
| `CacheAgrees` | `Spec => []CacheIsDurable` |
| `AnswersAgree` | `Spec => []AnswersAreDurable` |
| `OwnAliasFound` | `Spec => []ReadYourWrites` |
| `PoolAccounted` | `Spec => []ClientsAccounted` |
| `Implementation` | `Spec => KeepsPromise`: `UrlService` implements `UrlDirectory` |
| `PromiseKept` | `(KeepsPromise => []Directory!Promise) /\ (Spec => []Directory!Promise)`: what that is worth to a client |

*Assumption:* `UrlServiceAssumption` alone. Its only part that is not a type is that `AliasOf` is
injective. `GeneratorIsAdmissible` in `Base62Proofs` proves that `generateAlias`, on the values of any
sequence, is such an `AliasOf`.

*The argument.* None of the properties is inductive by itself: that the cache agrees with the table
after `WarmCache` depends on where the POST's row came from, and that two drafts differ depends
on every identifier ever drawn. `IInv` therefore follows an identifier from `nextval` on:

- `Placed`: requests stand where their handler can bring them, an answer is final;
- `DraftsIssued`, `RowsIssued`: what a POST owns and what is stored has an id the sequence has
  passed, and the alias of that id;
- `IdsDistinct`: an id has one owner, and is in the table only once its owner has committed.
  This is the collision-free strategy: `NextVal` draws above everything owned or stored, and
  a rollback does not give back;
- `PendingIsDurable`: what is about to be cached or answered is committed already;
- `SeenIsPublished`: what clients were told is in the table, so a SELECT that finds nothing
  contradicts nothing (`ReadYourWrites`).

There is one lemma for each action that disturbs the relations (`NextValRelated`, ...), and a lemma
that `IInv` is kept. `CollisionFree` follows from `IdsDistinct` and the injectivity of `AliasOf`.
`ClientsAccounted` has an invariant of its own with a bound by cardinalities. For the refinement,
initial states map to initial states, and each step maps to a step of `UrlDirectory` or to a
stutter, with `IInv` to show, e.g., that `Created` names an alias nobody was given. `PromiseKept` has an
invariant of `UrlDirectory` alone, `PromiseInv`: what is recorded with a request is in the directory
and was there when it had to be.

`TeardownProofs.tla` proves, for any finite set of requests and any `PoolMax` above zero
(`TeardownAssumption`, which is all it assumes), in a cluster's worker and in a single process:

| Theorem | States |
|---|---|
| `Invariance` | the inductive invariant of `Teardown` always holds |
| `TypeCorrect` | `Spec => []TypeOK`, with `Held <= PoolMax` |
| `PoolStaysOpen` | `Spec => []ClientsMeetAnOpenPool` |
| `WarmBeforeQuit` | `Spec => []WarmNeverMeetsQuit` |
| `CleanExit` | `Spec => []CleanExitSeversNothing`: exit(0) finds no client of the pool out and nobody who is connected waiting; of clicks it says nothing |
| `ClusterSeversNothing` | `Spec => [](~single => NoTransactionSevered)`: the violation of `teardown_single` needs single-process mode |

*The argument.* Its `IInv` adds `Order` to the types: what the order server, pool, Redis leaves at
each stage. Nobody was refused while the pool is open; nobody is connected once it has ended, for
the server closed first and then a connection can only go; QUIT finds no client out, for `pool.end()`
waited; exit(0) comes after QUIT. It says nothing of the `trackClick` calls: exit(0) may cut one
off (finding 6 of section 6). That no client is taken
behind the back of this order is `StepTakes`: a step takes none (`NoneTaken`), or one
from a pool that is open and has one left (`OneTaken`). `StepHeld` gets the pool's limit from
it by cardinalities.

The other proof modules have the same form, each for any values of the constants that satisfy the
assumption named in the module it extends:

| Module | Theorem | States |
|---|---|---|
| `RateLimiterProofs` | `WithinQuota` | `Spec => []QuotaHeld` |
| | `EveryRefusalEnds` | `Spec => []RefusalHasAnEnd` |
| | `HalfTheQuota` | `Spec => []RefusedOverHalfTheQuota` |
| | `Implementation` | `Spec => AdmitsAtomically`: `RateLimiter` implements `FixedWindow` |
| `ClickPipelineProofs` | `CountersComeFirst` | `Spec => []CountedBeforeBuffered` |
| | `NoRowTwice` | `Spec => []StoredAtMostOnce` |
| | `BufferStaysBounded` | `Spec => []BufferBound` |
| | `LossesGivenUp` | `Spec => LostOnlyWhereGivenUp`, for any set of faults |
| `MigrationProofs` | `NotAllFail` | `Spec => []SomeoneSucceeds` |
| | `Complete` | `Spec => []SuccessMeansComplete` |
| `ReadinessProofs` | `ReadyMeansUp` | `Spec => []ReadyIsTrue` |
| | `NoClientLost` | `Spec => []ClientsReturn` |
| `LifecycleProofs` | `NaturalCompletion` | `Spec => RequestsDrained` |
| | `ForksStayBounded` | `Spec => []ForkRateBounded` |
| | `NoEarlyForkBomb` | `Spec => []StartIsNoForkBomb` |
| `Base62Proofs` | `DecodesEveryAlias` | `decodeAlias` inverts `generateAlias`, for every base above one |
| | `AliasesDiffer`, `AliasesOrdered` | the next identifier's alias comes later, no two are alike |
| | `RoutableExactlyFromCube` | an alias has four characters from `Base^3` on, and only then |
| | `GeneratorIsAdmissible` | what `UrlServiceAssumption` asks of `AliasOf` |
| | `RoundTrips`, `WalkOrdered`, `WalkRoutable` | the same of the walk: `RoundTrip`, `Ordered`, `RoutableFromCube` |

(All but `Base62Proofs`, whose module keeps no types, also prove `TypeCorrect`, `Spec => []TypeOK`.) The
invariants (`TypeOK` of `RateLimiter` is left to its proof; the run of that module checks the refinement,
which says more):

- *RateLimiter.* `Quota`: what the window let through and those on their way through it
  (`InFlight`) are together no more than the counter says, nor than the quota, for each INCR
  returned a value of its own. `Charge`: the counter and the second charges that are still to come
  (`Owing`) are together at most twice `asked`, unless an INCR was sent again. `Refused`: a 429 of
  the open window was decided with the counter beyond the quota and a TTL on the key. With it each
  command of Redis maps to a step of `FixedWindow` or to a stutter: an INCR counts, and what it returned is
  beyond the quota exactly if the window was used up (`IncrCounts`); nothing before the answer changes what
  was decided (`DecisionsStay`), which is what the client is told (`DecisionTold`).
- *Migration.* `Behind`: what a migration has behind it exists. `SomeoneSafe`: as long as the
  database fails nobody, one that can succeed is `Safe`, not about to create what exists already;
  whoever makes an object is safe afterwards, and takes the place of the one it makes fail.
- *Readiness.* `OneEach`: nobody holds two clients, so a release gives back all that its holder
  has. `Witnessed`: what is up while a probe is under way was seen by it.
- *ClickPipeline.* `Known`: what is in the list or in a batch was put into the list by a call, or
  was in it from the start; `TrackCounted`: a call past its HINCRBY has counted its click. `OnceInv` is an
  account of each click: its call, as long as it is still to come or under way, the times it is in the list and
  in the hands of workers that have not given their batch up, and its rows, are together no more than the times
  it was sent. A pop, a re-queueing and a COMMIT move it from one term to another; the sum over the workers
  is the cardinality of a set of (worker, place) pairs, which a step changes for one worker only. `BoundInv` is an
  account of the list's places of the same kind: its length, the calls between LLEN and RPUSH and what workers have
  in their hands stay together below the bound, since a call sets out only while the list is below its limit.
  `LossesGivenUp` is about single steps (`NoneLost`): a step of one worker touches the list, its own batch and the
  rows, and what leaves the first two is in the third, or in the other, or `GivesUp` (`Kept`, `LossWorker`);
  calls and resent commands only add to the list.
- *Lifecycle.* `ServedWhileOpen`: requests are under way only in a worker that is up or draining. `NaturalCompletion` excuses a crash, a time that was up and the
  primary's exit over a fork bomb, each told apart by `ending`.
  `HistoryCounted`: `forkHistory` is never longer than workers and slack, and no longer than workers and
  deaths until the slack is used up, since a death forks one process at most, and none once the window holds
  as many as the threshold; what the filter keeps is no longer than what it was given (`WithinShorter`).
- *Base62.* Each statement is an induction over identifiers or over characters. It is made as
  an argument about the least counterexample: the intervals 0 .. n of the counterexamples are finite sets,
  strict inclusion of finite sets is well-founded (a theorem of the library), and the least one is refuted by
  what one more division, or one more character, does (`LeastElement`, `DigitsEquation`, `DecodeAppend`).

*Only model-checked:* the properties that need fairness, which is beyond the prover:
`EventuallySettled`, `LockoutEnds`, the two `ShutdownEnds`, `MigrationEnds`, `ProbeEnds`, `Recovers`. Every
invariant, every action property and both refinements that a run checks are also proved.

Two forms of definitions follow from what the prover can do. The library's induction theorems take an operator as
a parameter, which the provers cannot instantiate, hence `LeastElement` (in two modules, since each
of them needs it for a recursive function of its own). And `SelectSeq` and the folds mean nothing to
the provers, so `decodeAlias` and `Within` are recursive functions; that such a function exists and is unique,
which its definition alone does not say, is proved first (`DecodesExists`, `FilterExists`).

## 6. What the checks found

Runs that are expected to end in a counterexample, each against a sentence of the
repository (quoted in `PROJECT.json`):

1. `clicks_transient`: the codes `isTransient` looks for say that the connection is gone, and the `ROLLBACK` that is
   awaited before the re-queueing loop goes over that connection; it rejects, and the batch is lost
   (`analyticsFlushWorker.ts:133`). The test has a transient INSERT whose ROLLBACK resolves.
2. `teardown_single`: in single-process mode both signal handlers run, and the one of `index.ts` exits
   while requests are being drained and transactions are open (`index.ts:30`).
3. `migration_lock`: `pg_advisory_xact_lock` outside a transaction is released when its statement ends,
   so two migrations run side by side (`migrationRunner.js:42`). `SomeoneSucceeds` says what saves
   the deployment all the same: every replica creates in one order, so the one that made the last object goes on.

Findings without a run of their own. The first three are counterexamples TLC gives when the cfg named is changed as said:

4. `NoEventLost` with `Faults = {"connect"}` in `ClickPipeline_transient.cfg`: `pool.connect()` stands outside
   `persistBatch`'s `try` block, so an unreachable database loses the batch that was popped
   (`workers/analyticsFlushWorker.ts:110`).
5. `NoEventLost` with `Faults = {"commit"}` in the same cfg: a COMMIT that rejects with any other code has its batch
   discarded (`analyticsFlushWorker.ts:146`), where specifications.md:161 has it re-queued. (The mutant `RequeueAlways`
   shows what re-queueing would do to a COMMIT that took effect: two rows for a click.)
6. `NoClickCutOff` of `Teardown` as an invariant of `Teardown_safety.cfg`: `server.close()` does not wait for `trackClick`,
   whose next command may be written behind QUIT; exit(0) comes before ioredis rejects it, so a click may be counted and
   neither buffered nor logged (`shutdown.ts:86`). In single-process mode the last flush, between two commands, is cut
   off likewise.

The others follow from the models by reading them:

7. `redis.set` stands inside the `try` block after COMMIT. If it rejects, ROLLBACK has nothing to undo, the
   client gets 500, and a row with an alias nobody knows stays behind (`services/url/urlService.ts:68`;
   `WarmCacheFails` in `UrlService`).
8. `aliasSchema` demands four characters, the generator does not pad: the first 238327 aliases are handed
   out, but GET refuses them (`routes/shortener.ts:21`; `RoutableFromCube` holds).
9. The limiter is mounted twice for API routes with one key, so the quota is half of what is configured
   (`bootstrap/main/server.ts:47`; `RefusedOverHalfTheQuota` holds, and its half cannot be more).
10. The primary's timer is set only after the last flush has settled, so a flush that hangs hangs the
   shutdown (`bootstrap/cluster/clusterManager.ts:121`; `ShutdownEnds` of `Lifecycle` needs `WF_vars(StopReturns)`).

Other differences between documents and code, noticed while modelling, without a run:

- The sanitizer deletes what looks like a script tag or an event handler (`on...=`) from every string
  of a body, so `https://a.example/?online=1` is shortened to another URL; README 6.2 shows the redirect
  naming the URL that was submitted.
  (`UrlService` has `Clean` for this; `AnswersAreDurable` speaks of the cleaned URL.)
- A SIGTERM during a running flush: `stop()`'s own flush returns at once because `isRunning` is set, and
  the exit loses the batch of the running one. `NoEventLost` fails with `Faults = {"stop"}`, too.
- `handleSignal` does not notice that it ran before: a Ctrl-C to the process group and then the primary's
  SHUTDOWN message make the second `server.close()` report an error, and the worker exits with code 1
  and its resources open (`twice` in `Lifecycle`).
- A primary that takes its forks for a fork bomb exits with code 1 at once, and its live workers exit with
  their channel: requests under way are dropped though nobody asked for a shutdown (`Excused`).
- specifications.md 3.1 gives FORK_THRESHOLD as 5 and "exceeds"; the code has workers + 5 and "reaches".
  `FixedThreshold` shows why the code is right: a constant one would take start() for a fork bomb.
- specifications.md 3.2: the timeout exits with code 1; the primary exits with code 0.
- With DB_POOL_MAX 1 a migration cannot succeed: the client that took the lock is kept while the
  statements ask for another (`NoSecondClient`).
- `processBufferedClicks`, which only its test calls, re-queues after every error: an event that cannot be
  stored comes back for ever, and a lost acknowledgement stores the batch twice. The worker's comment
  on poison pills (`analyticsFlushWorker.ts:146`) is about exactly that.
- SHUTDOWN_TIMEOUT_MS covers the drain only: `closeResources` has no timer, where specifications.md:54 has one for
  the whole sequence. Its default is 10000 in `config/env.ts` and 30000 in `shutdown.ts`.
- specifications.md:50 has QUIT before the end of the pool; the code has the reverse, and
  `WarmNeverMeetsQuit` rests on that.
- `ShutdownManager` is said to do "telemetry flushing" (`shutdown.ts:11`); it flushes nothing. In single-process
  mode the last flush of `index.ts` may pop a batch and be refused a client by a pool that has ended.
- The documents have `/health` (README.md:313), exempt from rate limiting (specifications.md:301); the code serves
  `/health/live` and `/health/ready`, behind the limiter. PING has no timer (`ProbeEnds` says so).
- `aliasGenerator.ts:9` says lexicographically ordered; that holds for aliases of one length only
  (`ShortLex`), and in the charset's order (digits, lower case, upper case), which is not ASCII's.

## 7. What is left out, and why

- *Not modelled:* the configuration (one synchronous check at start), logging, helmet, response
  headers, empty placeholder files. `generateObfuscatedAlias`: nothing calls it.
- *Abstracted:* the text of URLs and of Joi's and the sanitizer's patterns; JSON (a value under a key is
  the record, or does not parse); the parsing of user agents and IPs; partitions (an event has one or
  not); reconnection of ioredis and pg (a command rejects or not, with or without effect, or is sent again).
- *External, from how `src/` uses it:* PostgreSQL (read committed: other transactions see committed rows),
  Redis (one command at a time), node's cluster.
- *Not in a passing run:* several flush workers under all the faults at once, whose states are too many
  for a run of minutes (a worker and a caller of `processBufferedClicks` pop against one another instead);
  clicks that are sent again more than once.

## 8. Plan

Done, in this order: UrlDirectory, UrlService with its proofs, Base62, ClickPipeline, RateLimiter,
Lifecycle, Teardown, Migration, Readiness, the proofs of the last six, FixedWindow, and the proofs of every
other invariant. Next:

*An abstract pipeline* (a bag of events, each stored at most once, lost only by a named fault) that
`ClickPipeline` implements: `StoredAtMostOnce` and `LostOnlyWhereGivenUp` are its two halves, and are proved.

To keep the suite quick, the questions of related instances are to be joined in one run where one
cfg can ask them.
