------------------------------ MODULE UrlService ------------------------------
(***************************************************************************)
(* POST /shorten and GET /:alias, from the route handlers down to          *)
(* PostgreSQL and Redis: src/src/routes/shortener.ts,                      *)
(* src/src/services/url/urlService.ts.  A step is the code between two     *)
(* awaits; pc[r] names the await that request r stands at.  Every awaited  *)
(* call may resolve, or reject with or without having taken effect.        *)
(***************************************************************************)
EXTENDS Naturals, FiniteSets

CONSTANTS
  Posts, Gets,  \* the requests clients make: POST /shorten, GET /:alias
  Procs,        \* server processes (pods, cluster workers), a pg pool in each
  Host,         \* [Posts \cup Gets -> Procs]: the process serving a request
  PoolMax,      \* DB_POOL_MAX of a process
  MaxId,        \* the largest value of the sequence urls_id_seq
  Aliases,      \* strings a client can put in the path
  AliasOf,      \* generateAlias, as a function on the sequence's values
  Routable,     \* the aliases that pass aliasSchema
  Urls,
  Clean,        \* sanitizeValue and Joi's trim(), on the URL of a body
  ValidUrls,    \* the URLs shortenSchema accepts
  NoRow,        \* a missing key of the cache; no row known yet
  Garbage,      \* a cache value JSON.parse does not turn into a record
  CommitAckLost \* BOOLEAN: may a COMMIT reject although it took effect?

Requests == Posts \cup Gets
Ids == 1 .. MaxId
Row == [id : Ids, alias : Aliases, url : Urls]

ASSUME UrlServiceAssumption ==
  /\ Posts \cap Gets = {}
  /\ Host \in [Requests -> Procs]
  /\ IsFiniteSet(Requests)
  /\ PoolMax \in Nat \ {0}
  /\ MaxId \in Nat
  /\ AliasOf \in [Ids -> Aliases]
  /\ \A i, j \in Ids : AliasOf[i] = AliasOf[j] => i = j
  /\ Routable \subseteq Aliases
  /\ Clean \in [Urls -> Urls]
  /\ ValidUrls \subseteq Urls
  /\ CommitAckLost \in BOOLEAN
  /\ NoRow \notin Row /\ Garbage \notin Row /\ NoRow # Garbage

VARIABLES
  body,     \* [Posts -> Urls]: the URL each POST submits
  path,     \* [Gets -> Aliases]: the alias each GET asks for
  pc,       \* the await each request stands at
  status,   \* the HTTP status each request was answered with, 0 before
  row,      \* the record a request is about: reserved by a POST, found by a GET
  seen,     \* aliases clients had been given by 201 when a GET arrived
  clients,  \* the requests that hold a client of their process's pg pool
  seq,      \* the last value of urls_id_seq
  rows,     \* the committed rows of urls
  cache     \* [Aliases -> record, NoRow or Garbage]: the keys url:<alias>

input == <<body, path>>
vars == <<body, path, pc, status, row, seen, clients, seq, rows, cache>>

Drafting == {"insert", "commit"}
PostHolds == {"begin", "nextval", "warm", "rollback"} \cup Drafting
Holding == PostHolds \cup {"read"}
Waiting == {"connect", "select"}
Locations == Holding \cup Waiting \cup {"idle", "lookup", "fill", "done", "dead"}
Inactive == {"idle", "done", "dead"}

Init ==
  /\ body \in [Posts -> Urls]
  /\ path \in [Gets -> Aliases]
  /\ pc = [r \in Requests |-> "idle"]
  /\ status = [r \in Requests |-> 0]
  /\ row = [r \in Requests |-> NoRow]
  /\ seen = [g \in Gets |-> {}]
  /\ clients = {}
  /\ seq = 0
  /\ rows = {}
  /\ cache = [a \in Aliases |-> NoRow]

------------------------------------------------------------------------------
(* Steps shared by the handlers *)

Goto(r, l) == pc' = [pc EXCEPT ![r] = l]

\* An awaited query of shortenUrl resolves, or rejects into the catch block.
Await(r, l) == Goto(r, l) \/ Goto(r, "rollback")

Reply(r, s) == status' = [status EXCEPT ![r] = s] /\ Goto(r, "done")

Release(r) == clients' = clients \ {r}

FreeClient(p) == Cardinality({r \in clients : Host[r] = p}) < PoolMax

\* pool.connect() in shortenUrl, and the one inside pool.query() of resolveUrl.
Acquire(r) ==
  /\ pc[r] \in Waiting
  /\ FreeClient(Host[r])
  /\ clients' = clients \cup {r}
  /\ Goto(r, IF pc[r] = "connect" THEN "begin" ELSE "read")
  /\ UNCHANGED <<input, status, row, seen, seq, rows, cache>>

\* The wait for a client ends after connectionTimeoutMillis, or the database
\* refuses the connection.  In shortenUrl this is outside the try block.
AcquireTimesOut(r) ==
  /\ pc[r] \in Waiting
  /\ Reply(r, 500)
  /\ UNCHANGED <<input, row, seen, clients, seq, rows, cache>>

------------------------------------------------------------------------------
(* POST /shorten *)

PostArrives(p) ==
  /\ pc[p] = "idle"
  /\ Clean[body[p]] \in ValidUrls
  /\ Goto(p, "connect")
  /\ UNCHANGED <<input, status, row, seen, clients, seq, rows, cache>>

PostInvalid(p) ==
  /\ pc[p] = "idle"
  /\ Clean[body[p]] \notin ValidUrls
  /\ Reply(p, 400)
  /\ UNCHANGED <<input, row, seen, clients, seq, rows, cache>>

Begin(p) ==
  /\ pc[p] = "begin"
  /\ Await(p, "nextval")
  /\ UNCHANGED <<input, status, row, seen, clients, seq, rows, cache>>

\* Mutant: the identifier is computed from the table, not drawn from a sequence.
MaxPlusOne ==
  CHOOSE i \in Ids \cup {MaxId + 1} :
    /\ \A x \in rows : x.id < i
    /\ \A j \in Ids : (\A x \in rows : x.id < j) => i <= j

\* nextval: a value is handed out once, and a rollback does not give it back.
NextId == seq + 1

\* The sequence advances (even if the answer is lost), or has no value left.
NextVal(p) ==
  /\ pc[p] = "nextval"
  /\ \/ /\ NextId \in Ids
        /\ seq' = NextId
        /\ row' = [row EXCEPT ![p] =
             [id |-> NextId, alias |-> AliasOf[NextId], url |-> Clean[body[p]]]]
        /\ Await(p, "insert")
     \/ /\ UNCHANGED <<seq, row>>
        /\ Goto(p, "rollback")
  /\ UNCHANGED <<input, status, seen, clients, rows, cache>>

\* Mutant: the cache is warmed before COMMIT.
InsertAndWarm(p) ==
  /\ pc[p] = "insert"
  /\ cache' = [cache EXCEPT ![row[p].alias] = row[p]]
  /\ Await(p, "commit")
  /\ UNCHANGED <<input, status, row, seen, clients, seq, rows>>

\* The row stays invisible to others until COMMIT.
Insert(p) ==
  /\ pc[p] = "insert"
  /\ Await(p, "commit")
  /\ UNCHANGED <<input, status, row, seen, clients, seq, rows, cache>>

\* Mutant: a rejected COMMIT is logged and the request goes on.
CommitUnchecked(p) ==
  /\ pc[p] = "commit"
  /\ rows' \in {rows, rows \cup {row[p]}}
  /\ Goto(p, "warm")
  /\ UNCHANGED <<input, status, row, seen, clients, seq, cache>>

Commit(p) ==
  /\ pc[p] = "commit"
  /\ \/ rows' = rows \cup {row[p]} /\ Goto(p, "warm")
     \/ rows' = rows /\ Goto(p, "rollback")
     \/ CommitAckLost /\ rows' = rows \cup {row[p]} /\ Goto(p, "rollback")
  /\ UNCHANGED <<input, status, row, seen, clients, seq, cache>>

\* Mutant: the value of a key is the bare URL instead of the record.
BareUrl(x) == x.url

\* The value stored under url:<alias>: the whole record, as JSON.
CacheValue(x) == x

\* redis.set stands inside the try block of shortenUrl.
WarmCache(p) ==
  /\ pc[p] = "warm"
  /\ cache' = [cache EXCEPT ![row[p].alias] = CacheValue(row[p])]
  /\ Reply(p, 201)
  /\ Release(p)
  /\ UNCHANGED <<input, row, seen, seq, rows>>

WarmCacheFails(p) ==
  /\ pc[p] = "warm"
  /\ cache' \in {cache, [cache EXCEPT ![row[p].alias] = CacheValue(row[p])]}
  /\ Goto(p, "rollback")
  /\ UNCHANGED <<input, status, row, seen, clients, seq, rows>>

\* Mutant: release() stands at the end of the try block, not in finally.
RollbackKeepsClient(p) ==
  /\ pc[p] = "rollback"
  /\ Reply(p, 500)
  /\ UNCHANGED <<input, row, seen, clients, seq, rows, cache>>

\* ROLLBACK, whether it resolves or throws: finally releases, the route says 500.
Rollback(p) ==
  /\ pc[p] = "rollback"
  /\ Reply(p, 500)
  /\ Release(p)
  /\ UNCHANGED <<input, row, seen, seq, rows, cache>>

------------------------------------------------------------------------------
(* GET /:alias *)

GivenOut == {row[p].alias : p \in {q \in Posts : status[q] = 201}}

GetArrives(g) ==
  /\ pc[g] = "idle"
  /\ path[g] \in Routable
  /\ seen' = [seen EXCEPT ![g] = GivenOut]
  /\ Goto(g, "lookup")
  /\ UNCHANGED <<input, status, row, clients, seq, rows, cache>>

GetInvalid(g) ==
  /\ pc[g] = "idle"
  /\ path[g] \notin Routable
  /\ Reply(g, 400)
  /\ UNCHANGED <<input, row, seen, clients, seq, rows, cache>>

\* redis.get finds a record: the database is not asked.
Hit(g) ==
  /\ pc[g] = "lookup"
  /\ cache[path[g]] \in Row
  /\ row' = [row EXCEPT ![g] = cache[path[g]]]
  /\ Reply(g, 302)
  /\ UNCHANGED <<input, seen, clients, seq, rows, cache>>

\* Mutant: a value that does not parse is taken for "no such alias".
GarbageIsMissing(g) ==
  /\ pc[g] = "lookup"
  /\ \/ cache[path[g]] = Garbage /\ Reply(g, 404)
     \/ cache[path[g]] # Garbage /\ Goto(g, "select") /\ status' = status
  /\ UNCHANGED <<input, row, seen, clients, seq, rows, cache>>

\* No key, a value that does not parse, or Redis failing, key or no key.
Miss(g) ==
  /\ pc[g] = "lookup"
  /\ Goto(g, "select")
  /\ UNCHANGED <<input, status, row, seen, clients, seq, rows, cache>>

\* Mutant: the WHERE clause is dropped.
AnyRow(a) == rows

Matching(a) == {x \in rows : x.alias = a}

\* The SELECT answers with the committed rows, or rejects.
Read(g) ==
  /\ pc[g] = "read"
  /\ \/ /\ \E x \in Matching(path[g]) : row' = [row EXCEPT ![g] = x]
        /\ Goto(g, "fill")
        /\ UNCHANGED status
     \/ Matching(path[g]) = {} /\ Reply(g, 404) /\ UNCHANGED row
     \/ Reply(g, 500) /\ UNCHANGED row
  /\ Release(g)
  /\ UNCHANGED <<input, seen, seq, rows, cache>>

\* A failure of redis.set is swallowed here: the redirect is sent anyway.
Fill(g) ==
  /\ pc[g] = "fill"
  /\ cache' \in {cache, [cache EXCEPT ![path[g]] = CacheValue(row[g])]}
  /\ Reply(g, 302)
  /\ UNCHANGED <<input, row, seen, clients, seq, rows>>

------------------------------------------------------------------------------
(* The surroundings *)

\* The TTL runs out, Redis evicts, or Redis restarts.
Evict(a) ==
  /\ cache[a] # NoRow
  /\ cache' = [cache EXCEPT ![a] = NoRow]
  /\ UNCHANGED <<input, pc, status, row, seen, clients, seq, rows>>

\* Another writer leaves something that is not a record.
Poison(a) ==
  /\ cache[a] # Garbage
  /\ cache' = [cache EXCEPT ![a] = Garbage]
  /\ UNCHANGED <<input, pc, status, row, seen, clients, seq, rows>>

\* A process dies: its requests get no answer, its transactions roll back, its
\* connections close.  It is replaced, so later requests may be served.
Crash(w) ==
  /\ \E r \in Requests : Host[r] = w /\ pc[r] \notin Inactive
  /\ pc' = [r \in Requests |->
       IF Host[r] = w /\ pc[r] \notin Inactive THEN "dead" ELSE pc[r]]
  /\ clients' = {r \in clients : Host[r] # w}
  /\ UNCHANGED <<input, status, row, seen, seq, rows, cache>>

PostStep(p) ==
  \/ PostArrives(p) \/ PostInvalid(p) \/ Begin(p) \/ NextVal(p) \/ Insert(p)
  \/ Commit(p) \/ WarmCache(p) \/ WarmCacheFails(p) \/ Rollback(p)

GetStep(g) ==
  GetArrives(g) \/ GetInvalid(g) \/ Hit(g) \/ Miss(g) \/ Read(g) \/ Fill(g)

Next ==
  \/ \E r \in Requests : Acquire(r) \/ AcquireTimesOut(r)
  \/ \E p \in Posts : PostStep(p)
  \/ \E g \in Gets : GetStep(g)
  \/ \E a \in Aliases : Evict(a) \/ Poison(a)
  \/ \E w \in Procs : Crash(w)

Spec == Init /\ [][Next]_vars

------------------------------------------------------------------------------
(* Properties *)

TypeOK ==
  /\ body \in [Posts -> Urls]
  /\ path \in [Gets -> Aliases]
  /\ pc \in [Requests -> Locations]
  /\ status \in [Requests -> {0, 201, 302, 400, 404, 500}]
  /\ row \in [Requests -> Row \cup {NoRow}]
  /\ seen \in [Gets -> SUBSET Aliases]
  /\ clients \subseteq Requests
  /\ seq \in Ids \cup {0}
  /\ rows \subseteq Row
  /\ cache \in [Aliases -> Row \cup {NoRow, Garbage}]

\* The INSERT of a draft never meets the primary key or the unique index on
\* alias: neither a committed row nor another open transaction has its id or its
\* alias ("Utilizes a collision-free strategy", urlService.ts:34).
CollisionFree ==
  \A p \in Posts : pc[p] \in Drafting =>
    \A x \in rows \cup {row[q] : q \in {q \in Posts \ {p} : pc[q] \in Drafting}} :
      x.id # row[p].id /\ x.alias # row[p].alias

\* Whatever record the cache holds under an alias is a committed row of that
\* alias, however the writes of POSTs and of GETs to the key interleave.
CacheIsDurable ==
  \A a \in Aliases : cache[a] \in Row => cache[a] \in rows /\ cache[a].alias = a

\* A 201 or a 302 names a committed row: the request's own URL as it is stored,
\* or the alias that was asked for.
AnswersAreDurable ==
  /\ \A p \in Posts : status[p] = 201 =>
       row[p] \in rows /\ row[p].url = Clean[body[p]]
  /\ \A g \in Gets : status[g] = 302 =>
       row[g] \in rows /\ row[g].alias = path[g]

\* An alias a client was given by a 201 before a GET for it arrived is not
\* answered 404, whatever process serves the GET, whatever Redis lost meanwhile.
ReadYourWrites ==
  \A g \in Gets : status[g] = 404 => path[g] \notin seen[g]

\* No path through the handlers keeps a client of the pool or gives back one it
\* does not hold, and no process takes more than DB_POOL_MAX.
ClientsAccounted ==
  /\ clients = {r \in Requests : pc[r] \in Holding}
  /\ \A w \in Procs : Cardinality({r \in clients : Host[r] = w}) <= PoolMax

LinkOf(x) == [alias |-> x.alias, url |-> x.url]
published == {LinkOf(x) : x \in rows}
begun == {r \in Requests : pc[r] # "idle"}
answered == [r \in Requests |-> IF status[r] \in {201, 302} THEN LinkOf(row[r]) ELSE {}]

\* The service keeps the promise UrlDirectory makes to its clients.
Directory == INSTANCE UrlDirectory WITH
  directory <- published, arrived <- begun, link <- answered

KeepsPromise == Directory!Spec

================================================================================
