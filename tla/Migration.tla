------------------------------ MODULE Migration --------------------------------
(***************************************************************************)
(* Replicas of the service that are deployed at once and migrate one       *)
(* database: migrate() of src/src/database/postgres/pool_schema_manager/   *)
(* migrations/migrationRunner.js.  A step is what PostgreSQL does for one  *)
(* statement without another session coming in between: CREATE ... IF NOT  *)
(* EXISTS is two, the look and the creation.                               *)
(***************************************************************************)
EXTENDS Naturals, FiniteSets

CONSTANTS
  Replicas,
  PoolMax,  \* [Replicas -> clients in the pool of each process]
  Retries,  \* DB_MIGRATION_RETRIES
  Ahead,    \* months that get a partition, 7 in the code
  LastMonth \* bound on the clock

ASSUME MigrationAssumption ==
  /\ PoolMax \in [Replicas -> Nat \ {0}]
  /\ Retries \in Nat /\ Ahead \in Nat \ {0} /\ LastMonth \in Nat

VARIABLES
  schema,   \* the objects that exist: 1 is urls, 2 is clicks, 3 + m the partition of
            \* month m, each with the indices its statement creates along with it
  month,    \* what new Date() says
  pc,       \* what each replica stands at
  at,       \* the number of its statement
  now,      \* the month it has read
  tries,    \* retries left for the statement
  hurt      \* replicas that failed because the database did

local == <<pc, at, now, tries>>
vars == <<schema, month, local, hurt>>

Statements == 2 + Ahead
Wanted(m) == {1, 2} \cup {2 + m + i : i \in 1 .. Ahead}

\* A new database, or one that was migrated in month 0.
Init ==
  /\ schema \in {{}, Wanted(0)}
  /\ month = 0
  /\ pc = [r \in Replicas |-> "idle"]
  /\ at = [r \in Replicas |-> 1]
  /\ now = [r \in Replicas |-> 0]
  /\ tries = [r \in Replicas |-> Retries]
  /\ hurt = {}

Goto(r, l) == pc' = [pc EXCEPT ![r] = l]

------------------------------------------------------------------------------
(* migrate() *)

\* The deployment calls it, for a replica whose last attempt failed once more.
Start(r) ==
  /\ pc[r] \in {"idle", "failed"}
  /\ Goto(r, "lock")
  /\ UNCHANGED <<schema, month, at, now, tries, hurt>>

\* pool.connect() and pg_advisory_xact_lock.  No transaction was begun, so the lock
\* is released when its own statement ends; the client is kept, and not used.
Lock(r) ==
  /\ pc[r] = "lock"
  /\ Goto(r, "check")
  /\ at' = [at EXCEPT ![r] = 1]
  /\ tries' = [tries EXCEPT ![r] = Retries]
  /\ UNCHANGED <<schema, month, now, hurt>>

\* The statement of a step, each over a client of its own.
Object(r) == IF at[r] <= 2 THEN at[r] ELSE at[r] + now[r]

\* The statement is done: on to the next, with all its retries.  The month is read
\* once, before the first partition.
Advance(r) ==
  /\ Goto(r, IF at[r] = Statements THEN "done" ELSE "check")
  /\ at' = [at EXCEPT ![r] = IF at[r] = Statements THEN 1 ELSE at[r] + 1]
  /\ tries' = [tries EXCEPT ![r] = Retries]
  /\ now' = [now EXCEPT ![r] = IF at[r] = 2 THEN month ELSE now[r]]

\* Mutant: the statement is a plain CREATE.
CheckNothing(r) ==
  /\ pc[r] = "check" /\ PoolMax[r] > 1
  /\ Goto(r, "create")
  /\ UNCHANGED <<schema, month, at, now, tries, hurt>>

\* IF NOT EXISTS.
Check(r) ==
  /\ pc[r] = "check" /\ PoolMax[r] > 1
  /\ \/ Object(r) \in schema /\ Advance(r)
     \/ Object(r) \notin schema /\ Goto(r, "create") /\ UNCHANGED <<at, now, tries>>
  /\ UNCHANGED <<schema, month, hurt>>

\* pool.query() waits for a second client, for connectionTimeoutMillis.  The error has
\* no code, so it is not retried.
NoSecondClient(r) ==
  /\ pc[r] = "check" /\ PoolMax[r] = 1
  /\ Goto(r, "failed")
  /\ UNCHANGED <<schema, month, at, now, tries, hurt>>

\* The object is created; or another session has created it since the look, and the
\* error (a duplicate key of the catalogue) is not one isTransientError knows.
Create(r) ==
  /\ pc[r] = "create"
  /\ \/ /\ Object(r) \notin schema
        /\ schema' = schema \cup {Object(r)}
        /\ Advance(r)
     \/ /\ Object(r) \in schema
        /\ Goto(r, "failed")
        /\ UNCHANGED <<schema, at, now, tries>>
  /\ UNCHANGED <<month, hurt>>

\* Mutant: retries is passed on as it is.
RetryForEver(r) ==
  /\ Goto(r, "backoff")
  /\ UNCHANGED <<tries, hurt>>

\* Mutant: retries >= 0.
RetryAtZero(r) ==
  /\ Goto(r, "backoff")
  /\ tries' = [tries EXCEPT ![r] = tries[r] - 1]
  /\ UNCHANGED hurt

\* executeWithRetry after an error isTransientError knows.
Retry(r) ==
  \/ /\ tries[r] > 0
     /\ Goto(r, "backoff")
     /\ tries' = [tries EXCEPT ![r] = tries[r] - 1]
     /\ UNCHANGED hurt
  \/ /\ tries[r] = 0
     /\ Goto(r, "failed")
     /\ hurt' = hurt \cup {r}
     /\ UNCHANGED tries

\* Mutant: an error is logged, and the migration goes on.
QueryFailsLogged(r) ==
  /\ pc[r] \in {"check", "create"} /\ PoolMax[r] > 1
  /\ Advance(r)
  /\ UNCHANGED <<schema, month, hurt>>

\* The database fails: with an error that is retried or with another one, and the
\* object may have been created nonetheless.
QueryFails(r) ==
  /\ pc[r] \in {"check", "create"} /\ PoolMax[r] > 1
  /\ schema' \in {schema} \cup (IF pc[r] = "create" THEN {schema \cup {Object(r)}} ELSE {})
  /\ \/ Retry(r)
     \/ Goto(r, "failed") /\ hurt' = hurt \cup {r} /\ UNCHANGED tries
  /\ UNCHANGED <<month, at, now>>

\* The delay, 200 ms and twice as long each time.
BackOffEnds(r) ==
  /\ pc[r] = "backoff"
  /\ Goto(r, "check")
  /\ UNCHANGED <<schema, month, at, now, tries, hurt>>

\* No client, or no lock: that statement is not retried; or the process dies.
Abort(r) ==
  /\ pc[r] \in {"lock", "check", "create", "backoff"}
  /\ Goto(r, "failed")
  /\ hurt' = hurt \cup {r}
  /\ UNCHANGED <<schema, month, at, now, tries>>

MonthPasses ==
  /\ month < LastMonth
  /\ month' = month + 1
  /\ UNCHANGED <<schema, local, hurt>>

Step(r) ==
  \/ Lock(r) \/ Check(r) \/ NoSecondClient(r) \/ Create(r)
  \/ QueryFails(r) \/ BackOffEnds(r) \/ Abort(r)

Next == MonthPasses \/ \E r \in Replicas : Start(r) \/ Step(r)

Spec == Init /\ [][Next]_vars

\* Statements settle, timers fire.  Nobody need start anything.
FairSpec == Spec /\ \A r \in Replicas : WF_vars(Step(r))

------------------------------------------------------------------------------
(* Properties *)

Migrating == {r \in Replicas : pc[r] \in {"lock", "check", "create", "backoff"}}

TypeOK ==
  /\ schema \subseteq 1 .. Statements + LastMonth
  /\ month \in 0 .. LastMonth
  /\ pc \in [Replicas -> {"idle", "lock", "check", "create", "backoff", "done", "failed"}]
  /\ at \in [Replicas -> 1 .. Statements]
  /\ now \in [Replicas -> 0 .. LastMonth]
  /\ tries \in [Replicas -> 0 .. Retries]
  /\ hurt \subseteq Replicas

\* A migration that reports success has found or made every table and partition,
\* whoever else was at it, whatever was retried ("idempotent operations",
\* migrationRunner.js:3).
SuccessMeansComplete ==
  \A r \in Replicas : pc[r] = "done" => Wanted(now[r]) \subseteq schema

\* Without a lock that works, replicas make each other fail, but not all: if the
\* database failed none of them, one that has two clients succeeds, even across the
\* end of a month.  (All create in one order: whoever made the last object goes on.)
SomeoneSucceeds ==
  LET able == {r \in Replicas : PoolMax[r] > 1}
  IN hurt = {} /\ able # {} /\ (\A r \in able : pc[r] \in {"done", "failed"})
       => \E r \in able : pc[r] = "done"

\* A migration ends: the retries are bounded, and it waits for no other replica.
MigrationEnds == \A r \in Replicas : r \in Migrating ~> r \notin Migrating

\* "Use an advisory lock to prevent concurrent migrations" (migrationRunner.js:24).
NoConcurrentMigrations ==
  Cardinality({r \in Replicas : pc[r] \in {"check", "create", "backoff"}}) <= 1

================================================================================
