---------------------------- MODULE ClickPipeline -----------------------------
(***************************************************************************)
(* A click on its way to the clicks table: trackClick of                   *)
(* src/src/services/analytics/analyticsService.ts puts it into the Redis   *)
(* list analytics:buffer; the flush of                                     *)
(* src/src/workers/analyticsFlushWorker.ts, and processBufferedClicks of   *)
(* the service itself, move batches of the list to PostgreSQL.  A step is  *)
(* the code between two awaits; a pipeline of LPOPs is one step for each   *)
(* command, since Redis may serve others in between.                       *)
(***************************************************************************)
EXTENDS Naturals, Sequences, SequencesExt, FiniteSets, Functions

CONSTANTS
  Clicks,      \* the clicks that happen, each an event of its own
  Kind,        \* [Clicks -> Kinds]: what JSON.parse refuses, what validateEvent
               \* refuses, what no partition of clicks takes.  trackClick writes
               \* none of the first two: they are in the list from the start
  Trackers,    \* trackClick calls that can be under way at once
  Workers,     \* processes that run an AnalyticsFlushWorker
  Drainers,    \* callers of processBufferedClicks
  MaxBuffer,   \* MAX_BUFFER_SIZE
  BatchSize,   \* ANALYTICS_BATCH_SIZE, and the parameter batchSize
  Faults       \* what may go wrong, a subset of AllFaults

Kinds == {"good", "garbled", "malformed", "unstorable"}

AllFaults == {
  "redis",      \* a Redis command of trackClick rejects
  "lpop",       \* an LPOP rejects, whether Redis served it or not
  "resend",     \* the connection closes before the reply, and ioredis, connected
                \* again, sends the command (or pipeline) once more
  "connect",    \* the pool gives no client
  "transient",  \* a query rejects with one of the codes of isTransient and, as they
                \* say, the connection is gone
  "proxied",    \* a query rejects with one of them over a connection that stays, as
                \* a proxy may report it; PostgreSQL itself does not
  "persistent", \* a query before COMMIT rejects with any other code, or none
  "commit",     \* COMMIT does
  "ack",        \* the acknowledgement of a COMMIT is lost with the connection
  "rpush",      \* an RPUSH of the re-queueing loop rejects
  "stop",       \* SIGTERM, in single process mode
  "crash" }

ASSUME ClickPipelineAssumption ==
  /\ Kind \in [Clicks -> Kinds]
  /\ IsFiniteSet(Trackers) /\ IsFiniteSet(Workers) /\ IsFiniteSet(Drainers)
  /\ Trackers # {}
  /\ Workers \cap Drainers = {}
  /\ MaxBuffer \in Nat \ {0}
  /\ BatchSize \in Nat \ {0}
  /\ IsFiniteSet(Clicks)
  /\ Cardinality({c \in Clicks : Kind[c] \in {"garbled", "malformed"}}) <= MaxBuffer
  /\ Faults \subseteq AllFaults

VARIABLES
  fresh,     \* clicks that have not happened yet
  tpc,       \* the Redis command each trackClick call stands at
  click,     \* the click it is about
  counted,   \* clicks in the hashes metrics:clicks:<urlId>
  buffer,    \* the list analytics:buffer
  pushed,    \* clicks that were ever put into it
  resent,    \* clicks that came into the list, or the table, without the sender
             \* learning of it, and were sent again; each once at most: a bound
  wpc,       \* the await each worker stands at; its isRunning is wpc \in Running
  left,      \* LPOPs of its batch Redis has not served yet
  batch,     \* the raw events it took out of the buffer and still answers for
  stopping,  \* workers in the last flush of stop()
  stored     \* [Clicks -> number of rows in clicks]

trackVars == <<fresh, tpc, click, counted>>
listVars == <<buffer, pushed, resent>>
workVars == <<wpc, left, batch, stopping>>
vars == <<trackVars, listVars, workVars, stored>>

Flushers == Workers \cup Drainers

Running == {"pop", "take", "connect", "insert", "commit", "bulk", "rollback", "severed",
            "discard", "requeue"}

Init ==
  /\ fresh = {c \in Clicks : Kind[c] \in {"good", "unstorable"}}
  /\ tpc = [t \in Trackers |-> "idle"]
  /\ click \in [Trackers -> Clicks]
  /\ counted = {}
  /\ buffer = SetToSeq(Clicks \ fresh)
  /\ pushed = Clicks \ fresh
  /\ resent = {}
  /\ wpc = [w \in Flushers |-> "idle"]
  /\ left = [w \in Flushers |-> 0]
  /\ batch = [w \in Flushers |-> <<>>]
  /\ stopping = {}
  /\ stored = [c \in Clicks |-> 0]

May(f) == f \in Faults

------------------------------------------------------------------------------
(* trackClick *)

TGoto(t, l) == tpc' = [tpc EXCEPT ![t] = l]

\* The command resolves and the next one is sent, or it rejects: the catch block
\* logs, and the call ends.
TAwait(t, l) == TGoto(t, l) \/ (May("redis") /\ TGoto(t, "idle"))

\* isIP may refuse the address (what it says of one is left open): no event.
TrackClick(t) ==
  /\ tpc[t] = "idle"
  /\ \E c \in fresh :
       /\ fresh' = fresh \ {c}
       /\ click' = [click EXCEPT ![t] = c]
  /\ TGoto(t, "llen") \/ TGoto(t, "idle")
  /\ UNCHANGED <<counted, listVars, workVars, stored>>

\* Mutant: the limit is reached one event late.
FullAfter(n) == n > MaxBuffer

\* Backpressure.
Full(n) == n >= MaxBuffer

\* LLEN: the size is read here and acted upon three commands later.
Llen(t) ==
  /\ tpc[t] = "llen"
  /\ IF Full(Len(buffer)) THEN TGoto(t, "idle") ELSE TAwait(t, "hincrby")
  /\ UNCHANGED <<fresh, click, counted, listVars, workVars, stored>>

\* Mutant: a failing HINCRBY is logged and the event is buffered all the same.
HincrbyUnchecked(t) ==
  /\ tpc[t] = "hincrby"
  /\ counted' \in {counted, counted \cup {click[t]}}
  /\ TGoto(t, "sadd")
  /\ UNCHANGED <<fresh, click, listVars, workVars, stored>>

Hincrby(t) ==
  /\ tpc[t] = "hincrby"
  /\ \/ counted' = counted \cup {click[t]} /\ TAwait(t, "sadd")
     \/ May("redis") /\ counted' = counted /\ TGoto(t, "idle")
  /\ UNCHANGED <<fresh, click, listVars, workVars, stored>>

Sadd(t) ==
  /\ tpc[t] = "sadd"
  /\ TAwait(t, "rpush")
  /\ UNCHANGED <<fresh, click, counted, listVars, workVars, stored>>

\* Whether the RPUSH is acknowledged or not, the call ends here.
Rpush(t) ==
  /\ tpc[t] = "rpush"
  /\ \/ buffer' = Append(buffer, click[t]) /\ pushed' = pushed \cup {click[t]}
     \/ May("redis") /\ UNCHANGED <<buffer, pushed>>
  /\ TGoto(t, "idle")
  /\ UNCHANGED <<fresh, click, counted, resent, workVars, stored>>

\* Redis appends c, nobody learns of it, and the command is sent again.
Resend(c) ==
  /\ May("resend") /\ c \notin resent
  /\ buffer' = Append(buffer, c)
  /\ pushed' = pushed \cup {c}
  /\ resent' = resent \cup {c}
  /\ UNCHANGED <<trackVars, workVars, stored>>

RpushResent(t) == tpc[t] = "rpush" /\ Resend(click[t])

------------------------------------------------------------------------------
(* The flush worker, and the ends of processBufferedClicks *)

WGoto(w, l) == wpc' = [wpc EXCEPT ![w] = l]

\* Mutant: isRunning is not reset when the flush ends with an exception.
EndFlushRunning(w) ==
  /\ IF wpc[w] = "requeue" THEN UNCHANGED wpc
     ELSE WGoto(w, IF w \in stopping THEN "down" ELSE "idle")
  /\ batch' = [batch EXCEPT ![w] = <<>>]
  /\ stopping' = stopping \ {w}
  /\ UNCHANGED left

\* The end of flush, by return or by an exception its catch block logs: whatever
\* the batch still held is forgotten, and stop() goes on to process.exit.
EndFlush(w) ==
  /\ WGoto(w, IF w \in stopping THEN "down" ELSE "idle")
  /\ batch' = [batch EXCEPT ![w] = <<>>]
  /\ stopping' = stopping \ {w}
  /\ UNCHANGED left

\* Mutant: the loop over the LPOPs runs to i <= batchSize.
StartFlushOneMore(w) == WGoto(w, "pop") /\ left' = [left EXCEPT ![w] = BatchSize + 1]

StartFlush(w) == WGoto(w, "pop") /\ left' = [left EXCEPT ![w] = BatchSize]

\* The interval fires; while isRunning is set it has no effect.
Tick(w) ==
  /\ wpc[w] = "idle"
  /\ StartFlush(w)
  /\ UNCHANGED <<trackVars, listVars, batch, stopping, stored>>

\* One LPOP of the pipeline.  An error in its place of the results is skipped,
\* even if Redis removed the element.
Lpop(w) ==
  /\ wpc[w] = "pop" /\ left[w] > 0
  /\ left' = [left EXCEPT ![w] = left[w] - 1]
  /\ \/ (buffer = <<>> \/ May("lpop")) /\ UNCHANGED <<buffer, batch>>
     \/ /\ buffer # <<>>
        /\ buffer' = Tail(buffer)
        /\ batch' = [batch EXCEPT ![w] = Append(batch[w], Head(buffer))]
     \/ /\ May("lpop") /\ buffer # <<>>
        /\ buffer' = Tail(buffer)
        /\ UNCHANGED batch
  /\ UNCHANGED <<trackVars, pushed, resent, wpc, stopping, stored>>

\* The connection closes before the first reply: the whole pipeline is sent again,
\* and what the first one removed is seen by nobody.
PipelineResent(w) ==
  /\ wpc[w] = "pop" /\ May("resend")
  /\ StartFlush(w)
  /\ batch' = [batch EXCEPT ![w] = <<>>]
  /\ UNCHANGED <<trackVars, listVars, stopping, stored>>

Valid(w) == {c \in Range(batch[w]) : Kind[c] \in {"good", "unstorable"}}

\* exec() has resolved: events that do not validate are dropped, and if no other
\* is left there is nothing to persist.
Popped(w) ==
  /\ wpc[w] = "pop" /\ left[w] = 0
  /\ \/ Valid(w) = {} /\ EndFlush(w)
     \/ Valid(w) # {} /\ WGoto(w, "connect") /\ UNCHANGED <<left, batch, stopping>>
  /\ UNCHANGED <<trackVars, listVars, stored>>

\* pool.connect() stands outside the try block, of persistBatch as of
\* processBufferedClicks: if it rejects, nothing is re-queued.
Connect(w) ==
  /\ wpc[w] = "connect"
  /\ \/ WGoto(w, IF w \in Drainers THEN "bulk" ELSE "insert") /\ UNCHANGED <<left, batch, stopping>>
     \/ May("connect") /\ EndFlush(w)
  /\ UNCHANGED <<trackVars, listVars, stored>>

\* A query rejects, with a code of isTransient or another, and nothing of the
\* transaction stays.
QueryFails(w, other) ==
  /\ \/ May("transient") /\ WGoto(w, "severed")
     \/ May("proxied") /\ WGoto(w, "rollback")
     \/ May(other) /\ WGoto(w, "discard")
  /\ UNCHANGED <<left, batch, stopping, stored>>

\* BEGIN and the bulk INSERT.  One event without a partition fails them all.
Insert(w) ==
  /\ wpc[w] = "insert"
  /\ \/ /\ \A c \in Valid(w) : Kind[c] = "good"
        /\ WGoto(w, "commit")
        /\ UNCHANGED <<left, batch, stopping, stored>>
     \/ /\ \E c \in Valid(w) : Kind[c] = "unstorable"
        /\ WGoto(w, "discard")
        /\ UNCHANGED <<left, batch, stopping, stored>>
     \/ QueryFails(w, "persistent")
  /\ UNCHANGED <<trackVars, listVars>>

Times(c, s) == Cardinality({i \in DOMAIN s : s[i] = c})

Store(w, S) == stored' = [c \in Clicks |->
  stored[c] + IF c \in S THEN Times(c, batch[w]) ELSE 0]

\* A proxy that reports the lost acknowledgement with a code of isTransient has the
\* stored batch re-queued.
Commit(w) ==
  /\ wpc[w] = "commit"
  /\ \/ Store(w, Valid(w)) /\ EndFlush(w) /\ UNCHANGED resent
     \/ /\ May("ack") /\ Store(w, Valid(w)) /\ WGoto(w, "discard")
        /\ UNCHANGED <<resent, left, batch, stopping>>
     \/ /\ May("ack") /\ May("proxied") /\ resent \cap Range(batch[w]) = {}
        /\ Store(w, Valid(w))
        /\ resent' = resent \cup Range(batch[w])
        /\ WGoto(w, "rollback")
        /\ UNCHANGED <<left, batch, stopping>>
     \/ QueryFails(w, "commit") /\ UNCHANGED resent
  /\ UNCHANGED <<trackVars, buffer, pushed>>

\* Mutant: the rollback is all the catch block does.
RollbackForgets(w) ==
  /\ wpc[w] = "rollback"
  /\ EndFlush(w)
  /\ UNCHANGED <<trackVars, listVars, stored>>

\* The catch block after an error isTransient knows: ROLLBACK, then the loop.  Where
\* the connection is gone ROLLBACK rejects, and the loop is not reached: "severed".
Rollback(w) ==
  /\ wpc[w] = "rollback"
  /\ WGoto(w, "requeue")
  /\ UNCHANGED <<trackVars, listVars, left, batch, stopping, stored>>

\* Mutant: the batch is re-queued after every error, as specifications.md:161 has it.
RequeueAlways(w) ==
  /\ wpc[w] = "discard"
  /\ WGoto(w, "requeue")
  /\ UNCHANGED <<trackVars, listVars, left, batch, stopping, stored>>

\* The catch block where it re-queues nothing: ROLLBACK has rejected, or the error is
\* not one of isTransient's.
Discard(w) ==
  /\ wpc[w] \in {"discard", "severed"}
  /\ EndFlush(w)
  /\ UNCHANGED <<trackVars, listVars, stored>>

\* One RPUSH of the re-queueing loop, of raw events, malformed ones included;
\* the error is then rethrown.
Requeue(w) ==
  /\ wpc[w] = "requeue"
  /\ \/ /\ batch[w] # <<>>
        /\ buffer' = Append(buffer, Head(batch[w]))
        /\ batch' = [batch EXCEPT ![w] = Tail(batch[w])]
        /\ UNCHANGED <<wpc, left, stopping>>
     \/ batch[w] = <<>> /\ EndFlush(w) /\ UNCHANGED buffer
     \/ /\ May("rpush") /\ batch[w] # <<>>
        /\ buffer' \in {buffer, Append(buffer, Head(batch[w]))}
        /\ EndFlush(w)
  /\ UNCHANGED <<trackVars, pushed, resent, stored>>

RequeueResent(w) == wpc[w] = "requeue" /\ batch[w] # <<>> /\ Resend(Head(batch[w]))

------------------------------------------------------------------------------
(* processBufferedClicks: nothing under src/ calls it but its test *)

Drain(d) ==
  /\ wpc[d] = "idle"
  /\ WGoto(d, "take")
  /\ left' = [left EXCEPT ![d] = BatchSize]
  /\ UNCHANGED <<trackVars, listVars, batch, stopping, stored>>

\* One LPOP at a time; what does not parse is dropped.  The loop is outside the try
\* block: a rejection loses what it has taken so far.
Take(d) ==
  /\ wpc[d] = "take"
  /\ \/ /\ left[d] > 0 /\ buffer # <<>>
        /\ buffer' = Tail(buffer)
        /\ left' = [left EXCEPT ![d] = left[d] - 1]
        /\ batch' = IF Kind[Head(buffer)] = "garbled" THEN batch
                    ELSE [batch EXCEPT ![d] = Append(batch[d], Head(buffer))]
        /\ UNCHANGED <<wpc, stopping>>
     \/ /\ left[d] = 0 \/ buffer = <<>>
        /\ IF batch[d] = <<>> THEN EndFlush(d)
           ELSE WGoto(d, "connect") /\ UNCHANGED <<left, batch, stopping>>
        /\ UNCHANGED buffer
     \/ /\ May("lpop") /\ left[d] > 0
        /\ UNCHANGED buffer \/ (buffer # <<>> /\ buffer' = Tail(buffer))
        /\ EndFlush(d)
  /\ UNCHANGED <<trackVars, pushed, resent, stored>>

Storable(d) == \A c \in Range(batch[d]) : Kind[c] # "unstorable"

\* The INSERT is a transaction of its own; whatever it rejects with, the batch is
\* re-queued.  An event that is only malformed may or may not be one PostgreSQL
\* refuses.
Bulk(d) ==
  /\ wpc[d] = "bulk"
  /\ \/ /\ Storable(d)
        /\ Store(d, Clicks)
        /\ EndFlush(d)
        /\ UNCHANGED resent
     \/ /\ \/ May("transient") \/ May("proxied") \/ May("persistent")
           \/ \E c \in Range(batch[d]) : Kind[c] # "good"
        /\ WGoto(d, "requeue")
        /\ UNCHANGED <<resent, left, batch, stopping, stored>>
     \/ /\ May("ack") /\ Storable(d) /\ resent \cap Range(batch[d]) = {}
        /\ Store(d, Clicks)
        /\ resent' = resent \cup Range(batch[d])
        /\ WGoto(d, "requeue")
        /\ UNCHANGED <<left, batch, stopping>>
  /\ UNCHANGED <<trackVars, buffer, pushed>>

------------------------------------------------------------------------------
(* The process *)

\* The process ends, with whatever its flush had taken out of the buffer.
Die(w) ==
  /\ WGoto(w, "down")
  /\ batch' = [batch EXCEPT ![w] = <<>>]
  /\ stopping' = stopping \ {w}
  /\ UNCHANGED <<trackVars, listVars, left, stored>>

\* SIGTERM: stop() flushes once more, unless a flush is running: then its own
\* returns at once, and process.exit follows.
Stop(w) ==
  /\ May("stop") /\ w \notin stopping
  /\ \/ /\ wpc[w] = "idle"
        /\ StartFlush(w)
        /\ stopping' = stopping \cup {w}
        /\ UNCHANGED <<trackVars, listVars, batch, stored>>
     \/ wpc[w] \in Running /\ Die(w)

Crash(w) == May("crash") /\ wpc[w] # "down" /\ Die(w)

Restart(w) ==
  /\ wpc[w] = "down"
  /\ WGoto(w, "idle")
  /\ UNCHANGED <<trackVars, listVars, left, batch, stopping, stored>>

TrackStep(t) == TrackClick(t) \/ Llen(t) \/ Hincrby(t) \/ Sadd(t) \/ Rpush(t)

FlushStep(w) ==
  \/ Lpop(w) \/ Popped(w) \/ Connect(w) \/ Insert(w) \/ Commit(w)
  \/ Rollback(w) \/ Discard(w) \/ Requeue(w) \/ Take(w) \/ Bulk(w)

Next ==
  \/ \E t \in Trackers : TrackStep(t) \/ RpushResent(t)
  \/ \E w \in Workers : Tick(w) \/ PipelineResent(w) \/ Stop(w)
  \/ \E d \in Drainers : Drain(d)
  \/ \E w \in Flushers : FlushStep(w) \/ RequeueResent(w) \/ Crash(w) \/ Restart(w)

Spec == Init /\ [][Next]_vars

\* Every command and query settles, the interval keeps firing, a process that
\* ended is replaced; and neither does Redis fail every LPOP for ever, nor the database
\* every batch in the way that has it re-queued.
Fairness ==
  /\ \A t \in Trackers : WF_vars(TrackStep(t))
  /\ \A d \in Drainers : SF_vars(Bulk(d) /\ wpc'[d] \in {"idle", "down"})
  /\ \A w \in Flushers : WF_vars(FlushStep(w)) /\ WF_vars(Restart(w))
  /\ \A w \in Workers :
       /\ WF_vars(Tick(w)) /\ SF_vars(Lpop(w) /\ buffer' # buffer)
       /\ SF_vars(Insert(w) /\ wpc'[w] # "rollback")
       /\ SF_vars(Commit(w) /\ wpc'[w] # "rollback")

FairSpec == Spec /\ Fairness

------------------------------------------------------------------------------
(* Properties *)

TypeOK ==
  /\ fresh \subseteq Clicks
  /\ tpc \in [Trackers -> {"idle", "llen", "hincrby", "sadd", "rpush"}]
  /\ click \in [Trackers -> Clicks]
  /\ counted \subseteq Clicks
  /\ buffer \in Seq(Clicks)
  /\ pushed \subseteq Clicks /\ resent \subseteq Clicks
  /\ wpc \in [Flushers -> Running \cup {"idle", "down"}]
  /\ left \in [Flushers -> 0 .. BatchSize]
  /\ batch \in [Flushers -> Seq(Clicks)]
  /\ stopping \subseteq Workers
  /\ stored \in [Clicks -> Nat]

\* The list outgrows MAX_BUFFER_SIZE by no more than the calls that stood between
\* their LLEN and their RPUSH, the batches that may be re-queued, and what was sent
\* twice.
BufferBound ==
  Len(buffer) < MaxBuffer + Cardinality(Trackers) + Cardinality(Flushers) * BatchSize
                  + Cardinality(resent)

\* However batches are popped, re-queued, cut off by a crash, or committed without
\* the worker learning of it, no click has more rows than times it was sent.
StoredAtMostOnce == \A c \in Clicks : stored[c] <= IF c \in resent THEN 2 ELSE 1

\* The real-time counters never miss a click the buffer or the table knows of.
CountedBeforeBuffered ==
  \A c \in pushed : Kind[c] \in {"good", "unstorable"} => c \in counted

\* A click is in the table, in the list, or in the hands of a worker.
Accounted(c) ==
  \/ stored[c] > 0
  \/ c \in Range(buffer)
  \/ \E w \in Flushers : c \in Range(batch[w])

\* Where the code gives up what w has in hand: an LPOP that rejects, or that is sent
\* again; no client of the pool; ROLLBACK on a connection that is gone, or an error
\* that is not one of isTransient's; an RPUSH of the re-queueing loop that rejects; a
\* process that ends in the midst of a flush.
GivesUp(w) ==
  \/ wpc[w] = "pop" /\ wpc'[w] = "pop" /\ (May("lpop") \/ May("resend"))
  \/ wpc[w] = "take" /\ left[w] > 0 /\ May("lpop")
  \/ wpc[w] = "connect" /\ May("connect")
  \/ wpc[w] \in {"severed", "discard"}
  \/ wpc[w] = "requeue" /\ May("rpush")
  \/ wpc'[w] = "down" /\ (May("crash") \/ (May("stop") /\ w \notin stopping))

\* What w has in hand, the element its next LPOP removes included.
InHand(c, w) ==
  \/ c \in Range(batch[w])
  \/ wpc[w] \in {"pop", "take"} /\ buffer # <<>> /\ c = Head(buffer)

\* No step loses a click of the right form but those: not a flush that ends, be it by
\* an exception, not two flushes that pop from one list, not a re-queueing that is
\* under way.
LostOnlyWhereGivenUp ==
  [][\A c \in Clicks : Kind[c] = "good" /\ Accounted(c) /\ ~Accounted(c)' =>
       \E w \in Flushers : InHand(c, w) /\ GivesUp(w)]_vars

\* Nothing stays on the way for ever: a buffered click of the right form gets its row,
\* or is given up, through any finite run of failures; so the worker never stays in
\* one flush.
EventuallySettled ==
  \A c \in Clicks :
    (Kind[c] = "good" /\ c \in pushed) ~> stored[c] > 0 \/ ~Accounted(c)

\* "only transient failures trigger re-queuing ... at-least-once delivery semantics"
\* (README.md:131): a buffered click of the right form is never lost.
NoEventLost == \A c \in pushed : Kind[c] = "good" => Accounted(c)

================================================================================
