--------------------------- MODULE EventPipeline ---------------------------
(***************************************************************************)
(* The way of an event from publish_event to PostgreSQL                     *)
(* (backend/api/event_publisher.py, backend/services/event_batcher.py,      *)
(* backend/api/persistence_worker.py) and the check of the collector that   *)
(* it has arrived (backend/api/event_collector.py).                         *)
(*                                                                          *)
(* publish_event writes the event to the Redis list of its session and to   *)
(* the pub/sub channel and leaves a task behind.  The task hands the event  *)
(* to the batcher, which buffers it, or saves it at once when it is         *)
(* critical; a critical event that PostgreSQL refuses goes to a sorted set  *)
(* in Redis, from which the retry worker saves it later.                    *)
(*                                                                          *)
(* One event loop runs everything, and the calls to Redis and PostgreSQL    *)
(* block it, so a handler is one step unless it really suspends.  Only the  *)
(* worker takes several: between its calls nobody else runs, but the        *)
(* process may die.                                                         *)
(*                                                                          *)
(* PostgreSQL may refuse what it is sent, and may commit it although its    *)
(* answer does not arrive; the call is then repeated (retry_db).            *)
(***************************************************************************)
EXTENDS Naturals, Sequences, FiniteSets

CONSTANTS
  Sessions,
  Ending,           \* bound: the sessions whose meeting comes to an end
  MAX_BUFFER_SIZE,  \* events a buffer holds before it is flushed (100)
  MAX_RETRIES,      \* attempts of the worker before the dead letter queue (5)
  MAX_ATTEMPTS,     \* attempts of one call of PostgreSQL (3)
  MaxEvents,        \* bound: events published
  MaxFaults         \* bound: failures, of Redis, of PostgreSQL and of the process

ASSUME BatchAssumption ==
  /\ MAX_BUFFER_SIZE \in Nat \ {0} /\ MAX_RETRIES \in Nat \ {0}
  /\ MAX_ATTEMPTS \in Nat \ {0}
ASSUME BoundAssumption == Ending \subseteq Sessions /\ MaxEvents \in Nat /\ MaxFaults \in Nat

VARIABLES
  published,        \* every event ever published, by number of its publication
  counters,         \* _sequence_counters of the publisher
  tasks,            \* events whose persistence task has not run yet
  buffer,           \* _buffer of the batcher: entries [event, sequence]
  seq_counter,      \* _seq_counter of the batcher
  rows,             \* the table session_events
  failed, dlq,      \* FAILED_EVENTS_KEY and FAILED_EVENTS_DLQ_KEY
  worker,           \* where the retry worker is
  meeting,          \* how far the collector of each session is
  faults            \* failures so far: calls of PostgreSQL that raised, commits
                    \* not acknowledged (ack), errors of Redis, crashes

vars == <<published, counters, tasks, buffer, seq_counter, rows, failed, dlq,
          worker, meeting, faults>>
memory == <<counters, tasks, buffer, seq_counter>>
stores == <<rows, failed, dlq>>

Kinds == {"normal", "critical", "complete"}
(* How far publish_event came: the list, the channel and the task; only the *)
(* list, because the channel failed; or nowhere.                             *)
Reaches == {"all", "list", "none"}
Idle == [at |-> "idle"]

Init ==
  /\ published = <<>> /\ counters = [s \in Sessions |-> 0]
  /\ tasks = {} /\ buffer = {} /\ seq_counter = 0
  /\ rows = {} /\ failed = {} /\ dlq = {}
  /\ worker = Idle
  /\ meeting = [s \in Sessions |-> [phase |-> "running", tries |-> 0, seen |-> 0]]
  /\ faults = [pg |-> 0, ack |-> 0, redis |-> 0, crash |-> 0]

Ids == 1..Len(published)
Stored == {r.event : r \in rows}
Of(s) == {e \in Ids : published[e].session = s}
Critical(e) == published[e].kind # "normal"

(* Everything but the worker waits while the worker holds the event loop.    *)
LoopFree == worker = Idle

Harm == faults.pg + faults.ack + faults.redis + faults.crash
Spend(pg, ack, redis) ==
  /\ Harm + pg + ack + redis <= MaxFaults
  /\ faults' = [faults EXCEPT !.pg = @ + pg, !.ack = @ + ack, !.redis = @ + redis]

----------------------------------------------------------------------------
(* publish_event, once for each element [kind, reach] of list: an error of   *)
(* Redis is logged, and the event goes no further.                           *)
Announce(s, list) ==
  LET next == Len(published) IN
  /\ next + Len(list) <= MaxEvents
  /\ published' = published \o
       [i \in DOMAIN list |-> [session |-> s, kind |-> list[i].kind,
                              number |-> counters[s] + i, reach |-> list[i].reach]]
  /\ counters' = [counters EXCEPT ![s] = @ + Len(list)]
  /\ tasks' = tasks \cup {next + i : i \in {k \in DOMAIN list : list[k].reach = "all"}}

Cost(list) == Cardinality({i \in DOMAIN list : list[i].reach # "all"})

publish_event(s, kind, reach) ==
  LET list == <<[kind |-> kind, reach |-> reach]>> IN
  /\ LoopFree
  /\ Announce(s, list)
  /\ Spend(0, 0, Cost(list))
  /\ UNCHANGED <<buffer, seq_counter, stores, worker, meeting>>

----------------------------------------------------------------------------
(* What one call of save_event or save_events_batch does: how often its rows  *)
(* are committed, and whether it returns. An attempt whose commit is not      *)
(* acknowledged raises like one that is refused, and is repeated.             *)
Calls == {c \in [copies : 0..MAX_ATTEMPTS, ok : BOOLEAN] : c.ok => c.copies > 0}
Once == [copies |-> 1, ok |-> TRUE]
Unsure(c) == IF c.ok THEN c.copies > 1 ELSE c.copies > 0

(* INSERT INTO session_events ... ON CONFLICT (session_id, sequence,          *)
(* created_at) DO NOTHING: created_at is the time of the insertion, so a row  *)
(* is added each time; x is inserted times[x] times.                          *)
Insert(table, times, by) ==
  LET present(x) == Cardinality({r \in table : r.event = x.event}) IN
  table \cup UNION {{[event |-> x.event, sequence |-> x.sequence, by |-> by,
                      copy |-> present(x) + k] : k \in 1..times[x]} : x \in DOMAIN times}

(* _flush_locked: one batch or, when that raises, one insert for each event;  *)
(* an event whose insert raises too is logged and forgotten.                  *)
Batch(buf, c) ==
  [times |-> [x \in buf |-> c.copies], pg |-> 0, ack |-> IF Unsure(c) THEN 1 ELSE 0]
Fallback(buf, c, single) ==
  [times |-> [x \in buf |-> c.copies + single[x].copies],
   pg |-> 1 + Cardinality({x \in buf : ~single[x].ok}),
   ack |-> (IF Unsure(c) THEN 1 ELSE 0) + Cardinality({x \in buf : Unsure(single[x])})]
Flushes(buf) ==
  IF buf = {} THEN {Batch(buf, Once)}
  ELSE {Batch(buf, c) : c \in {d \in Calls : d.ok}} \cup
       {Fallback(buf, c, single) : c \in {d \in Calls : ~d.ok}, single \in [buf -> Calls]}

(* Mutant: critical events get no number of their own. *)
TakeTask_uncounted_critical(e) ==
  /\ LoopFree
  /\ e \in tasks
  /\ \A other \in tasks : e <= other
  /\ tasks' = tasks \ {e}
  /\ seq_counter' = IF Critical(e) THEN seq_counter ELSE seq_counter + 1
  /\ UNCHANGED <<published, counters, worker, meeting>>


(* The oldest persistence task takes its turn - tasks, semaphore and lock are *)
(* served in order - and queue_event numbers its event e.                     *)
TakeTask(e) ==
  /\ LoopFree
  /\ e \in tasks
  /\ \A other \in tasks : e <= other
  /\ tasks' = tasks \ {e}
  /\ seq_counter' = seq_counter + 1
  /\ UNCHANGED <<published, counters, worker, meeting>>
Entry(e) == [event |-> e, sequence |-> seq_counter + 1]

BufferEvent(e) ==
  /\ TakeTask(e)
  /\ ~Critical(e)
  /\ Cardinality(buffer) + 1 < MAX_BUFFER_SIZE
  /\ buffer' = buffer \cup {Entry(e)}
  /\ UNCHANGED <<stores, faults>>

(* The window is compared with the clock only here, when an event arrives,   *)
(* and starts with the first event of the buffer.                            *)
BufferAndFlush(e) ==
  /\ TakeTask(e)
  /\ ~Critical(e)
  /\ Cardinality(buffer) + 1 >= MAX_BUFFER_SIZE \/ buffer # {}
  /\ \E f \in Flushes(buffer \cup {Entry(e)}) :
       /\ Spend(f.pg, f.ack, 0)
       /\ rows' = Insert(rows, f.times, "batcher")
  /\ buffer' = {}
  /\ UNCHANGED <<failed, dlq>>

(* The critical event e is saved after the buffer, by a call of its own.     *)
AndThen(times, x, n) == [y \in DOMAIN times \cup {x} |-> IF y = x THEN n ELSE times[y]]
SaveAtOnce(e, f, c, redis) ==
  /\ Spend(f.pg + (IF c.ok THEN 0 ELSE 1), f.ack + (IF Unsure(c) THEN 1 ELSE 0), redis)
  /\ rows' = Insert(rows, AndThen(f.times, Entry(e), c.copies), "batcher")

(* Mutant: the buffer is not flushed before a critical event. *)
SaveCritical_unflushed(e) ==
  /\ TakeTask(e)
  /\ Critical(e)
  /\ SaveAtOnce(e, Batch({}, Once), Once, 0)
  /\ UNCHANGED <<buffer, failed, dlq>>

SaveCritical(e) ==
  /\ TakeTask(e)
  /\ Critical(e)
  /\ \E f \in Flushes(buffer), c \in Calls : c.ok /\ SaveAtOnce(e, f, c, 0)
  /\ buffer' = {}
  /\ UNCHANGED <<failed, dlq>>

(* Mutant: the failure is logged and the event forgotten. *)
queue_failed_event_logged(e, redis) == failed' = failed


(* save_event raises, though it may have stored the event:                   *)
(* _persist_event_async puts it into the sorted set, unless Redis fails too. *)
queue_failed_event(e, redis) ==
  failed' = IF redis = 0 THEN failed \cup {[event |-> e, retry_count |-> 0]} ELSE failed

CriticalRefused(e) ==
  /\ TakeTask(e)
  /\ Critical(e)
  /\ \E f \in Flushes(buffer), c \in Calls, redis \in {0, 1} :
       /\ ~c.ok
       /\ SaveAtOnce(e, f, c, redis)
       /\ queue_failed_event(e, redis)
  /\ buffer' = {}
  /\ UNCHANGED dlq

----------------------------------------------------------------------------
(* Mutant: an entry that was rescheduled is never due. *)
retry_event_first_only(entry) ==
  LET row == [event |-> entry.event, sequence |-> published[entry.event].number] IN
  /\ LoopFree
  /\ entry \in failed /\ entry.retry_count = 0
  /\ \E c \in Calls :
       /\ Spend(IF c.ok THEN 0 ELSE 1, IF Unsure(c) THEN 1 ELSE 0, 0)
       /\ rows' = Insert(rows, [x \in {row} |-> c.copies], "worker")
       /\ worker' = [at |-> "remove", entry |-> entry, success |-> c.ok]
  /\ UNCHANGED <<published, memory, failed, dlq, meeting>>


(* The retry worker: save, remove the entry, add it again if it was refused. *)
retry_event(entry) ==
  LET row == [event |-> entry.event, sequence |-> published[entry.event].number] IN
  /\ LoopFree
  /\ entry \in failed
  /\ \E c \in Calls :
       /\ Spend(IF c.ok THEN 0 ELSE 1, IF Unsure(c) THEN 1 ELSE 0, 0)
       /\ rows' = Insert(rows, [x \in {row} |-> c.copies], "worker")
       /\ worker' = [at |-> "remove", entry |-> entry, success |-> c.ok]
  /\ UNCHANGED <<published, memory, failed, dlq, meeting>>

(* Mutant: without "if success: return". *)
RemoveEntry_always_reschedules ==
  /\ worker.at = "remove"
  /\ \E redis \in {0, 1} :
       /\ Spend(0, 0, redis)
       /\ failed' = IF redis = 0 THEN failed \ {worker.entry} ELSE failed
       /\ worker' = IF redis = 0 THEN [worker EXCEPT !.at = "reschedule"] ELSE Idle
  /\ UNCHANGED <<published, memory, rows, dlq, meeting>>

(* Mutant: the entry of an event that was saved stays in the sorted set. *)
RemoveEntry_keeps ==
  /\ worker.at = "remove"
  /\ \E redis \in {0, 1} :
       /\ Spend(0, 0, redis)
       /\ failed' = IF redis = 0 /\ ~worker.success THEN failed \ {worker.entry} ELSE failed
       /\ worker' = IF redis = 0 /\ ~worker.success THEN [worker EXCEPT !.at = "reschedule"]
                                                    ELSE Idle
  /\ UNCHANGED <<published, memory, rows, dlq, meeting>>


(* zrem; an error of Redis ends update_retry_event here, with a log entry.   *)
RemoveEntry ==
  /\ worker.at = "remove"
  /\ \E redis \in {0, 1} :
       /\ Spend(0, 0, redis)
       /\ failed' = IF redis = 0 THEN failed \ {worker.entry} ELSE failed
       /\ worker' = IF redis = 0 /\ ~worker.success THEN [worker EXCEPT !.at = "reschedule"]
                                                    ELSE Idle
  /\ UNCHANGED <<published, memory, rows, dlq, meeting>>

(* Mutant: after the last attempt the event is dropped. *)
Reschedule_without_dlq ==
  LET again == [worker.entry EXCEPT !.retry_count = @ + 1] IN
  /\ worker.at = "reschedule"
  /\ \/ /\ Spend(0, 0, 0)
        /\ failed' = IF again.retry_count >= MAX_RETRIES THEN failed ELSE failed \cup {again}
     \/ /\ Spend(0, 0, 1)
        /\ UNCHANGED failed
  /\ worker' = Idle
  /\ UNCHANGED <<published, memory, rows, dlq, meeting>>


(* zadd to the retry set or, after the last attempt, to the dead letters.    *)
Reschedule ==
  LET again == [worker.entry EXCEPT !.retry_count = @ + 1] IN
  /\ worker.at = "reschedule"
  /\ \/ /\ Spend(0, 0, 0)
        /\ IF again.retry_count >= MAX_RETRIES
             THEN dlq' = dlq \cup {again.event} /\ UNCHANGED failed
             ELSE failed' = failed \cup {again} /\ UNCHANGED dlq
     \/ /\ Spend(0, 0, 1)
        /\ UNCHANGED <<failed, dlq>>
  /\ worker' = Idle
  /\ UNCHANGED <<published, memory, rows, meeting>>

----------------------------------------------------------------------------
(* _handle_completion of the collector: flush, then publish the costs, if   *)
(* there are any, a warning if they are too high, and "complete".            *)
HandleCompletion(s) ==
  /\ LoopFree
  /\ s \in Ending /\ meeting[s].phase = "running"
  /\ \E f \in Flushes(buffer), reach \in Reaches, costs \in UNION {[1..n -> Reaches] : n \in 0..2} :
       LET list == [i \in DOMAIN costs |-> [kind |-> "normal", reach |-> costs[i]]]
                     \o <<[kind |-> "complete", reach |-> reach]>> IN
       /\ Spend(f.pg, f.ack, Cost(list))
       /\ Announce(s, list)
       /\ rows' = Insert(rows, f.times, "batcher")
  /\ buffer' = {}
  /\ meeting' = [meeting EXCEPT ![s].phase = "completing"]
  /\ UNCHANGED <<seq_counter, failed, dlq, worker>>

(* The counts that _verify_event_persistence compares.                       *)
redis_event_count(s) == Cardinality({e \in Of(s) : published[e].reach # "none"})
(* Mutant: the rows of every session are counted. *)
pg_event_count_of_all(s, table) == Cardinality(table)
pg_event_count(s, table) == Cardinality({r \in table : published[r.event].session = s})
Matches(s, table) == pg_event_count(s, table) >= redis_event_count(s)

(* Mutant: the check does not flush. *)
Verify_unflushed(s) ==
  /\ LoopFree
  /\ s \in Ending /\ meeting[s].phase \in {"running", "completing"}
  /\ meeting' = [meeting EXCEPT ![s] =
       [phase |-> IF Matches(s, rows) THEN "ok" ELSE "counting", tries |-> 0,
        seen |-> Len(published)]]
  /\ UNCHANGED <<published, memory, stores, worker, faults>>


(* _verify_event_persistence: flush, and compare; also reached without a     *)
(* completion, when the meeting pauses for a clarification or has failed. An *)
(* error while it counts ends it with a log entry.                           *)
Verify(s) ==
  /\ LoopFree
  /\ s \in Ending /\ meeting[s].phase \in {"running", "completing"}
  /\ \E f \in Flushes(buffer), uncounted \in {0, 1} :
       /\ Spend(f.pg + uncounted, f.ack, 0)
       /\ rows' = Insert(rows, f.times, "batcher")
       /\ meeting' = [meeting EXCEPT ![s] =
            [phase |-> CASE uncounted = 1 -> "unverified"
                         [] uncounted = 0 /\ Matches(s, rows') -> "ok"
                         [] OTHER -> "counting",
             tries |-> 0, seen |-> Len(published)]]
  /\ buffer' = {}
  /\ UNCHANGED <<published, counters, tasks, seq_counter, failed, dlq, worker>>

(* A sleep of at least half a second later, so that every task of before has *)
(* run, the rows are counted again; the third mismatch publishes a warning.  *)
(* The count of the Redis list is not taken anew.                            *)
Slept(s) ==
  /\ LoopFree
  /\ meeting[s].phase = "counting"
  /\ \A e \in tasks : e > meeting[s].seen
ListedThen(s) == Cardinality({e \in Of(s) : e <= meeting[s].seen /\ published[e].reach # "none"})

Recount(s) ==
  /\ Slept(s)
  /\ meeting' = [meeting EXCEPT ![s].tries = @ + 1,
       ![s].phase = IF pg_event_count(s, rows) >= ListedThen(s) THEN "ok" ELSE "counting"]
  /\ meeting[s].tries < 2 \/ meeting'[s].phase = "ok"
  /\ UNCHANGED <<published, memory, stores, worker, faults>>

Warn(s) ==
  /\ Slept(s)
  /\ meeting[s].tries = 2
  /\ pg_event_count(s, rows) < ListedThen(s)
  /\ \E reach \in Reaches :
       LET list == <<[kind |-> "normal", reach |-> reach]>> IN
       Announce(s, list) /\ Spend(0, 0, Cost(list))
  /\ meeting' = [meeting EXCEPT ![s].phase = "warned"]
  /\ UNCHANGED <<buffer, seq_counter, stores, worker>>

(* An error of Redis or PostgreSQL inside the check ends it with a log entry. *)
VerifyFails(s) ==
  /\ LoopFree
  /\ meeting[s].phase = "counting"
  /\ Spend(1, 0, 0)
  /\ meeting' = [meeting EXCEPT ![s].phase = "unverified"]
  /\ UNCHANGED <<published, memory, stores, worker>>

(* The process dies and starts again: what it had in memory is gone.         *)
Crash ==
  /\ Harm < MaxFaults
  /\ faults' = [faults EXCEPT !.crash = @ + 1]
  /\ counters' = [s \in Sessions |-> 0]
  /\ tasks' = {} /\ buffer' = {} /\ seq_counter' = 0
  /\ worker' = Idle
  /\ meeting' = [s \in Sessions |-> [meeting[s] EXCEPT
       !.phase = IF @ \in {"completing", "counting"} THEN "unverified" ELSE @]]
  /\ UNCHANGED <<published, stores>>

RunTask(e) == BufferEvent(e) \/ BufferAndFlush(e) \/ SaveCritical(e) \/ CriticalRefused(e)
Work == (\E entry \in failed : retry_event(entry)) \/ RemoveEntry \/ Reschedule
Check(s) == Verify(s) \/ Recount(s) \/ Warn(s)

Next ==
  \/ \E s \in Sessions, kind \in {"normal", "critical"}, reach \in Reaches :
       publish_event(s, kind, reach)
  \/ \E e \in tasks : RunTask(e)
  \/ Work
  \/ \E s \in Sessions : HandleCompletion(s) \/ Check(s) \/ VerifyFails(s)
  \/ Crash

Spec == Init /\ [][Next]_vars

(* The worker wakes up every 30 s, and the collector of a meeting, which     *)
(* ends, goes on to the end of its check.  Nobody is obliged to publish.     *)
FairSpec ==
  /\ Spec
  /\ WF_vars(Work)
  /\ \A s \in Sessions : WF_vars(Check(s))

----------------------------------------------------------------------------
TypeOK ==
  /\ published \in Seq([session : Sessions, kind : Kinds, number : Nat, reach : Reaches])
  /\ counters \in [Sessions -> Nat] /\ seq_counter \in Nat
  /\ tasks \subseteq Ids
  /\ buffer \subseteq [event : Ids, sequence : Nat]
  /\ IsFiniteSet(buffer)
  /\ rows \subseteq [event : Ids, sequence : Nat, by : {"batcher", "worker"}, copy : Nat]
  /\ IsFiniteSet(rows)
  /\ failed \subseteq [event : Ids, retry_count : Nat]
  /\ dlq \subseteq Ids
  /\ \/ worker = Idle
     \/ worker \in [at : {"remove"}, entry : failed, success : BOOLEAN]
     \/ worker \in [at : {"reschedule"}, entry : [event : Ids, retry_count : Nat],
                    success : {FALSE}]
  /\ meeting \in [Sessions -> [phase : {"running", "completing", "counting", "ok",
                                        "warned", "unverified"}, tries : Nat, seen : Nat]]
  /\ faults \in [pg : Nat, ack : Nat, redis : Nat, crash : Nat]

(* The events on their way, and those that will never arrive.                *)
Buffered(e) == \E x \in buffer : x.event = e
Queued(e) == \/ \E x \in failed : x.event = e
             \/ worker.at = "reschedule" /\ worker.entry.event = e
Pending(e) == e \in tasks \/ Buffered(e) \/ Queued(e)
Lost == {e \in Ids : ~Pending(e) /\ e \notin Stored \cup dlq}

(* While the process lives, each event that will never be in PostgreSQL has  *)
(* been paid for: a critical one by an error of Redis - PostgreSQL alone     *)
(* cannot lose it, because it is queued, retried and at last laid aside -    *)
(* and any other by an error of either (event_batcher.py, _flush_locked).    *)
LossesPaidFor ==
  faults.crash = 0 =>
    /\ Cardinality({e \in Lost : Critical(e)}) <= faults.redis
    /\ Cardinality(Lost) <= faults.redis + faults.pg

(* An event is stored once, by batch, by single insert or by the retry       *)
(* worker, unless a commit was not acknowledged, or the worker could not     *)
(* remove the entry of the event that it had saved, or died before it did    *)
(* (update_retry_event: the unique key of the table does not help).          *)
StoredOnce ==
  faults.ack + faults.redis + faults.crash = 0 =>
    \A q, r \in rows : q.event = r.event => q = r

(* No event overtakes an older one on its way to PostgreSQL: what a poller   *)
(* reads is a prefix of what was published, as long as no insert failed.     *)
NoOvertaking ==
  faults.pg + faults.crash = 0 =>
    \A e \in Stored, d \in Ids : d < e /\ published[d].reach = "all" => d \in Stored

(* get_events returns the events of a session in the order in which they     *)
(* were published, but for those that the retry worker has saved: they come  *)
(* with the number of the publisher instead of that of the batcher.          *)
ReplayInOrder ==
  faults.crash = 0 =>
    \A q, r \in rows : /\ q.by = "batcher" /\ r.by = "batcher"
                       /\ published[q.event].session = published[r.event].session
                       => (q.sequence < r.sequence <=> q.event < r.event)

(* When the collector has found the counts equal, every event that was in    *)
(* the Redis list is in the table.  It counts rows, so a row too many, or    *)
(* one of an event published since, stands in for one that is missing: the   *)
(* claim is for a session that has neither (see StoredOnce for the former).  *)
VerdictTrue ==
  \A s \in Sessions :
    /\ meeting[s].phase = "ok"
    /\ faults.ack + faults.redis + faults.crash = 0
    /\ \A e \in Of(s) : e <= meeting[s].seen
    => Of(s) \subseteq Stored

(* A failed event does not wait for ever: it is saved, laid aside or lost    *)
(* (persistence_worker.py, _process_retry_batch).                            *)
RetriesSettle ==
  \A e \in 1..MaxEvents :
    Queued(e) ~> ~Queued(e) /\ worker = Idle

(* The end of any meeting that the collector verifies - one that completes,  *)
(* fails or asks, not one that is killed - empties the buffer of all         *)
(* sessions, although no event and no timer may do it afterwards             *)
(* (flush_batcher in _verify_event_persistence).                             *)
MeetingEndFlushes ==
  \A e \in 1..MaxEvents :
    Buffered(e) /\ (\E s \in Ending : meeting[s].phase = "running") ~> ~Buffered(e)

(* The pipeline implements EventLedger: every step keeps, buries or, at the  *)
(* price of a failure, loses events that were pending, and none comes back.  *)
Fate(e) == CASE e \in Stored -> "kept"
             [] e \in dlq \ Stored -> "dead"
             [] e \notin Stored \cup dlq /\ Pending(e) -> "pending"
             [] e \in Lost -> "lost"
             [] OTHER -> "unpublished"
Ledger == INSTANCE EventLedger WITH
            Events <- 1..MaxEvents, fate <- [e \in 1..MaxEvents |-> Fate(e)], harm <- Harm
ImplementsLedger == Ledger!Spec
=============================================================================
