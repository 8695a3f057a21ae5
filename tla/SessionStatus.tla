--------------------------- MODULE SessionStatus ---------------------------
(***************************************************************************)
(* The status of one meeting: the metadata in Redis, the row in PostgreSQL  *)
(* and the cache of the metadata in the process, written by the endpoints   *)
(* of backend/api/control.py and sessions.py, by the event collector and by *)
(* wrapped_execution of the session manager (bo1/graph/execution.py).       *)
(*                                                                          *)
(* The cache hands the same dictionary to every request until it is         *)
(* invalidated; an endpoint changes that dictionary and saves the whole of  *)
(* it, some after they have waited for something.  The session manager      *)
(* merges the status into what Redis holds, and invalidates nothing.        *)
(*                                                                          *)
(* A handler is one step up to the point where it really suspends.  Redis   *)
(* answers (the endpoints refuse to work without it); PostgreSQL may refuse *)
(* the writes of a step, and the process may die.                           *)
(***************************************************************************)
EXTENDS Naturals, FiniteSets

CONSTANTS
  Callers,          \* requests served at the same time
  Tasks,            \* bound: tasks of this session alive at the same time
  NoTask,
  MaxFaults         \* bound: steps whose PostgreSQL writes fail, and crashes

ASSUME CallersAssumption == IsFiniteSet(Callers) /\ NoTask \notin Tasks
ASSUME BoundAssumption == MaxFaults \in Nat

VARIABLES
  redis,            \* metadata:{session_id}
  row,              \* the row of the table sessions
  cached,           \* the dictionary in SessionMetadataCache, or 0
  heap,             \* the dictionaries somebody still refers to
  task,             \* how far each task is
  registry,         \* active_executions[session_id]
  request,          \* the requests that have suspended
  faults,           \* failures so far
  overlapped,       \* history: a task was started under a request that had looked already
  stray             \* history: update_constraints has brought back an older status

vars == <<redis, row, cached, heap, task, registry, request, faults, overlapped, stray>>
history == <<faults, overlapped, stray>>

Terminal == {"completed", "failed", "killed", "terminated", "deleted"}
Statuses == {"created", "running", "paused"} \cup Terminal
(* clarify: the phase is "clarification_needed"; gone: deleted_at is set.    *)
Metadata == [status : Statuses, clarify : BOOLEAN, gone : BOOLEAN]
NoDict == [status |-> "none"]
Slots == 1..(Cardinality(Callers) + 1)
Idle == [op |-> "idle"]
Waiting == {"kill", "delete", "terminate"}

Init ==
  /\ redis = [status |-> "created", clarify |-> FALSE, gone |-> FALSE]
  /\ row = [status |-> "created", clarify |-> FALSE]
  /\ cached = 0 /\ heap = [s \in Slots |-> NoDict]
  /\ task = [t \in Tasks |-> "none"] /\ registry = NoTask
  /\ request = [c \in Callers |-> Idle]
  /\ faults = [pg |-> 0, crash |-> 0]
  /\ overlapped = FALSE /\ stray = FALSE

Holds(c, s) == request[c] # Idle /\ request[c].dict = s
Live == {t \in Tasks : task[t] # "none"}

(* The dictionaries nobody refers to any longer are gone.                    *)
Heap(h) ==
  heap' = [s \in Slots |->
             IF s = cached' \/ \E c \in Callers : Holds(c, s)' THEN h[s] ELSE NoDict]

(* The writes of one step to PostgreSQL: all of them happen, or none.        *)
Write(new) ==
  \/ row' = new /\ UNCHANGED faults
  \/ /\ row' = row
     /\ faults.pg + faults.crash < MaxFaults
     /\ faults' = [faults EXCEPT !.pg = @ + 1]

----------------------------------------------------------------------------
(* SessionRepository.update_status: "completed" is refused while the row      *)
(* waits for a clarification.                                                *)
UpdateStatus(r, status) ==
  IF status = "completed" /\ r.status = "paused" /\ r.clarify
  THEN r ELSE [r EXCEPT !.status = status]

(* save_metadata writes a phase of the metadata, if there is one, through to  *)
(* the row, but never the status.                                            *)
DualWrite(r, m) == [r EXCEPT !.clarify = @ \/ m.clarify]

SaveDict(m) == redis' = m

(* Mutant: the status goes to Redis alone. *)
UpdateSessionStatus_redis_only(status) ==
  /\ redis' = [redis EXCEPT !.status = status]
  /\ Write(DualWrite(row, redis))


(* SessionManager._update_session_status.                                     *)
UpdateSessionStatus(status) ==
  /\ redis' = [redis EXCEPT !.status = status]
  /\ Write(UpdateStatus(DualWrite(row, redis), status))

----------------------------------------------------------------------------
(* get_verified_session loads the dictionary before the endpoint runs; every  *)
(* GET of the session does the same.                                         *)
Load ==
  /\ cached = 0
  /\ cached' = CHOOSE s \in Slots : ~ \E c \in Callers : Holds(c, s)
  /\ heap' = [heap EXCEPT ![cached'] = redis]
  /\ UNCHANGED <<redis, row, task, registry, request, history>>

(* The entry is older than the cache keeps entries, or another one needs room. *)
Expire ==
  /\ cached # 0
  /\ cached' = 0
  /\ UNCHANGED <<redis, row, task, registry, request, history>>
  /\ Heap(heap)

Reads(c) == request[c] = Idle /\ cached # 0
Suspend(c, op, t) ==
  request' = [request EXCEPT ![c] = [op |-> op, dict |-> cached, task |-> t]]
Dict(c) == heap[request[c].dict]
Answer(c) == request' = [request EXCEPT ![c] = Idle]

(* Mutant: the endpoint relies on the status and does not ask for the task. *)
Startable_unregistered(statuses) == cached # 0 /\ heap[cached].status \in statuses


(* What start and resume look at.                                            *)
Startable(statuses) ==
  cached # 0 /\ heap[cached].status \in statuses /\ registry = NoTask

(* start_session creates and registers the task.                             *)
CreateTask(c) ==
  \E t \in Tasks \ Live :
    /\ task' = [task EXCEPT ![t] = "running"]
    /\ registry' = t
    /\ overlapped' = (overlapped \/ \E x \in Callers \ {c} :
                        request[x].op \in Waiting \cup {"resume"})

start_deliberation(c) ==
  /\ Reads(c)
  /\ Startable({"created", "paused"})
  /\ CreateTask(c)
  /\ UpdateSessionStatus("running")
  /\ cached' = 0
  /\ request' = request
  /\ UNCHANGED stray
  /\ Heap(heap)

(* resume_deliberation waits for the checkpointer, and for the checkpoint     *)
(* when there are answers to put into it.                                    *)
resume_deliberation(c) ==
  /\ Reads(c)
  /\ Startable({"paused"})
  /\ Suspend(c, "resume", NoTask)
  /\ UNCHANGED <<redis, row, cached, heap, task, registry, history>>

(* The checkpoint cannot be read or rebuilt: the answer is an error.         *)
ResumeFails(c) ==
  /\ request[c].op = "resume"
  /\ Answer(c)
  /\ cached' = cached
  /\ UNCHANGED <<redis, row, task, registry, history>>
  /\ Heap(heap)

(* Mutant: the status is saved before a task is created, which then fails. *)
ResumeStarts_early(c) ==
  LET d == [Dict(c) EXCEPT !.status = "running"] IN
  /\ request[c].op = "resume"
  /\ SaveDict(d)
  /\ Write(UpdateStatus(DualWrite(DualWrite(row, redis), d), "running"))
  /\ Answer(c)
  /\ cached' = cached
  /\ UNCHANGED <<task, registry, overlapped, stray>>
  /\ Heap([heap EXCEPT ![request[c].dict] = d])


(* It starts the task without another look and saves the whole dictionary.   *)
ResumeStarts(c) ==
  LET d == [Dict(c) EXCEPT !.status = "running"] IN
  /\ request[c].op = "resume"
  /\ CreateTask(c)
  /\ SaveDict(d)
  /\ Write(UpdateStatus(DualWrite(DualWrite(row, redis), d), "running"))
  /\ Answer(c)
  /\ cached' = cached
  /\ UNCHANGED stray
  /\ Heap([heap EXCEPT ![request[c].dict] = d])

(* pause_deliberation and submit_context_choice ask neither for the status    *)
(* nor for the task; nor does submit_clarification, once it has waited for    *)
(* the checkpoint or for the audit of the answers.                           *)
Park(d) ==
  LET m == [heap[d] EXCEPT !.status = "paused"] IN
  /\ SaveDict(m)
  /\ Write(DualWrite(row, m))
  /\ cached' = cached
  /\ UNCHANGED <<task, registry, overlapped, stray>>
  /\ Heap([heap EXCEPT ![d] = m])

pause_deliberation(c) == Reads(c) /\ request' = request /\ Park(cached)

submit_clarification(c) ==
  /\ Reads(c)
  /\ Suspend(c, "clarify", NoTask)
  /\ UNCHANGED <<redis, row, cached, heap, task, registry, history>>

ClarificationSaved(c) ==
  /\ request[c].op = "clarify"
  /\ Answer(c)
  /\ Park(request[c].dict)

(* update_constraints loads and saves the checkpoint of a running meeting,    *)
(* then saves the dictionary it was given.                                   *)
update_constraints(c) ==
  /\ Reads(c)
  /\ heap[cached].status = "running"
  /\ Suspend(c, "constraints", NoTask)
  /\ UNCHANGED <<redis, row, cached, heap, task, registry, history>>

ConstraintsSaved(c) ==
  /\ request[c].op = "constraints"
  /\ Answer(c)
  /\ SaveDict(Dict(c))
  /\ Write(DualWrite(row, Dict(c)))
  /\ stray' = (stray \/ Dict(c).status # redis.status)
  /\ cached' = cached
  /\ UNCHANGED <<task, registry, overlapped>>
  /\ Heap(heap)

----------------------------------------------------------------------------
(* Mutant: the task is asked to stop but not cancelled. *)
Cancel_only_waits(c, op, t) ==
  /\ Suspend(c, op, t)
  /\ UNCHANGED <<redis, row, cached, heap, task, registry, history>>


(* _kill_session_internal cancels the task and waits for its end.            *)
Cancel(c, op, t) ==
  /\ Suspend(c, op, t)
  /\ task' = [task EXCEPT ![t] = "cancelled"]
  /\ UNCHANGED <<redis, row, cached, heap, registry, history>>
Ended(c) == task[request[c].task] # "cancelled"

kill_deliberation(c) ==
  /\ request[c] = Idle
  /\ registry # NoTask
  /\ request' = [request EXCEPT ![c] = [op |-> "kill", dict |-> 0, task |-> registry]]
  /\ task' = [task EXCEPT ![registry] = "cancelled"]
  /\ UNCHANGED <<redis, row, cached, heap, registry, history>>


(* The endpoint then writes the row once more and invalidates the cache,      *)
(* unless the lock or PostgreSQL fails; the kill of an administrator does     *)
(* neither.                                                                  *)
Killed(c) ==
  /\ request[c].op = "kill"
  /\ Ended(c)
  /\ registry' = NoTask
  /\ UpdateSessionStatus("killed")
  /\ Answer(c)
  /\ cached' \in {0, cached}
  /\ UNCHANGED <<task, overlapped, stray>>
  /\ Heap(heap)

Deletable == ~heap[cached].gone

(* What delete_session does once nothing runs: the row is written last, and   *)
(* only then the cache is invalidated.                                       *)
Delete(c, d) ==
  LET m == [heap[d] EXCEPT !.status = "deleted", !.gone = TRUE] IN
  /\ SaveDict(m)
  /\ Write(UpdateStatus(DualWrite(row, m), "deleted"))
  /\ cached' = IF faults' = faults THEN 0 ELSE cached
  /\ UNCHANGED <<task, overlapped, stray>>
  /\ Heap([heap EXCEPT ![d] = m])

DeleteIdle(c) ==
  /\ Reads(c) /\ Deletable /\ registry = NoTask
  /\ request' = request
  /\ Delete(c, cached)
  /\ UNCHANGED registry

DeleteActive(c) == Reads(c) /\ Deletable /\ registry # NoTask /\ Cancel(c, "delete", registry)

Deleted(c) ==
  /\ request[c].op = "delete"
  /\ Ended(c)
  /\ registry' = NoTask
  /\ Answer(c)
  /\ Delete(c, request[c].dict)

(* terminate_session looks at the dictionary and at the row, but only before  *)
(* it waits; it fails when PostgreSQL does, after the kill has told Redis.    *)
Terminable == heap[cached].status \notin Terminal /\ row.status \notin Terminal

Terminate(d, killed) ==
  LET m == [heap[d] EXCEPT !.status = "terminated"] IN
  /\ Write(UpdateStatus(DualWrite(row, m), "terminated"))
  /\ IF faults' = faults
     THEN SaveDict(m) /\ cached' = 0 /\ Heap([heap EXCEPT ![d] = m])
     ELSE /\ redis' = IF killed THEN [redis EXCEPT !.status = "killed"] ELSE redis
          /\ cached' = cached /\ Heap(heap)
  /\ UNCHANGED <<task, overlapped, stray>>

TerminateIdle(c) ==
  /\ Reads(c) /\ Terminable /\ registry = NoTask
  /\ request' = request
  /\ Terminate(cached, FALSE)
  /\ UNCHANGED registry

TerminateActive(c) == Reads(c) /\ Terminable /\ registry # NoTask /\ Cancel(c, "terminate", registry)

Terminated(c) ==
  /\ request[c].op = "terminate"
  /\ Ended(c)
  /\ registry' = NoTask
  /\ Answer(c)
  /\ Terminate(request[c].dict, TRUE)

----------------------------------------------------------------------------
(* The collector.  The handlers of select_personas and initial_round name     *)
(* their phase in the row.                                                   *)
PhaseShown(t) ==
  /\ task[t] = "running"
  /\ row.clarify
  /\ row' = [row EXCEPT !.clarify = FALSE]
  /\ UNCHANGED <<redis, cached, heap, task, registry, request, history>>

(* _handle_identify_gaps: the meeting stops to ask; when PostgreSQL refuses,  *)
(* the task fails (GraphFails).                                              *)
_handle_identify_gaps(t) ==
  /\ task[t] = "running"
  /\ task' = [task EXCEPT ![t] = "asking"]
  /\ row' = [row EXCEPT !.status = "paused", !.clarify = TRUE]
  /\ redis' = [redis EXCEPT !.status = "paused", !.clarify = TRUE]
  /\ cached' = 0
  /\ UNCHANGED <<registry, request, history>>
  /\ Heap(heap)

(* finally: the entry of the session goes, whichever task it names.          *)
End(t) ==
  /\ task' = [task EXCEPT ![t] = "none"]
  /\ registry' = NoTask

(* _handle_completion of a meeting that asks saves its costs, if any, under   *)
(* the status "paused", and wrapped_execution writes nothing.                 *)
StopsToAsk(t) ==
  /\ task[t] = "asking"
  /\ \/ Write([row EXCEPT !.status = "paused", !.clarify = FALSE])
     \/ row' = row /\ UNCHANGED faults
  /\ End(t)
  /\ UNCHANGED <<redis, cached, heap, request, overlapped, stray>>

(* _update_session_status_with_retry: three attempts, then it goes on; then   *)
(* the verification of the events waits.                                     *)
MeetingCompletes(t) ==
  /\ task[t] = "running"
  /\ Write(UpdateStatus(row, "completed"))
  /\ cached' = IF faults' = faults THEN 0 ELSE cached
  /\ task' = [task EXCEPT ![t] = "complete"]
  /\ UNCHANGED <<redis, registry, request, overlapped, stray>>
  /\ Heap(heap)

(* Too little context: no status is written.                                 *)
ContextInsufficient(t) ==
  /\ task[t] = "running"
  /\ task' = [task EXCEPT ![t] = "unsettled"]
  /\ UNCHANGED <<redis, row, cached, heap, registry, request, history>>

(* A panel has failed: the row says "failed", and "paused" as soon as         *)
(* _persist_partial_costs has costs to save.                                 *)
PanelFails(t) ==
  /\ task[t] = "running"
  /\ \/ Write([row EXCEPT !.status = "failed"])
     \/ Write([status |-> "paused", clarify |-> FALSE])
  /\ cached' = IF faults' = faults THEN 0 ELSE cached
  /\ task' = [task EXCEPT ![t] = "unsettled"]
  /\ UNCHANGED <<redis, registry, request, overlapped, stray>>
  /\ Heap(heap)

(* wrapped_execution: without a synthesis or a result the meeting has failed. *)
Settle(t) ==
  /\ \/ task[t] = "complete" /\ UpdateSessionStatus("completed")
     \/ task[t] = "unsettled" /\ \E s \in {"completed", "failed"} : UpdateSessionStatus(s)
  /\ End(t)
  /\ UNCHANGED <<cached, heap, request, overlapped, stray>>

(* An error or a timeout: _mark_session_failed, then wrapped_execution.      *)
GraphFails(t) ==
  /\ task[t] = "running"
  /\ UpdateSessionStatus("failed")
  /\ cached' = IF faults' = faults THEN 0 ELSE cached
  /\ End(t)
  /\ UNCHANGED <<request, overlapped, stray>>
  /\ Heap(heap)

(* A cancelled task writes nothing.                                          *)
CancelledEnds(t) ==
  /\ task[t] = "cancelled"
  /\ End(t)
  /\ UNCHANGED <<redis, row, cached, heap, request, history>>

Crash ==
  /\ faults.pg + faults.crash < MaxFaults
  /\ faults' = [faults EXCEPT !.crash = @ + 1]
  /\ cached' = 0 /\ registry' = NoTask
  /\ task' = [t \in Tasks |-> "none"]
  /\ request' = [c \in Callers |-> Idle]
  /\ UNCHANGED <<redis, row, overlapped, stray>>
  /\ Heap(heap)

----------------------------------------------------------------------------
TaskEnds(t) ==
  \/ StopsToAsk(t) \/ Settle(t) \/ GraphFails(t) \/ CancelledEnds(t)
  \/ _handle_identify_gaps(t) \/ MeetingCompletes(t) \/ ContextInsufficient(t) \/ PanelFails(t)
KillEnds(c) == Killed(c) \/ Deleted(c) \/ Terminated(c)

Request(c) ==
  \/ start_deliberation(c) \/ resume_deliberation(c) \/ ResumeFails(c) \/ ResumeStarts(c)
  \/ pause_deliberation(c) \/ submit_clarification(c) \/ ClarificationSaved(c)
  \/ update_constraints(c) \/ ConstraintsSaved(c)
  \/ kill_deliberation(c)
  \/ DeleteIdle(c) \/ DeleteActive(c) \/ TerminateIdle(c) \/ TerminateActive(c)

Next ==
  \/ Load \/ Expire \/ Crash
  \/ \E c \in Callers : Request(c) \/ KillEnds(c)
  \/ \E t \in Tasks : PhaseShown(t) \/ TaskEnds(t)

Spec == Init /\ [][Next]_vars

----------------------------------------------------------------------------
TypeOK ==
  /\ redis \in Metadata
  /\ row \in [status : Statuses, clarify : BOOLEAN]
  /\ cached \in Slots \cup {0}
  /\ heap \in [Slots -> Metadata \cup {NoDict}]
  /\ task \in [Tasks -> {"none", "running", "asking", "complete", "unsettled", "cancelled"}]
  /\ registry \in Tasks \cup {NoTask}
  /\ request \in [Callers ->
       {Idle} \cup [op : Waiting \cup {"resume", "clarify", "constraints"},
                    dict : Slots \cup {0}, task : Tasks \cup {NoTask}]]
  /\ faults \in [pg : 0..MaxFaults, crash : 0..MaxFaults]
  /\ overlapped \in BOOLEAN /\ stray \in BOOLEAN

Waits == \E c \in Callers : request[c].op \in Waiting
(* The runs look no further where the causes named below have already struck, *)
(* or a deleted meeting has been taken up again.                              *)
Orderly == ~overlapped /\ ~stray /\ (redis.gone => redis.status = "deleted")

Quiet == Live = {} /\ \A c \in Callers : request[c] = Idle

(* When Redis says "running" a task exists, or whoever has cancelled it is    *)
(* about to write another status: no ending of wrapped_execution, no kill, no *)
(* save of a dictionary leaves a meeting "running" with nothing behind it.    *)
(* Crashes (nothing recovers at start-up) and update_constraints do.          *)
RunningHasTask ==
  redis.status = "running" => Live # {} \/ Waits \/ stray \/ faults.crash > 0

(* A final status in Redis means that nothing runs any longer: kill, delete   *)
(* and terminate write it when the task has ended and no task outlives what    *)
(* it writes - unless a start has overlapped with one of them.                *)
FinalMeansStopped ==
  redis.status \in Terminal => Live \ {t \in Tasks : task[t] = "cancelled"} = {} \/ overlapped \/ stray

(* The checks of start and resume keep a meeting from running twice, unless a *)
(* request that had looked at the registry before was still under way.        *)
OneTask == Cardinality(Live) <= 1 \/ overlapped

(* Once everything is quiet Redis says what PostgreSQL says, or "paused", if  *)
(* PostgreSQL has not refused the end of the meeting (CompletionStored).      *)
Refused == redis.status = "completed" /\ row = [status |-> "paused", clarify |-> TRUE]
StoresAgree ==
  Quiet /\ ~overlapped /\ ~stray /\ faults.pg = 0 /\ faults.crash = 0
    => redis.status \in {row.status, "paused"} \/ Refused

(* What the comment in _update_session_status_with_retry says: a meeting that *)
(* went through a clarification and completes is stored as completed.         *)
CompletionStored ==
  [][(redis'.status = "completed" /\ redis.status # "completed"
        /\ ~overlapped /\ faults'.pg = 0)
      => row'.status = "completed"]_vars
=============================================================================
