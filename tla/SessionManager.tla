---------------------------- MODULE SessionManager ----------------------------
(***************************************************************************)
(* SessionManager (bo1/graph/execution.py): the registry of deliberations  *)
(* that run as background tasks of the API's event loop, the eviction of   *)
(* the oldest one when the registry is full, the kill switches and the     *)
(* shutdown, with the status each of them writes to Redis and PostgreSQL.  *)
(*                                                                         *)
(* The event loop runs one coroutine at a time, so an action is the code   *)
(* between two awaits.  A task is named by the request that started it.    *)
(* cancel() always wins over a task that is not done; a task cancelled     *)
(* before its first step ends without running wrapped_execution, hence     *)
(* without its finally block ("stillborn").                                *)
(***************************************************************************)
EXTENDS Naturals, Sequences, FiniteSets

CONSTANTS
  Sessions,
  Requests,      \* calls of start_session: each starts one task
  Killers,       \* callers of the kill switches
  NoTask,        \* the absence of an entry in active_executions
  max_concurrent_sessions

ASSUME ManagerAssumption ==
  /\ max_concurrent_sessions \in Nat \ {0}
  /\ NoTask \notin Requests

VARIABLES
  active,        \* active_executions: session -> its task
  start_times,   \* _session_start_times: 0 where there is no entry
  now,           \* time.time(), advanced by each registration
  lock,          \* _capacity_lock: its holder, then its waiters in order
  pc,            \* where each start request is
  session,       \* the session it starts
  victim,        \* the task it evicts
  task,          \* the phase of each task
  kill,          \* the task each killer awaits
  stop,          \* shutdown(): "no", "waiting" or "done"
  status,        \* the session's status in Redis
  db_status      \* and in PostgreSQL

registry == <<active, start_times, now>>
request == <<pc, session, victim>>
stores == <<status, db_status>>
vars == <<registry, lock, request, task, kill, stop, stores>>

Task == Requests \cup {NoTask}
Phase == {"none", "scheduled", "running", "paused", "cancelling", "stillborn", "ended"}

(* PostgreSQL accepts only these (sessions_status_check). *)
DbStatus == {"created", "running", "completed", "failed", "killed", "deleted",
             "paused", "terminated"}
Status == DbStatus \cup {"evicting", "evicted", "shutdown"}

TypeOK ==
  /\ active \in [Sessions -> Task]
  /\ start_times \in [Sessions -> Nat]
  /\ now \in Nat
  /\ lock \in Seq(Requests)
  /\ pc \in [Requests -> {"new", "checked", "queued", "grace", "awaiting", "started"}]
  /\ session \in [Requests -> Sessions]
  /\ victim \in [Requests -> Task]
  /\ task \in [Requests -> Phase]
  /\ kill \in [Killers -> Task]
  /\ stop \in {"no", "waiting", "done"}
  /\ status \in [Sessions -> Status]
  /\ db_status \in [Sessions -> DbStatus]

Init ==
  /\ active = [s \in Sessions |-> NoTask]
  /\ start_times = [s \in Sessions |-> 0]
  /\ now = 0
  /\ lock = <<>>
  /\ pc = [r \in Requests |-> "new"]
  /\ session \in [Requests -> Sessions]
  /\ victim = [r \in Requests |-> NoTask]
  /\ task = [r \in Requests |-> "none"]
  /\ kill = [k \in Killers |-> NoTask]
  /\ stop = "no"
  /\ status = [s \in Sessions |-> "created"]
  /\ db_status = [s \in Sessions |-> "created"]

-------------------------------------------------------------------------------
Ended(t) == task[t] = "ended"
Live(t) == task[t] \notin {"none", "ended"}
Tracked == {s \in Sessions : active[s] # NoTask}
Evicting(r) == pc[r] \in {"grace", "awaiting"}

is_at_capacity == Cardinality(Tracked) >= max_concurrent_sessions

IsOldest(s) ==
  /\ start_times[s] # 0
  /\ \A x \in Sessions : start_times[x] # 0 => start_times[s] <= start_times[x]

(* Task.cancel(), for a set of tasks. *)
AfterCancel(phase) ==
  CASE phase = "scheduled" -> "stillborn"
    [] phase \in {"running", "paused"} -> "cancelling"
    [] OTHER -> phase
Cancel(ts) == task' = [t \in Requests |-> IF t \in ts THEN AfterCancel(task[t]) ELSE task[t]]

(* _update_session_status on the PostgreSQL side: an update the CHECK      *)
(* constraint refuses is logged and dropped.                               *)
(* Mutant: no constraint. *)
Synced_unconstrained(db, s, new) == [db EXCEPT ![s] = new]
Synced(db, s, new) == IF new \in DbStatus THEN [db EXCEPT ![s] = new] ELSE db

SetStatus(s, new) ==
  /\ status' = [status EXCEPT ![s] = new]
  /\ db_status' = Synced(db_status, s, new)

(* The finally block of wrapped_execution.  Mutant: it drops the start     *)
(* time only.                                                              *)
Unregister_start_time_only(s) ==
  /\ start_times' = [start_times EXCEPT ![s] = 0]
  /\ UNCHANGED <<active, now>>
Unregister(s) ==
  /\ active' = [active EXCEPT ![s] = NoTask]
  /\ start_times' = [start_times EXCEPT ![s] = 0]
  /\ UNCHANGED now

-------------------------------------------------------------------------------
(* start_session.  The callers in control.py have looked for the session   *)
(* in active_executions before; resume awaits the checkpointer in between, *)
(* start does not.                                                         *)

(* The end of start_session, from the registries act, times and the stores *)
(* st and db: no await separates the release of the lock from the entry in *)
(* active_executions.                                                      *)
Register(r, act, times, st, db) ==
  LET s == session[r]
  IN /\ now' = now + 1
     /\ start_times' = [times EXCEPT ![s] = now + 1]
     /\ active' = [act EXCEPT ![s] = r]
     /\ status' = [st EXCEPT ![s] = "running"]
     /\ db_status' = Synced(db, s, "running")
     /\ task' = [task EXCEPT ![r] = "scheduled"]
     /\ pc' = [pc EXCEPT ![r] = "started"]
     /\ UNCHANGED <<session, victim>>

(* r has the capacity lock. *)
StartBelowCapacity(r) ==
  /\ ~is_at_capacity
  /\ Register(r, active, start_times, status, db_status)

(* The oldest start time belongs to no running session: the entry goes,    *)
(* nobody is evicted, and the start proceeds.                              *)
StartOverStaleEntry(r, s) ==
  /\ is_at_capacity
  /\ IsOldest(s)
  /\ active[s] = NoTask
  /\ Register(r, active, [start_times EXCEPT ![s] = 0], status, db_status)

BeginEviction(r, s) ==
  /\ is_at_capacity
  /\ IsOldest(s)
  /\ active[s] # NoTask
  /\ pc' = [pc EXCEPT ![r] = "grace"]
  /\ victim' = [victim EXCEPT ![r] = active[s]]
  /\ SetStatus(s, "evicting")
  /\ UNCHANGED <<session, registry, task>>

(* r holds the lock while the queue is waiting; waiting is what is left of *)
(* the queue once r has started.                                           *)
(* Mutant: the lock is not held during the eviction. *)
WithLock_released_early(r, waiting) ==
  /\ \/ StartBelowCapacity(r) \/ \E s \in Sessions : StartOverStaleEntry(r, s) \/ BeginEviction(r, s)
  /\ lock' = waiting
  /\ UNCHANGED <<kill, stop>>
WithLock(r, waiting) ==
  /\ \/ StartBelowCapacity(r) /\ lock' = waiting
     \/ \E s \in Sessions : StartOverStaleEntry(r, s) /\ lock' = waiting
     \/ \E s \in Sessions : BeginEviction(r, s) /\ lock' = <<r>> \o waiting
  /\ UNCHANGED <<kill, stop>>

Queue(r) ==
  /\ lock # <<>>
  /\ lock' = Append(lock, r)
  /\ pc' = [pc EXCEPT ![r] = "queued"]
  /\ UNCHANGED <<session, victim, registry, task, kill, stop, stores>>

Arrive(r) == Queue(r) \/ (lock = <<>> /\ WithLock(r, <<>>))

start(r) ==
  /\ pc[r] = "new"
  /\ active[session[r]] = NoTask
  /\ Arrive(r)

resume(r) ==
  /\ pc[r] = "new"
  /\ active[session[r]] = NoTask
  /\ pc' = [pc EXCEPT ![r] = "checked"]
  /\ UNCHANGED <<session, victim, registry, lock, task, kill, stop, stores>>

resume_loaded(r) == pc[r] = "checked" /\ Arrive(r)

AcquireLock(r) ==
  /\ pc[r] = "queued"
  /\ lock # <<>>
  /\ r = Head(lock)
  /\ WithLock(r, Tail(lock))

(* After the grace period. *)
(* Mutant: the victim is awaited but not cancelled. *)
CancelVictim_await_only(r) ==
  /\ pc[r] = "grace"
  /\ pc' = [pc EXCEPT ![r] = "awaiting"]
  /\ UNCHANGED <<session, victim, registry, task, lock, kill, stop, stores>>

CancelVictim(r) ==
  /\ pc[r] = "grace"
  /\ ~Ended(victim[r])
  /\ Cancel({victim[r]})
  /\ pc' = [pc EXCEPT ![r] = "awaiting"]
  /\ UNCHANGED <<session, victim, registry, lock, kill, stop, stores>>

FinishEviction(r) ==
  LET s == session[victim[r]]
  IN /\ Evicting(r)
     /\ Ended(victim[r])
     /\ Register(r, [active EXCEPT ![s] = NoTask], [start_times EXCEPT ![s] = 0],
                 [status EXCEPT ![s] = "evicted"], Synced(db_status, s, "evicted"))
     /\ lock' = Tail(lock)
     /\ UNCHANGED <<kill, stop>>

-------------------------------------------------------------------------------
(* wrapped_execution. *)

Moves(t, from, to) == task[t] = from /\ task' = [task EXCEPT ![t] = to]

Begin(t) ==
  /\ Moves(t, "scheduled", "running")
  /\ UNCHANGED <<registry, lock, request, kill, stop, stores>>

(* Mutant: the outcome is not written. *)
Finish_unwritten(t, outcome) ==
  /\ Moves(t, "running", "ended")
  /\ Unregister(session[t])
  /\ UNCHANGED <<lock, request, kill, stop, stores>>

Finish(t, outcome) ==
  /\ Moves(t, "running", "ended")
  /\ SetStatus(session[t], outcome)
  /\ Unregister(session[t])
  /\ UNCHANGED <<lock, request, kill, stop>>

(* _handle_identify_gaps writes the pause in both stores; wrapped_execution *)
(* then leaves the status alone.                                           *)
PauseForClarification(t) ==
  /\ Moves(t, "running", "paused")
  /\ SetStatus(session[t], "paused")
  /\ UNCHANGED <<registry, lock, request, kill, stop>>

FinishPaused(t) ==
  /\ Moves(t, "paused", "ended")
  /\ Unregister(session[t])
  /\ UNCHANGED <<lock, request, kill, stop, stores>>

FinishCancelled(t) ==
  /\ Moves(t, "cancelling", "ended")
  /\ Unregister(session[t])
  /\ UNCHANGED <<lock, request, kill, stop, stores>>

DropUnstarted(t) ==
  /\ Moves(t, "stillborn", "ended")
  /\ UNCHANGED <<registry, lock, request, kill, stop, stores>>

-------------------------------------------------------------------------------
(* _kill_session_internal; admin_kill_all_sessions is one killer after     *)
(* another session.                                                        *)

Killed(s) ==
  /\ active' = [active EXCEPT ![s] = NoTask]
  /\ SetStatus(s, "killed")
  /\ UNCHANGED <<start_times, now, lock, request, stop>>

(* Mutant: the task is awaited but not cancelled. *)
Kill_await_only(k, s) ==
  /\ kill[k] = NoTask
  /\ active[s] # NoTask
  /\ ~Ended(active[s])
  /\ kill' = [kill EXCEPT ![k] = active[s]]
  /\ UNCHANGED <<registry, lock, request, task, stop, stores>>

Kill(k, s) ==
  /\ kill[k] = NoTask
  /\ active[s] # NoTask
  /\ ~Ended(active[s])
  /\ Cancel({active[s]})
  /\ kill' = [kill EXCEPT ![k] = active[s]]
  /\ UNCHANGED <<registry, lock, request, stop, stores>>

KillEnded(k, s) ==
  /\ kill[k] = NoTask
  /\ active[s] # NoTask
  /\ Ended(active[s])
  /\ Killed(s)
  /\ UNCHANGED <<task, kill>>

FinishKill(k) ==
  /\ kill[k] # NoTask
  /\ Ended(kill[k])
  /\ Killed(session[kill[k]])
  /\ kill' = [kill EXCEPT ![k] = NoTask]
  /\ UNCHANGED task

-------------------------------------------------------------------------------
(* shutdown. *)

Shutdown ==
  /\ stop = "no"
  /\ Tracked # {}
  /\ Cancel({active[s] : s \in Tracked})
  /\ stop' = "waiting"
  /\ UNCHANGED <<registry, lock, request, kill, stores>>

(* Every task has ended, or the grace period has. *)
FinishShutdown ==
  /\ stop = "waiting"
  /\ stop' = "done"
  /\ status' = [s \in Sessions |-> IF s \in Tracked THEN "shutdown" ELSE status[s]]
  /\ active' = [s \in Sessions |-> NoTask]
  /\ UNCHANGED <<start_times, now, lock, request, task, kill, db_status>>

-------------------------------------------------------------------------------
Starting(r) ==
  \/ AcquireLock(r) \/ CancelVictim(r) \/ FinishEviction(r) \/ resume_loaded(r)

Delivery(t) == Begin(t) \/ FinishPaused(t) \/ FinishCancelled(t) \/ DropUnstarted(t)

Next ==
  \/ \E r \in Requests : start(r) \/ resume(r) \/ Starting(r)
  \/ \E t \in Requests : Delivery(t) \/ PauseForClarification(t)
                           \/ Finish(t, "completed") \/ Finish(t, "failed")
  \/ \E k \in Killers : FinishKill(k) \/ \E s \in Sessions : Kill(k, s) \/ KillEnded(k, s)
  \/ Shutdown \/ FinishShutdown

Spec == Init /\ [][Next]_vars

(* The event loop runs whatever is ready: lock waiters, the sleep of the   *)
(* grace period, cancellations, and those who await a task that ended.     *)
(* Nothing makes a deliberation finish by itself.                          *)
FairSpec ==
  /\ Spec
  /\ \A r \in Requests : WF_vars(Starting(r)) /\ WF_vars(Delivery(r))
  /\ \A k \in Killers : WF_vars(FinishKill(k))

-------------------------------------------------------------------------------
(***************************************************************************)
(* Properties                                                              *)
(***************************************************************************)

(* A registered session always has a start time, whatever kills, second    *)
(* starts and evictions removed before: without it get_oldest_session      *)
(* overlooks the session and capacity is never reclaimed from it.          *)
Covered == \A s \in Sessions : active[s] # NoTask => start_times[s] # 0

(* At most one start evicts at a time, and it holds the lock throughout.   *)
OneEvictor ==
  \A r \in Requests :
    Evicting(r) => lock # <<>> /\ Head(lock) = r

(* Until shutdown is called, a session that Redis shows as running or      *)
(* evicting has a task that will say otherwise, or somebody is about to:   *)
(* no interleaving leaves it "running" with nothing running.               *)
Handled(s) ==
  \/ \E t \in Requests : session[t] = s /\ task[t] \in {"scheduled", "running"}
  \/ \E k \in Killers : kill[k] # NoTask /\ session[kill[k]] = s
  \/ \E r \in Requests : Evicting(r) /\ session[victim[r]] = s

Settled ==
  stop = "no" =>
    \A s \in Sessions : status[s] \in {"running", "evicting"} => Handled(s)

(* Every request that waits for the lock, or evicts somebody, starts.      *)
StartServed ==
  \A r \in Requests : pc[r] \in {"queued", "grace", "awaiting"} ~> pc[r] = "started"

(* Every kill that found a task returns. *)
KillReturns == \A k \in Killers : kill[k] # NoTask ~> kill[k] = NoTask

(* "Track active background tasks": until shutdown, a live task is the one *)
(* registered for its session, so the kill switches reach it.              *)
TasksTracked ==
  stop = "no" => \A t \in Requests : Live(t) => active[session[t]] = t
===============================================================================
