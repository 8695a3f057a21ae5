------------------------- MODULE SessionManagerProofs -------------------------
(***************************************************************************)
(* Theorems about SessionManager, for any number of sessions, requests and *)
(* killers and any capacity.                                               *)
(*                                                                         *)
(* Register is used with four different registries, so what it establishes *)
(* is a lemma of its own; every other action is one step of each proof.    *)
(***************************************************************************)
EXTENDS SessionManager, TLAPS

(* The part of TypeOK an action may leave to the fields it changes.        *)
TypeRegistry == /\ active \in [Sessions -> Task]
                /\ start_times \in [Sessions -> Nat]
                /\ now \in Nat
TypeRequest == /\ pc \in [Requests -> {"new", "checked", "queued", "grace",
                                       "awaiting", "started"}]
               /\ session \in [Requests -> Sessions]
               /\ victim \in [Requests -> Task]
TypeTask == task \in [Requests -> Phase]
TypeStores == /\ status \in [Sessions -> Status]
              /\ db_status \in [Sessions -> DbStatus]
TypeRest == /\ lock \in Seq(Requests)
            /\ kill \in [Killers -> Task]
            /\ stop \in {"no", "waiting", "done"}

(* TypeOK is the conjunction of its parts. *)
LEMMA TypeParts ==
  /\ TypeOK <=> TypeRegistry /\ TypeRequest /\ TypeTask /\ TypeStores /\ TypeRest
  /\ TypeOK' <=> TypeRegistry' /\ TypeRequest' /\ TypeTask' /\ TypeStores' /\ TypeRest'
BY DEF TypeOK, TypeRegistry, TypeRequest, TypeTask, TypeStores, TypeRest

(* AfterCancel maps phases to phases. *)
LEMMA CancelType ==
  ASSUME NEW STATE ts, TypeTask, Cancel(ts)
  PROVE  TypeTask'
BY DEF TypeTask, Cancel, AfterCancel, Phase

(* Writing a status keeps both stores well typed, whether PostgreSQL       *)
(* accepts it or not.                                                      *)
LEMMA SetStatusType ==
  ASSUME NEW STATE s, NEW new \in Status, TypeStores, SetStatus(s, new)
  PROVE  TypeStores'
BY DEF TypeStores, SetStatus, Synced, Status

(* A task that ends, and its finally block, do so too. *)
LEMMA EndType ==
  ASSUME TypeTask, NEW t \in Requests, NEW from, Moves(t, from, "ended")
  PROVE  TypeTask'
BY DEF TypeTask, Moves, Phase

LEMMA UnregisterType ==
  ASSUME TypeRegistry, NEW STATE s, Unregister(s)
  PROVE  TypeRegistry'
BY DEF TypeRegistry, Unregister, Task

(* The end of start_session keeps every part well typed. *)
LEMMA RegisterType ==
  ASSUME TypeOK, NEW r \in Requests,
         NEW STATE act, act \in [Sessions -> Task], NEW STATE times, times \in [Sessions -> Nat],
         NEW STATE st, st \in [Sessions -> Status], NEW STATE db, db \in [Sessions -> DbStatus],
         Register(r, act, times, st, db)
  PROVE  TypeRegistry' /\ TypeRequest' /\ TypeTask' /\ TypeStores'
<1>1. "running" \in Status /\ "running" \in DbStatus /\ "scheduled" \in Phase /\ r \in Task
  BY DEF Status, DbStatus, Phase, Task
<1>2. session[r] \in Sessions
  BY DEF TypeOK
<1>3. TypeRegistry'
  BY <1>1, <1>2 DEF Register, TypeRegistry, TypeOK
<1>4. TypeRequest'
  BY DEF Register, TypeRequest, TypeOK
<1>5. TypeTask'
  BY <1>1 DEF Register, TypeTask, TypeOK
<1>6. TypeStores'
  BY <1>1 DEF Register, TypeStores, Synced
<1>. QED  BY <1>3, <1>4, <1>5, <1>6

(* Whoever holds the lock starts or begins an eviction, well typed. *)
LEMMA WithLockType ==
  ASSUME TypeOK, NEW r \in Requests, NEW STATE waiting, waiting \in Seq(Requests), WithLock(r, waiting)
  PROVE  TypeOK'
<1>1. TypeRegistry' /\ TypeRequest' /\ TypeTask' /\ TypeStores'
  <2>1. CASE StartBelowCapacity(r)
    BY <2>1, RegisterType DEF StartBelowCapacity, TypeOK
  <2>2. ASSUME NEW s \in Sessions, StartOverStaleEntry(r, s)
        PROVE  TypeRegistry' /\ TypeRequest' /\ TypeTask' /\ TypeStores'
    <3>1. [start_times EXCEPT ![s] = 0] \in [Sessions -> Nat]
      BY DEF TypeOK
    <3>. QED  BY <2>2, <3>1, RegisterType DEF StartOverStaleEntry, TypeOK
  <2>3. ASSUME NEW s \in Sessions, BeginEviction(r, s)
        PROVE  TypeRegistry' /\ TypeRequest' /\ TypeTask' /\ TypeStores'
    <3>1. TypeStores'
      BY <2>3, SetStatusType, TypeParts DEF BeginEviction, Status
    <3>2. TypeRequest'
      BY <2>3 DEF BeginEviction, TypeRequest, TypeOK
    <3>3. TypeRegistry' /\ TypeTask'
      BY <2>3 DEF BeginEviction, TypeRegistry, TypeTask, TypeOK, registry
    <3>. QED  BY <3>1, <3>2, <3>3
  <2>. QED  BY <2>1, <2>2, <2>3 DEF WithLock
<1>2. <<r>> \o waiting \in Seq(Requests)
  OBVIOUS
<1>3. lock' \in Seq(Requests)
  BY <1>2 DEF WithLock
<1>4. TypeRest'
  BY <1>3 DEF WithLock, TypeRest, TypeOK
<1>. QED  BY <1>1, <1>4, TypeParts

(* The same for a request that may have to queue first. *)
LEMMA ArriveType ==
  ASSUME TypeOK, NEW r \in Requests, Arrive(r)
  PROVE  TypeOK'
<1>1. CASE Queue(r)
  BY <1>1 DEF Queue, TypeOK, registry, stores
<1>2. CASE lock = <<>> /\ WithLock(r, <<>>)
  <2>1. <<>> \in Seq(Requests)
    OBVIOUS
  <2>. QED  BY <1>2, <2>1, WithLockType
<1>. QED  BY <1>1, <1>2 DEF Arrive

(* Every step keeps every variable well typed. *)
LEMMA StepType ==
  ASSUME TypeOK, OneEvictor, [Next]_vars
  PROVE  TypeOK'
<1>. USE TypeParts
<1>1. ASSUME NEW r \in Requests, start(r) \/ resume_loaded(r)
      PROVE  TypeOK'
  BY <1>1, ArriveType DEF start, resume_loaded
<1>2. ASSUME NEW r \in Requests, resume(r)
      PROVE  TypeOK'
  BY <1>2 DEF resume, TypeOK, registry, stores
<1>3. ASSUME NEW r \in Requests, AcquireLock(r)
      PROVE  TypeOK'
  <2>1. Tail(lock) \in Seq(Requests)
    BY <1>3 DEF TypeOK, AcquireLock
  <2>. QED  BY <1>3, <2>1, WithLockType DEF AcquireLock
<1>4. ASSUME NEW r \in Requests, CancelVictim(r)
      PROVE  TypeOK'
  <2>1. TypeTask'
    BY <1>4, CancelType DEF CancelVictim
  <2>. QED  BY <1>4, <2>1 DEF CancelVictim, TypeOK, TypeTask, registry, stores
<1>5. ASSUME NEW r \in Requests, FinishEviction(r)
      PROVE  TypeOK'
  <2>1. /\ [active EXCEPT ![session[victim[r]]] = NoTask] \in [Sessions -> Task]
        /\ [start_times EXCEPT ![session[victim[r]]] = 0] \in [Sessions -> Nat]
        /\ [status EXCEPT ![session[victim[r]]] = "evicted"] \in [Sessions -> Status]
        /\ Synced(db_status, session[victim[r]], "evicted") \in [Sessions -> DbStatus]
    BY DEF TypeOK, Task, Status, Synced
  <2>2. TypeRegistry' /\ TypeRequest' /\ TypeTask' /\ TypeStores'
    BY <1>5, <2>1, RegisterType DEF FinishEviction
  <2>3. TypeRest'
    BY <1>5 DEF FinishEviction, TypeRest, TypeOK, OneEvictor
  <2>. QED  BY <2>2, <2>3
<1>6. ASSUME NEW t \in Requests, Begin(t) \/ DropUnstarted(t)
      PROVE  TypeOK'
  BY <1>6 DEF Begin, DropUnstarted, Moves, TypeOK, Phase, registry, request, stores
<1>7. ASSUME NEW t \in Requests, FinishPaused(t) \/ FinishCancelled(t)
      PROVE  TypeOK'
  <2>1. TypeRegistry' /\ TypeTask'
    BY <1>7, UnregisterType, EndType DEF FinishPaused, FinishCancelled
  <2>. QED  BY <1>7, <2>1 DEF FinishPaused, FinishCancelled, TypeRequest, TypeStores,
                              TypeRest, request, stores
<1>8. ASSUME NEW t \in Requests, PauseForClarification(t)
      PROVE  TypeOK'
  <2>1. TypeStores'
    BY <1>8, SetStatusType DEF PauseForClarification, Status, DbStatus
  <2>. QED  BY <1>8, <2>1 DEF PauseForClarification, Moves, TypeOK, TypeStores, Phase,
                              registry, request
<1>9. ASSUME NEW t \in Requests, Finish(t, "completed") \/ Finish(t, "failed")
      PROVE  TypeOK'
  <2>1. TypeRegistry' /\ TypeTask'
    BY <1>9, UnregisterType, EndType DEF Finish
  <2>2. TypeStores'
    BY <1>9, SetStatusType DEF Finish, Status, DbStatus
  <2>. QED  BY <1>9, <2>1, <2>2 DEF Finish, TypeRequest, TypeRest, request
<1>10. ASSUME NEW k \in Killers, FinishKill(k)
      PROVE  TypeOK'
  <2>1. TypeStores'
    BY <1>10, SetStatusType DEF FinishKill, Killed, Status, DbStatus
  <2>. QED  BY <1>10, <2>1 DEF FinishKill, Killed, TypeOK, TypeStores, request, Task
<1>11. ASSUME NEW k \in Killers, NEW s \in Sessions, Kill(k, s)
      PROVE  TypeOK'
  <2>1. TypeTask'
    BY <1>11, CancelType DEF Kill
  <2>. QED  BY <1>11, <2>1 DEF Kill, TypeOK, TypeTask, registry, stores, request
<1>12. ASSUME NEW k \in Killers, NEW s \in Sessions, KillEnded(k, s)
      PROVE  TypeOK'
  <2>1. TypeStores'
    BY <1>12, SetStatusType DEF KillEnded, Killed, Status, DbStatus
  <2>. QED  BY <1>12, <2>1 DEF KillEnded, Killed, TypeOK, TypeStores, request, Task
<1>13. CASE Shutdown
  <2>1. TypeTask'
    BY <1>13, CancelType DEF Shutdown
  <2>. QED  BY <1>13, <2>1 DEF Shutdown, TypeOK, TypeTask, registry, stores, request
<1>14. CASE FinishShutdown
  BY <1>14 DEF FinishShutdown, TypeOK, request, Task, Status
<1>15. CASE UNCHANGED vars
  BY <1>15 DEF vars, TypeOK, registry, request, stores
<1>. QED  BY <1>1, <1>2, <1>3, <1>4, <1>5, <1>6, <1>7, <1>8, <1>9, <1>10, <1>11,
             <1>12, <1>13, <1>14, <1>15
          DEF Next, Starting, Delivery

-------------------------------------------------------------------------------
(* Taking the lock while nobody evicts leaves the taker as the only one    *)
(* who may be evicting, at the head of the queue.                          *)
LEMMA WithLockEvictor ==
  ASSUME TypeOK, NEW r \in Requests, NEW STATE waiting, waiting \in Seq(Requests),
         WithLock(r, waiting), \A x \in Requests : x # r => ~Evicting(x)
  PROVE  OneEvictor'
<1>1. CASE pc' = [pc EXCEPT ![r] = "started"]
  BY <1>1 DEF OneEvictor, Evicting, TypeOK
<1>2. ASSUME pc' = [pc EXCEPT ![r] = "grace"], lock' = <<r>> \o waiting
      PROVE  OneEvictor'
  <2>1. lock' # <<>> /\ Head(lock') = r
    BY <1>2
  <2>. QED  BY <1>2, <2>1 DEF OneEvictor, Evicting, TypeOK
<1>. QED  BY <1>1, <1>2 DEF WithLock, StartBelowCapacity, StartOverStaleEntry, BeginEviction,
                            Register

(* Every step keeps the evictor alone and at the head of the queue. *)
LEMMA StepEvictor ==
  ASSUME TypeOK, OneEvictor, [Next]_vars
  PROVE  OneEvictor'
<1>1. ASSUME NEW r \in Requests, Arrive(r)
      PROVE  OneEvictor'
  <2>1. CASE Queue(r)
    <3>1. lock' # <<>> /\ Head(lock') = Head(lock)
      BY <2>1 DEF Queue, TypeOK
    <3>. QED  BY <2>1, <3>1 DEF Queue, OneEvictor, Evicting, TypeOK
  <2>2. CASE lock = <<>> /\ WithLock(r, <<>>)
    <3>1. <<>> \in Seq(Requests)
      OBVIOUS
    <3>2. \A x \in Requests : ~Evicting(x)
      BY <2>2 DEF OneEvictor
    <3>. QED  BY <2>2, <3>1, <3>2, WithLockEvictor
  <2>. QED  BY <1>1, <2>1, <2>2 DEF Arrive
<1>2. ASSUME NEW r \in Requests, AcquireLock(r)
      PROVE  OneEvictor'
  <2>1. Tail(lock) \in Seq(Requests)
    BY <1>2 DEF AcquireLock, TypeOK
  <2>2. \A x \in Requests : x # r => ~Evicting(x)
    BY <1>2 DEF AcquireLock, OneEvictor
  <2>. QED  BY <1>2, <2>1, <2>2, WithLockEvictor DEF AcquireLock
<1>3. ASSUME NEW r \in Requests, resume(r)
      PROVE  OneEvictor'
  BY <1>3 DEF resume, OneEvictor, Evicting, TypeOK
<1>4. ASSUME NEW r \in Requests, CancelVictim(r)
      PROVE  OneEvictor'
  BY <1>4 DEF CancelVictim, OneEvictor, Evicting, TypeOK
<1>5. ASSUME NEW r \in Requests, FinishEviction(r)
      PROVE  OneEvictor'
  <2>1. \A x \in Requests : x # r => ~Evicting(x)
    BY <1>5 DEF FinishEviction, OneEvictor
  <2>2. pc' = [pc EXCEPT ![r] = "started"]
    BY <1>5 DEF FinishEviction, Register
  <2>. QED  BY <2>1, <2>2 DEF OneEvictor, Evicting, TypeOK
<1>6. CASE UNCHANGED <<lock, pc>>
  BY <1>6 DEF OneEvictor, Evicting
<1>7. ASSUME NEW t \in Requests, Delivery(t) \/ PauseForClarification(t)
                                 \/ Finish(t, "completed") \/ Finish(t, "failed")
      PROVE  UNCHANGED <<lock, pc>>
  BY <1>7 DEF Delivery, Begin, FinishPaused, FinishCancelled, DropUnstarted,
              PauseForClarification, Finish, request
<1>8. ASSUME NEW k \in Killers, FinishKill(k) \/ \E s \in Sessions : Kill(k, s) \/ KillEnded(k, s)
      PROVE  UNCHANGED <<lock, pc>>
  BY <1>8 DEF FinishKill, Kill, KillEnded, Killed, request
<1>9. ASSUME Shutdown \/ FinishShutdown \/ UNCHANGED vars
      PROVE  UNCHANGED <<lock, pc>>
  BY <1>9 DEF Shutdown, FinishShutdown, vars, request
<1>. QED  BY <1>1, <1>2, <1>3, <1>4, <1>5, <1>6, <1>7, <1>8, <1>9
          DEF Next, Starting, start, resume_loaded

(* Type correctness of the registry, the requests and both stores.  It     *)
(* needs OneEvictor: the lock an eviction releases is one it holds.        *)
THEOREM TypeCorrect == Spec => []TypeOK
<1>1. Init => TypeOK /\ OneEvictor
  BY DEF Init, TypeOK, OneEvictor, Evicting, Task, Phase, Status, DbStatus
<1>2. TypeOK /\ OneEvictor /\ [Next]_vars => TypeOK' /\ OneEvictor'
  BY StepType, StepEvictor
<1>. QED  BY <1>1, <1>2, PTL DEF Spec

(* At most one start evicts at a time, and it is the holder of the lock. *)
THEOREM OneEvictorAlways == Spec => []OneEvictor
<1>1. Init => TypeOK /\ OneEvictor
  BY DEF Init, TypeOK, OneEvictor, Evicting, Task, Phase, Status, DbStatus
<1>2. TypeOK /\ OneEvictor /\ [Next]_vars => TypeOK' /\ OneEvictor'
  BY StepType, StepEvictor
<1>. QED  BY <1>1, <1>2, PTL DEF Spec

-------------------------------------------------------------------------------
(* A registered task is registered for its own session. *)
ActiveOwn == \A s \in Sessions : active[s] # NoTask => session[active[s]] = s

(* Registration keeps the registry covered and owned if it was before. *)
LEMMA RegisterCovers ==
  ASSUME TypeOK, NEW r \in Requests,
         NEW STATE act, act \in [Sessions -> Task], NEW STATE times, times \in [Sessions -> Nat],
         NEW STATE st, NEW STATE db,
         \A s \in Sessions : act[s] # NoTask => times[s] # 0 /\ session[act[s]] = s,
         Register(r, act, times, st, db)
  PROVE  Covered' /\ ActiveOwn'
BY ManagerAssumption DEF Register, Covered, ActiveOwn, TypeOK

(* Every step keeps the registry covered and owned. *)
LEMMA StepCovers ==
  ASSUME TypeOK, Covered, ActiveOwn, [Next]_vars
  PROVE  Covered' /\ ActiveOwn'
<1>1. ASSUME NEW r \in Requests, NEW STATE waiting, WithLock(r, waiting)
      PROVE  Covered' /\ ActiveOwn'
  <2>1. CASE StartBelowCapacity(r)
    <3>1. /\ active \in [Sessions -> Task] /\ start_times \in [Sessions -> Nat]
          /\ \A s \in Sessions : active[s] # NoTask =>
               start_times[s] # 0 /\ session[active[s]] = s
      BY DEF Covered, ActiveOwn, TypeOK
    <3>. QED  BY <2>1, <3>1, RegisterCovers DEF StartBelowCapacity
  <2>2. ASSUME NEW s \in Sessions, StartOverStaleEntry(r, s)
        PROVE  Covered' /\ ActiveOwn'
    <3>1. [start_times EXCEPT ![s] = 0] \in [Sessions -> Nat]
      BY DEF TypeOK
    <3>2. \A x \in Sessions : active[x] # NoTask =>
             [start_times EXCEPT ![s] = 0][x] # 0 /\ session[active[x]] = x
      BY <2>2 DEF StartOverStaleEntry, Covered, ActiveOwn, TypeOK
    <3>. QED  BY <2>2, <3>1, <3>2, RegisterCovers DEF StartOverStaleEntry, TypeOK
  <2>3. ASSUME NEW s \in Sessions, BeginEviction(r, s)
        PROVE  Covered' /\ ActiveOwn'
    BY <2>3 DEF BeginEviction, registry, Covered, ActiveOwn
  <2>. QED  BY <1>1, <2>1, <2>2, <2>3 DEF WithLock
<1>2. ASSUME NEW r \in Requests, Arrive(r) \/ AcquireLock(r)
      PROVE  Covered' /\ ActiveOwn'
  BY <1>1, <1>2 DEF Arrive, Queue, AcquireLock, registry, Covered, ActiveOwn
<1>3. ASSUME NEW r \in Requests, FinishEviction(r)
      PROVE  Covered' /\ ActiveOwn'
  <2>. DEFINE v == session[victim[r]]
              act == [active EXCEPT ![v] = NoTask]
              times == [start_times EXCEPT ![v] = 0]
  <2>1. act \in [Sessions -> Task] /\ times \in [Sessions -> Nat]
    BY DEF TypeOK, Task
  <2>2. \A x \in Sessions : act[x] # NoTask => times[x] # 0 /\ session[act[x]] = x
    BY DEF Covered, ActiveOwn, TypeOK
  <2>3. Register(r, act, times, [status EXCEPT ![v] = "evicted"],
                 Synced(db_status, v, "evicted"))
    BY <1>3 DEF FinishEviction
  <2>. HIDE DEF act, times, v
  <2>. QED  BY <2>1, <2>2, <2>3, RegisterCovers
<1>4. ASSUME NEW s, Unregister(s), UNCHANGED session
      PROVE  Covered' /\ ActiveOwn'
  BY <1>4 DEF Unregister, Covered, ActiveOwn, TypeOK
<1>5. ASSUME NEW s, Killed(s)
      PROVE  Covered' /\ ActiveOwn'
  BY <1>5 DEF Killed, request, Covered, ActiveOwn, TypeOK
<1>6. CASE UNCHANGED <<active, start_times, session>>
  BY <1>6 DEF Covered, ActiveOwn
<1>7. ASSUME NEW r \in Requests, resume(r) \/ CancelVictim(r)
      PROVE  UNCHANGED <<active, start_times, session>>
  BY <1>7 DEF resume, CancelVictim, registry
<1>8. ASSUME NEW t \in Requests, Delivery(t) \/ PauseForClarification(t)
                                 \/ Finish(t, "completed") \/ Finish(t, "failed")
      PROVE  \/ UNCHANGED <<active, start_times, session>>
             \/ Unregister(session[t]) /\ UNCHANGED session
  BY <1>8 DEF Delivery, Begin, FinishPaused, FinishCancelled, DropUnstarted,
              PauseForClarification, Finish, request, registry
<1>9. ASSUME NEW k \in Killers, FinishKill(k) \/ \E s \in Sessions : Kill(k, s) \/ KillEnded(k, s)
      PROVE  \/ UNCHANGED <<active, start_times, session>>
             \/ \E s \in Sessions \cup {session[kill[k]]} : Killed(s)
  BY <1>9 DEF FinishKill, Kill, KillEnded, request, registry
<1>10. CASE FinishShutdown
  BY <1>10 DEF FinishShutdown, Covered, ActiveOwn
<1>11. ASSUME Shutdown \/ UNCHANGED vars
       PROVE  UNCHANGED <<active, start_times, session>>
  BY <1>11 DEF Shutdown, vars, request, registry
<1>. QED  BY <1>2, <1>3, <1>4, <1>5, <1>6, <1>7, <1>8, <1>9, <1>10, <1>11
          DEF Next, Starting, start, resume_loaded

(* No registered session is without a start time, in any execution: the    *)
(* eviction always finds a candidate when the registry is full.            *)
THEOREM CoveredAlways == Spec => []Covered
<1>1. Init => TypeOK /\ OneEvictor /\ Covered /\ ActiveOwn
  BY DEF Init, TypeOK, OneEvictor, Evicting, Covered, ActiveOwn, Task, Phase, Status, DbStatus
<1>2. TypeOK /\ OneEvictor /\ Covered /\ ActiveOwn /\ [Next]_vars
        => TypeOK' /\ OneEvictor' /\ Covered' /\ ActiveOwn'
  BY StepType, StepEvictor, StepCovers
<1>. QED  BY <1>1, <1>2, PTL DEF Spec

-------------------------------------------------------------------------------
(* What a step must show for Settled: the sessions it leaves "running" or  *)
(* "evicting" are handled.                                                 *)
Unsettled(s) == status[s] \in {"running", "evicting"}

(* Registration: the session that was started has its new task, and every  *)
(* other session keeps what handled it, except an evicted one.             *)
LEMMA RegisterSettles ==
  ASSUME TypeOK, NEW r \in Requests, NEW STATE act, NEW STATE times,
         NEW STATE st, st \in [Sessions -> Status], NEW STATE db,
         Register(r, act, times, st, db), UNCHANGED kill,
         NEW x \in Sessions, Unsettled(x)',
         x # session[r] => /\ st[x] = status[x]
                           /\ Evicting(r) => x # session[victim[r]],
         Unsettled(x) => Handled(x)
  PROVE  Handled(x)'
<1>1. CASE x = session[r]
  <2>1. session'[r] = x /\ task'[r] \in {"scheduled", "running"}
    BY <1>1 DEF Register, TypeOK
  <2>. QED  BY <2>1 DEF Handled
<1>2. CASE x # session[r]
  <2>1. Unsettled(x)
    BY <1>2 DEF Register, Unsettled, TypeOK
  <2>2. CASE \E t \in Requests : session[t] = x /\ task[t] \in {"scheduled", "running"}
    BY <1>2, <2>2 DEF Register, Handled, TypeOK
  <2>3. CASE \E k \in Killers : kill[k] # NoTask /\ session[kill[k]] = x
    BY <2>3 DEF Register, Handled, TypeOK
  <2>4. CASE \E e \in Requests : Evicting(e) /\ session[victim[e]] = x
    <3>1. PICK e \in Requests : Evicting(e) /\ session[victim[e]] = x
      BY <2>4
    <3>2. e # r
      BY <1>2, <3>1
    <3>3. Evicting(e)' /\ session'[victim'[e]] = x
      BY <3>1, <3>2 DEF Register, Evicting, TypeOK
    <3>. QED  BY <3>3 DEF Handled
  <2>. QED  BY <2>1, <2>2, <2>3, <2>4 DEF Handled
<1>. QED  BY <1>1, <1>2

(* A cancelled task no longer handles its session: somebody who awaits it  *)
(* must.                                                                   *)
LEMMA CancelSettles ==
  ASSUME TypeOK, NEW STATE c, Cancel({c}), UNCHANGED session,
         NEW x \in Sessions, Handled(x),
         \A k \in Killers : kill[k] # NoTask => kill'[k] = kill[k],
         \A r \in Requests : Evicting(r) => Evicting(r)' /\ victim'[r] = victim[r],
         x = session[c] => Handled(x)'
  PROVE  Handled(x)'
<1>1. CASE \E t \in Requests : session[t] = x /\ task[t] \in {"scheduled", "running"}
  <2>1. PICK t \in Requests : session[t] = x /\ task[t] \in {"scheduled", "running"}
    BY <1>1
  <2>2. CASE t = c
    BY <2>1, <2>2
  <2>3. CASE t # c
    <3>1. session'[t] = x /\ task'[t] \in {"scheduled", "running"}
      BY <2>1, <2>3 DEF Cancel
    <3>. QED  BY <3>1 DEF Handled
  <2>. QED  BY <2>2, <2>3
<1>2. CASE \E k \in Killers : kill[k] # NoTask /\ session[kill[k]] = x
  BY <1>2 DEF Handled
<1>3. CASE \E r \in Requests : Evicting(r) /\ session[victim[r]] = x
  BY <1>3 DEF Handled
<1>. QED  BY <1>1, <1>2, <1>3 DEF Handled

(* A step of a task that changes its own phase, and perhaps its session's  *)
(* status: only that session can lose what handled it.                     *)
LEMMA MoveSettles ==
  ASSUME TypeOK, NEW t \in Requests, NEW from, NEW to, Moves(t, from, to),
         UNCHANGED <<session, victim, pc, kill>>,
         NEW x \in Sessions, Handled(x),
         x = session[t] => from \notin {"scheduled", "running"} \/ to = "running"
  PROVE  Handled(x)'
<1>1. CASE \E u \in Requests : session[u] = x /\ task[u] \in {"scheduled", "running"}
  <2>1. PICK u \in Requests : session[u] = x /\ task[u] \in {"scheduled", "running"}
    BY <1>1
  <2>2. task'[u] \in {"scheduled", "running"}
    BY <2>1 DEF Moves, TypeOK
  <2>. QED  BY <2>1, <2>2 DEF Handled
<1>2. CASE \E k \in Killers : kill[k] # NoTask /\ session[kill[k]] = x
  BY <1>2 DEF Handled
<1>3. CASE \E r \in Requests : Evicting(r) /\ session[victim[r]] = x
  BY <1>3 DEF Handled, Evicting
<1>. QED  BY <1>1, <1>2, <1>3 DEF Handled

(* Every step leaves every unsettled session handled, until shutdown.      *)
LEMMA StepSettles ==
  ASSUME TypeOK, ActiveOwn, Settled, [Next]_vars
  PROVE  Settled'
<1>. SUFFICES ASSUME stop' = "no", NEW x \in Sessions, Unsettled(x)'
              PROVE  Handled(x)'
  BY DEF Settled, Unsettled
<1>. USE DEF Unsettled
<1>1. Unsettled(x) => Handled(x)
  <2>1. stop = "no"
    BY DEF Next, Starting, start, resume, resume_loaded, Arrive, Queue, AcquireLock, WithLock,
           CancelVictim, FinishEviction, Delivery, Begin, FinishPaused, FinishCancelled,
           DropUnstarted, PauseForClarification, Finish, FinishKill, Kill, KillEnded, Killed,
           Shutdown, FinishShutdown, vars
  <2>. QED  BY <2>1 DEF Settled
<1>2. ASSUME NEW r \in Requests, ~Evicting(r), NEW STATE waiting, WithLock(r, waiting)
      PROVE  Handled(x)'
  <2>1. CASE StartBelowCapacity(r)
    BY <1>1, <1>2, <2>1, RegisterSettles DEF StartBelowCapacity, WithLock, TypeOK
  <2>2. ASSUME NEW s \in Sessions, StartOverStaleEntry(r, s)
        PROVE  Handled(x)'
    BY <1>1, <1>2, <2>2, RegisterSettles DEF StartOverStaleEntry, WithLock, TypeOK
  <2>3. ASSUME NEW s \in Sessions, BeginEviction(r, s)
        PROVE  Handled(x)'
    <3>1. CASE x = s
      <4>1. Evicting(r)' /\ session'[victim'[r]] = x
        BY <2>3, <3>1 DEF BeginEviction, Evicting, ActiveOwn, TypeOK
      <4>. QED  BY <4>1 DEF Handled
    <3>2. CASE x # s
      <4>1. Handled(x)
        BY <1>1, <2>3, <3>2 DEF BeginEviction, SetStatus, TypeOK
      <4>2. \A e \in Requests : Evicting(e) => Evicting(e)' /\ victim'[e] = victim[e]
        BY <1>2, <2>3 DEF BeginEviction, Evicting, TypeOK
      <4>. QED  BY <1>2, <2>3, <4>1, <4>2 DEF BeginEviction, WithLock, Handled
    <3>. QED  BY <3>1, <3>2
  <2>. QED  BY <1>2, <2>1, <2>2, <2>3 DEF WithLock
<1>3. ASSUME NEW r \in Requests, ~Evicting(r), Arrive(r)
      PROVE  Handled(x)'
  <2>1. CASE Queue(r)
    BY <1>1, <1>3, <2>1 DEF Queue, stores, Handled, Evicting, TypeOK
  <2>. QED  BY <1>2, <1>3, <2>1 DEF Arrive
<1>4. ASSUME NEW r \in Requests, start(r) \/ resume_loaded(r)
      PROVE  Handled(x)'
  BY <1>3, <1>4 DEF start, resume_loaded, Evicting
<1>5. ASSUME NEW r \in Requests, AcquireLock(r)
      PROVE  Handled(x)'
  BY <1>2, <1>5 DEF AcquireLock, Evicting
<1>6. ASSUME NEW r \in Requests, resume(r)
      PROVE  Handled(x)'
  BY <1>1, <1>6 DEF resume, stores, Handled, Evicting, TypeOK
<1>7. ASSUME NEW r \in Requests, CancelVictim(r)
      PROVE  Handled(x)'
  <2>1. Handled(x)
    BY <1>1, <1>7 DEF CancelVictim, stores
  <2>2. \A e \in Requests : Evicting(e) => Evicting(e)' /\ victim'[e] = victim[e]
    BY <1>7 DEF CancelVictim, Evicting, TypeOK
  <2>3. ASSUME x = session[victim[r]]
        PROVE  Handled(x)'
    <3>1. Evicting(r)' /\ session'[victim'[r]] = x
      BY <1>7, <2>2, <2>3 DEF CancelVictim, Evicting
    <3>. QED  BY <3>1 DEF Handled
  <2>. QED  BY <1>7, <2>1, <2>2, <2>3, CancelSettles DEF CancelVictim
<1>8. ASSUME NEW r \in Requests, FinishEviction(r)
      PROVE  Handled(x)'
  <2>. DEFINE v == session[victim[r]]
              st == [status EXCEPT ![v] = "evicted"]
  <2>1. st \in [Sessions -> Status]
    BY DEF TypeOK, Status
  <2>2. Register(r, [active EXCEPT ![v] = NoTask], [start_times EXCEPT ![v] = 0],
                 st, Synced(db_status, v, "evicted")) /\ UNCHANGED kill
    BY <1>8 DEF FinishEviction
  <2>3. x # session[r] => st[x] = status[x] /\ x # v
    <3>1. CASE x = v
      <4>1. x # session[r] => status'[x] = "evicted"
        BY <2>2, <3>1 DEF Register, TypeOK
      <4>. QED  BY <3>1, <4>1
    <3>2. CASE x # v
      BY <3>2 DEF TypeOK
    <3>. QED  BY <3>1, <3>2
  <2>. HIDE DEF st
  <2>. QED  BY <1>1, <2>1, <2>2, <2>3, RegisterSettles
<1>9. ASSUME NEW t \in Requests, Begin(t) \/ FinishPaused(t) \/ FinishCancelled(t)
                                 \/ DropUnstarted(t)
      PROVE  Handled(x)'
  <2>1. Handled(x)
    BY <1>1, <1>9 DEF Begin, FinishPaused, FinishCancelled, DropUnstarted, stores
  <2>. QED  BY <1>9, <2>1, MoveSettles DEF Begin, FinishPaused, FinishCancelled, DropUnstarted,
                                         request
<1>10. ASSUME NEW t \in Requests, NEW to, NEW new, Moves(t, "running", to),
              SetStatus(session[t], new), new \notin {"running", "evicting"},
              UNCHANGED <<request, kill>>
       PROVE  Handled(x)'
  <2>1. x # session[t]
    BY <1>10 DEF SetStatus, TypeOK
  <2>2. Handled(x)
    BY <1>1, <1>10, <2>1 DEF SetStatus, TypeOK
  <2>. QED  BY <1>10, <2>1, <2>2, MoveSettles DEF request
<1>11. ASSUME NEW t \in Requests, PauseForClarification(t)
                                  \/ Finish(t, "completed") \/ Finish(t, "failed")
       PROVE  Handled(x)'
  BY <1>10, <1>11 DEF PauseForClarification, Finish
<1>12. ASSUME NEW k \in Killers, NEW s \in Sessions, Kill(k, s)
       PROVE  Handled(x)'
  <2>1. Handled(x)
    BY <1>1, <1>12 DEF Kill, stores
  <2>2. \A r \in Requests : Evicting(r) => Evicting(r)' /\ victim'[r] = victim[r]
    BY <1>12 DEF Kill, Evicting, request
  <2>3. ASSUME x = session[active[s]]
        PROVE  Handled(x)'
    <3>1. kill'[k] # NoTask /\ session'[kill'[k]] = x
      BY <1>12, <2>3 DEF Kill, request, TypeOK
    <3>. QED  BY <3>1 DEF Handled
  <2>4. \A j \in Killers : kill[j] # NoTask => kill'[j] = kill[j]
    BY <1>12 DEF Kill, TypeOK
  <2>. QED  BY <1>12, <2>1, <2>2, <2>3, <2>4, CancelSettles DEF Kill, request
<1>13. ASSUME NEW s, Killed(s), UNCHANGED task,
              \A k \in Killers : kill'[k] = kill[k] \/ session[kill[k]] = s
       PROVE  Handled(x)'
  <2>1. x # s
    BY <1>13 DEF Killed, SetStatus, TypeOK
  <2>2. Handled(x)
    BY <1>1, <1>13, <2>1 DEF Killed, SetStatus, TypeOK
  <2>. QED  BY <1>13, <2>1, <2>2 DEF Killed, Handled, Evicting, request
<1>14. ASSUME NEW k \in Killers, FinishKill(k)
       PROVE  Handled(x)'
  BY <1>13, <1>14 DEF FinishKill, TypeOK
<1>15. ASSUME NEW k \in Killers, NEW s \in Sessions, KillEnded(k, s)
       PROVE  Handled(x)'
  BY <1>13, <1>15 DEF KillEnded
<1>16. CASE UNCHANGED vars
  BY <1>1, <1>16 DEF vars, stores, request, Handled, Evicting
<1>17. ~Shutdown /\ ~FinishShutdown
  BY DEF Shutdown, FinishShutdown
<1>. QED  BY <1>4, <1>5, <1>6, <1>7, <1>8, <1>9, <1>11, <1>12, <1>14, <1>15, <1>16, <1>17
          DEF Next, Starting, Delivery

(* Until shutdown, no interleaving of starts, evictions, kills and endings *)
(* leaves a session "running" with nothing that will end it.               *)
THEOREM SettledAlways == Spec => []Settled
<1>. DEFINE IInv == TypeOK /\ OneEvictor /\ Covered /\ ActiveOwn /\ Settled
<1>1. Init => IInv
  BY DEF Init, TypeOK, OneEvictor, Evicting, Covered, ActiveOwn, Settled, Task, Phase,
         Status, DbStatus
<1>2. IInv /\ [Next]_vars => IInv'
  BY StepType, StepEvictor, StepCovers, StepSettles
<1>. QED  BY <1>1, <1>2, PTL DEF Spec
===============================================================================
