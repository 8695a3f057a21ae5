------------------------ MODULE SessionStatusProofs ------------------------
(***************************************************************************)
(* Theorems about SessionStatus, for any number of requests, tasks and      *)
(* failures.                                                                *)
(***************************************************************************)
EXTENDS SessionStatus, FiniteSetTheorems, TLAPS

RowType == [status : Statuses, clarify : BOOLEAN]
FaultsType == [pg : 0 .. MaxFaults, crash : 0 .. MaxFaults]
HeapType == [Slots -> Metadata \cup {NoDict}]
TaskType == [Tasks -> {"none", "running", "asking", "complete", "unsettled", "cancelled"}]
Ops == Waiting \cup {"resume", "clarify", "constraints"}
RequestType == [Callers -> {Idle} \cup [op : Ops, dict : Slots \cup {0}, task : Tasks \cup {NoTask}]]

(* A request that looked at the dictionary still finds one there, and one    *)
(* that waits for a task names a task.                                       *)
Lookers == Ops \ {"kill"}
Dicts ==
  /\ cached # 0 => heap[cached] \in Metadata
  /\ \A c \in Callers : request[c].op \in Lookers =>
       request[c].dict \in Slots /\ heap[request[c].dict] \in Metadata
  /\ \A c \in Callers : request[c].op \in Waiting => request[c].task \in Tasks

Memory == cached \in Slots \cup {0} /\ heap \in HeapType /\ request \in RequestType /\ Dicts
Stores == redis \in Metadata /\ row \in RowType /\ faults \in FaultsType
Running == /\ task \in TaskType /\ registry \in Tasks \cup {NoTask}
           /\ overlapped \in BOOLEAN /\ stray \in BOOLEAN
Typed == Memory /\ Stores /\ Running

LEMMA TypedIsTypeOK == Typed => TypeOK
BY DEF Typed, Memory, Stores, Running, TypeOK, RowType, FaultsType, HeapType, TaskType, Ops,
       RequestType

----------------------------------------------------------------------------
(* Lemmas about the operators.                                              *)

LEMMA StatusSet ==
  ASSUME NEW m \in Metadata, NEW s \in Statuses
  PROVE  [m EXCEPT !.status = s] \in Metadata /\ [m EXCEPT !.status = s].status = s
BY DEF Metadata

LEMMA RowWritten ==
  ASSUME NEW r \in RowType, NEW m \in Metadata, NEW s \in Statuses
  PROVE  DualWrite(r, m) \in RowType /\ UpdateStatus(r, s) \in RowType
<1>1. (r.clarify \/ m.clarify) \in BOOLEAN
  OBVIOUS
<1>2. DualWrite(r, m) \in RowType
  BY <1>1 DEF DualWrite, RowType
<1>3. UpdateStatus(r, s) \in RowType
  BY DEF UpdateStatus, RowType
<1>. QED
  BY <1>2, <1>3

LEMMA Written ==
  ASSUME Stores, NEW new \in RowType, Write(new)
  PROVE  row' \in RowType /\ faults' \in FaultsType /\ faults'.crash = faults.crash
<1>1. MaxFaults \in Nat
  BY BoundAssumption
<1>2. faults.pg \in 0 .. MaxFaults /\ faults.crash \in 0 .. MaxFaults
  BY DEF Stores, FaultsType
<1>3. faults.pg + faults.crash < MaxFaults => faults.pg + 1 \in 0 .. MaxFaults
  BY <1>1, <1>2
<1>. QED
  BY <1>3 DEF Write, Stores, FaultsType

(* _update_session_status writes the status to Redis, whatever happens to    *)
(* the row.                                                                  *)
LEMMA StatusUpdated ==
  ASSUME Stores, NEW s \in Statuses, UpdateSessionStatus(s)
  PROVE  Stores' /\ redis'.status = s /\ faults'.crash = faults.crash
<1>1. redis' \in Metadata /\ redis'.status = s
  BY StatusSet DEF UpdateSessionStatus, Stores
<1>2. UpdateStatus(DualWrite(row, redis), s) \in RowType
  <2>1. DualWrite(row, redis) \in RowType
    BY RowWritten DEF Stores
  <2>. QED
    BY <2>1, RowWritten DEF Stores
<1>3. row' \in RowType /\ faults' \in FaultsType /\ faults'.crash = faults.crash
  BY <1>2, Written DEF UpdateSessionStatus
<1>. QED
  BY <1>1, <1>3 DEF Stores

(* There is always a slot for another dictionary.                            *)
LEMMA FreeSlot ==
  ASSUME Memory
  PROVE  \E s \in Slots : ~ \E c \in Callers : Holds(c, s)
<1> SUFFICES ASSUME \A s \in Slots : \E c \in Callers : Holds(c, s)
             PROVE  FALSE
  OBVIOUS
<1>1. IsFiniteSet(Callers) /\ Cardinality(Callers) \in Nat
  BY CallersAssumption, FS_CardinalityType
<1> DEFINE Holders == {c \in Callers : request[c] # Idle /\ request[c].dict \in Slots}
           f == [c \in Holders |-> request[c].dict]
<1>2. IsFiniteSet(Holders) /\ Cardinality(Holders) <= Cardinality(Callers)
  BY <1>1, FS_Subset
<1>3. f \in Surjection(Holders, Slots)
  BY DEF Surjection, Holds
<1>4. Cardinality(Slots) <= Cardinality(Holders)
  BY <1>2, <1>3, FS_Surjection
<1>5. IsFiniteSet(Slots) /\ Cardinality(Slots) = Cardinality(Callers) + 1
  <2>1. 1 \in Int /\ Cardinality(Callers) + 1 \in Int
    BY <1>1
  <2>. QED
    BY <1>1, <2>1, FS_Interval DEF Slots
<1>6. Cardinality(Holders) \in Nat
  BY <1>2, FS_CardinalityType
<1>. QED
  BY <1>1, <1>2, <1>4, <1>5, <1>6

(* What is still referred to keeps its dictionary.                           *)
LEMMA HeapKept ==
  ASSUME Memory, NEW h \in HeapType, Heap(h), \A s \in Slots : heap[s] \in Metadata => h[s] \in Metadata,
         cached' \in {0, cached},
         request' = request \/ \E c \in Callers : request' = [request EXCEPT ![c] = Idle]
  PROVE  Memory'
<1>1. request' \in RequestType /\ cached' \in Slots \cup {0}
  BY DEF Memory, RequestType
<1>2. \A s \in Slots : heap'[s] = IF s = cached' \/ \E c \in Callers : Holds(c, s)'
                                   THEN h[s] ELSE NoDict
  BY DEF Heap
<1>3. heap' \in HeapType
  BY DEF Heap, HeapType
<1>4. \A c \in Callers : request'[c] = request[c] \/ request'[c] = Idle
  BY DEF Memory, RequestType
<1>5. Idle.op \notin Ops
  BY DEF Idle, Ops, Waiting
<1>6. ASSUME NEW c \in Callers, request'[c].op \in Lookers
      PROVE  request'[c].dict \in Slots /\ heap'[request'[c].dict] \in Metadata
  <2>1. request'[c] = request[c] /\ request'[c] # Idle
    BY <1>4, <1>5, <1>6 DEF Lookers
  <2>2. request[c].dict \in Slots /\ heap[request[c].dict] \in Metadata
    BY <1>6, <2>1 DEF Memory, Dicts
  <2>3. Holds(c, request[c].dict)'
    BY <2>1 DEF Holds
  <2>. QED
    BY <1>2, <2>1, <2>2, <2>3
<1>7. \A c \in Callers : request'[c].op \in Waiting => request'[c].task \in Tasks
  BY <1>4, <1>5 DEF Memory, Dicts, Ops
<1>8. cached' # 0 => heap'[cached'] \in Metadata
  BY <1>1, <1>2 DEF Memory, Dicts
<1>. QED
  BY <1>1, <1>3, <1>6, <1>7, <1>8 DEF Memory, Dicts

(* A request that suspends keeps the dictionary it was given.                *)
LEMMA Suspended ==
  ASSUME Memory, NEW c \in Callers, Reads(c), NEW op \in Lookers, NEW t \in Tasks \cup {NoTask},
         op \in Waiting => t \in Tasks, Suspend(c, op, t), UNCHANGED <<cached, heap>>
  PROVE  Memory'
<1>1. cached \in Slots /\ heap[cached] \in Metadata
  BY DEF Reads, Memory, Dicts
<1>2. [op |-> op, dict |-> cached, task |-> t] \in
        [op : Ops, dict : Slots \cup {0}, task : Tasks \cup {NoTask}]
  BY <1>1 DEF Lookers
<1>3. request' \in RequestType
  BY <1>2 DEF Suspend, Memory, RequestType
<1>4. /\ request'[c] = [op |-> op, dict |-> cached, task |-> t]
      /\ \A d \in Callers : d # c => request'[d] = request[d]
  BY DEF Suspend, Memory, RequestType
<1>. QED
  BY <1>1, <1>3, <1>4 DEF Memory, Dicts

LEMMA LoadKeeps ==
  ASSUME Memory, Stores, Load
  PROVE  Memory'
<1>1. cached' \in Slots /\ ~ \E c \in Callers : Holds(c, cached')
  BY FreeSlot DEF Load
<1>2. heap' = [heap EXCEPT ![cached'] = redis] /\ request' = request
  BY DEF Load
<1>3. heap' \in HeapType /\ heap'[cached'] \in Metadata
  BY <1>1, <1>2 DEF Memory, Stores, HeapType
<1>4. \A c \in Callers : request[c].op \in Lookers => request[c].dict # cached'
  <2>1. Idle.op \notin Lookers
    BY DEF Idle, Lookers, Ops, Waiting
  <2>. QED
    BY <1>1, <2>1 DEF Holds
<1>5. \A c \in Callers : request[c].op \in Lookers => heap'[request[c].dict] = heap[request[c].dict]
  BY <1>1, <1>2, <1>4 DEF Memory, Dicts, HeapType
<1>. QED
  BY <1>1, <1>2, <1>3, <1>5 DEF Memory, Dicts
----------------------------------------------------------------------------
(* The steps, as far as the properties tell them apart.                      *)

Answers(c) ==
  /\ request'[c].op \notin Waiting \cup {"resume"}
  /\ \A d \in Callers \ {c} : request'[d] = request[d]

(* No task and no status but "paused" is written, or stray is set.           *)
Quietly ==
  /\ UNCHANGED <<task, registry, overlapped>> /\ faults'.crash = faults.crash
  /\ stray => stray'
  /\ stray' \/ redis'.status \in {redis.status, "paused"}
  /\ \A c \in Callers : \/ request'[c] = request[c]
                        \/ /\ request[c].op \notin Waiting
                           /\ request'[c].op \notin Waiting \cup {"resume"}
                        \/ request'[c].op = "resume" /\ request[c] = Idle /\ registry = NoTask

Starts(c) ==
  /\ CreateTask(c)
  /\ \/ request[c] = Idle /\ registry = NoTask
     \/ request[c].op = "resume"
  /\ redis'.status = "running" /\ faults'.crash = faults.crash /\ stray' = stray
  /\ Answers(c)

Cancels(c) ==
  /\ request[c] = Idle /\ registry \in Tasks
  /\ task' = [task EXCEPT ![registry] = "cancelled"]
  /\ request'[c].op \in Waiting /\ request'[c].task = registry
  /\ \A d \in Callers \ {c} : request'[d] = request[d]
  /\ UNCHANGED <<redis, registry, history>>

Ends(c) ==
  /\ request[c].op \in Waiting /\ task[request[c].task] # "cancelled"
  /\ registry' = NoTask /\ redis'.status \in Terminal
  /\ Answers(c)
  /\ UNCHANGED <<task, overlapped, stray>> /\ faults'.crash = faults.crash

EndsIdle ==
  /\ registry = NoTask /\ registry' = NoTask
  /\ redis'.status \in Terminal \cup {redis.status}
  /\ UNCHANGED <<task, request, overlapped, stray>> /\ faults'.crash = faults.crash

Moves(t) ==
  /\ task[t] = "running"
  /\ \/ /\ task' = [task EXCEPT ![t] = "asking"]
        /\ redis'.status = "paused"
     \/ \E to \in {"complete", "unsettled"} : task' = [task EXCEPT ![t] = to]
        /\ redis'.status = redis.status
  /\ UNCHANGED <<registry, request, overlapped, stray>> /\ faults'.crash = faults.crash

Stops(t) ==
  /\ task[t] # "none" /\ End(t)
  /\ IF task[t] \in {"asking", "cancelled"} THEN redis'.status = redis.status
                                            ELSE redis'.status \in {"completed", "failed"}
  /\ UNCHANGED <<request, overlapped, stray>> /\ faults'.crash = faults.crash

Form ==
  \/ Quietly \/ EndsIdle
  \/ \E c \in Callers : Starts(c) \/ Cancels(c) \/ Ends(c)
  \/ \E t \in Tasks : Moves(t) \/ Stops(t)
  \/ Crash

(* Which steps those are, and that each keeps the types.                     *)
LEMMA Ops1 ==
  /\ Idle.op \notin Waiting \cup {"resume"}
  /\ Waiting \subseteq Lookers \cup {"kill"} /\ {"resume", "clarify", "constraints"} \subseteq Lookers
  /\ {"delete", "terminate"} \subseteq Lookers
  /\ {"running", "paused", "completed", "failed", "killed", "terminated", "deleted"} \subseteq Statuses
BY DEF Idle, Waiting, Lookers, Ops, Statuses, Terminal

LEMMA Created ==
  ASSUME Running, NEW c, CreateTask(c)
  PROVE  /\ task' \in TaskType /\ registry' \in Tasks /\ overlapped' \in BOOLEAN
<1>1. PICK t \in Tasks \ Live :
        task' = [task EXCEPT ![t] = "running"] /\ registry' = t
  BY DEF CreateTask
<1>2. overlapped' \in BOOLEAN
  BY DEF CreateTask, Running
<1>. QED
  BY <1>1, <1>2 DEF Running, TaskType

LEMMA AnswersOne ==
  ASSUME Memory, NEW c \in Callers, Answer(c)
  PROVE  /\ request' = [request EXCEPT ![c] = Idle] /\ request'[c] = Idle
         /\ \A d \in Callers : d # c => request'[d] = request[d]
BY DEF Memory, RequestType, Answer

(* Loading the dictionary and forgetting it.                                 *)
LEMMA PassesQuietly ==
  ASSUME Typed, Load \/ Expire
  PROVE  Typed' /\ Quietly
<1>1. Memory /\ Stores /\ Running
  BY DEF Typed
<1>2. UNCHANGED <<redis, row, task, registry, history, request>>
  BY DEF Load, Expire
<1>3. Stores' /\ Running'
  BY <1>1, <1>2 DEF Stores, Running, history
<1>4. CASE Load
  <2>1. Memory'
    BY <1>1, <1>4, LoadKeeps
  <2>. QED
    BY <1>2, <1>3, <2>1 DEF Typed, Quietly, history
<1>5. CASE Expire
  <2>1. cached' \in {0, cached} /\ Heap(heap) /\ heap \in HeapType
    BY <1>1, <1>5 DEF Expire, Memory
  <2>2. Memory'
    BY <1>1, <1>2, <2>1, HeapKept
  <2>. QED
    BY <1>2, <1>3, <2>2 DEF Typed, Quietly, history
<1>. QED
  BY <1>4, <1>5

LEMMA LooksQuietly ==
  ASSUME Typed, NEW c \in Callers,
         \/ resume_deliberation(c) \/ ResumeFails(c)
         \/ submit_clarification(c) \/ update_constraints(c)
  PROVE  Typed' /\ Quietly
<1>1. Memory /\ Stores /\ Running
  BY DEF Typed
<1>2. /\ UNCHANGED <<redis, row, task, registry, history>>
  BY DEF resume_deliberation, ResumeFails, submit_clarification, update_constraints
<1>3. Stores' /\ Running'
  BY <1>1, <1>2 DEF Stores, Running, history
<1>4. ASSUME ResumeFails(c)
      PROVE  Memory' /\ request[c].op \notin Waiting /\ Answers(c)
  <2>1. /\ cached' \in {0, cached} /\ request' = [request EXCEPT ![c] = Idle]
        /\ Heap(heap) /\ heap \in HeapType
    BY <1>1, <1>4 DEF ResumeFails, Memory, Answer
  <2>2. Memory'
    BY <1>1, <2>1, HeapKept
  <2>3. Answers(c)
    BY <1>1, <1>4, AnswersOne, Ops1 DEF Answers, ResumeFails
  <2>4. request[c].op \notin Waiting
    BY <1>4 DEF ResumeFails, Waiting
  <2>. QED
    BY <2>2, <2>3, <2>4
<1>5. ASSUME NEW op \in {"resume", "clarify", "constraints"}, Reads(c), Suspend(c, op, NoTask),
             UNCHANGED <<cached, heap>>
      PROVE  /\ Memory' /\ request[c] = Idle /\ request'[c].op = op
             /\ \A d \in Callers : d # c => request'[d] = request[d]
  <2>1. op \in Lookers /\ op \notin Waiting
    BY Ops1 DEF Waiting
  <2>2. Memory'
    BY <1>1, <1>5, <2>1, Suspended
  <2>. QED
    BY <1>1, <1>5, <2>2 DEF Suspend, Reads, Memory, RequestType
<1>6. ASSUME resume_deliberation(c)
      PROVE  /\ Memory' /\ request[c] = Idle /\ request'[c].op = "resume" /\ registry = NoTask
             /\ \A d \in Callers : d # c => request'[d] = request[d]
  BY <1>5, <1>6 DEF resume_deliberation, Startable
<1>7. ASSUME submit_clarification(c) \/ update_constraints(c)
      PROVE  /\ Memory' /\ request[c] = Idle /\ request'[c].op \in {"clarify", "constraints"}
             /\ \A d \in Callers : d # c => request'[d] = request[d]
  BY <1>5, <1>7 DEF submit_clarification, update_constraints
<1>8. Memory'
  BY <1>4, <1>6, <1>7
<1>9. \A d \in Callers : \/ request'[d] = request[d]
                         \/ /\ request[d].op \notin Waiting
                            /\ request'[d].op \notin Waiting \cup {"resume"}
                         \/ request'[d].op = "resume" /\ request[d] = Idle /\ registry = NoTask
  <2>1. {"clarify", "constraints"} \cap (Waiting \cup {"resume"}) = {}
    BY DEF Waiting
  <2>2. CASE ResumeFails(c)
    BY <1>4, <2>2 DEF Answers
  <2>3. CASE resume_deliberation(c)
    BY <1>6, <2>3
  <2>4. CASE submit_clarification(c) \/ update_constraints(c)
    BY <1>7, <2>1, <2>4, Ops1
  <2>. QED
    BY <2>2, <2>3, <2>4
<1>. QED
  BY <1>2, <1>3, <1>8, <1>9 DEF Typed, Quietly, history

LEMMA DictChanged ==
  ASSUME Memory, NEW d \in Slots, NEW m \in Metadata
  PROVE  /\ [heap EXCEPT ![d] = m] \in HeapType
         /\ \A s \in Slots : heap[s] \in Metadata => [heap EXCEPT ![d] = m][s] \in Metadata
BY DEF Memory, HeapType

(* What a request that looked at a dictionary knows of it.                   *)
LEMMA Looked ==
  ASSUME Memory, NEW c \in Callers
  PROVE  /\ Reads(c) => cached \in Slots /\ heap[cached] \in Metadata
         /\ request[c].op \in Lookers => request[c].dict \in Slots /\ Dict(c) \in Metadata
         /\ request[c].op \in Waiting => request[c].task \in Tasks
BY DEF Memory, Dicts, Reads, Dict

(* pause, submit_context_choice and the end of submit_clarification.         *)
LEMMA ParkKeeps ==
  ASSUME Typed, NEW d \in Slots, heap[d] \in Metadata, Park(d),
         request' = request \/ \E c \in Callers : request' = [request EXCEPT ![c] = Idle]
  PROVE  /\ Typed' /\ redis'.status = "paused"
         /\ UNCHANGED <<task, registry, overlapped, stray>> /\ faults'.crash = faults.crash
<1>1. Memory /\ Stores /\ Running
  BY DEF Typed
<1> DEFINE m == [heap[d] EXCEPT !.status = "paused"]
<1>2. m \in Metadata /\ m.status = "paused"
  BY StatusSet, Ops1
<1>3. redis' = m
  BY DEF Park, SaveDict
<1>4. row' \in RowType /\ faults' \in FaultsType /\ faults'.crash = faults.crash
  <2>1. DualWrite(row, m) \in RowType
    BY <1>1, <1>2, RowWritten, Ops1 DEF Stores
  <2>2. Write(DualWrite(row, m))
    BY DEF Park
  <2>. QED
    BY <1>1, <2>1, <2>2, Written
<1>5. UNCHANGED <<task, registry, overlapped, stray>>
  BY DEF Park
<1>6. Memory'
  <2>1. cached' \in {0, cached} /\ Heap([heap EXCEPT ![d] = m])
    BY DEF Park
  <2>2. /\ [heap EXCEPT ![d] = m] \in HeapType
        /\ \A s \in Slots : heap[s] \in Metadata => [heap EXCEPT ![d] = m][s] \in Metadata
    BY <1>1, <1>2, DictChanged
  <2>. HIDE DEF m
  <2>. QED
    BY <1>1, <2>1, <2>2, HeapKept
<1>7. Stores' /\ Running'
  BY <1>1, <1>2, <1>3, <1>4, <1>5 DEF Stores, Running
<1>. HIDE DEF m
<1>. QED
  BY <1>2, <1>3, <1>4, <1>5, <1>6, <1>7 DEF Typed

LEMMA ParksQuietly ==
  ASSUME Typed, NEW c \in Callers, pause_deliberation(c) \/ ClarificationSaved(c)
  PROVE  Typed' /\ Quietly
<1>1. Memory
  BY DEF Typed
<1>2. CASE pause_deliberation(c)
  <2>1. cached \in Slots /\ heap[cached] \in Metadata /\ Park(cached) /\ request' = request
    BY <1>1, <1>2, Looked DEF pause_deliberation
  <2>. QED
    BY <2>1, ParkKeeps DEF Quietly
<1>3. CASE ClarificationSaved(c)
  <2>1. request[c].op = "clarify" /\ Answer(c) /\ Park(request[c].dict)
    BY <1>3 DEF ClarificationSaved
  <2>2. request[c].dict \in Slots /\ heap[request[c].dict] \in Metadata
    BY <1>1, <2>1, Looked, Ops1 DEF Dict
  <2>3. /\ request' = [request EXCEPT ![c] = Idle] /\ request'[c] = Idle
        /\ \A e \in Callers : e # c => request'[e] = request[e]
    BY <1>1, <2>1, AnswersOne
  <2>4. /\ Typed' /\ redis'.status = "paused"
        /\ UNCHANGED <<task, registry, overlapped, stray>> /\ faults'.crash = faults.crash
    BY <2>1, <2>2, <2>3, ParkKeeps
  <2>5. "clarify" \notin Waiting
    BY DEF Waiting
  <2>. QED
    BY <2>1, <2>3, <2>4, <2>5, Ops1 DEF Quietly
<1>. QED
  BY <1>2, <1>3

LEMMA ConstraintsQuietly ==
  ASSUME Typed, NEW c \in Callers, ConstraintsSaved(c)
  PROVE  Typed' /\ Quietly
<1>1. Memory /\ Stores /\ Running
  BY DEF Typed
<1>2. /\ request[c].op = "constraints" /\ Answer(c)
      /\ redis' = Dict(c)
      /\ Write(DualWrite(row, Dict(c)))
      /\ stray' = (stray \/ Dict(c).status # redis.status)
      /\ cached' = cached /\ Heap(heap)
      /\ UNCHANGED <<task, registry, overlapped>>
  BY DEF ConstraintsSaved, SaveDict
<1>3. Dict(c) \in Metadata
  BY <1>1, <1>2, Looked, Ops1
<1>4. /\ request' = [request EXCEPT ![c] = Idle] /\ request'[c] = Idle
      /\ \A e \in Callers : e # c => request'[e] = request[e]
  BY <1>1, <1>2, AnswersOne
<1>5. Memory'
  <2>1. cached' \in {0, cached} /\ heap \in HeapType
    BY <1>1, <1>2 DEF Memory
  <2>. QED
    BY <1>1, <1>2, <1>4, <2>1, HeapKept
<1>6. row' \in RowType /\ faults' \in FaultsType /\ faults'.crash = faults.crash
  <2>1. DualWrite(row, Dict(c)) \in RowType
    BY <1>1, <1>3, RowWritten, Ops1 DEF Stores
  <2>. QED
    BY <1>1, <1>2, <2>1, Written
<1>7. stray' \in BOOLEAN /\ (stray => stray') /\ (stray' \/ redis'.status = redis.status)
  BY <1>1, <1>2 DEF Running
<1>8. Stores' /\ Running'
  BY <1>1, <1>2, <1>3, <1>6, <1>7 DEF Stores, Running
<1>9. "constraints" \notin Waiting
  BY DEF Waiting
<1>. QED
  BY <1>2, <1>4, <1>5, <1>6, <1>7, <1>8, <1>9, Ops1 DEF Typed, Quietly

LEMMA PhaseQuietly ==
  ASSUME Typed, NEW t \in Tasks, PhaseShown(t)
  PROVE  Typed' /\ Quietly
<1>1. Memory /\ Stores /\ Running
  BY DEF Typed
<1>2. UNCHANGED <<redis, cached, heap, task, registry, request, faults, overlapped, stray>>
  BY DEF PhaseShown, history
<1>3. row' \in RowType
  BY <1>1 DEF PhaseShown, Stores, RowType
<1>. QED
  BY <1>1, <1>2, <1>3 DEF Typed, Memory, Dicts, Stores, Running, Quietly

LEMMA StartsAre ==
  ASSUME Typed, NEW c \in Callers, start_deliberation(c) \/ ResumeStarts(c)
  PROVE  Typed' /\ Starts(c)
<1>1. Memory /\ Stores /\ Running
  BY DEF Typed
<1>2. CreateTask(c) /\ UNCHANGED stray
  BY DEF start_deliberation, ResumeStarts
<1>3. Running'
  BY <1>1, <1>2, Created DEF Running
<1>4. CASE start_deliberation(c)
  <2>1. /\ request[c] = Idle /\ registry = NoTask /\ UpdateSessionStatus("running")
        /\ cached' \in {0, cached} /\ request' = request /\ Heap(heap) /\ heap \in HeapType
    BY <1>1, <1>4 DEF start_deliberation, Reads, Startable, Memory
  <2>2. Stores' /\ redis'.status = "running" /\ faults'.crash = faults.crash
    BY <1>1, <2>1, StatusUpdated, Ops1
  <2>3. Memory'
    BY <1>1, <2>1, HeapKept
  <2>. QED
    BY <1>2, <1>3, <2>1, <2>2, <2>3, Ops1 DEF Typed, Starts, Answers
<1>5. CASE ResumeStarts(c)
  <2> DEFINE d == [Dict(c) EXCEPT !.status = "running"]
  <2>1. /\ request[c].op = "resume" /\ Answer(c) /\ redis' = d
        /\ Write(UpdateStatus(DualWrite(DualWrite(row, redis), d), "running"))
        /\ cached' \in {0, cached} /\ Heap([heap EXCEPT ![request[c].dict] = d])
    BY <1>5 DEF ResumeStarts, SaveDict
  <2>2. request[c].dict \in Slots /\ Dict(c) \in Metadata
    BY <1>1, <2>1, Looked, Ops1
  <2>3. d \in Metadata /\ d.status = "running"
    BY <2>2, StatusSet, Ops1
  <2>4. row' \in RowType /\ faults' \in FaultsType /\ faults'.crash = faults.crash
    <3>1. DualWrite(row, redis) \in RowType
      BY <1>1, RowWritten, Ops1 DEF Stores
    <3>2. DualWrite(DualWrite(row, redis), d) \in RowType
      BY <2>3, <3>1, RowWritten, Ops1
    <3>3. UpdateStatus(DualWrite(DualWrite(row, redis), d), "running") \in RowType
      BY <2>3, <3>2, RowWritten, Ops1
    <3>. HIDE DEF d
    <3>. QED
      BY <1>1, <2>1, <3>3, Written
  <2>5. /\ request' = [request EXCEPT ![c] = Idle] /\ request'[c] = Idle
        /\ \A e \in Callers : e # c => request'[e] = request[e]
    BY <1>1, <2>1, AnswersOne
  <2>6. Memory'
    <3>1. /\ [heap EXCEPT ![request[c].dict] = d] \in HeapType
          /\ \A s \in Slots : heap[s] \in Metadata
               => [heap EXCEPT ![request[c].dict] = d][s] \in Metadata
      BY <1>1, <2>2, <2>3, DictChanged
    <3>. HIDE DEF d
    <3>. QED
      BY <1>1, <2>1, <2>5, <3>1, HeapKept
  <2>7. Stores'
    BY <2>1, <2>3, <2>4 DEF Stores
  <2>. HIDE DEF d
  <2>. QED
    BY <1>2, <1>3, <2>1, <2>3, <2>4, <2>5, <2>6, <2>7, Ops1 DEF Typed, Starts, Answers
<1>. QED
  BY <1>4, <1>5

LEMMA CancelsAre ==
  ASSUME Typed, NEW c \in Callers,
         kill_deliberation(c) \/ DeleteActive(c) \/ TerminateActive(c)
  PROVE  Typed' /\ Cancels(c)
<1>1. Memory /\ Stores /\ Running
  BY DEF Typed
<1>2. /\ request[c] = Idle /\ registry \in Tasks
      /\ task' = [task EXCEPT ![registry] = "cancelled"]
      /\ UNCHANGED <<redis, row, cached, heap, registry, faults, overlapped, stray>>
  BY <1>1 DEF kill_deliberation, DeleteActive, TerminateActive, Cancel, Reads, Running, history
<1>3. task' \in TaskType
  BY <1>1, <1>2 DEF Running, TaskType
<1>4. Stores' /\ Running'
  BY <1>1, <1>2, <1>3 DEF Stores, Running
<1>5. CASE kill_deliberation(c)
  <2> DEFINE r == [op |-> "kill", dict |-> 0, task |-> registry]
  <2>1. request' = [request EXCEPT ![c] = r]
    BY <1>5 DEF kill_deliberation
  <2>2. r \in [op : Ops, dict : Slots \cup {0}, task : Tasks \cup {NoTask}]
    BY <1>2 DEF Ops, Waiting
  <2>3. /\ request' \in RequestType /\ request'[c] = r
        /\ \A d \in Callers : d # c => request'[d] = request[d]
    BY <1>1, <2>1, <2>2 DEF Memory, RequestType
  <2>4. r.op \in Waiting /\ r.op \notin Lookers /\ r.task = registry
    BY DEF Waiting, Lookers
  <2>. HIDE DEF r
  <2>5. Memory'
    BY <1>1, <1>2, <2>3, <2>4 DEF Memory, Dicts
  <2>. QED
    BY <1>2, <1>4, <2>3, <2>4, <2>5 DEF Typed, Cancels, history
<1>6. CASE DeleteActive(c) \/ TerminateActive(c)
  <2>1. PICK op \in {"delete", "terminate"} : Suspend(c, op, registry)
    BY <1>6 DEF DeleteActive, TerminateActive, Cancel
  <2>2. Reads(c)
    BY <1>6 DEF DeleteActive, TerminateActive
  <2>3. op \in Lookers /\ op \in Waiting
    BY DEF Waiting, Lookers, Ops
  <2>4. Memory'
    BY <1>1, <1>2, <2>1, <2>2, <2>3, Suspended
  <2>5. /\ request'[c] = [op |-> op, dict |-> cached, task |-> registry]
        /\ \A d \in Callers : d # c => request'[d] = request[d]
    BY <1>1, <2>1 DEF Suspend, Memory, RequestType
  <2>. QED
    BY <1>2, <1>4, <2>3, <2>4, <2>5 DEF Typed, Cancels, history
<1>. QED
  BY <1>5, <1>6

(* delete_session and terminate_session, once nothing runs any longer.       *)
LEMMA DeleteKeeps ==
  ASSUME Typed, NEW c \in Callers, NEW d \in Slots, heap[d] \in Metadata, Delete(c, d),
         request' = request \/ \E e \in Callers : request' = [request EXCEPT ![e] = Idle]
  PROVE  /\ Memory' /\ Stores' /\ redis'.status = "deleted"
         /\ UNCHANGED <<task, overlapped, stray>> /\ faults'.crash = faults.crash
<1>1. Memory /\ Stores
  BY DEF Typed
<1> DEFINE m == [heap[d] EXCEPT !.status = "deleted", !.gone = TRUE]
<1>2. m \in Metadata /\ m.status = "deleted"
  BY Ops1 DEF Metadata
<1>3. /\ redis' = m
      /\ Write(UpdateStatus(DualWrite(row, m), "deleted"))
      /\ cached' \in {0, cached} /\ Heap([heap EXCEPT ![d] = m])
      /\ UNCHANGED <<task, overlapped, stray>>
  BY DEF Delete, SaveDict
<1>4. row' \in RowType /\ faults' \in FaultsType /\ faults'.crash = faults.crash
  <2>1. DualWrite(row, m) \in RowType
    BY <1>1, <1>2, RowWritten, Ops1 DEF Stores
  <2>2. UpdateStatus(DualWrite(row, m), "deleted") \in RowType
    BY <1>2, <2>1, RowWritten, Ops1
  <2>. HIDE DEF m
  <2>. QED
    BY <1>1, <1>3, <2>2, Written
<1>5. Memory'
  <2>1. /\ [heap EXCEPT ![d] = m] \in HeapType
        /\ \A s \in Slots : heap[s] \in Metadata => [heap EXCEPT ![d] = m][s] \in Metadata
    BY <1>1, <1>2, DictChanged
  <2>. HIDE DEF m
  <2>. QED
    BY <1>1, <1>3, <2>1, HeapKept
<1>. HIDE DEF m
<1>. QED
  BY <1>2, <1>3, <1>4, <1>5 DEF Stores

LEMMA TerminateKeeps ==
  ASSUME Typed, NEW d \in Slots, heap[d] \in Metadata, NEW killed \in BOOLEAN, Terminate(d, killed),
         request' = request \/ \E e \in Callers : request' = [request EXCEPT ![e] = Idle]
  PROVE  /\ Memory' /\ Stores'
         /\ redis'.status \in Terminal \/ (~killed /\ redis' = redis)
         /\ UNCHANGED <<task, overlapped, stray>> /\ faults'.crash = faults.crash
<1>1. Memory /\ Stores
  BY DEF Typed
<1> DEFINE m == [heap[d] EXCEPT !.status = "terminated"]
           k == [redis EXCEPT !.status = "killed"]
<1>2. m \in Metadata /\ m.status = "terminated" /\ k \in Metadata /\ k.status = "killed"
  BY <1>1, StatusSet, Ops1 DEF Stores
<1>3. /\ Write(UpdateStatus(DualWrite(row, m), "terminated"))
      /\ UNCHANGED <<task, overlapped, stray>>
      /\ \/ redis' = m /\ cached' = 0 /\ Heap([heap EXCEPT ![d] = m])
         \/ redis' = (IF killed THEN k ELSE redis) /\ cached' = cached /\ Heap(heap)
  BY DEF Terminate, SaveDict
<1>4. row' \in RowType /\ faults' \in FaultsType /\ faults'.crash = faults.crash
  <2>1. DualWrite(row, m) \in RowType
    BY <1>1, <1>2, RowWritten, Ops1 DEF Stores
  <2>2. UpdateStatus(DualWrite(row, m), "terminated") \in RowType
    BY <1>2, <2>1, RowWritten, Ops1
  <2>. HIDE DEF m
  <2>. QED
    BY <1>1, <1>3, <2>2, Written
<1>5. Memory'
  <2>1. /\ [heap EXCEPT ![d] = m] \in HeapType
        /\ \A s \in Slots : heap[s] \in Metadata => [heap EXCEPT ![d] = m][s] \in Metadata
    BY <1>1, <1>2, DictChanged
  <2>. HIDE DEF m, k
  <2>2. CASE redis' = m /\ cached' = 0 /\ Heap([heap EXCEPT ![d] = m])
    BY <1>1, <2>1, <2>2, HeapKept
  <2>3. CASE cached' = cached /\ Heap(heap)
    <3>1. heap \in HeapType
      BY <1>1 DEF Memory
    <3>. QED
      BY <1>1, <2>3, <3>1, HeapKept
  <2>. QED
    BY <1>3, <2>2, <2>3
<1>6. "terminated" \in Terminal /\ "killed" \in Terminal
  BY DEF Terminal
<1>7. redis' \in Metadata /\ (redis'.status \in Terminal \/ (~killed /\ redis' = redis))
  <2>. HIDE DEF m, k
  <2>1. redis \in Metadata
    BY <1>1 DEF Stores
  <2>2. redis' = m \/ (killed /\ redis' = k) \/ (~killed /\ redis' = redis)
    BY <1>3
  <2>3. CASE redis' = m
    BY <1>2, <1>6, <2>3
  <2>4. CASE redis' = k
    BY <1>2, <1>6, <2>4
  <2>5. CASE ~killed /\ redis' = redis
    BY <2>1, <2>5
  <2>. QED
    BY <2>2, <2>3, <2>4, <2>5
<1>. HIDE DEF m, k
<1>. QED
  BY <1>3, <1>4, <1>5, <1>7 DEF Stores

LEMMA EndsAre ==
  ASSUME Typed, NEW c \in Callers, KillEnds(c)
  PROVE  Typed' /\ Ends(c)
<1>1. Memory /\ Stores /\ Running
  BY DEF Typed
<1>2. /\ request[c].op \in Waiting /\ Ended(c) /\ registry' = NoTask /\ Answer(c)
      /\ Killed(c) \/ Delete(c, request[c].dict) \/ Terminate(request[c].dict, TRUE)
  BY DEF KillEnds, Killed, Deleted, Terminated, Waiting
<1>3. /\ request' = [request EXCEPT ![c] = Idle] /\ request'[c] = Idle
      /\ \A e \in Callers : e # c => request'[e] = request[e]
  BY <1>1, <1>2, AnswersOne
<1>4. CASE Killed(c)
  <2>1. /\ UpdateSessionStatus("killed") /\ cached' \in {0, cached} /\ Heap(heap)
        /\ heap \in HeapType /\ UNCHANGED <<task, overlapped, stray>>
    BY <1>1, <1>4 DEF Killed, Memory
  <2>2. Stores' /\ redis'.status = "killed" /\ faults'.crash = faults.crash
    BY <1>1, <2>1, StatusUpdated, Ops1
  <2>3. Memory'
    BY <1>1, <1>3, <2>1, HeapKept
  <2>. QED
    BY <1>1, <1>2, <1>3, <2>1, <2>2, <2>3, Ops1
    DEF Typed, Running, Ends, Ended, Answers, Terminal
<1>5. CASE Deleted(c)
  <2>1. request[c].op = "delete" /\ Delete(c, request[c].dict)
    BY <1>5 DEF Deleted
  <2>2. request[c].dict \in Slots /\ heap[request[c].dict] \in Metadata
    BY <1>1, <2>1, Looked, Ops1 DEF Dict
  <2>3. /\ Memory' /\ Stores' /\ redis'.status = "deleted"
        /\ UNCHANGED <<task, overlapped, stray>> /\ faults'.crash = faults.crash
    BY <1>3, <2>1, <2>2, DeleteKeeps
  <2>. QED
    BY <1>1, <1>2, <1>3, <2>3, Ops1 DEF Typed, Running, Ends, Ended, Answers, Terminal
<1>6. CASE Terminated(c)
  <2>1. request[c].op = "terminate" /\ Terminate(request[c].dict, TRUE)
    BY <1>6 DEF Terminated
  <2>2. request[c].dict \in Slots /\ heap[request[c].dict] \in Metadata
    BY <1>1, <2>1, Looked, Ops1 DEF Dict
  <2>3. /\ Memory' /\ Stores' /\ redis'.status \in Terminal
        /\ UNCHANGED <<task, overlapped, stray>> /\ faults'.crash = faults.crash
    BY <1>3, <2>1, <2>2, TerminateKeeps
  <2>. QED
    BY <1>1, <1>2, <1>3, <2>3, Ops1 DEF Typed, Running, Ends, Ended, Answers
<1>. QED
  BY <1>4, <1>5, <1>6 DEF KillEnds

LEMMA EndsIdleAre ==
  ASSUME Typed, NEW c \in Callers, DeleteIdle(c) \/ TerminateIdle(c)
  PROVE  Typed' /\ EndsIdle
<1>1. Memory /\ Running
  BY DEF Typed
<1>2. /\ Reads(c) /\ registry = NoTask /\ registry' = NoTask /\ request' = request
      /\ Delete(c, cached) \/ Terminate(cached, FALSE)
  BY DEF DeleteIdle, TerminateIdle
<1>3. cached \in Slots /\ heap[cached] \in Metadata
  BY <1>1, <1>2, Looked
<1>4. /\ Memory' /\ Stores' /\ redis'.status \in Terminal \cup {redis.status}
      /\ UNCHANGED <<task, overlapped, stray>> /\ faults'.crash = faults.crash
  <2>1. CASE Delete(c, cached)
    <3>1. /\ Memory' /\ Stores' /\ redis'.status = "deleted"
          /\ UNCHANGED <<task, overlapped, stray>> /\ faults'.crash = faults.crash
      BY <1>2, <1>3, <2>1, DeleteKeeps
    <3>. QED
      BY <3>1 DEF Terminal
  <2>2. CASE Terminate(cached, FALSE)
    BY <1>2, <1>3, <2>2, TerminateKeeps
  <2>. QED
    BY <1>2, <2>1, <2>2
<1>. QED
  BY <1>1, <1>2, <1>4 DEF Typed, Running, EndsIdle

LEMMA MovesAre ==
  ASSUME Typed, NEW t \in Tasks,
         _handle_identify_gaps(t) \/ MeetingCompletes(t) \/ ContextInsufficient(t) \/ PanelFails(t)
  PROVE  Typed' /\ Moves(t)
<1>1. Memory /\ Stores /\ Running
  BY DEF Typed
<1>2. /\ task[t] = "running" /\ UNCHANGED <<registry, request, overlapped, stray>>
      /\ \E to \in {"asking", "complete", "unsettled"} : task' = [task EXCEPT ![t] = to]
  BY DEF _handle_identify_gaps, MeetingCompletes, ContextInsufficient, PanelFails, history
<1>3. Running'
  BY <1>1, <1>2 DEF Running, TaskType
<1>4. ASSUME cached' \in {0, cached}, Heap(heap)
      PROVE  Memory'
  <2>1. heap \in HeapType
    BY <1>1 DEF Memory
  <2>. QED
    BY <1>1, <1>2, <1>4, <2>1, HeapKept
<1>5. CASE _handle_identify_gaps(t)
  <2>1. /\ task' = [task EXCEPT ![t] = "asking"]
        /\ row' = [row EXCEPT !.status = "paused", !.clarify = TRUE]
        /\ redis' = [redis EXCEPT !.status = "paused", !.clarify = TRUE]
        /\ cached' \in {0, cached} /\ Heap(heap) /\ faults' = faults
    BY <1>5 DEF _handle_identify_gaps, history
  <2>2. row' \in RowType /\ redis' \in Metadata /\ redis'.status = "paused"
    BY <1>1, <2>1, Ops1 DEF Stores, RowType, Metadata
  <2>. QED
    BY <1>1, <1>2, <1>3, <1>4, <2>1, <2>2 DEF Typed, Stores, Moves
<1>6. CASE MeetingCompletes(t) \/ PanelFails(t)
  <2>1. /\ \E to \in {"complete", "unsettled"} : task' = [task EXCEPT ![t] = to]
        /\ redis' = redis /\ cached' \in {0, cached} /\ Heap(heap)
        /\ \/ Write(UpdateStatus(row, "completed"))
           \/ Write([row EXCEPT !.status = "failed"])
           \/ Write([status |-> "paused", clarify |-> FALSE])
    BY <1>6 DEF MeetingCompletes, PanelFails
  <2>2. /\ UpdateStatus(row, "completed") \in RowType
        /\ [row EXCEPT !.status = "failed"] \in RowType
        /\ [status |-> "paused", clarify |-> FALSE] \in RowType
    BY <1>1, Ops1 DEF UpdateStatus, Stores, RowType
  <2>3. row' \in RowType /\ faults' \in FaultsType /\ faults'.crash = faults.crash
    BY <1>1, <2>1, <2>2, Written
  <2>. QED
    BY <1>1, <1>2, <1>3, <1>4, <2>1, <2>3 DEF Typed, Stores, Moves
<1>7. CASE ContextInsufficient(t)
  <2>1. /\ task' = [task EXCEPT ![t] = "unsettled"]
        /\ UNCHANGED <<redis, row, cached, heap, request, faults>>
    BY <1>7 DEF ContextInsufficient, history
  <2>. QED
    BY <1>1, <1>2, <1>3, <2>1 DEF Typed, Memory, Dicts, Stores, Moves
<1>. QED
  BY <1>5, <1>6, <1>7

LEMMA StopsAre ==
  ASSUME Typed, NEW t \in Tasks,
         StopsToAsk(t) \/ Settle(t) \/ GraphFails(t) \/ CancelledEnds(t)
  PROVE  Typed' /\ Stops(t)
<1>1. Memory /\ Stores /\ Running
  BY DEF Typed
<1>2. task[t] # "none" /\ End(t) /\ UNCHANGED <<request, overlapped, stray>>
  BY DEF StopsToAsk, Settle, GraphFails, CancelledEnds, history
<1>3. Running'
  BY <1>1, <1>2 DEF Running, TaskType, End
<1>4. CASE StopsToAsk(t)
  <2>1. /\ task[t] = "asking" /\ UNCHANGED <<redis, cached, heap>>
        /\ \/ Write([row EXCEPT !.status = "paused", !.clarify = FALSE])
           \/ row' = row /\ faults' = faults
    BY <1>4 DEF StopsToAsk
  <2>2. [row EXCEPT !.status = "paused", !.clarify = FALSE] \in RowType
    BY <1>1, Ops1 DEF Stores, RowType
  <2>3. row' \in RowType /\ faults' \in FaultsType /\ faults'.crash = faults.crash
    BY <1>1, <2>1, <2>2, Written DEF Stores
  <2>. QED
    BY <1>1, <1>2, <1>3, <2>1, <2>3 DEF Typed, Memory, Dicts, Stores, Stops
<1>5. CASE Settle(t)
  <2>1. /\ task[t] \in {"complete", "unsettled"} /\ UNCHANGED <<cached, heap>>
        /\ \E s \in {"completed", "failed"} : UpdateSessionStatus(s)
    BY <1>5 DEF Settle
  <2>2. /\ Stores' /\ redis'.status \in {"completed", "failed"} /\ faults'.crash = faults.crash
    BY <1>1, <2>1, StatusUpdated, Ops1
  <2>3. Memory'
    BY <1>1, <1>2, <2>1 DEF Memory, Dicts
  <2>. QED
    BY <1>2, <1>3, <2>1, <2>2, <2>3 DEF Typed, Stops
<1>6. CASE GraphFails(t)
  <2>1. /\ task[t] = "running" /\ UpdateSessionStatus("failed")
        /\ cached' \in {0, cached} /\ Heap(heap) /\ heap \in HeapType
    BY <1>1, <1>6 DEF GraphFails, Memory
  <2>2. Stores' /\ redis'.status = "failed" /\ faults'.crash = faults.crash
    BY <1>1, <2>1, StatusUpdated, Ops1
  <2>3. Memory'
    BY <1>1, <1>2, <2>1, HeapKept
  <2>. QED
    BY <1>2, <1>3, <2>1, <2>2, <2>3 DEF Typed, Stops
<1>7. CASE CancelledEnds(t)
  <2>1. task[t] = "cancelled" /\ UNCHANGED <<redis, row, cached, heap, faults>>
    BY <1>7 DEF CancelledEnds, history
  <2>. QED
    BY <1>1, <1>2, <1>3, <2>1 DEF Typed, Memory, Dicts, Stores, Stops
<1>. QED
  BY <1>4, <1>5, <1>6, <1>7

LEMMA CrashKeeps ==
  ASSUME Typed, Crash
  PROVE  Typed'
<1>1. Memory /\ Stores /\ Running
  BY DEF Typed
<1>2. /\ faults' = [faults EXCEPT !.crash = @ + 1] /\ faults.pg + faults.crash < MaxFaults
      /\ cached' = 0 /\ registry' = NoTask
      /\ task' = [t \in Tasks |-> "none"] /\ request' = [c \in Callers |-> Idle]
      /\ UNCHANGED <<redis, row, overlapped, stray>> /\ Heap(heap)
  BY DEF Crash
<1>3. faults' \in FaultsType
  <2>1. MaxFaults \in Nat /\ faults.pg \in 0 .. MaxFaults /\ faults.crash \in 0 .. MaxFaults
    BY <1>1, BoundAssumption DEF Stores, FaultsType
  <2>2. faults.crash + 1 \in 0 .. MaxFaults
    BY <1>2, <2>1
  <2>. QED
    BY <1>1, <1>2, <2>2 DEF Stores, FaultsType
<1>4. heap' \in HeapType
  BY <1>1, <1>2 DEF Heap, Memory, HeapType
<1>5. Idle.op \notin Ops
  BY DEF Idle, Ops, Waiting
<1>6. Memory'
  BY <1>2, <1>4, <1>5 DEF Memory, Dicts, RequestType, Ops, Lookers
<1>7. Stores' /\ Running'
  BY <1>1, <1>2, <1>3 DEF Stores, Running, TaskType
<1>. QED
  BY <1>6, <1>7 DEF Typed

----------------------------------------------------------------------------
(* Every step has one of the forms.                                          *)
LEMMA StepForm ==
  ASSUME Typed, Next
  PROVE  Typed' /\ Form
<1>1. ASSUME NEW c \in Callers, Request(c) \/ KillEnds(c)
      PROVE  Typed' /\ Form
  <2>1. CASE resume_deliberation(c) \/ ResumeFails(c) \/ submit_clarification(c) \/ update_constraints(c)
    BY <2>1, LooksQuietly DEF Form
  <2>2. CASE pause_deliberation(c) \/ ClarificationSaved(c)
    BY <2>2, ParksQuietly DEF Form
  <2>3. CASE ConstraintsSaved(c)
    BY <2>3, ConstraintsQuietly DEF Form
  <2>4. CASE start_deliberation(c) \/ ResumeStarts(c)
    BY <2>4, StartsAre DEF Form
  <2>5. CASE kill_deliberation(c) \/ DeleteActive(c) \/ TerminateActive(c)
    BY <2>5, CancelsAre DEF Form
  <2>6. CASE DeleteIdle(c) \/ TerminateIdle(c)
    BY <2>6, EndsIdleAre DEF Form
  <2>7. CASE KillEnds(c)
    BY <2>7, EndsAre DEF Form
  <2>. QED
    BY <1>1, <2>1, <2>2, <2>3, <2>4, <2>5, <2>6, <2>7 DEF Request
<1>2. ASSUME NEW t \in Tasks, PhaseShown(t) \/ TaskEnds(t)
      PROVE  Typed' /\ Form
  <2>1. CASE PhaseShown(t)
    BY <2>1, PhaseQuietly DEF Form
  <2>2. CASE StopsToAsk(t) \/ Settle(t) \/ GraphFails(t) \/ CancelledEnds(t)
    BY <2>2, StopsAre DEF Form
  <2>3. CASE \/ _handle_identify_gaps(t) \/ MeetingCompletes(t)
             \/ ContextInsufficient(t) \/ PanelFails(t)
    BY <2>3, MovesAre DEF Form
  <2>. QED
    BY <1>2, <2>1, <2>2, <2>3 DEF TaskEnds
<1>3. CASE Load \/ Expire
  <2>1. CASE Load
    BY <2>1, PassesQuietly DEF Form
  <2>2. CASE Expire
    BY <2>2, PassesQuietly DEF Form
  <2>. QED
    BY <1>3, <2>1, <2>2
<1>4. CASE Crash
  BY <1>4, CrashKeeps DEF Form
<1>. QED
  BY <1>1, <1>2, <1>3, <1>4 DEF Next

LEMMA Typing ==
  /\ Init => Typed
  /\ Typed /\ [Next]_vars => Typed'
<1>1. ASSUME Init
      PROVE  Typed
  <2>1. MaxFaults \in Nat /\ Idle.op \notin Ops
    BY BoundAssumption DEF Idle, Ops, Waiting
  <2>2. Stores
    BY <1>1, <2>1 DEF Init, Stores, Metadata, RowType, FaultsType, Statuses
  <2>3. Memory
    BY <1>1, <2>1 DEF Init, Memory, Dicts, HeapType, RequestType, Lookers, Ops
  <2>4. Running
    BY <1>1 DEF Init, Running, TaskType
  <2>. QED
    BY <2>2, <2>3, <2>4 DEF Typed
<1>2. ASSUME Typed, [Next]_vars
      PROVE  Typed'
  <2>1. CASE UNCHANGED vars
    BY <1>2, <2>1 DEF vars, Typed, Memory, Dicts, Stores, Running
  <2>2. CASE Next
    BY <1>2, <2>2, StepForm DEF Typed
  <2>. QED
    BY <1>2, <2>1, <2>2
<1>. QED
  BY <1>1, <1>2

----------------------------------------------------------------------------
(* The inductive invariant.                                                  *)
Busy == {t \in Tasks : task[t] \in {"running", "complete", "unsettled"}}
Active == Live \ {t \in Tasks : task[t] = "cancelled"}

Working ==
  redis.status = "running" => Busy # {} \/ Waits \/ stray \/ faults.crash > 0

(* Without an overlap the registry names whatever is alive; a request that   *)
(* waits for a task waits for the only one; and while a resume is suspended  *)
(* nothing is alive.                                                         *)
Alone ==
  ~overlapped =>
    /\ registry = NoTask => Live = {}
    /\ registry # NoTask => Live = {registry}
    /\ \A c \in Callers : request[c].op \in Waiting =>
         Live \subseteq {request[c].task} /\ task[request[c].task] \in {"none", "cancelled"}
    /\ \A c \in Callers : request[c].op = "resume" => Live = {}

Stopped == redis.status \in Terminal /\ ~overlapped /\ ~stray => Active = {}

IInv == Working /\ Alone /\ Stopped

LEMMA CrashCounted ==
  ASSUME Stores, Crash
  PROVE  faults'.crash > 0
<1>1. faults.crash \in Nat /\ faults'.crash = faults.crash + 1
  BY BoundAssumption DEF Crash, Stores, FaultsType
<1>. QED
  BY <1>1

(* The task that a start creates.                                            *)
LEMMA StartedTask ==
  ASSUME Running, NEW c, CreateTask(c)
  PROVE  \E t \in Tasks : /\ task[t] = "none" /\ registry' = t
                          /\ task' = [task EXCEPT ![t] = "running"]
BY DEF CreateTask, Live

LEMMA WorkingKept ==
  ASSUME Typed, Form, Working
  PROVE  Working'
<1>1. Memory /\ Stores /\ Running
  BY DEF Typed
<1>2. CASE Quietly
  <2>1. Busy' = Busy /\ (Waits => Waits')
    BY <1>2, Ops1 DEF Quietly, Busy, Waits
  <2>2. redis'.status = "running" => stray' \/ redis.status = "running"
    BY <1>2 DEF Quietly
  <2>3. (stray => stray') /\ faults'.crash = faults.crash
    BY <1>2 DEF Quietly
  <2>. QED
    BY <2>1, <2>2, <2>3 DEF Working
<1>3. CASE EndsIdle
  <2>1. Busy' = Busy /\ Waits' = Waits
    BY <1>3 DEF EndsIdle, Busy, Waits
  <2>2. redis'.status = "running" => redis.status = "running"
    BY <1>3 DEF EndsIdle, Terminal
  <2>3. stray' = stray /\ faults'.crash = faults.crash
    BY <1>3 DEF EndsIdle
  <2>. QED
    BY <2>1, <2>2, <2>3 DEF Working
<1>4. ASSUME NEW c \in Callers, Starts(c)
      PROVE  Working'
  <2>1. PICK t \in Tasks : task' = [task EXCEPT ![t] = "running"]
    BY <1>1, <1>4, StartedTask DEF Starts
  <2>2. t \in Busy'
    BY <1>1, <2>1 DEF Busy, Running, TaskType
  <2>. QED
    BY <2>2 DEF Working
<1>5. ASSUME NEW c \in Callers, Cancels(c)
      PROVE  Working'
  <2>1. Waits'
    BY <1>5 DEF Cancels, Waits
  <2>. QED
    BY <2>1 DEF Working
<1>6. ASSUME NEW c \in Callers, Ends(c)
      PROVE  Working'
  BY <1>6 DEF Ends, Terminal, Working
<1>7. ASSUME NEW t \in Tasks, Moves(t)
      PROVE  Working'
  <2>1. CASE redis'.status = "paused"
    BY <2>1 DEF Working
  <2>2. CASE \E to \in {"complete", "unsettled"} : task' = [task EXCEPT ![t] = to]
    <3>1. t \in Busy'
      BY <1>1, <2>2 DEF Busy, Running, TaskType
    <3>. QED
      BY <3>1 DEF Working
  <2>. QED
    BY <1>7, <2>1, <2>2 DEF Moves
<1>8. ASSUME NEW t \in Tasks, Stops(t)
      PROVE  Working'
  <2>1. CASE task[t] \in {"asking", "cancelled"}
    <3>1. Busy' = Busy
      BY <1>1, <1>8, <2>1 DEF Stops, End, Busy, Running, TaskType
    <3>2. /\ Waits' = Waits /\ redis'.status = redis.status
          /\ stray' = stray /\ faults'.crash = faults.crash
      BY <1>8, <2>1 DEF Stops, Waits
    <3>. QED
      BY <3>1, <3>2 DEF Working
  <2>2. CASE task[t] \notin {"asking", "cancelled"}
    BY <1>8, <2>2 DEF Stops, Working
  <2>. QED
    BY <2>1, <2>2
<1>9. CASE Crash
  <2>1. faults'.crash > 0
    BY <1>1, <1>9, CrashCounted
  <2>. QED
    BY <2>1 DEF Working
<1>. QED
  BY <1>2, <1>3, <1>4, <1>5, <1>6, <1>7, <1>8, <1>9 DEF Form

LEMMA AloneKept ==
  ASSUME Typed, Typed', Form, Alone
  PROVE  Alone'
<1>1. Memory /\ Stores /\ Running
  BY DEF Typed
<1>2. NoTask \notin Tasks
  BY CallersAssumption
<1>3. CASE Quietly
  <2>1. Live' = Live /\ UNCHANGED <<task, registry, overlapped>>
    BY <1>3 DEF Quietly, Live
  <2>2. ASSUME NEW c \in Callers
        PROVE  \/ request'[c] = request[c]
               \/ request'[c].op \notin Waiting \cup {"resume"}
               \/ request'[c].op = "resume" /\ registry = NoTask
    BY <1>3 DEF Quietly
  <2>3. "resume" \notin Waiting
    BY DEF Waiting
  <2>. QED
    BY <2>1, <2>2, <2>3 DEF Alone
<1>4. CASE EndsIdle
  <2>1. Live' = Live /\ UNCHANGED <<task, request, overlapped>> /\ registry' = registry
    BY <1>4 DEF EndsIdle, Live
  <2>. QED
    BY <2>1 DEF Alone
<1>5. ASSUME NEW c \in Callers, Starts(c), ~overlapped'
      PROVE  Alone'
  <2>1. PICK t \in Tasks : /\ task[t] = "none" /\ registry' = t
                           /\ task' = [task EXCEPT ![t] = "running"]
    BY <1>1, <1>5, StartedTask DEF Starts
  <2>2. /\ ~overlapped
        /\ \A d \in Callers \ {c} : request[d].op \notin Waiting \cup {"resume"}
    BY <1>5 DEF Starts, CreateTask
  <2>3. Live = {}
    BY <1>5, <2>2 DEF Starts, Alone
  <2>4. Live' = {t}
    BY <1>1, <2>1, <2>3 DEF Live, Running, TaskType
  <2>5. \A d \in Callers : request'[d].op \notin Waiting \cup {"resume"}
    BY <1>5, <2>2 DEF Starts, Answers
  <2>. QED
    BY <1>2, <2>1, <2>4, <2>5 DEF Alone
<1>6. ASSUME NEW c \in Callers, Cancels(c), ~overlapped
      PROVE  Alone'
  <2>1. registry' = registry /\ registry \in Tasks /\ task' = [task EXCEPT ![registry] = "cancelled"]
    BY <1>6 DEF Cancels
  <2>2. Live = {registry}
    BY <1>2, <1>6, <2>1 DEF Alone
  <2>3. Live' = {registry}
    BY <1>1, <2>1, <2>2 DEF Live, Running, TaskType
  <2>4. /\ request'[c].op \in Waiting /\ request'[c].task = registry
        /\ \A d \in Callers \ {c} : request'[d] = request[d]
    BY <1>6 DEF Cancels
  <2>5. \A d \in Callers : request'[d].op # "resume"
    BY <1>6, <2>2, <2>4 DEF Alone, Waiting
  <2>6. task'[registry] = "cancelled"
    BY <1>1, <2>1 DEF Running, TaskType
  <2>7. ASSUME NEW d \in Callers \ {c}, request'[d].op \in Waiting
        PROVE  Live' \subseteq {request'[d].task} /\ task'[request'[d].task] \in {"none", "cancelled"}
    <3>1. /\ request'[d] = request[d] /\ request[d].task \in Tasks
          /\ Live \subseteq {request[d].task} /\ task[request[d].task] \in {"none", "cancelled"}
      BY <1>1, <1>6, <2>4, <2>7 DEF Alone, Memory, Dicts
    <3>. QED
      BY <1>1, <2>1, <2>2, <2>3, <3>1 DEF Running, TaskType
  <2>. QED
    BY <1>2, <2>1, <2>3, <2>4, <2>5, <2>6, <2>7 DEF Alone
<1>7. ASSUME NEW c \in Callers, Ends(c), ~overlapped
      PROVE  Alone'
  <2>1. /\ request[c].op \in Waiting /\ request[c].task \in Tasks
        /\ task[request[c].task] # "cancelled"
    BY <1>1, <1>7 DEF Ends, Memory, Dicts
  <2>2. Live = {}
    BY <1>7, <2>1 DEF Alone, Live
  <2>3. Live' = {} /\ task' = task /\ registry' = NoTask
    BY <1>7, <2>2 DEF Ends, Live
  <2>4. \A d \in Callers : request'[d] = request[d] \/ request'[d].op \notin Waiting
    BY <1>7 DEF Ends, Answers
  <2>5. \A d \in Callers : request'[d].op \in Waiting => task'[request'[d].task] \in {"none", "cancelled"}
    BY <1>7, <2>3, <2>4 DEF Alone
  <2>. QED
    BY <2>3, <2>5 DEF Alone
<1>8. ASSUME NEW t \in Tasks, Moves(t), ~overlapped
      PROVE  Alone'
  <2>1. /\ task[t] = "running" /\ UNCHANGED <<registry, request, overlapped>>
        /\ \E to \in {"asking", "complete", "unsettled"} : task' = [task EXCEPT ![t] = to]
    BY <1>8 DEF Moves
  <2>2. t \in Live
    BY <2>1 DEF Live
  <2>3. Live' = Live
    BY <1>1, <2>1, <2>2 DEF Live, Running, TaskType
  <2>4. \A c \in Callers : request[c].op \notin Waiting
    BY <1>8, <2>1, <2>2 DEF Alone
  <2>. QED
    BY <2>1, <2>3, <2>4 DEF Alone
<1>9. ASSUME NEW t \in Tasks, Stops(t), ~overlapped
      PROVE  Alone'
  <2>1. /\ t \in Live /\ task' = [task EXCEPT ![t] = "none"] /\ registry' = NoTask
        /\ UNCHANGED <<request, overlapped>>
    BY <1>9 DEF Stops, End, Live
  <2>2. Live = {t}
    BY <1>2, <1>9, <2>1 DEF Alone
  <2>3. Live' = {}
    BY <1>1, <2>1, <2>2 DEF Live, Running, TaskType
  <2>4. ASSUME NEW c \in Callers, request'[c].op \in Waiting
        PROVE  task'[request'[c].task] \in {"none", "cancelled"}
    <3>1. request[c].task \in Tasks /\ task[request[c].task] \in {"none", "cancelled"}
      BY <1>1, <1>9, <2>1, <2>4 DEF Alone, Memory, Dicts
    <3>. QED
      BY <1>1, <2>1, <3>1 DEF Running, TaskType
  <2>. QED
    BY <2>1, <2>3, <2>4 DEF Alone
<1>10. CASE Crash
  <2>1. /\ registry' = NoTask /\ task' = [t \in Tasks |-> "none"]
        /\ request' = [c \in Callers |-> Idle]
    BY <1>10 DEF Crash
  <2>2. Live' = {}
    BY <2>1 DEF Live
  <2>. QED
    BY <2>1, <2>2, Ops1 DEF Alone
<1>11. overlapped' \/ ~overlapped \/ \E c \in Callers : Starts(c)
  BY DEF Form, Quietly, EndsIdle, Cancels, Ends, Moves, Stops, Crash, history
<1>12. \A c \in Callers : Starts(c) /\ overlapped => overlapped'
  BY DEF Starts, CreateTask
<1>13. overlapped' => Alone'
  BY DEF Alone
<1>. QED
  BY <1>3, <1>4, <1>5, <1>6, <1>7, <1>8, <1>9, <1>10, <1>11, <1>12, <1>13 DEF Form

LEMMA StoppedKept ==
  ASSUME Typed, Form, Alone, Stopped
  PROVE  Stopped'
<1> SUFFICES ASSUME redis'.status \in Terminal, ~overlapped', ~stray'
             PROVE  Active' = {}
  BY DEF Stopped
<1>1. Memory /\ Stores /\ Running
  BY DEF Typed
<1>2. "running" \notin Terminal /\ "paused" \notin Terminal
  BY DEF Terminal
<1>3. CASE Quietly
  <2>1. Active' = Active /\ overlapped' = overlapped
    BY <1>3 DEF Quietly, Active, Live
  <2>2. ~stray /\ redis.status \in Terminal
    BY <1>2, <1>3 DEF Quietly
  <2>. QED
    BY <2>1, <2>2 DEF Stopped
<1>4. CASE EndsIdle
  <2>1. Live' = {}
    BY <1>4 DEF EndsIdle, Live, Alone
  <2>. QED
    BY <2>1 DEF Active
<1>5. ASSUME NEW c \in Callers, Starts(c)
      PROVE  Active' = {}
  BY <1>2, <1>5 DEF Starts
<1>6. ASSUME NEW c \in Callers, Cancels(c)
      PROVE  Active' = {}
  <2>1. Active = {}
    BY <1>6 DEF Cancels, Stopped, history
  <2>2. task' = [task EXCEPT ![registry] = "cancelled"] /\ registry \in Tasks
    BY <1>6 DEF Cancels
  <2>. QED
    BY <1>1, <2>1, <2>2 DEF Active, Live, Running, TaskType
<1>7. ASSUME NEW c \in Callers, Ends(c)
      PROVE  Active' = {}
  <2>1. /\ request[c].op \in Waiting /\ task[request[c].task] # "cancelled"
        /\ task' = task /\ ~overlapped
    BY <1>7 DEF Ends
  <2>2. Live = {}
    BY <2>1 DEF Alone, Live
  <2>. QED
    BY <2>1, <2>2 DEF Active, Live
<1>8. ASSUME NEW t \in Tasks, Moves(t)
      PROVE  Active' = {}
  <2>1. task[t] = "running" /\ redis'.status \in {redis.status, "paused"} /\ ~overlapped /\ ~stray
    BY <1>8 DEF Moves
  <2>2. Active = {}
    BY <1>2, <2>1 DEF Stopped
  <2>. QED
    BY <2>1, <2>2 DEF Active, Live
<1>9. ASSUME NEW t \in Tasks, Stops(t)
      PROVE  Active' = {}
  <2>1. task[t] # "none" /\ task' = [task EXCEPT ![t] = "none"] /\ ~overlapped
    BY <1>9 DEF Stops, End
  <2>2. Live = {t}
    BY <2>1 DEF Alone, Live
  <2>3. Live' = {}
    BY <1>1, <2>1, <2>2 DEF Live, Running, TaskType
  <2>. QED
    BY <2>3 DEF Active
<1>10. CASE Crash
  BY <1>10 DEF Crash, Active, Live
<1>. QED
  BY <1>3, <1>4, <1>5, <1>6, <1>7, <1>8, <1>9, <1>10 DEF Form

LEMMA Inductive ==
  /\ Init => IInv
  /\ Typed /\ IInv /\ [Next]_vars => IInv'
<1>1. ASSUME Init
      PROVE  IInv
  <2>1. Live = {} /\ redis.status = "created" /\ registry = NoTask
    BY <1>1 DEF Init, Live
  <2>2. \A c \in Callers : request[c].op \notin Waiting \cup {"resume"}
    BY <1>1, Ops1 DEF Init
  <2>3. "created" \notin Terminal
    BY DEF Terminal
  <2>. QED
    BY <2>1, <2>2, <2>3 DEF IInv, Working, Alone, Stopped
<1>2. ASSUME Typed, IInv, [Next]_vars
      PROVE  IInv'
  <2>1. CASE Next
    <3>1. Typed' /\ Form
      BY <1>2, <2>1, StepForm
    <3>. QED
      BY <1>2, <3>1, WorkingKept, AloneKept, StoppedKept DEF IInv
  <2>2. CASE UNCHANGED vars
    BY <1>2, <2>2 DEF vars, IInv, Working, Alone, Stopped, Busy, Active, Live, Waits
  <2>. QED
    BY <1>2, <2>1, <2>2
<1>. QED
  BY <1>1, <1>2

LEMMA Always == Spec => [](Typed /\ IInv)
<1>1. Init => Typed /\ IInv
  BY Typing, Inductive
<1>2. Typed /\ IInv /\ [Next]_vars => (Typed /\ IInv)'
  BY Typing, Inductive
<1>. QED
  BY <1>1, <1>2, PTL DEF Spec

----------------------------------------------------------------------------
(* The stores.  While nobody lives and nobody waits they agree, or Redis says *)
(* "paused": every step that leaves neither behind either writes both or      *)
(* changes neither status.  A task that is about to ask has said so, and      *)
(* whoever has cancelled a task is still to write.                            *)
Agree == redis.status \in {row.status, "paused"} \/ Refused

Told == ~overlapped /\ faults.crash = 0 => \A t \in Tasks : task[t] = "cancelled" => Waits
Asked == ~overlapped /\ ~stray => \A t \in Tasks : task[t] = "asking" => redis.status = "paused"

Unspoilt == ~overlapped /\ ~stray /\ faults.pg = 0 /\ faults.crash = 0
Settled == Unspoilt => Agree \/ Live # {} \/ Waits

Notices == Told /\ Asked

LEMMA Unmarked ==
  ASSUME Form
  PROVE  overlapped' \/ ~overlapped
<1>1. \A c \in Callers : Starts(c) /\ overlapped => overlapped'
  BY DEF Starts, CreateTask
<1>. QED
  BY <1>1 DEF Form, Quietly, EndsIdle, Cancels, Ends, Moves, Stops, Crash, history

LEMMA QuietlyWaits ==
  ASSUME Quietly
  PROVE  task' = task /\ Live' = Live /\ (Waits => Waits')
BY Ops1 DEF Quietly, Live, Waits

(* Who has cancelled a task waits until it has ended.                        *)
LEMMA ToldKept ==
  ASSUME Typed, Form, Alone, Told
  PROVE  Told'
<1> SUFFICES ASSUME ~overlapped', faults'.crash = 0, NEW u \in Tasks, task'[u] = "cancelled"
             PROVE  Waits'
  BY DEF Told
<1>1. Memory /\ Stores /\ Running /\ ~overlapped
  BY Unmarked DEF Typed
<1>2. CASE Quietly
  <2>1. faults.crash = 0 /\ task[u] = "cancelled"
    BY <1>2 DEF Quietly
  <2>. QED
    BY <1>1, <1>2, <2>1, QuietlyWaits DEF Told
<1>3. CASE EndsIdle
  <2>1. u \in Live /\ Live = {}
    BY <1>1, <1>3 DEF EndsIdle, Live, Alone
  <2>. QED
    BY <2>1
<1>4. ASSUME NEW c \in Callers, Starts(c)
      PROVE  Waits'
  <2>1. PICK t \in Tasks : task' = [task EXCEPT ![t] = "running"]
    BY <1>1, <1>4, StartedTask DEF Starts
  <2>2. u \in Live
    BY <1>1, <2>1 DEF Live, Running, TaskType
  <2>3. Live = {}
    BY <1>1, <1>4 DEF Starts, Alone
  <2>. QED
    BY <2>2, <2>3
<1>5. ASSUME NEW c \in Callers, Cancels(c)
      PROVE  Waits'
  BY <1>5 DEF Cancels, Waits
<1>6. ASSUME NEW c \in Callers, Ends(c)
      PROVE  Waits'
  <2>1. /\ request[c].op \in Waiting /\ request[c].task \in Tasks
        /\ task[request[c].task] # "cancelled" /\ task' = task
    BY <1>1, <1>6 DEF Ends, Memory, Dicts
  <2>2. Live = {} /\ u \in Live
    BY <1>1, <2>1 DEF Alone, Live
  <2>. QED
    BY <2>2
<1>7. ASSUME NEW t \in Tasks, Moves(t)
      PROVE  Waits'
  <2>1. /\ request' = request /\ faults'.crash = faults.crash
        /\ \E to \in {"asking", "complete", "unsettled"} : task' = [task EXCEPT ![t] = to]
    BY <1>7 DEF Moves
  <2>2. task[u] = "cancelled"
    BY <1>1, <2>1 DEF Running, TaskType
  <2>. QED
    BY <1>1, <2>1, <2>2 DEF Told, Waits
<1>8. ASSUME NEW t \in Tasks, Stops(t)
      PROVE  Waits'
  <2>1. /\ request' = request /\ faults'.crash = faults.crash
        /\ task' = [task EXCEPT ![t] = "none"]
    BY <1>8 DEF Stops, End
  <2>2. task[u] = "cancelled"
    BY <1>1, <2>1 DEF Running, TaskType
  <2>. QED
    BY <1>1, <2>1, <2>2 DEF Told, Waits
<1>9. CASE Crash
  BY <1>1, <1>9, CrashCounted DEF Stores, FaultsType
<1>. QED
  BY <1>2, <1>3, <1>4, <1>5, <1>6, <1>7, <1>8, <1>9 DEF Form

(* No status is written beside a meeting that is about to stop and ask.      *)
LEMMA AskedKept ==
  ASSUME Typed, Form, Alone, Asked
  PROVE  Asked'
<1> SUFFICES ASSUME ~overlapped', ~stray', NEW u \in Tasks, task'[u] = "asking"
             PROVE  redis'.status = "paused"
  BY DEF Asked
<1>1. Memory /\ Stores /\ Running /\ ~overlapped
  BY Unmarked DEF Typed
<1>2. CASE Quietly
  <2>1. ~stray /\ task[u] = "asking" /\ redis'.status \in {redis.status, "paused"}
    BY <1>2 DEF Quietly
  <2>. QED
    BY <1>1, <2>1 DEF Asked
<1>3. CASE EndsIdle
  <2>1. u \in Live /\ Live = {}
    BY <1>1, <1>3 DEF EndsIdle, Live, Alone
  <2>. QED
    BY <2>1
<1>4. ASSUME NEW c \in Callers, Starts(c)
      PROVE  redis'.status = "paused"
  <2>1. PICK t \in Tasks : task' = [task EXCEPT ![t] = "running"]
    BY <1>1, <1>4, StartedTask DEF Starts
  <2>2. u \in Live
    BY <1>1, <2>1 DEF Live, Running, TaskType
  <2>3. Live = {}
    BY <1>1, <1>4 DEF Starts, Alone
  <2>. QED
    BY <2>2, <2>3
<1>5. ASSUME NEW c \in Callers, Cancels(c)
      PROVE  redis'.status = "paused"
  <2>1. task' = [task EXCEPT ![registry] = "cancelled"] /\ UNCHANGED <<redis, stray>>
    BY <1>5 DEF Cancels, history
  <2>2. task[u] = "asking"
    BY <1>1, <2>1 DEF Running, TaskType
  <2>. QED
    BY <1>1, <2>1, <2>2 DEF Asked
<1>6. ASSUME NEW c \in Callers, Ends(c)
      PROVE  redis'.status = "paused"
  <2>1. /\ request[c].op \in Waiting /\ request[c].task \in Tasks
        /\ task[request[c].task] # "cancelled" /\ task' = task
    BY <1>1, <1>6 DEF Ends, Memory, Dicts
  <2>2. Live = {} /\ u \in Live
    BY <1>1, <2>1 DEF Alone, Live
  <2>. QED
    BY <2>2
<1>7. ASSUME NEW t \in Tasks, Moves(t)
      PROVE  redis'.status = "paused"
  <2>1. stray' = stray /\ task[t] = "running"
    BY <1>7 DEF Moves
  <2>2. CASE redis'.status = "paused"
    BY <2>2
  <2>3. CASE /\ \E to \in {"complete", "unsettled"} : task' = [task EXCEPT ![t] = to]
             /\ redis'.status = redis.status
    <3>1. task[u] = "asking"
      BY <1>1, <2>3 DEF Running, TaskType
    <3>. QED
      BY <1>1, <2>1, <2>3, <3>1 DEF Asked
  <2>. QED
    BY <1>7, <2>2, <2>3 DEF Moves
<1>8. ASSUME NEW t \in Tasks, Stops(t)
      PROVE  redis'.status = "paused"
  <2>1. t \in Live /\ task' = [task EXCEPT ![t] = "none"]
    BY <1>8 DEF Stops, End, Live
  <2>2. u \in Live /\ u # t
    BY <1>1, <2>1 DEF Live, Running, TaskType
  <2>. QED
    BY <1>1, <2>1, <2>2 DEF Alone
<1>9. CASE Crash
  BY <1>9 DEF Crash
<1>. QED
  BY <1>2, <1>3, <1>4, <1>5, <1>6, <1>7, <1>8, <1>9 DEF Form

(* What PostgreSQL does not refuse is in the row.                            *)
LEMMA NotRefused ==
  ASSUME Stores, NEW new, Write(new), faults'.pg = 0
  PROVE  row' = new /\ faults' = faults
<1>1. faults.pg \in Nat /\ faults.crash \in Nat
  BY BoundAssumption DEF Stores, FaultsType
<1>2. faults' = [faults EXCEPT !.pg = @ + 1] => faults'.pg = faults.pg + 1
  BY DEF Stores, FaultsType
<1>. QED
  BY <1>1, <1>2 DEF Write

LEMMA UpdateAgrees ==
  ASSUME NEW r \in RowType, NEW s \in Statuses
  PROVE  \/ UpdateStatus(r, s).status = s
         \/ s = "completed" /\ UpdateStatus(r, s) = [status |-> "paused", clarify |-> TRUE]
BY DEF UpdateStatus, RowType

(* Both stores are told.                                                     *)
LEMMA BothWritten ==
  ASSUME Stores, NEW r \in RowType, NEW s \in Statuses, redis'.status = s,
         Write(UpdateStatus(r, s)), faults'.pg = 0
  PROVE  Agree'
<1>1. row' = UpdateStatus(r, s)
  BY NotRefused
<1>. QED
  BY <1>1, UpdateAgrees DEF Agree, Refused

LEMMA StatusAgrees ==
  ASSUME Stores, NEW s \in Statuses, UpdateSessionStatus(s), faults'.pg = 0
  PROVE  Agree'
<1>1. redis'.status = s
  BY StatusUpdated
<1>2. DualWrite(row, redis) \in RowType
  BY RowWritten DEF Stores
<1>. QED
  BY <1>1, <1>2, BothWritten DEF UpdateSessionStatus

LEMMA DeleteAgrees ==
  ASSUME Stores, NEW c, NEW d, heap[d] \in Metadata, Delete(c, d), faults'.pg = 0
  PROVE  Agree'
<1> DEFINE m == [heap[d] EXCEPT !.status = "deleted", !.gone = TRUE]
<1>1. m \in Metadata /\ m.status = "deleted"
  BY Ops1 DEF Metadata
<1>2. redis' = m /\ Write(UpdateStatus(DualWrite(row, m), "deleted"))
  BY DEF Delete, SaveDict
<1>. HIDE DEF m
<1>3. DualWrite(row, m) \in RowType
  BY <1>1, RowWritten, Ops1 DEF Stores
<1>. QED
  BY <1>1, <1>2, <1>3, BothWritten, Ops1

LEMMA TerminateAgrees ==
  ASSUME Stores, NEW d, heap[d] \in Metadata, NEW killed, Terminate(d, killed), faults'.pg = 0
  PROVE  Agree'
<1> DEFINE m == [heap[d] EXCEPT !.status = "terminated"]
<1>1. m \in Metadata /\ m.status = "terminated"
  BY StatusSet, Ops1
<1>2. Write(UpdateStatus(DualWrite(row, m), "terminated"))
  BY DEF Terminate
<1>3. faults' = faults
  BY <1>2, NotRefused
<1>4. redis' = m
  BY <1>3 DEF Terminate, SaveDict
<1>. HIDE DEF m
<1>5. DualWrite(row, m) \in RowType
  BY <1>1, RowWritten, Ops1 DEF Stores
<1>. QED
  BY <1>1, <1>2, <1>4, <1>5, BothWritten, Ops1

(* What a step does to the two statuses.                                     *)
Untouched == (Agree => Agree') /\ Live' = Live /\ (Waits => Waits')
Recorded == Agree' \/ Live' # {} \/ Waits' \/ Untouched

LEMMA RequestRecords ==
  ASSUME Typed, NEW c \in Callers, Request(c) \/ KillEnds(c), Unspoilt'
  PROVE  Recorded
<1>1. Memory /\ Stores /\ Running
  BY DEF Typed
<1>2. CASE resume_deliberation(c) \/ ResumeFails(c) \/ submit_clarification(c) \/ update_constraints(c)
  <2>1. UNCHANGED <<redis, row>>
    BY <1>2 DEF resume_deliberation, ResumeFails, submit_clarification, update_constraints
  <2>2. Live' = Live /\ (Waits => Waits')
    BY <1>2, LooksQuietly, QuietlyWaits
  <2>. QED
    BY <2>1, <2>2 DEF Recorded, Untouched, Agree, Refused
<1>3. CASE pause_deliberation(c) \/ ClarificationSaved(c)
  <2>1. PICK d \in Slots : heap[d] \in Metadata /\ Park(d)
    BY <1>1, <1>3, Looked, Ops1 DEF pause_deliberation, ClarificationSaved, Dict
  <2>2. redis'.status = "paused"
    BY <2>1, StatusSet, Ops1 DEF Park, SaveDict
  <2>. QED
    BY <2>2 DEF Recorded, Agree
<1>4. CASE ConstraintsSaved(c)
  <2>1. /\ redis' = Dict(c) /\ Write(DualWrite(row, Dict(c)))
        /\ Dict(c).status = redis.status /\ Dict(c) \in Metadata
    BY <1>1, <1>4, Looked, Ops1 DEF ConstraintsSaved, SaveDict, Unspoilt
  <2>2. row' = DualWrite(row, Dict(c))
    BY <1>1, <2>1, NotRefused DEF Unspoilt
  <2>3. /\ row'.status = row.status
        /\ row = [status |-> "paused", clarify |-> TRUE] => row' = row
    BY <1>1, <2>2 DEF DualWrite, Stores, RowType
  <2>4. Live' = Live /\ (Waits => Waits')
    BY <1>4, ConstraintsQuietly, QuietlyWaits
  <2>5. Agree => Agree'
    BY <2>1, <2>3 DEF Agree, Refused
  <2>. QED
    BY <2>4, <2>5 DEF Recorded, Untouched
<1>5. CASE start_deliberation(c) \/ ResumeStarts(c)
  <2>1. CreateTask(c)
    BY <1>5 DEF start_deliberation, ResumeStarts
  <2>2. PICK t \in Tasks : task' = [task EXCEPT ![t] = "running"]
    BY <1>1, <2>1, StartedTask
  <2>3. t \in Live'
    BY <1>1, <2>2 DEF Live, Running, TaskType
  <2>. QED
    BY <2>3 DEF Recorded
<1>6. CASE kill_deliberation(c) \/ DeleteActive(c) \/ TerminateActive(c)
  <2>1. Waits'
    BY <1>6, CancelsAre DEF Cancels, Waits
  <2>. QED
    BY <2>1 DEF Recorded
<1>7. CASE DeleteIdle(c) \/ TerminateIdle(c)
  <2>1. heap[cached] \in Metadata
    BY <1>1, <1>7, Looked DEF DeleteIdle, TerminateIdle
  <2>2. Delete(c, cached) \/ Terminate(cached, FALSE)
    BY <1>7 DEF DeleteIdle, TerminateIdle
  <2>. QED
    BY <1>1, <2>1, <2>2, DeleteAgrees, TerminateAgrees DEF Recorded, Unspoilt
<1>8. CASE KillEnds(c)
  <2>1. CASE Killed(c)
    BY <1>1, <2>1, StatusAgrees, Ops1 DEF Killed, Recorded, Unspoilt
  <2>2. CASE Deleted(c) \/ Terminated(c)
    <3>1. request[c].op \in {"delete", "terminate"}
      BY <2>2 DEF Deleted, Terminated
    <3>2. heap[request[c].dict] \in Metadata
      BY <1>1, <3>1, Looked, Ops1 DEF Dict
    <3>3. Delete(c, request[c].dict) \/ Terminate(request[c].dict, TRUE)
      BY <2>2 DEF Deleted, Terminated
    <3>. QED
      BY <1>1, <3>2, <3>3, DeleteAgrees, TerminateAgrees DEF Recorded, Unspoilt
  <2>. QED
    BY <1>8, <2>1, <2>2 DEF KillEnds
<1>. QED
  BY <1>2, <1>3, <1>4, <1>5, <1>6, <1>7, <1>8 DEF Request

LEMMA TaskRecords ==
  ASSUME Typed, Notices, NEW t \in Tasks, PhaseShown(t) \/ TaskEnds(t), Unspoilt'
  PROVE  Recorded
<1>1. Memory /\ Stores /\ Running
  BY DEF Typed
<1>2. CASE PhaseShown(t)
  <2>1. t \in Live'
    BY <1>2 DEF PhaseShown, Live
  <2>. QED
    BY <2>1 DEF Recorded
<1>3. CASE \/ _handle_identify_gaps(t) \/ MeetingCompletes(t)
           \/ ContextInsufficient(t) \/ PanelFails(t)
  <2>1. \E to \in {"asking", "complete", "unsettled"} : task' = [task EXCEPT ![t] = to]
    BY <1>3 DEF _handle_identify_gaps, MeetingCompletes, ContextInsufficient, PanelFails
  <2>2. t \in Live'
    BY <1>1, <2>1 DEF Live, Running, TaskType
  <2>. QED
    BY <2>2 DEF Recorded
<1>4. CASE StopsToAsk(t)
  <2>1. task[t] = "asking" /\ redis' = redis /\ ~overlapped /\ ~stray
    BY <1>4 DEF StopsToAsk, Unspoilt
  <2>2. redis'.status = "paused"
    BY <2>1 DEF Notices, Asked
  <2>. QED
    BY <2>2 DEF Recorded, Agree
<1>5. CASE Settle(t) \/ GraphFails(t)
  <2>1. \E s \in {"completed", "failed"} : UpdateSessionStatus(s)
    BY <1>5 DEF Settle, GraphFails
  <2>. QED
    BY <1>1, <2>1, StatusAgrees, Ops1 DEF Recorded, Unspoilt
<1>6. CASE CancelledEnds(t)
  <2>1. task[t] = "cancelled" /\ request' = request /\ ~overlapped /\ faults.crash = 0
    BY <1>6 DEF CancelledEnds, Unspoilt, history
  <2>2. Waits'
    BY <2>1 DEF Notices, Told, Waits
  <2>. QED
    BY <2>2 DEF Recorded
<1>. QED
  BY <1>2, <1>3, <1>4, <1>5, <1>6 DEF TaskEnds

LEMMA StepRecords ==
  ASSUME Typed, Notices, Next, Unspoilt'
  PROVE  Recorded
<1>1. CASE Load \/ Expire
  <2>1. UNCHANGED <<redis, row>>
    BY <1>1 DEF Load, Expire
  <2>2. Live' = Live /\ (Waits => Waits')
    BY <1>1, PassesQuietly, QuietlyWaits
  <2>. QED
    BY <2>1, <2>2 DEF Recorded, Untouched, Agree, Refused
<1>2. CASE Crash
  <2>1. Stores
    BY DEF Typed
  <2>2. faults'.crash > 0 /\ faults'.crash = 0
    BY <1>2, <2>1, CrashCounted DEF Unspoilt
  <2>. QED
    BY <2>2
<1>. QED
  BY <1>1, <1>2, RequestRecords, TaskRecords DEF Next

(* Faults and marks are never taken back.                                    *)
LEMMA MarksStay ==
  ASSUME Typed, Next, Unspoilt'
  PROVE  Unspoilt
<1>1. Typed' /\ Form
  BY StepForm
<1>2. ~overlapped
  BY <1>1, Unmarked DEF Unspoilt
<1>3. ~stray
  BY <1>1 DEF Form, Quietly, EndsIdle, Starts, Cancels, Ends, Moves, Stops, Crash, history, Unspoilt
<1>4. faults.pg \in Nat /\ faults.crash \in Nat
  BY BoundAssumption DEF Typed, Stores, FaultsType
<1>5. faults' \in {faults, [faults EXCEPT !.pg = @ + 1], [faults EXCEPT !.crash = @ + 1]}
  BY DEF Next, Load, Expire, Crash, Request, KillEnds, PhaseShown, TaskEnds, history,
         start_deliberation, resume_deliberation, ResumeFails, ResumeStarts, pause_deliberation,
         submit_clarification, ClarificationSaved, update_constraints, ConstraintsSaved,
         kill_deliberation, DeleteIdle, DeleteActive, TerminateIdle, TerminateActive, Killed,
         Deleted, Terminated, Delete, Terminate, Park, Cancel, UpdateSessionStatus, Write,
         StopsToAsk, Settle, GraphFails, CancelledEnds, _handle_identify_gaps, MeetingCompletes,
         ContextInsufficient, PanelFails
<1>5a. faults = [pg |-> faults.pg, crash |-> faults.crash]
  BY DEF Typed, Stores, FaultsType
<1>6. faults.pg = 0 /\ faults.crash = 0
  BY <1>4, <1>5, <1>5a DEF Unspoilt
<1>. QED
  BY <1>2, <1>3, <1>6 DEF Unspoilt

LEMMA Agreement ==
  /\ Init => Notices /\ Settled
  /\ Typed /\ IInv /\ Notices /\ Settled /\ [Next]_vars => (Notices /\ Settled)'
<1>1. ASSUME Init
      PROVE  Notices /\ Settled
  <2>1. Agree
    BY <1>1 DEF Init, Agree
  <2>2. \A t \in Tasks : task[t] = "none"
    BY <1>1 DEF Init
  <2>. QED
    BY <2>1, <2>2 DEF Notices, Told, Asked, Settled
<1>2. ASSUME Typed, IInv, Notices, Settled, Next
      PROVE  (Notices /\ Settled)'
  <2>1. Form /\ Alone
    BY <1>2, StepForm DEF IInv
  <2>2. Notices'
    BY <1>2, <2>1, ToldKept, AskedKept DEF Notices
  <2>3. ASSUME Unspoilt'
        PROVE  Agree' \/ Live' # {} \/ Waits'
    <3>1. Recorded /\ Unspoilt
      BY <1>2, <2>3, StepRecords, MarksStay
    <3>. QED
      BY <1>2, <3>1 DEF Settled, Recorded, Untouched
  <2>. QED
    BY <2>2, <2>3 DEF Settled
<1>3. ASSUME UNCHANGED vars, Notices, Settled
      PROVE  (Notices /\ Settled)'
  BY <1>3 DEF vars, Notices, Told, Asked, Settled, Unspoilt, Agree, Refused, Live, Waits
<1>. QED
  BY <1>1, <1>2, <1>3

LEMMA AlwaysSettled == Spec => []Settled
<1>1. Init => Typed /\ IInv /\ Notices /\ Settled
  BY Typing, Inductive, Agreement
<1>2. Typed /\ IInv /\ Notices /\ Settled /\ [Next]_vars => (Typed /\ IInv /\ Notices /\ Settled)'
  BY Typing, Inductive, Agreement
<1>. QED
  BY <1>1, <1>2, PTL DEF Spec

----------------------------------------------------------------------------
(* The theorems.                                                             *)

(* The variables keep their types: in particular no request is left with a   *)
(* dictionary that has gone, and there is always room for another one.       *)
THEOREM TypeCorrect == Spec => []TypeOK
BY Always, TypedIsTypeOK, PTL

(* A meeting that Redis calls running has a task, or somebody who has        *)
(* cancelled the task and will write another status (control.py,             *)
(* execution.py).                                                            *)
THEOREM AlwaysRunningHasTask == Spec => []RunningHasTask
<1>1. IInv => RunningHasTask
  BY DEF IInv, Working, RunningHasTask, Busy, Live
<1>. QED
  BY <1>1, Always, PTL

(* After kill, delete, terminate, completion or failure nothing runs that    *)
(* has not been told to stop.                                                *)
THEOREM FinalAlwaysMeansStopped == Spec => []FinalMeansStopped
<1>1. IInv => FinalMeansStopped
  BY DEF IInv, Stopped, FinalMeansStopped, Active
<1>. QED
  BY <1>1, Always, PTL

(* A meeting runs once, however many requests try to start it.               *)
THEOREM AlwaysOneTask == Spec => []OneTask
<1>1. ASSUME IInv
      PROVE  OneTask
  <2>1. overlapped \/ Live = {} \/ \E t : Live = {t}
    BY <1>1 DEF IInv, Alone
  <2>2. Live = {} => Cardinality(Live) = 0
    BY FS_EmptySet
  <2>3. ASSUME NEW t, Live = {t}
        PROVE  Cardinality(Live) = 1
    BY <2>3, FS_Singleton
  <2>. QED
    BY <2>1, <2>2, <2>3 DEF OneTask
<1>. QED
  BY <1>1, Always, PTL

(* Once nobody runs and nobody waits, Redis and PostgreSQL tell the same of   *)
(* the meeting - or Redis says "paused", or PostgreSQL has kept a meeting     *)
(* that asked from completing - as long as neither store has failed, no start *)
(* has overlapped with a request and no old status has been brought back.    *)
THEOREM StoresAlwaysAgree == Spec => []StoresAgree
<1>1. ASSUME Settled, Quiet, Unspoilt
      PROVE  Agree
  <2>1. Live = {} /\ ~Waits
    BY <1>1, Ops1 DEF Quiet, Waits
  <2>. QED
    BY <1>1, <2>1 DEF Settled
<1>2. Settled => StoresAgree
  BY <1>1 DEF StoresAgree, Unspoilt, Agree
<1>. QED
  BY <1>2, AlwaysSettled, PTL
=============================================================================
