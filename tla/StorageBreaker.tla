---------------------------- MODULE StorageBreaker ----------------------------
(***************************************************************************)
(* The services behind the synchronous half of CircuitBreaker, and how     *)
(* their clients use it.  Every client looks at breaker.state first and    *)
(* gives up when it is OPEN; what follows differs:                         *)
(*                                                                         *)
(*   Recorders    (_getconn_with_timeout in bo1/state/database.py, and the *)
(*                Brave and Tavily searches) run their operation and then  *)
(*                record its outcome themselves, WITHOUT the breaker's     *)
(*                lock: what the record is based on may be out of date     *)
(*                when it is written;                                      *)
(*   CallSyncers  (generate_embedding in bo1/llm/embeddings.py) go through *)
(*                call_sync, which checks recovery and records under the   *)
(*                lock.                                                    *)
(***************************************************************************)
EXTENDS BreakerOps

CONSTANTS Recorders, CallSyncers

Clients == Recorders \cup CallSyncers

VARIABLES
  breaker,   \* the service's CircuitBreaker
  pc,        \* where each client is
  seen,      \* what a recording client read of the breaker
  up         \* external: do the service's operations succeed?

vars == <<breaker, pc, seen, up>>

Seen == [state : CircuitState, failure_count : 0 .. CounterCap,
         success_count : 0 .. success_threshold]
Nothing == [state |-> "CLOSED", failure_count |-> 0, success_count |-> 0]

Init ==
  /\ breaker = NewBreaker
  /\ pc = [c \in Clients |-> "idle"]
  /\ seen = [c \in Clients |-> Nothing]
  /\ up \in BOOLEAN

Goto(c, from, to) == pc[c] = from /\ pc' = [pc EXCEPT ![c] = to]

(* is_db_circuit_open() and the breaker.state checks of the other clients: *)
(* an OPEN circuit sends the client away before it gets any further.       *)
Check(c) ==
  /\ breaker.state # "OPEN"
  /\ Goto(c, "idle", IF c \in Recorders THEN "running" ELSE "checked")
  /\ UNCHANGED <<breaker, seen, up>>

-------------------------------------------------------------------------------
(* Clients of call_sync. *)

EnterCallSync(c) ==
  LET b == check_recovery_sync(breaker)
  IN /\ Goto(c, "checked", IF b.state = "OPEN" THEN "idle" ELSE "running")
     /\ breaker' = b
     /\ UNCHANGED <<seen, up>>

LeaveCallSync(c) ==
  /\ c \in CallSyncers
  /\ Goto(c, "running", "idle")
  /\ breaker' = IF up THEN record_success(breaker) ELSE record_failure_sync(breaker)
  /\ UNCHANGED <<seen, up>>

-------------------------------------------------------------------------------
(* Clients that record for themselves.  The record reads the breaker,      *)
(* decides, and writes; another thread may run in between.                 *)

FinishOperation(c) ==
  /\ c \in Recorders
  /\ Goto(c, "running", IF up THEN "returned" ELSE "raised")
  /\ seen' = [seen EXCEPT ![c] =
       [state |-> breaker.state, failure_count |-> breaker.failure_count,
        success_count |-> breaker.success_count]]
  /\ UNCHANGED <<breaker, up>>

record_db_success(c) ==
  LET read == [breaker EXCEPT !.state = seen[c].state,
                              !.success_count = seen[c].success_count]
      new == record_success(read)
  IN /\ Goto(c, "returned", "idle")
     /\ breaker' = IF new.state = read.state
                     THEN [new EXCEPT !.state = breaker.state] ELSE new
     /\ seen' = [seen EXCEPT ![c] = Nothing]
     /\ UNCHANGED up

(* Pool exhaustion and connection errors are TRANSIENT to classify_fault_db. *)
record_db_failure(c) ==
  /\ Goto(c, "raised", "idle")
  /\ breaker' = record_failure_sync([breaker EXCEPT !.failure_count = seen[c].failure_count])
  /\ seen' = [seen EXCEPT ![c] = Nothing]
  /\ UNCHANGED up

-------------------------------------------------------------------------------
Tick ==
  /\ breaker' = Age(breaker)
  /\ UNCHANGED <<pc, seen, up>>

ServiceChange ==
  /\ up' = ~up
  /\ UNCHANGED <<breaker, pc, seen>>

Step(c) ==
  \/ Check(c) \/ EnterCallSync(c) \/ LeaveCallSync(c)
  \/ FinishOperation(c) \/ record_db_success(c) \/ record_db_failure(c)

Next == (\E c \in Clients : Step(c)) \/ Tick \/ ServiceChange

Spec == Init /\ [][Next]_vars

(* Clients keep coming, every operation ends (they all have timeouts), and *)
(* time passes.                                                            *)
FairSpec == Spec /\ WF_vars(Tick) /\ \A c \in Clients : WF_vars(Step(c))

-------------------------------------------------------------------------------
(***************************************************************************)
(* Properties                                                              *)
(***************************************************************************)

(* "OPEN ... After timeout -> HALF_OPEN": an open circuit is not open for  *)
(* ever.                                                                   *)
LeavesOpen == breaker.state = "OPEN" ~> breaker.state # "OPEN"
===============================================================================
