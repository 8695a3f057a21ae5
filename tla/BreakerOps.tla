------------------------------ MODULE BreakerOps ------------------------------
(***************************************************************************)
(* What one CircuitBreaker object (bo1/llm/circuit_breaker.py) does under  *)
(* its lock, as operators on a record with the object's fields.  The       *)
(* asynchronous methods and their _sync twins differ in the fault          *)
(* classification and in the recovery timeout, so both are here; the       *)
(* modules CircuitBreaker, StorageBreaker and LLMBroker use them.          *)
(*                                                                         *)
(* last_failure_time and last_state_change are kept as ages (failure_age   *)
(* and change_age), which stop growing at the longest timeout: the code    *)
(* only ever compares an age with a timeout.  The failure counters stop at *)
(* CounterCap for the same reason: the code only compares failure_count    *)
(* with a threshold.                                                       *)
(***************************************************************************)
EXTENDS Naturals

CONSTANTS
  transient_failure_threshold,   \* counted failures that open the circuit
  success_threshold,             \* successes in HALF_OPEN that close it
  transient_recovery_timeout,    \* ticks in OPEN before a probe is let through
  permanent_recovery_timeout,    \* the same when the last fault was permanent
  CounterCap                     \* bound: where the counters stop growing

ASSUME BreakerAssumption ==
  /\ transient_failure_threshold \in Nat \ {0}
  /\ success_threshold \in Nat \ {0}
  /\ transient_recovery_timeout \in Nat \ {0}
  /\ permanent_recovery_timeout \in Nat \ {0}
  /\ CounterCap \in Nat
  /\ CounterCap >= transient_failure_threshold

CircuitState == {"CLOSED", "OPEN", "HALF_OPEN"}
FaultType == {"TRANSIENT", "PERMANENT", "MODEL_SPECIFIC", "UNKNOWN"}

(* The exceptions a protected call can raise, as far as the code tells     *)
(* them apart: anthropic's APIError family by its HTTP status, and any     *)
(* exception outside that family.                                          *)
ApiError == {"rate_limit_429", "timeout", "overloaded_529", "unavailable_503",
             "server_5xx", "client_4xx", "no_status"}
Error == ApiError \cup {"not_api"}

classify_fault(e) ==
  CASE e \in {"rate_limit_429", "timeout", "unavailable_503", "server_5xx"} -> "TRANSIENT"
    [] e = "overloaded_529" -> "MODEL_SPECIFIC"
    [] e = "client_4xx" -> "PERMANENT"
    [] OTHER -> "UNKNOWN"

MaxTimeout ==
  IF transient_recovery_timeout >= permanent_recovery_timeout
    THEN transient_recovery_timeout ELSE permanent_recovery_timeout

MinTimeout ==
  IF transient_recovery_timeout <= permanent_recovery_timeout
    THEN transient_recovery_timeout ELSE permanent_recovery_timeout

Breaker ==
  [state : CircuitState,
   failure_count : 0 .. CounterCap,
   success_count : 0 .. success_threshold,
   transient_failure_count : 0 .. CounterCap,
   permanent_failure_count : 0 .. CounterCap,
   last_fault_type : FaultType \cup {"None"},
   failure_age : 0 .. MaxTimeout,
   change_age : 0 .. MaxTimeout]

NewBreaker ==
  [state |-> "CLOSED", failure_count |-> 0, success_count |-> 0,
   transient_failure_count |-> 0, permanent_failure_count |-> 0,
   last_fault_type |-> "None",
   failure_age |-> MaxTimeout, change_age |-> 0]

CountUp(n) == IF n < CounterCap THEN n + 1 ELSE n

(* _set_state.  CLOSED resets every counter; HALF_OPEN only the successes; *)
(* OPEN keeps them all.                                                    *)
Enter(b, new_state) == [b EXCEPT !.state = new_state, !.change_age = 0]

(* Mutant: closing the circuit forgets to reset failure_count.             *)
set_state_keeps_failures(b, new_state) ==
  IF new_state = "CLOSED"
    THEN [NewBreaker EXCEPT !.failure_age = b.failure_age, !.failure_count = b.failure_count]
  ELSE IF new_state = "HALF_OPEN" THEN [Enter(b, new_state) EXCEPT !.success_count = 0]
  ELSE Enter(b, new_state)

set_state(b, new_state) ==
  IF new_state = "CLOSED" THEN [NewBreaker EXCEPT !.failure_age = b.failure_age]
  ELSE IF new_state = "HALF_OPEN" THEN [Enter(b, new_state) EXCEPT !.success_count = 0]
  ELSE Enter(b, new_state)

get_recovery_timeout(b) ==
  IF b.last_fault_type = "PERMANENT"
    THEN permanent_recovery_timeout ELSE transient_recovery_timeout

check_recovery(b) ==
  IF b.state = "OPEN" /\ b.failure_age >= get_recovery_timeout(b)
    THEN set_state(b, "HALF_OPEN") ELSE b

(* Mutant: a half-open circuit forgets its successes.                      *)
record_success_uncounted(b) ==
  IF b.state = "CLOSED" THEN [b EXCEPT !.failure_count = 0] ELSE b

record_success(b) ==
  IF b.state = "HALF_OPEN"
    THEN IF b.success_count + 1 >= success_threshold
           THEN set_state(b, "CLOSED")
           ELSE [b EXCEPT !.success_count = @ + 1]
  ELSE IF b.state = "CLOSED" THEN [b EXCEPT !.failure_count = 0]
  ELSE b

open_if_exhausted(b) ==
  IF b.failure_count >= transient_failure_threshold THEN set_state(b, "OPEN") ELSE b

(* Mutant: the time of the failure is not taken. *)
Noted_without_time(b, e) == [b EXCEPT !.last_fault_type = classify_fault(e)]
Noted(b, e) == [b EXCEPT !.last_fault_type = classify_fault(e), !.failure_age = 0]
Counted(b) == [b EXCEPT !.transient_failure_count = CountUp(@), !.failure_count = CountUp(@)]

(* Mutant: rate limits are not counted. *)
record_failure_ignores_429(b, e) ==
  IF e \notin ApiError \ {"rate_limit_429"} THEN b
  ELSE IF classify_fault(e) = "PERMANENT"
    THEN [Noted(b, e) EXCEPT !.permanent_failure_count = CountUp(@)]
    ELSE open_if_exhausted(Counted(Noted(b, e)))

(* Exceptions outside the APIError family are ignored; a permanent fault   *)
(* is noted, and only counted apart; any other fault counts towards OPEN.  *)
record_failure(b, e) ==
  IF e \notin ApiError THEN b
  ELSE IF classify_fault(e) = "PERMANENT"
    THEN [Noted(b, e) EXCEPT !.permanent_failure_count = CountUp(@)]
    ELSE open_if_exhausted(Counted(Noted(b, e)))

(***************************************************************************)
(* The _sync twins: every exception is counted, nothing is classified, and *)
(* recovery_timeout and failure_threshold apply.  SERVICE_CONFIGS gives    *)
(* every service of the sync path the same value for those and for their   *)
(* transient_ variants, so the constants are shared.                       *)
(***************************************************************************)
check_recovery_sync(b) ==
  IF b.state = "OPEN" /\ b.failure_age >= transient_recovery_timeout
    THEN set_state(b, "HALF_OPEN") ELSE b

CountedSync(b) == [b EXCEPT !.failure_count = CountUp(@), !.failure_age = 0]
record_failure_sync(b) == open_if_exhausted(CountedSync(b))

(* One tick of time.time(). *)
Older(age) == IF age < MaxTimeout THEN age + 1 ELSE age
Age(b) == [b EXCEPT !.failure_age = Older(@), !.change_age = Older(@)]

-------------------------------------------------------------------------------
(* What the counters of a breaker say about its state; the modules that    *)
(* hold breakers state it as an invariant.                                 *)
Explained(b) ==
  /\ b.state = "CLOSED" <=> b.failure_count < transient_failure_threshold
  /\ b.state = "HALF_OPEN" => b.success_count < success_threshold
  /\ b.failure_count <= b.transient_failure_count
===============================================================================
