---------------------------- MODULE CircuitBreaker ----------------------------
(***************************************************************************)
(* CircuitBreaker.call (bo1/llm/circuit_breaker.py): callers that share    *)
(* one breaker.  A caller takes the lock, checks recovery and is refused   *)
(* or admitted; the protected function then runs WITHOUT the lock, so the  *)
(* breaker may change state any number of times before the caller takes    *)
(* the lock again to record how its call ended.                            *)
(*                                                                         *)
(* A refused caller changes nothing, so a refusal is a stuttering step.    *)
(***************************************************************************)
EXTENDS BreakerOps

CONSTANT Callers

VARIABLES
  breaker,     \* the CircuitBreaker object
  admitted,    \* admitted[c]: the state in which c's running call was let through
  up           \* external: is the provider answering?

vars == <<breaker, admitted, up>>

TypeOK ==
  /\ breaker \in Breaker
  /\ admitted \in [Callers -> CircuitState \cup {"idle"}]
  /\ up \in BOOLEAN

Init ==
  /\ breaker = NewBreaker
  /\ admitted = [c \in Callers |-> "idle"]
  /\ up \in BOOLEAN

Running(c) == admitted[c] # "idle"

(* The first locked section of call(), when it does not raise              *)
(* CircuitBreakerOpenError.                                                *)
Admit(c) ==
  LET b == check_recovery(breaker)
  IN /\ ~Running(c)
     /\ b.state # "OPEN"
     /\ breaker' = b
     /\ admitted' = [admitted EXCEPT ![c] = b.state]
     /\ UNCHANGED up

Return(c) ==
  /\ Running(c)
  /\ breaker' = record_success(breaker)
  /\ admitted' = [admitted EXCEPT ![c] = "idle"]
  /\ UNCHANGED up

(* While the provider answers, a call can still fail through its own fault *)
(* (a 4xx) or in the caller's code.                                        *)
Raise(c, e) ==
  /\ Running(c)
  /\ up => e \in {"client_4xx", "not_api"}
  /\ breaker' = record_failure(breaker, e)
  /\ admitted' = [admitted EXCEPT ![c] = "idle"]
  /\ UNCHANGED up

(* asyncio.CancelledError is not an Exception: nothing is recorded. *)
Cancel(c) ==
  /\ Running(c)
  /\ admitted' = [admitted EXCEPT ![c] = "idle"]
  /\ UNCHANGED <<breaker, up>>

Tick ==
  /\ breaker' = Age(breaker)
  /\ UNCHANGED <<admitted, up>>

ProviderChange ==
  /\ up' = ~up
  /\ UNCHANGED <<breaker, admitted>>

Next ==
  \/ \E c \in Callers : Admit(c) \/ Return(c) \/ Cancel(c)
  \/ \E c \in Callers, e \in Error : Raise(c, e)
  \/ Tick
  \/ ProviderChange

Spec == Init /\ [][Next]_vars

(***************************************************************************)
(* Time passes, callers keep calling, and requests keep succeeding now and *)
(* then while calls are being let through (strong fairness: the provider   *)
(* answers some of infinitely many requests).                              *)
(***************************************************************************)
Fairness ==
  /\ WF_vars(Tick)
  /\ WF_vars(\E c \in Callers : Admit(c))
  /\ SF_vars(\E c \in Callers : Return(c))

FairSpec == Spec /\ Fairness

-------------------------------------------------------------------------------
(***************************************************************************)
(* Properties                                                              *)
(***************************************************************************)

(* The counters always explain the state, whatever calls were in flight    *)
(* when it changed: a tripped circuit has reached the threshold with       *)
(* failures that are all transient, a closed one has not, and a half-open  *)
(* one still lacks a success.  In particular one failed probe reopens the  *)
(* circuit, because entering HALF_OPEN keeps failure_count.                *)
CountsExplainState == Explained(breaker)

(* Fast-fail: once the circuit has tripped, no call reaches the provider   *)
(* for at least the shorter recovery timeout, whatever calls that were     *)
(* already running then return or raise.                                   *)
NoColdAdmission ==
  [][\A c \in Callers :
       breaker.state = "OPEN" /\ ~Running(c) /\ Running(c)' =>
         breaker.change_age >= MinTimeout]_vars

(* Recovery: once the provider stays up the circuit ends CLOSED for good,  *)
(* even if permanent faults keep arriving.                                 *)
Recovers == <>[]up => <>[](breaker.state = "CLOSED")
===============================================================================
