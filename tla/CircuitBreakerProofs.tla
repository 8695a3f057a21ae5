------------------------- MODULE CircuitBreakerProofs -------------------------
(***************************************************************************)
(* For any number of callers and any thresholds and timeouts: the breaker  *)
(* is well typed, its counters explain its state, and a tripped circuit    *)
(* admits no call before the shorter recovery timeout.                     *)
(*                                                                         *)
(* CountsExplainState is inductive together with TypeOK.  NoColdAdmission  *)
(* needs one fact more: while the circuit is OPEN its last failure is not  *)
(* older than its last change of state (BreakerInv).                       *)
(***************************************************************************)
EXTENDS CircuitBreaker, BreakerOpsProofs

IInv == TypeOK /\ BreakerInv(breaker)

(* The specification. *)

LEMMA InitInv == Init => IInv
  BY NewBreakerInv DEF Init, IInv, TypeOK, BreakerInv, CircuitState

LEMMA AdmitInv ==
  ASSUME IInv, NEW c \in Callers, Admit(c)
  PROVE  IInv'
<1>1. BreakerInv(check_recovery(breaker))
  BY CheckRecoveryInv DEF IInv
<1>2. check_recovery(breaker).state \in CircuitState
  BY <1>1 DEF BreakerInv, Breaker
<1>. QED
  BY <1>1, <1>2 DEF IInv, TypeOK, BreakerInv, Admit

LEMMA NextInv == IInv /\ [Next]_vars => IInv'
<1> SUFFICES ASSUME IInv, [Next]_vars PROVE IInv'
  OBVIOUS
<1>0. BreakerInv(breaker) /\ TypeOK
  BY DEF IInv
<1>1. ASSUME NEW c \in Callers, Admit(c) PROVE IInv'
  BY <1>1, AdmitInv
<1>2. ASSUME NEW c \in Callers, Return(c) PROVE IInv'
  BY <1>0, <1>2, RecordSuccessInv DEF IInv, TypeOK, BreakerInv, Return
<1>3. ASSUME NEW c \in Callers, NEW e \in Error, Raise(c, e) PROVE IInv'
  BY <1>0, <1>3, RecordFailureInv DEF IInv, TypeOK, BreakerInv, Raise
<1>4. ASSUME NEW c \in Callers, Cancel(c) PROVE IInv'
  BY <1>0, <1>4 DEF IInv, TypeOK, BreakerInv, Cancel
<1>5. CASE Tick
  BY <1>0, <1>5, AgeInv DEF IInv, TypeOK, BreakerInv, Tick
<1>6. CASE ProviderChange
  BY <1>0, <1>6 DEF IInv, TypeOK, BreakerInv, ProviderChange
<1>7. CASE UNCHANGED vars
  BY <1>0, <1>7 DEF IInv, TypeOK, BreakerInv, vars
<1>. QED
  BY <1>1, <1>2, <1>3, <1>4, <1>5, <1>6, <1>7 DEF Next

(* The breaker and the callers' calls stay within their types. *)
THEOREM TypeCorrect == Spec => []TypeOK
<1>1. IInv => TypeOK
  BY DEF IInv
<1>. QED
  BY <1>1, InitInv, NextInv, PTL DEF Spec

(* In every state the counters explain the state of the circuit: it is not *)
(* CLOSED exactly when transient failures have reached the threshold, and  *)
(* a half-open circuit still lacks a success.                              *)
THEOREM CountsExplainStateAlways == Spec => []CountsExplainState
<1>1. IInv => CountsExplainState
  BY DEF IInv, BreakerInv, CountsExplainState
<1>. QED
  BY <1>1, InitInv, NextInv, PTL DEF Spec

(* A tripped circuit sends nothing to the provider before the shorter      *)
(* recovery timeout, whatever the calls already running do.                *)
THEOREM NeverAdmitsCold == Spec => NoColdAdmission
<1> DEFINE Cold ==
      \A c \in Callers :
        breaker.state = "OPEN" /\ ~Running(c) /\ Running(c)' =>
          breaker.change_age >= MinTimeout
<1>1. IInv /\ [Next]_vars => [Cold]_vars
  <2> SUFFICES ASSUME IInv, Next, NEW c \in Callers,
                      breaker.state = "OPEN", ~Running(c), Running(c)'
               PROVE  breaker.change_age >= MinTimeout
    BY DEF Cold
  <2>1. Admit(c)
    BY DEF Next, Admit, Return, Raise, Cancel, Tick, ProviderChange, Running, IInv, TypeOK
  <2>2. check_recovery(breaker).state # "OPEN"
    BY <2>1 DEF Admit
  <2>. QED
    BY <2>2, CheckRecoveryInv DEF IInv
<1>2. Spec => [][Cold]_vars
  BY <1>1, InitInv, NextInv, PTL DEF Spec
<1>. QED
  BY <1>2 DEF NoColdAdmission
===============================================================================
