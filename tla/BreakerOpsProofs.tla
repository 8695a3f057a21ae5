--------------------------- MODULE BreakerOpsProofs ---------------------------
(***************************************************************************)
(* What every operation of a breaker preserves, for any thresholds and     *)
(* timeouts: it stays a breaker whose counters explain its state, and      *)
(* whose last failure, while it is OPEN, is not older than its last change *)
(* of state.  CircuitBreakerProofs and LLMBrokerProofs rest on this.       *)
(***************************************************************************)
EXTENDS BreakerOps, TLAPS

BreakerInv(b) ==
  /\ b \in Breaker
  /\ Explained(b)
  /\ b.state = "OPEN" => b.failure_age <= b.change_age

LEMMA TimeoutFacts ==
  /\ MaxTimeout \in Nat
  /\ MinTimeout \in Nat
  /\ MinTimeout <= transient_recovery_timeout
  /\ MinTimeout <= permanent_recovery_timeout
  BY BreakerAssumption DEF MaxTimeout, MinTimeout

-------------------------------------------------------------------------------
(* The updates of a breaker: each returns a breaker, and sets the fields   *)
(* it names and no other.                                                  *)

LEMMA EnterFields ==
  ASSUME NEW b \in Breaker, NEW s \in CircuitState
  PROVE  /\ Enter(b, s) \in Breaker
         /\ Enter(b, s).state = s
         /\ Enter(b, s).change_age = 0
         /\ Enter(b, s).failure_age = b.failure_age
         /\ Enter(b, s).failure_count = b.failure_count
         /\ Enter(b, s).success_count = b.success_count
         /\ Enter(b, s).transient_failure_count = b.transient_failure_count
<1> DEFINE c == [b EXCEPT !.state = s]
<1>1. c \in Breaker
  BY SMT DEF Breaker
<1>2. [c EXCEPT !.change_age = 0] \in Breaker
  <2> HIDE DEF c
  <2>. QED BY <1>1, TimeoutFacts, SMT DEF Breaker
<1>3. Enter(b, s) = [c EXCEPT !.change_age = 0]
  BY SMT DEF Enter
<1>4. Enter(b, s) \in Breaker
  BY <1>2, <1>3
<1>. QED
  BY <1>4, SMT DEF Enter, Breaker

LEMMA NotedFields ==
  ASSUME NEW b \in Breaker, NEW e
  PROVE  /\ Noted(b, e) \in Breaker
         /\ Noted(b, e).failure_age = 0
         /\ Noted(b, e).change_age = b.change_age
         /\ Noted(b, e).state = b.state
         /\ Noted(b, e).failure_count = b.failure_count
         /\ Noted(b, e).success_count = b.success_count
         /\ Noted(b, e).transient_failure_count = b.transient_failure_count
<1> DEFINE c == [b EXCEPT !.last_fault_type = classify_fault(e)]
<1>0. classify_fault(e) \in FaultType
  BY DEF classify_fault, FaultType
<1>1. c \in Breaker
  BY <1>0, SMT DEF Breaker
<1>2. [c EXCEPT !.failure_age = 0] \in Breaker
  <2> HIDE DEF c
  <2>. QED BY <1>1, TimeoutFacts, SMT DEF Breaker
<1>3. Noted(b, e) = [c EXCEPT !.failure_age = 0]
  BY SMT DEF Noted
<1>4. Noted(b, e) \in Breaker
  BY <1>2, <1>3
<1>. QED
  BY <1>4, SMT DEF Noted, Breaker

LEMMA CountedFields ==
  ASSUME NEW b \in Breaker
  PROVE  /\ Counted(b) \in Breaker
         /\ Counted(b).transient_failure_count = CountUp(b.transient_failure_count)
         /\ Counted(b).failure_count = CountUp(b.failure_count)
         /\ Counted(b).state = b.state
         /\ Counted(b).success_count = b.success_count
         /\ Counted(b).failure_age = b.failure_age
         /\ Counted(b).change_age = b.change_age
<1> DEFINE c == [b EXCEPT !.transient_failure_count = CountUp(b.transient_failure_count)]
<1>0. /\ CountUp(b.transient_failure_count) \in 0 .. CounterCap
      /\ CountUp(b.failure_count) \in 0 .. CounterCap
  BY BreakerAssumption DEF Breaker, CountUp
<1>1. c \in Breaker
  BY <1>0, SMT DEF Breaker
<1>2. [c EXCEPT !.failure_count = CountUp(b.failure_count)] \in Breaker
  <2> HIDE DEF c
  <2>. QED BY <1>0, <1>1, SMT DEF Breaker
<1>3. Counted(b) = [c EXCEPT !.failure_count = CountUp(b.failure_count)]
  BY SMT DEF Counted
<1>4. Counted(b) \in Breaker
  BY <1>2, <1>3
<1>. QED
  BY <1>4, SMT DEF Counted, Breaker

LEMMA AgeFields ==
  ASSUME NEW b \in Breaker
  PROVE  /\ Age(b) \in Breaker
         /\ Age(b).failure_age = Older(b.failure_age)
         /\ Age(b).change_age = Older(b.change_age)
         /\ Age(b).state = b.state
         /\ Age(b).failure_count = b.failure_count
         /\ Age(b).success_count = b.success_count
         /\ Age(b).transient_failure_count = b.transient_failure_count
<1> DEFINE c == [b EXCEPT !.failure_age = Older(b.failure_age)]
<1>0. /\ Older(b.failure_age) \in 0 .. MaxTimeout
      /\ Older(b.change_age) \in 0 .. MaxTimeout
  BY TimeoutFacts DEF Breaker, Older
<1>1. c \in Breaker
  BY <1>0, SMT DEF Breaker
<1>2. [c EXCEPT !.change_age = Older(b.change_age)] \in Breaker
  <2> HIDE DEF c
  <2>. QED BY <1>0, <1>1, SMT DEF Breaker
<1>3. Age(b) = [c EXCEPT !.change_age = Older(b.change_age)]
  BY SMT DEF Age
<1>4. Age(b) \in Breaker
  BY <1>2, <1>3
<1>. QED
  BY <1>4, SMT DEF Age, Breaker

-------------------------------------------------------------------------------
(* BreakerInv holds of a new breaker and is kept by every operation. *)

LEMMA NewBreakerInv == BreakerInv(NewBreaker)
  BY BreakerAssumption, TimeoutFacts
     DEF BreakerInv, Breaker, Explained, NewBreaker, CircuitState, FaultType

LEMMA ClosedInv ==
  ASSUME NEW b, BreakerInv(b)
  PROVE  /\ BreakerInv(set_state(b, "CLOSED"))
         /\ set_state(b, "CLOSED").state = "CLOSED"
<1>1. b.failure_age \in 0 .. MaxTimeout
  BY DEF BreakerInv, Breaker
<1>2. set_state(b, "CLOSED") = [NewBreaker EXCEPT !.failure_age = b.failure_age]
  BY DEF set_state
<1>3. [NewBreaker EXCEPT !.failure_age = b.failure_age] \in Breaker
  BY <1>1, NewBreakerInv, SMT DEF BreakerInv, Breaker
<1>. QED
  BY <1>2, <1>3, BreakerAssumption, SMT DEF BreakerInv, Explained, NewBreaker

LEMMA HalfOpenInv ==
  ASSUME NEW b, BreakerInv(b), b.state = "OPEN"
  PROVE  /\ BreakerInv(set_state(b, "HALF_OPEN"))
         /\ set_state(b, "HALF_OPEN").state = "HALF_OPEN"
<1> DEFINE c == Enter(b, "HALF_OPEN")
<1>1. /\ c \in Breaker
      /\ c.state = "HALF_OPEN"
      /\ c.failure_count = b.failure_count
      /\ c.transient_failure_count = b.transient_failure_count
  BY EnterFields DEF BreakerInv, CircuitState
<1>2. set_state(b, "HALF_OPEN") = [c EXCEPT !.success_count = 0]
  BY DEF set_state
<1> DEFINE h == [c EXCEPT !.success_count = 0]
<1> HIDE DEF c
<1>3. h \in Breaker
  BY <1>1, BreakerAssumption, SMT DEF Breaker
<1>4. /\ h.state = "HALF_OPEN"
      /\ h.success_count = 0
      /\ h.failure_count = b.failure_count
      /\ h.transient_failure_count = b.transient_failure_count
  BY <1>1, SMT DEF Breaker
<1> HIDE DEF h
<1>5. BreakerInv(h)
  BY <1>3, <1>4, BreakerAssumption, SMT DEF BreakerInv, Explained
<1>. QED
  BY <1>2, <1>4, <1>5 DEF h

(* _check_recovery: a breaker that leaves OPEN has been OPEN long enough. *)
LEMMA CheckRecoveryInv ==
  ASSUME NEW b, BreakerInv(b)
  PROVE  /\ BreakerInv(check_recovery(b))
         /\ b.state = "OPEN" /\ check_recovery(b).state # "OPEN" =>
              b.change_age >= MinTimeout
<1>1. CASE ~(b.state = "OPEN" /\ b.failure_age >= get_recovery_timeout(b))
  BY <1>1 DEF check_recovery
<1>2. CASE b.state = "OPEN" /\ b.failure_age >= get_recovery_timeout(b)
  <2>1. get_recovery_timeout(b) \in Nat /\ get_recovery_timeout(b) >= MinTimeout
    BY BreakerAssumption, TimeoutFacts DEF get_recovery_timeout
  <2>2. b.failure_age \in Nat /\ b.change_age \in Nat /\ b.failure_age <= b.change_age
    BY <1>2, TimeoutFacts DEF BreakerInv, Breaker
  <2>3. b.change_age >= MinTimeout
    BY <1>2, <2>1, <2>2, TimeoutFacts
  <2>. QED
    BY <1>2, <2>3, HalfOpenInv DEF check_recovery
<1>. QED
  BY <1>1, <1>2

LEMMA RecordSuccessInv ==
  ASSUME NEW b, BreakerInv(b)
  PROVE  BreakerInv(record_success(b))
<1>1. CASE b.state = "HALF_OPEN" /\ b.success_count + 1 >= success_threshold
  BY <1>1, ClosedInv DEF record_success
<1>2. CASE b.state = "HALF_OPEN" /\ ~(b.success_count + 1 >= success_threshold)
  <2>1. record_success(b) = [b EXCEPT !.success_count = b.success_count + 1]
    BY <1>2 DEF record_success
  <2>2. b.success_count + 1 \in 0 .. success_threshold
    BY <1>2, BreakerAssumption DEF BreakerInv, Breaker
  <2>3. [b EXCEPT !.success_count = b.success_count + 1] \in Breaker
    BY <2>2, SMT DEF BreakerInv, Breaker
  <2>. QED
    BY <1>2, <2>1, <2>2, <2>3, BreakerAssumption, SMT DEF BreakerInv, Breaker, Explained
<1>3. CASE b.state = "CLOSED"
  <2>1. record_success(b) = [b EXCEPT !.failure_count = 0]
    BY <1>3 DEF record_success
  <2>2. [b EXCEPT !.failure_count = 0] \in Breaker
    BY BreakerAssumption, SMT DEF BreakerInv, Breaker
  <2>. QED
    BY <1>3, <2>1, <2>2, BreakerAssumption, SMT DEF BreakerInv, Breaker, Explained
<1>4. CASE b.state \notin {"HALF_OPEN", "CLOSED"}
  BY <1>4 DEF record_success
<1>. QED
  BY <1>1, <1>2, <1>3, <1>4

(* A fault that counts trips the circuit exactly when it reaches the       *)
(* threshold, and leaves the circuit in its state otherwise.               *)
LEMMA CountedFaultInv ==
  ASSUME NEW b, BreakerInv(b), NEW e
  PROVE  BreakerInv(open_if_exhausted(Counted(Noted(b, e))))
<1> DEFINE n == Noted(b, e)
           c == Counted(n)
<1>1. b \in Breaker
  BY DEF BreakerInv
<1>2. /\ n \in Breaker
      /\ n.failure_age = 0 /\ n.state = b.state
      /\ n.failure_count = b.failure_count
      /\ n.success_count = b.success_count
      /\ n.transient_failure_count = b.transient_failure_count
  BY <1>1, NotedFields
<1> HIDE DEF n
<1>3. /\ c \in Breaker
      /\ c.failure_age = 0 /\ c.state = b.state
      /\ c.failure_count = CountUp(b.failure_count)
      /\ c.success_count = b.success_count
      /\ c.transient_failure_count = CountUp(b.transient_failure_count)
  BY <1>2, CountedFields
<1> HIDE DEF c
<1>4. /\ c.failure_count <= c.transient_failure_count
      /\ b.failure_count <= c.failure_count
      /\ c.change_age \in Nat
      /\ {b.failure_count, c.failure_count} \subseteq Nat
  BY <1>1, <1>3, BreakerAssumption, TimeoutFacts DEF BreakerInv, Breaker, Explained, CountUp
<1>5. CASE c.failure_count >= transient_failure_threshold
  <2> DEFINE o == Enter(c, "OPEN")
  <2>1. open_if_exhausted(c) = o
    BY <1>5 DEF open_if_exhausted, set_state
  <2>2. /\ o \in Breaker
        /\ o.state = "OPEN" /\ o.change_age = 0 /\ o.failure_age = 0
        /\ o.failure_count = c.failure_count
        /\ o.transient_failure_count = c.transient_failure_count
    BY <1>3, EnterFields DEF CircuitState
  <2> HIDE DEF o
  <2>3. BreakerInv(o)
    BY <1>4, <1>5, <2>2, BreakerAssumption, SMT DEF BreakerInv, Explained
  <2>. QED
    BY <2>1, <2>3 DEF c, n
<1>6. CASE ~(c.failure_count >= transient_failure_threshold)
  <2>1. open_if_exhausted(c) = c
    BY <1>6 DEF open_if_exhausted
  <2>2. b.state = "CLOSED"
    BY <1>4, <1>6, BreakerAssumption, SMT DEF BreakerInv, Explained
  <2>3. BreakerInv(c)
    BY <1>3, <1>4, <1>6, <2>2, BreakerAssumption, SMT DEF BreakerInv, Explained
  <2>. QED
    BY <2>1, <2>3 DEF c, n
<1>. QED
  BY <1>5, <1>6

LEMMA RecordFailureInv ==
  ASSUME NEW b, BreakerInv(b), NEW e
  PROVE  BreakerInv(record_failure(b, e))
<1>1. CASE e \notin ApiError
  BY <1>1 DEF record_failure
<1>2. CASE e \in ApiError /\ classify_fault(e) = "PERMANENT"
  <2> DEFINE n == Noted(b, e)
             p == [n EXCEPT !.permanent_failure_count = CountUp(n.permanent_failure_count)]
  <2>1. /\ n \in Breaker
        /\ n.failure_age = 0 /\ n.change_age = b.change_age /\ n.state = b.state
        /\ n.failure_count = b.failure_count
        /\ n.success_count = b.success_count
        /\ n.transient_failure_count = b.transient_failure_count
    BY NotedFields DEF BreakerInv
  <2>2. record_failure(b, e) = p
    BY <1>2 DEF record_failure
  <2> HIDE DEF n
  <2>3. CountUp(n.permanent_failure_count) \in 0 .. CounterCap
    BY <2>1, BreakerAssumption DEF Breaker, CountUp
  <2>4. p \in Breaker
    BY <2>1, <2>3, SMT DEF Breaker
  <2>5. /\ p.failure_age = 0 /\ p.change_age = b.change_age /\ p.state = b.state
        /\ p.failure_count = b.failure_count
        /\ p.success_count = b.success_count
        /\ p.transient_failure_count = b.transient_failure_count
    BY <2>1, SMT DEF Breaker
  <2> HIDE DEF p
  <2>6. b.change_age \in Nat
    BY TimeoutFacts DEF BreakerInv, Breaker
  <2>. QED
    BY <2>2, <2>4, <2>5, <2>6, SMT DEF BreakerInv, Explained
<1>3. CASE e \in ApiError /\ classify_fault(e) # "PERMANENT"
  BY <1>3, CountedFaultInv DEF record_failure
<1>. QED
  BY <1>1, <1>2, <1>3

LEMMA AgeInv ==
  ASSUME NEW b, BreakerInv(b)
  PROVE  BreakerInv(Age(b))
<1>1. b \in Breaker /\ b.failure_age \in 0 .. MaxTimeout /\ b.change_age \in 0 .. MaxTimeout
  BY DEF BreakerInv, Breaker
<1>2. b.failure_age <= b.change_age => Older(b.failure_age) <= Older(b.change_age)
  BY <1>1, TimeoutFacts DEF Older
<1>. QED
  BY <1>1, <1>2, AgeFields, SMT DEF BreakerInv, Explained
===============================================================================
