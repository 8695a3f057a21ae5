---------------------------- MODULE LLMBrokerProofs ----------------------------
(***************************************************************************)
(* For any number of calls, any retry policy, thresholds and timeouts, and *)
(* either primary provider: the broker is well typed, a call sends at most *)
(* max_retries + 2 requests, and one that is told that the service is      *)
(* unavailable found every circuit it may use open.                        *)
(*                                                                         *)
(* The inductive invariant counts the requests against the attempt         *)
(* (Spent), and says who can be asleep: only a call to anthropic's client  *)
(* raises what is retried, and the breaker of openai never leaves CLOSED,  *)
(* because it records none of its client's exceptions (Healthy).           *)
(***************************************************************************)
EXTENDS LLMBroker, BreakerOpsProofs

Healthy(brs) ==
  /\ brs \in [Provider -> Breaker]
  /\ \A p \in Provider : BreakerInv(brs[p])
  /\ brs["openai"].state = "CLOSED"

Spent(c) ==
  /\ stage[c] \in Over => sent[c] = 0
  /\ stage[c] \in {"calling", "sleeping"} => sent[c] <= attempt[c] + 1
  /\ sent[c] <= attempt[c] + 2
  /\ stage[c] = "sleeping" => attempt[c] < max_retries /\ provider[c] = llm_primary_provider
  /\ stage[c] = "calling" => provider[c] \in {llm_primary_provider, "openai"}

IInv ==
  /\ TypeOK
  /\ Healthy(breaker)
  /\ \A c \in Calls : Spent(c)

LEMMA ProviderFacts ==
  /\ max_retries \in Nat
  /\ llm_primary_provider \in Provider
  /\ fallback_provider \in Provider
  /\ llm_primary_provider # "openai" => fallback_provider = "openai"
  /\ \A p \in Provider : p = llm_primary_provider \/ p = fallback_provider
  BY BrokerAssumption DEF Provider, fallback_provider

-------------------------------------------------------------------------------
(* The operations of a breaker keep the pair of breakers healthy. *)

LEMMA ClosedStays ==
  ASSUME NEW b \in Breaker, b.state = "CLOSED"
  PROVE  /\ check_recovery(b) = b
         /\ record_success(b).state = "CLOSED"
         /\ record_failure(b, "not_api") = b
<1>1. check_recovery(b) = b
  BY DEF check_recovery
<1>2. record_success(b) = [b EXCEPT !.failure_count = 0]
  BY DEF record_success
<1>3. record_success(b).state = "CLOSED"
  BY <1>2, SMT DEF Breaker
<1>4. record_failure(b, "not_api") = b
  BY DEF record_failure, ApiError
<1>. QED
  BY <1>1, <1>3, <1>4

LEMMA RecoveryHealthy ==
  ASSUME NEW brs, Healthy(brs), NEW p \in Provider
  PROVE  Healthy([brs EXCEPT ![p] = check_recovery(brs[p])])
<1>1. BreakerInv(check_recovery(brs[p]))
  BY CheckRecoveryInv DEF Healthy
<1>2. p = "openai" => check_recovery(brs[p]) = brs[p]
  BY ClosedStays DEF Healthy
<1>3. check_recovery(brs[p]) \in Breaker
  BY <1>1 DEF BreakerInv
<1>. QED
  BY <1>1, <1>2, <1>3 DEF Healthy, Provider

LEMMA SuccessHealthy ==
  ASSUME NEW brs, Healthy(brs), NEW p \in Provider
  PROVE  Healthy([brs EXCEPT ![p] = record_success(brs[p])])
<1>1. BreakerInv(record_success(brs[p]))
  BY RecordSuccessInv DEF Healthy
<1>2. p = "openai" => record_success(brs[p]).state = "CLOSED"
  BY ClosedStays DEF Healthy
<1>3. record_success(brs[p]) \in Breaker
  BY <1>1 DEF BreakerInv
<1>. QED
  BY <1>1, <1>2, <1>3 DEF Healthy, Provider

LEMMA FailureHealthy ==
  ASSUME NEW brs, Healthy(brs), NEW p \in Provider, NEW e \in Raises(p)
  PROVE  Healthy([brs EXCEPT ![p] = record_failure(brs[p], e)])
<1>1. BreakerInv(record_failure(brs[p], e))
  BY RecordFailureInv DEF Healthy
<1>2. p = "openai" => record_failure(brs[p], e) = brs[p]
  BY ClosedStays DEF Healthy, Raises
<1>3. record_failure(brs[p], e) \in Breaker
  BY <1>1 DEF BreakerInv
<1>. QED
  BY <1>1, <1>2, <1>3 DEF Healthy, Provider

LEMMA AgeHealthy ==
  ASSUME NEW brs, Healthy(brs)
  PROVE  Healthy([p \in Provider |-> Age(brs[p])])
<1>1. ASSUME NEW p \in Provider
      PROVE  BreakerInv(Age(brs[p])) /\ Age(brs[p]) \in Breaker /\ Age(brs[p]).state = brs[p].state
  BY AgeInv, AgeFields DEF Healthy
<1>. QED
  BY <1>1 DEF Healthy, Provider

-------------------------------------------------------------------------------
(* What every branch of a step does: it sends a request or leaves. *)

LEMMA SendInv ==
  ASSUME IInv, NEW c \in Calls, NEW brs, Healthy(brs), NEW p \in Provider,
         NEW where \in Requesting, NEW n \in 0 .. max_retries,
         Send(c, brs, p, where, n), UNCHANGED environment,
         sent[c] <= n + 1,
         where = "calling" => sent[c] <= n /\ p \in {llm_primary_provider, "openai"}
  PROVE  IInv'
<1>1. Healthy(breaker')
  BY RecoveryHealthy DEF Send
<1>2. sent[c] \in 0 .. SentCap /\ SentCap \in Nat /\ sent'[c] \in 0 .. SentCap /\ sent'[c] <= n + 2
      /\ (where = "calling" => sent'[c] <= n + 1)
  BY ProviderFacts DEF IInv, TypeOK, Send, SentCap
<1>3. TypeOK'
  BY <1>1, <1>2 DEF IInv, TypeOK, Send, Healthy, environment, Requesting
<1>4. Spent(c)'
  BY <1>2, ProviderFacts DEF IInv, TypeOK, Send, Spent, Requesting, Over
<1>5. ASSUME NEW d \in Calls, d # c PROVE Spent(d)'
  BY <1>5 DEF IInv, TypeOK, Send, Spent
<1>. QED
  BY <1>1, <1>3, <1>4, <1>5 DEF IInv

LEMMA LeaveInv ==
  ASSUME IInv, NEW c \in Calls, Healthy(breaker'), NEW how \in Over,
         Leave(c, how), UNCHANGED environment
  PROVE  IInv'
<1>1. 0 \in 0 .. SentCap /\ 0 \in 0 .. max_retries
  BY ProviderFacts DEF SentCap
<1>2. TypeOK'
  BY <1>1, ProviderFacts DEF IInv, TypeOK, Leave, Healthy, environment
<1>3. Spent(c)'
  BY ProviderFacts DEF IInv, TypeOK, Leave, Spent, Over
<1>4. ASSUME NEW d \in Calls, d # c PROVE Spent(d)'
  BY <1>4 DEF IInv, TypeOK, Leave, Spent
<1>. QED
  BY <1>2, <1>3, <1>4 DEF IInv

LEMMA SleepInv ==
  ASSUME IInv, NEW c \in Calls, NEW brs, Healthy(brs), NEW e \in Raises(provider[c]),
         stage[c] = "calling", Sleep(c, brs, e), UNCHANGED environment
  PROVE  IInv'
<1>1. provider[c] # "openai"
  BY DEF Sleep, Raises, _is_retryable
<1>2. TypeOK'
  BY DEF IInv, TypeOK, Sleep, Healthy, environment
<1>3. Spent(c)'
  BY <1>1 DEF IInv, TypeOK, Sleep, Spent, Over
<1>4. ASSUME NEW d \in Calls, d # c PROVE Spent(d)'
  BY <1>4 DEF IInv, TypeOK, Sleep, Spent
<1>. QED
  BY <1>2, <1>3, <1>4 DEF IInv, Sleep

LEMMA TryInv ==
  ASSUME IInv, NEW c \in Calls, NEW p \in {llm_primary_provider, "openai"},
         NEW n \in 0 .. max_retries, sent[c] <= n,
         Try(c, p, n), UNCHANGED environment
  PROVE  IInv'
<1>1. Healthy(breaker) /\ p \in Provider /\ fallback_provider \in Provider /\ sent[c] <= n + 1
  BY ProviderFacts DEF IInv, TypeOK, Provider, SentCap
<1>2. CASE Send(c, breaker, p, "calling", n)
  BY <1>1, <1>2, SendInv DEF Requesting
<1>3. CASE ProviderFallback(c, breaker, n)
  BY <1>1, <1>3, SendInv DEF Requesting, ProviderFallback
<1>4. CASE Leave(c, "unavailable") /\ UNCHANGED breaker
  BY <1>1, <1>4, LeaveInv DEF Over
<1>. QED
  BY <1>2, <1>3, <1>4 DEF Try

-------------------------------------------------------------------------------
(* The specification. *)

LEMMA InitInv == Init => IInv
<1> SUFFICES ASSUME Init PROVE IInv
  OBVIOUS
<1>1. BreakerInv(NewBreaker) /\ NewBreaker \in Breaker /\ NewBreaker.state = "CLOSED"
  BY NewBreakerInv DEF BreakerInv, NewBreaker
<1>2. Healthy(breaker)
  BY <1>1 DEF Init, Healthy, Provider
<1>. QED
  BY <1>2, ProviderFacts DEF Init, IInv, TypeOK, Healthy, Spent, Over, SentCap

LEMMA callInv ==
  ASSUME IInv, NEW c \in Calls, call(c)
  PROVE  IInv'
<1>1. get_active_llm_provider \in {llm_primary_provider, "openai"}
  BY ProviderFacts DEF get_active_llm_provider, IInv, Healthy
<1>2. sent[c] = 0 /\ 0 \in 0 .. max_retries
  BY ProviderFacts DEF call, IInv, Spent
<1>. QED
  BY <1>1, <1>2, TryInv DEF call

LEMMA RetryInv ==
  ASSUME IInv, NEW c \in Calls, Retry(c)
  PROVE  IInv'
<1>1. /\ provider[c] = llm_primary_provider
      /\ attempt[c] + 1 \in 0 .. max_retries
      /\ sent[c] <= attempt[c] + 1
  BY ProviderFacts DEF Retry, IInv, TypeOK, Spent
<1>. QED
  BY <1>1, TryInv DEF Retry

LEMMA RaiseInv ==
  ASSUME IInv, NEW c \in Calls, NEW e \in Error, Raise(c, e)
  PROVE  IInv'
<1> DEFINE brs == [breaker EXCEPT ![provider[c]] = record_failure(breaker[provider[c]], e)]
<1>1. /\ provider[c] \in Provider
      /\ attempt[c] \in 0 .. max_retries
      /\ sent[c] <= attempt[c] + 1
      /\ stage[c] = "calling" /\ e \in Raises(provider[c])
      /\ UNCHANGED environment
  BY DEF IInv, TypeOK, Spent, Raise
<1>2. Healthy(brs)
  BY <1>1, FailureHealthy DEF IInv
<1>3. \/ Sleep(c, brs, e) \/ TryModelFallback(c, brs, e)
      \/ TryProviderFallback(c, brs, e) \/ Surrender(c, brs, e)
  BY DEF Raise
<1> HIDE DEF brs
<1>4. CASE Sleep(c, brs, e)
  BY <1>1, <1>2, <1>4, SleepInv
<1>5. CASE TryModelFallback(c, brs, e)
  <2>1. CASE Send(c, brs, provider[c], "model_fallback", attempt[c])
    BY <1>1, <1>2, <2>1, SendInv DEF Requesting
  <2>2. CASE Leave(c, "raised") /\ breaker' = brs
    BY <1>1, <1>2, <2>2, LeaveInv DEF Over
  <2>. QED
    BY <1>5, <2>1, <2>2 DEF TryModelFallback, ModelFallback
<1>6. CASE TryProviderFallback(c, brs, e)
  <2>1. Send(c, brs, fallback_provider, "provider_fallback", attempt[c])
    BY <1>6 DEF TryProviderFallback, ProviderFallback
  <2>. QED
    BY <1>1, <1>2, <2>1, SendInv, ProviderFacts DEF Requesting
<1>7. CASE Surrender(c, brs, e)
  BY <1>1, <1>2, <1>7, LeaveInv DEF Surrender, Over
<1>. QED
  BY <1>3, <1>4, <1>5, <1>6, <1>7

LEMMA NextInv == IInv /\ [Next]_vars => IInv'
<1> SUFFICES ASSUME IInv, [Next]_vars PROVE IInv'
  OBVIOUS
<1>0. Healthy(breaker) /\ provider \in [Calls -> Provider]
  BY DEF IInv, TypeOK
<1>1. ASSUME NEW c \in Calls, call(c) PROVE IInv'
  BY <1>1, callInv
<1>2. ASSUME NEW c \in Calls, Retry(c) PROVE IInv'
  BY <1>2, RetryInv
<1>3. ASSUME NEW c \in Calls, Return(c) PROVE IInv'
  <2>1. Healthy(breaker')
    BY <1>0, <1>3, SuccessHealthy DEF Return
  <2>. QED
    BY <1>3, <2>1, LeaveInv DEF Return, Over
<1>4. ASSUME NEW c \in Calls, Cancel(c) PROVE IInv'
  BY <1>0, <1>4, LeaveInv DEF Cancel, Over
<1>5. ASSUME NEW c \in Calls, NEW e \in Error, Raise(c, e) PROVE IInv'
  BY <1>5, RaiseInv
<1>6. ASSUME NEW c \in Calls, NEW e \in Error, FallbackRaise(c, e) PROVE IInv'
  <2>1. Healthy(breaker')
    BY <1>0, <1>6, FailureHealthy DEF FallbackRaise
  <2>. QED
    BY <1>6, <2>1, LeaveInv DEF FallbackRaise, Over
<1>7. CASE Tick
  <2>1. Healthy(breaker')
    BY <1>0, <1>7, AgeHealthy DEF Tick
  <2>. QED
    BY <1>7, <2>1 DEF Tick, IInv, TypeOK, Healthy, Spent, position, environment
<1>8. ASSUME NEW p \in Provider, ProviderChange(p) PROVE IInv'
  BY <1>8 DEF ProviderChange, IInv, TypeOK, Healthy, Spent, position
<1>9. CASE UNCHANGED vars
  BY <1>9 DEF vars, IInv, TypeOK, Healthy, Spent, position, environment
<1>. QED
  BY <1>1, <1>2, <1>3, <1>4, <1>5, <1>6, <1>7, <1>8, <1>9 DEF Next

(* Breakers, calls and counters stay within their types. *)
THEOREM TypeCorrect == Spec => []TypeOK
<1>1. IInv => TypeOK
  BY DEF IInv
<1>. QED
  BY <1>1, InitInv, NextInv, PTL DEF Spec

(* No interleaving of retries, fallbacks and breaker changes makes a call  *)
(* send more than max_retries + 2 requests.                                *)
THEOREM RequestsAlwaysBounded == Spec => []RequestsBounded
<1>1. IInv => RequestsBounded
  BY ProviderFacts DEF IInv, TypeOK, Spent, RequestsBounded
<1>. QED
  BY <1>1, InitInv, NextInv, PTL DEF Spec

(* "Service temporarily unavailable" is never raised while a circuit that  *)
(* the call may use would have admitted it.                                *)
THEOREM UnavailableOnlyWhenOpen == Spec => UnavailableMeansOpen
<1> DEFINE Justified ==
      \A c \in Calls :
        stage[c] # "unavailable" /\ stage'[c] = "unavailable" =>
          \A p \in Provider :
            p = llm_primary_provider \/ llm_fallback_enabled => breaker'[p].state = "OPEN"
<1>1. IInv /\ [Next]_vars => [Justified]_vars
  <2> SUFFICES ASSUME IInv, Next, NEW c \in Calls,
                      stage[c] # "unavailable", stage'[c] = "unavailable",
                      NEW p \in Provider, p = llm_primary_provider \/ llm_fallback_enabled
               PROVE  breaker'[p].state = "OPEN"
    BY DEF Justified
  <2>1. call(c) \/ Retry(c)
    <3>0. stage \in [Calls -> Requesting \cup Over \cup {"sleeping"}]
      BY DEF IInv, TypeOK
    <3>1. ASSUME NEW d \in Calls, call(d) \/ Retry(d), d # c PROVE FALSE
      BY <3>0, <3>1 DEF call, Retry, Try, ProviderFallback, Send, Leave
    <3>2. ASSUME NEW d \in Calls, Return(d) \/ Cancel(d) PROVE FALSE
      BY <3>0, <3>2 DEF Return, Cancel, Leave
    <3>3. ASSUME NEW d \in Calls, NEW e \in Error, Raise(d, e) PROVE FALSE
      BY <3>0, <3>3 DEF Raise, Sleep, TryModelFallback, ModelFallback, TryProviderFallback,
                        ProviderFallback, Surrender, Send, Leave
    <3>4. ASSUME NEW d \in Calls, NEW e \in Error, FallbackRaise(d, e) PROVE FALSE
      BY <3>0, <3>4 DEF FallbackRaise, Leave
    <3>5. ~Tick /\ \A x \in Provider : ~ProviderChange(x)
      BY DEF Tick, ProviderChange, position
    <3>. QED
      BY <3>1, <3>2, <3>3, <3>4, <3>5 DEF Next
  <2>2. PICK q \in {get_active_llm_provider, llm_primary_provider} :
          Refused(breaker, q) /\ ~CanFallBack(breaker) /\ UNCHANGED breaker
    <3>1. CASE call(c)
      BY <3>1 DEF call, Try, ProviderFallback, Send, IInv, TypeOK, Requesting
    <3>2. CASE Retry(c)
      BY <3>2 DEF Retry, Try, ProviderFallback, Send, IInv, TypeOK, Spent, Requesting
    <3>. QED
      BY <2>1, <3>1, <3>2
  <2>3. breaker[q].state = "OPEN"
    BY <2>2 DEF Refused, check_recovery
  <2>4. breaker[llm_primary_provider].state = "OPEN"
    BY <2>3 DEF get_active_llm_provider
  <2>5. p = fallback_provider => breaker[p].state = "OPEN" \/ ~llm_fallback_enabled
    BY <2>2 DEF CanFallBack
  <2>. QED
    BY <2>2, <2>4, <2>5, ProviderFacts
<1>2. Spec => [][Justified]_vars
  BY <1>1, InitInv, NextInv, PTL DEF Spec
<1>. QED
  BY <1>2 DEF UnavailableMeansOpen
===============================================================================
