------------------------------- MODULE LLMBroker -------------------------------
(***************************************************************************)
(* PromptBroker.call (bo1/llm/broker.py): calls that share the breakers of *)
(* the two LLM providers.  A call picks a provider once, retries rate      *)
(* limits and 5xx errors through that provider's breaker, and makes at     *)
(* most one last request to a fallback model or to the fallback provider.  *)
(*                                                                         *)
(* The locked sections of a breaker await nothing, so between the choice   *)
(* of a provider (or the check of the fallback's breaker) and the          *)
(* admission by its breaker no other call runs: they are one action.  The  *)
(* request itself and the sleep before a retry let other calls run.        *)
(*                                                                         *)
(* Both breakers have the same thresholds here; models, costs and the      *)
(* response cache are left out (a cached answer reaches no provider).      *)
(***************************************************************************)
EXTENDS BreakerOps

CONSTANTS
  Calls,                        \* tasks that call the broker, one call at a time
  max_retries,
  llm_primary_provider,
  llm_model_fallback_enabled

Provider == {"anthropic", "openai"}

ASSUME BrokerAssumption ==
  /\ max_retries \in Nat
  /\ llm_primary_provider \in Provider
  /\ llm_model_fallback_enabled \in BOOLEAN

VARIABLES
  breaker,     \* the CircuitBreaker of each provider
  stage,       \* where each call is
  provider,    \* the provider its requests go to
  attempt,     \* the loop variable of call()
  sent,        \* history: the requests it has sent
  up,          \* external: which providers answer
  llm_fallback_enabled   \* the setting, whichever it is

position == <<stage, provider, attempt, sent>>
environment == <<up, llm_fallback_enabled>>
vars == <<breaker, position, environment>>

(* Bound: sent, which the code does not keep, stops growing here. *)
SentCap == max_retries + 3

Requesting == {"calling", "model_fallback", "provider_fallback"}

(* How the last call ended ("returned" before the first): with an answer,  *)
(* an exception of a client or a breaker, a cancellation of the task, or   *)
(* "Service temporarily unavailable".                                      *)
Over == {"returned", "raised", "cancelled", "unavailable"}

TypeOK ==
  /\ breaker \in [Provider -> Breaker]
  /\ stage \in [Calls -> Requesting \cup Over \cup {"sleeping"}]
  /\ provider \in [Calls -> Provider]
  /\ attempt \in [Calls -> 0 .. max_retries]
  /\ sent \in [Calls -> 0 .. SentCap]
  /\ up \in [Provider -> BOOLEAN]
  /\ llm_fallback_enabled \in BOOLEAN

Init ==
  /\ breaker = [p \in Provider |-> NewBreaker]
  /\ stage = [c \in Calls |-> "returned"]
  /\ provider = [c \in Calls |-> llm_primary_provider]
  /\ attempt = [c \in Calls |-> 0]
  /\ sent = [c \in Calls |-> 0]
  /\ up \in [Provider -> BOOLEAN]
  /\ llm_fallback_enabled \in BOOLEAN

-------------------------------------------------------------------------------
fallback_provider == IF llm_primary_provider = "anthropic" THEN "openai" ELSE "anthropic"

get_active_llm_provider ==
  IF /\ breaker[llm_primary_provider].state = "OPEN"
     /\ llm_fallback_enabled
     /\ breaker[fallback_provider].state # "OPEN"
    THEN fallback_provider ELSE llm_primary_provider

_is_retryable(e) == e \in {"overloaded_529", "unavailable_503", "server_5xx"}

(* c leaves the broker: its local variables are gone. *)
Leave(c, how) ==
  /\ stage' = [stage EXCEPT ![c] = how]
  /\ provider' = [provider EXCEPT ![c] = llm_primary_provider]
  /\ attempt' = [attempt EXCEPT ![c] = 0]
  /\ sent' = [sent EXCEPT ![c] = 0]

(* Given the breakers brs, c asks the breaker of p for admission and sends *)
(* its request in attempt n.                                               *)
Send(c, brs, p, where, n) ==
  LET b == check_recovery(brs[p])
  IN /\ b.state # "OPEN"
     /\ breaker' = [brs EXCEPT ![p] = b]
     /\ stage' = [stage EXCEPT ![c] = where]
     /\ provider' = [provider EXCEPT ![c] = p]
     /\ attempt' = [attempt EXCEPT ![c] = n]
     /\ sent' = [sent EXCEPT ![c] = IF @ < SentCap THEN @ + 1 ELSE @]

Refused(brs, p) == check_recovery(brs[p]).state = "OPEN"

(* Mutant: the wrong provider's breaker is looked at. *)
CanFallBack_wrong_breaker(brs) ==
  llm_fallback_enabled /\ brs[llm_primary_provider].state # "OPEN"
CanFallBack(brs) == llm_fallback_enabled /\ brs[fallback_provider].state # "OPEN"

(* _call_with_provider: one request, whatever becomes of it. *)
ProviderFallback(c, brs, n) ==
  /\ CanFallBack(brs)
  /\ Send(c, brs, fallback_provider, "provider_fallback", n)

(* An iteration of the retry loop, up to the request. *)
Try(c, p, n) ==
  \/ Send(c, breaker, p, "calling", n)
  \/ Refused(breaker, p) /\ ProviderFallback(c, breaker, n)
  \/ /\ Refused(breaker, p)
     /\ ~CanFallBack(breaker)
     /\ Leave(c, "unavailable")
     /\ UNCHANGED breaker

call(c) ==
  /\ stage[c] \in Over
  /\ Try(c, get_active_llm_provider, 0)
  /\ UNCHANGED environment

(* Mutant: the attempt is not counted. *)
Retry_uncounted(c) ==
  /\ stage[c] = "sleeping"
  /\ Try(c, provider[c], attempt[c])
  /\ UNCHANGED environment

Retry(c) ==
  /\ stage[c] = "sleeping"
  /\ Try(c, provider[c], attempt[c] + 1)
  /\ UNCHANGED environment

Return(c) ==
  /\ stage[c] \in Requesting
  /\ up[provider[c]]
  /\ breaker' = [breaker EXCEPT ![provider[c]] = record_success(@)]
  /\ Leave(c, "returned")
  /\ UNCHANGED environment

(* What a request can raise: the OpenAI client's exceptions are not        *)
(* anthropic's APIError.  A provider that answers still refuses a faulty   *)
(* request; one in an outage raises no client error.                       *)
Raises(p) ==
  IF p = "openai" THEN {"not_api"}
  ELSE IF up[p] THEN {"client_4xx", "not_api"}
  ELSE ApiError \ {"client_4xx"}

(* _call_with_model_fallback: one request to the next model of the same    *)
(* provider; its breaker may refuse it, which is raised as it is.          *)
ModelFallback(c, brs) ==
  \/ Send(c, brs, provider[c], "model_fallback", attempt[c])
  \/ Refused(brs, provider[c]) /\ Leave(c, "raised") /\ breaker' = brs

(* The except clauses of the retry loop, once the breaker has recorded e.  *)
Sleep(c, brs, e) ==
  /\ _is_retryable(e) \/ e = "rate_limit_429"
  /\ attempt[c] < max_retries
  /\ stage' = [stage EXCEPT ![c] = "sleeping"]
  /\ breaker' = brs
  /\ UNCHANGED <<provider, attempt, sent>>

TryModelFallback(c, brs, e) ==
  /\ attempt[c] = max_retries
  /\ e \in {"overloaded_529", "unavailable_503"}
  /\ llm_model_fallback_enabled
  /\ ModelFallback(c, brs)

(* No model fallback: it is disabled or not for e, or the request's model  *)
(* is the last of its chain.                                               *)
TryProviderFallback(c, brs, e) ==
  /\ attempt[c] = max_retries
  /\ _is_retryable(e)
  /\ ProviderFallback(c, brs, attempt[c])

Surrender(c, brs, e) ==
  /\ \/ e = "rate_limit_429" /\ attempt[c] = max_retries
     \/ e # "rate_limit_429" /\ ~_is_retryable(e)
     \/ _is_retryable(e) /\ attempt[c] = max_retries /\ ~CanFallBack(brs)
  /\ Leave(c, "raised")
  /\ breaker' = brs

Raise(c, e) ==
  LET brs == [breaker EXCEPT ![provider[c]] = record_failure(@, e)]
  IN /\ stage[c] = "calling"
     /\ e \in Raises(provider[c])
     /\ \/ Sleep(c, brs, e) \/ TryModelFallback(c, brs, e)
        \/ TryProviderFallback(c, brs, e) \/ Surrender(c, brs, e)
     /\ UNCHANGED environment

(* A fallback request gets no second chance.  Mutant: a failed model       *)
(* fallback goes on to the provider fallback.                              *)
FallbackRaise_chained(c, e) ==
  LET brs == [breaker EXCEPT ![provider[c]] = record_failure(@, e)]
  IN /\ stage[c] \in {"model_fallback", "provider_fallback"}
     /\ e \in Raises(provider[c])
     /\ IF stage[c] = "model_fallback" /\ CanFallBack(brs)
          THEN ProviderFallback(c, brs, attempt[c])
          ELSE Leave(c, "raised") /\ breaker' = brs
     /\ UNCHANGED environment

FallbackRaise(c, e) ==
  /\ stage[c] \in {"model_fallback", "provider_fallback"}
  /\ e \in Raises(provider[c])
  /\ breaker' = [breaker EXCEPT ![provider[c]] = record_failure(@, e)]
  /\ Leave(c, "raised")
  /\ UNCHANGED environment

(* The task is cancelled while it waits: no breaker records anything. *)
Cancel(c) ==
  /\ stage[c] \notin Over
  /\ Leave(c, "cancelled")
  /\ UNCHANGED <<breaker, environment>>

Tick ==
  /\ breaker' = [p \in Provider |-> Age(breaker[p])]
  /\ UNCHANGED <<position, environment>>

ProviderChange(p) ==
  /\ up' = [up EXCEPT ![p] = ~@]
  /\ UNCHANGED <<breaker, position, llm_fallback_enabled>>

Next ==
  \/ \E c \in Calls : call(c) \/ Retry(c) \/ Return(c) \/ Cancel(c)
  \/ \E c \in Calls, e \in Error : Raise(c, e) \/ FallbackRaise(c, e)
  \/ Tick
  \/ \E p \in Provider : ProviderChange(p)

Spec == Init /\ [][Next]_vars

(***************************************************************************)
(* A sleep ends, a client sees every request answered or timed out, calls  *)
(* keep being made, also in the minutes that a circuit stays open, and the *)
(* requests to a provider that answers are not all faulty.                 *)
(***************************************************************************)
Answered(c) == Return(c) \/ \E e \in Error : Raise(c, e) \/ FallbackRaise(c, e)

Fairness ==
  /\ WF_vars(Tick)
  /\ \A c \in Calls : WF_vars(Retry(c)) /\ WF_vars(Answered(c))
  /\ WF_vars(\E c \in Calls : call(c))
  /\ SF_vars(\E c \in Calls : call(c) /\ breaker[llm_primary_provider].state = "OPEN")
  /\ SF_vars(\E c \in Calls : Return(c))

FairSpec == Spec /\ Fairness

-------------------------------------------------------------------------------
(***************************************************************************)
(* Properties                                                              *)
(***************************************************************************)

(* Retries and fallbacks together are bounded, whatever the breakers and   *)
(* the other calls do meanwhile: at most one request per attempt, and one  *)
(* more to a fallback model or provider, never to both.                    *)
RequestsBounded == \A c \in Calls : sent[c] <= max_retries + 2

(* "Service temporarily unavailable" is raised only when no request could  *)
(* be sent at all: the primary's circuit is open and the fallback is open  *)
(* too or disabled, also when a circuit opened while the call was asleep   *)
(* between two attempts.                                                   *)
UnavailableMeansOpen ==
  [][\A c \in Calls :
       stage[c] # "unavailable" /\ stage'[c] = "unavailable" =>
         \A p \in Provider :
           p = llm_primary_provider \/ llm_fallback_enabled => breaker'[p].state = "OPEN"]_vars

(* Every call ends, whatever happens to its retries and fallbacks. *)
EveryCallEnds == \A c \in Calls : stage[c] \notin Over ~> stage[c] \in Over

(* Failover: through a lasting outage of the primary, of whatever kind     *)
(* (429s and timeouts are never handed to the fallback directly, they only *)
(* trip the circuit), calls that are not cancelled keep being answered if  *)
(* the fallback is up.                                                     *)
Uncancelled == <>[][\A c \in Calls : ~Cancel(c)]_vars
LastingOutage == llm_fallback_enabled /\ <>[](up[fallback_provider] /\ ~up[llm_primary_provider])

FailsOver ==
  LastingOutage /\ Uncancelled =>
    []<><<\E c \in Calls : Return(c) /\ provider[c] = fallback_provider>>_vars
===============================================================================
