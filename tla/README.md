# A verification development for Board of One

Board of One (`bo1/`, `backend/`, `frontend/`) runs *deliberations*: a user
states a problem, a LangGraph program decomposes it into sub-problems, lets a
panel of LLM personas discuss each in rounds under a facilitator, and
synthesises a recommendation. A FastAPI process (one uvicorn worker,
`backend/Dockerfile.prod:52`) runs each deliberation as a background task of its
event loop, keeps live metadata and checkpoints in Redis and the lasting record
in PostgreSQL, streams events to the browser, and calls LLM providers through a
broker with retries, fallbacks and circuit breakers.

This directory holds TLA+ models of the parts of that program whose correctness
depends on the order of steps, the TLC configurations that check them, and TLAPS
proofs of theorems about them for every value of their constants. Definitions
keep the names of the source; `PROJECT.json` gives the lines that each one
models. `PROJECT.json` also lists the hazards of the code, with the property
that covers each, or why none does yet.

Reproduce: `tlc -config X.cfg MCY.tla` for the runs listed below and
`tlapm ZProofs.tla` for the proofs.

## 1. The system

| Part | State | Operations | Interacts with | What is hard |
|---|---|---|---|---|
| **Circuit breaker** `bo1/llm/circuit_breaker.py` | per service: state, failure and success counters, time of the last failure and of the last change | `call` (async), `call_sync`, `_record_*`, `_check_recovery*`, `get_active_llm_provider` | wrapped around every provider request | the lock is not held during the request: outcomes arrive in a later state |
| **Storage breakers** `circuit_breaker_wrappers.py`, `database.py`, `researcher.py`, `embeddings.py` | the breakers named postgres, redis, brave, tavily, voyage | look at the state, run, record without the lock | the connection pool, the search and embedding services | unlocked read-modify-write; nobody runs the recovery check |
| **LLM broker** `bo1/llm/broker.py` | per call: provider, attempt, "fallback used" flags | `call`, `_call_with_provider`, `_call_with_model_fallback` | both LLM breakers; every graph node | nested retries and fallbacks, choices that are stale after a sleep |
| **Session registry** `bo1/graph/execution.py` | `active_executions`, `_session_start_times`, `_capacity_lock` | `start_session`, `kill_session`, `admin_kill_*`, `shutdown`, the wrapped execution | the endpoints above, Redis and PostgreSQL below, the graph inside | interleaving at each `await`; cancellation before, during and after a task |
| **Session control** `backend/api/control.py`, `sessions.py` | none of its own; a shared metadata cache (`session_cache.py`) | start, pause, resume, kill, retry, clarify, raise hand | registry, stores, checkpoints | stale metadata written back whole |
| **Event collector** `backend/api/event_collector.py` | counters per session | drives `graph.astream_events`, writes the final status | graph, publisher, stores | three writers of one status |
| **Events** `event_publisher.py`, `event_batcher.py`, `persistence_worker.py`, `streaming.py` | buffers, sequence counters, a retry queue and dead letters in Redis | publish, batch, flush, retry, replay | Redis pub/sub, PostgreSQL, the browser | loss, order, duplication |
| **Deliberation graph** `bo1/graph/` | `DeliberationGraphState` | nodes, routers, stopping rules | broker, registry, collector | counters and flags that live through several nodes and sub-problems |
| **Nested graphs** `bo1/graph/deliberation/`, `nodes/subproblems/` | a state per sub-problem, the readiness of each | own round loop, batches, speculative starts | graph | partial failure, dependents that start before their dependencies end |
| **Stores** `redis_manager.py`, `repositories/`, `redis_lock.py` | sessions, metadata, locks with expiry | load, save, lock | everything | two stores, expiry |

What makes each correct, in a sentence:

* a *breaker* lets nothing through while it is open and not yet due, closes only
  on evidence, opens in an outage, and recovers after it;
* the *broker* ends every call after a bounded number of requests, gives up only
  when nothing would take the call, and masks an outage of the primary provider;
* the *registry* knows every task that runs, stays within its capacity by ending
  the oldest, lets every start and kill finish, and leaves no session "running"
  when nothing runs;
* the *graph* respects the round limit, stops when told, and ends with one
  result for each sub-problem that rests on that sub-problem's own discussion;
* the *nested graphs* start a dependent when it has something to build on, are
  all over when their node is, and give all their results or none;
* *events* reach the record once each and in order, or are in the retry queue or
  the dead letters; the browser gets them in order and without gaps, whatever
  connections break;
* the *status* of a session says in both stores what became of it.

The rest of the repository - actions and projects, workspaces, datasets, SEO,
administration, jobs, the frontend, deployment - is listed in `PROJECT.json`
with the reason why it is left out: mostly handlers over single database rows,
whose concurrency is PostgreSQL's, or configuration.

## 2. The modules

| Module | Models | Composed of |
|---|---|---|
| `BreakerOps` | what one breaker does under its lock, as operators on a record | - |
| `CircuitBreaker` | callers of `CircuitBreaker.call` on one breaker | `BreakerOps` |
| `StorageBreaker` | the clients of the synchronous half | `BreakerOps` |
| `LLMBroker` | concurrent `PromptBroker.call`s over the breakers of both providers | `BreakerOps` |
| `SessionManager` | the registry, its tasks, killers and shutdown | - |
| `SessionStatus` | the status of one meeting: endpoints, collector and registry, two stores and a cache | - |
| `DeliberationGraph` | the top-level graph | - |
| `SubProblems` | its node `parallel_subproblems`, with the nested graphs | - |
| `EventLedger` | abstract: what the event machinery owes a meeting's replay | - |
| `EventPipeline` | publisher, batcher, retry worker, verification by the collector | implements `EventLedger` |
| `EventStream` | the stream of events to one browser | `EventPipeline` |
| `*Proofs` | theorems about the module of that name | `BreakerOpsProofs` is used by two others; `EventPipelineProofs` is about `EventStream`, too |
| `MC*` | instances for TLC | |

### BreakerOps, CircuitBreaker, StorageBreaker

A breaker is a record with the fields of the object. `last_failure_time` and
`last_state_change` are kept as *ages* that stop at the longer timeout, and
counters stop at `CounterCap`, which is at least the threshold: the code only
compares an age with a timeout and a counter with a threshold, so nothing it
decides is lost. `record_failure`, `record_success`, `check_recovery` and
`set_state` are the methods of these names, with their `_sync` twins where they
differ (fault classification, timeout). An exception is a member of `Error`, as
far as `classify_fault` tells exceptions apart.

In `CircuitBreaker` an action is a section under the lock: `Admit` (recovery
check and admission), `Return` and `Raise` (the record of the outcome); between
them other callers, time (`Tick`) and the provider (`up`) move. `Cancel` is an
`asyncio.CancelledError`, which `except Exception` does not see. A refused call
changes nothing and is a stuttering step.

In `StorageBreaker` the record of an unlocked client is two steps, the read
(`FinishOperation` remembers in `seen` what it saw) and the write
(`record_db_success`, `record_db_failure`), so that two threads may overwrite
each other; clients of `call_sync` take the lock. `Check` is the look at
`breaker.state` with which every client begins.

### LLMBroker

A call is at one of: making a request (`calling`), asleep before the next
attempt, in a fallback request, or over. The choice of the provider and the
admission by its breaker contain no `await`, so they are one action (`Try`).
`Raise` holds the `except` clauses: `Sleep`, `TryModelFallback`,
`TryProviderFallback`, `Surrender`, with the guards of the code. What a client
can raise depends on the provider: the exceptions of the OpenAI client are not
`anthropic.APIError`s, so its breaker records nothing and the loop does not
retry (`Raises`). `llm_fallback_enabled` is chosen in the initial state;
`sent` is a history variable. `call_with_validation`, tokens, costs and the
response cache are left out.

### SessionManager

An action is the code between two `await`s of one coroutine. A task is named by
the request that started it, so two tasks of one session can be told apart. A
request passes the check of the endpoint (`start`, or `resume`, which awaits the
checkpointer after its check), queues for the lock, evicts if the registry is
full (`grace`, `awaiting`) and registers. `asyncio.Task.cancel` is modelled by
what it does in each phase of a task (`AfterCancel`): a task cancelled before its
first step (`stillborn`) ends without the `finally` block, so its start time
stays behind. Status writes go to Redis (`status`) and PostgreSQL (`db_status`),
which refuses what its check constraint does not list (`Synced`).

### SessionStatus

One meeting, and everybody who writes what became of it. `redis` is its
metadata, `row` its row in PostgreSQL, `cached` the dictionary in
`SessionMetadataCache`. The cache gives every request the *same* dictionary, so
`heap` holds the dictionaries that somebody still refers to: an endpoint changes
one and saves the whole of it (`pause_deliberation`, `ClarificationSaved`,
`ConstraintsSaved`), some after they have waited, while `wrapped_execution` and
the collector merge a status into what Redis holds and leave the cache as it is.
Each save of metadata also writes the phase through to the row (`DualWrite`), and
`UpdateStatus` refuses "completed" for a row that waits for an answer. Endpoints
are steps up to the point where they really suspend (`Suspend`); a request that
has suspended is in `request`. Tasks run, ask (the collector has seen a
clarification), end in the four ways of the collector, or are cancelled. A step
whose PostgreSQL writes fail, and the death of the process, are the faults.

Two history variables name what the code does not prevent: `overlapped` (a task
was started while a resume, kill, delete or terminate that had looked earlier was
under way) and `stray` (`update_constraints` saved an older status over a newer
one).

### DeliberationGraph

`next` is the node LangGraph runs next, `state` the fields of
`DeliberationGraphState` that guards, routers and stopping rules read. A node is
one action: LangGraph merges its return value and checkpoints it as one step.
A sub-problem is named by its index: the ids that a model gives them are taken
to be distinct, which the code does not check (`subproblem_transition.py:98`
looks for a result with the id of the current one, and would pass over a
sub-problem whose id another one has).
What a model answers - the facilitator's action, a convergence score, whether
the budget is now spent - is any value the code accepts, after the code's own
overrides (`_validate_and_override_decision`, `evaluate`). A contribution is
kept as the sub-problem it is about, its round, and whether an expert or the
moderator made it; a result as its `sub_problem_id` and the sub-problems its
discussion was about (`drawn_from`). `raise_hand` writes the flag to the
checkpoint of a run that keeps its state in memory, so it reaches the run or is
lost. `Raise` is an exception in a node. With several sub-problems and no
circular dependency the code goes to `parallel_subproblems`, which is one step
here: a result for each sub-problem, in the order of the batches and without its
name (see `ResultsComplete`), or an exception.

### SubProblems

That step in full. `plan` is chosen in the initial state: the dependencies, any
that `topological_batch_sort` can sort, the mode, the round limits and
`EARLY_START_THRESHOLD`. In batches a gather runs those that depend on nothing
that remains; speculatively all start in one gather and a dependent waits for
the ready events of those of its dependencies that are registered when it looks,
which are those with a smaller index (`Awaited`). A node of a nested graph is
one action of its sub-problem `i`, and sub-problems interleave. The executor
listens to the events of the nested graph: the convergence check reports the
rounds held, "voting_started" one more (`VotingStarted`); either may make the
sub-problem `ready`. `final_state` is what the executor keeps of the stream.
`NodeRaises` ends one discussion; `GatherEnds` waits for all of them.

### EventLedger, EventPipeline, EventStream

`EventLedger` is the promise: an event is unpublished, pending, kept, dead or
lost, moves only forward, and is lost only in a step in which something fails.

`EventPipeline` follows an event from `publish_event` through the Redis list and
channel, the persistence task, the batcher's buffer or, when it is critical, its
immediate save, the sorted set of failed events and the dead letters. One event
loop runs everything and the Redis and PostgreSQL clients block it, so a handler
is one step, except the retry worker, between whose calls the process may die
(`retry_event`, `RemoveEntry`, `Reschedule`). Each call of a service may fail at
the price of one of `MaxFaults`; `Crash` empties the memory of the process and
leaves the stores.

A call of PostgreSQL is what `save_event` or `save_events_batch` does with the
retries of `retry_db` around it: up to `MAX_ATTEMPTS` attempts, each refused,
committed, or committed without an acknowledgement, in which case `conn.commit()`
raises and the attempt is repeated. `Calls` says what comes of it: how often the
rows were committed and whether the call returned. It may raise though it has
stored the rows, and return after it has stored them several times; both cost a
fault (`faults.ack`, `Unsure`). `Flushes` is `_flush_locked`: one call for the
batch (`Batch`) or, when that raises, another for each event (`Fallback`).
`Insert` has no conflict to find, because the unique key contains the time of
the insertion, so it adds a row each time (`copy`). `retry_event` and
`SaveAtOnce`, the immediate save of a critical event, make such calls, too.

`HandleCompletion` (with the cost breakdown and the warning of unusual costs that
it may publish), `Verify`, `Recount`, `Warn` and `VerifyFails` are the end of a
meeting in the collector; `Verify` may also fail at its first count.

`EventStream` adds a browser: connection (`Connect`), replay of what it missed
(`Replay`, from the list in Redis or from the table), the channel (`SendHeard`),
polling when Redis is down (`RedisError`, `Poll`, `SendPolled`) and the loss of
the connection. The generator may be interrupted wherever it yields, so each
event sent is a step. `behind` and `since` are history variables: the first
connection whose replay came out of the table and lacked an event of the list,
because the table lags behind the channel; what was published before the browser
first connected. The stream is that of an administrator, who sees every event.
For anybody else `strip_cost_data` withholds the events about costs and does not
note their numbers, so for them "event" means one that is shown: what is withheld
changes the order of nothing else, and no gap is claimed about it.

## 3. What the runs check

Sizes are distinct states; each run takes at most about two and a half minutes
with two workers.

| Run | Checks | Bounds and why they are enough |
|---|---|---|
| `CircuitBreaker` (6 700) | `CountsExplainState`: the counters explain the state, whatever was in flight. `NoColdAdmission`: nobody is admitted out of OPEN before the shorter timeout. `Recovers`: a provider that stays up ends CLOSED for good. | Two callers: one acts while the other's call is in flight. Thresholds 2, so that a counter can be halfway; two different timeouts. |
| `LLMBroker` (101 880) | `RequestsBounded`, `UnavailableMeansOpen`; liveness `EveryCallEnds`, `FailsOver` | Two calls, one retry: a call sleeps while the other opens the circuit. Threshold 2, one success closes. `sent` stops one above the bound it is checked against. |
| `SessionManager` (289 052) | `TypeOK`, `Covered`, `OneEvictor`, `Settled`; liveness `StartServed`, `KillReturns` | Room for one, so that each start evicts; three requests for two sessions give a second start of a session, an eviction and a waiter at once; one killer, one shutdown. |
| `SessionStatus` (2 260 738) | `RunningHasTask`, `FinalMeansStopped`, `OneTask`, `StoresAgree` | Two requests of any kind at a time beside the tasks, and any number one after the other; two tasks alive at once; one failure of PostgreSQL or one crash. `Orderly` stops the search where a cause named below has already struck; the theorems need no such limit. Requests are symmetric (safety only). |
| `DeliberationGraph` (547 014) | `TypeOK`, `RoundsWithinLimit`, `SilentAfterStop`, `ResultsGrounded`, `EndsComplete`; liveness `Ends` | Three sub-problems: a first, a middle and a last one. Every limit the assessor may set (3 to 6). One raised hand. |
| `SubProblems` (851 106) | `InformedStart`, `Joined`, `OneResultEach`; liveness `EndsWithoutTimeout` | Three sub-problems have chains, forks and joins of dependencies, in any order of their indices. Two rounds, because a limit of 3 stops after the second; thresholds 2 (reached by the rounds) and 3 (reached only by completion). |
| `EventPipeline` (504 742) | `TypeOK`, `LossesPaidFor`, `StoredOnce`, `NoOvertaking`, `ReplayInOrder`, `VerdictTrue`; liveness `RetriesSettle`, `MeetingEndFlushes`; refinement `ImplementsLedger` | Two sessions share the batcher, and the end of one must flush the events of the other. Two events, in a buffer that is full with two; two attempts of the worker before the dead letters; any four failures, so that an event can fail, be retried, fail again and be laid aside or lost. Two attempts of a call (three in the code) tell apart once, twice and not at all. |
| `EventStream` (337 124) | `StreamTypeOK`, `InOrder`, `NoGap`; liveness `Delivered` | Three events: one missed, one replayed and one live. Two connections, in either mode, and any two failures; the theorems are for any number of either. The meeting does not end by itself here; an event that closes the stream may come at any time. |
| `StorageBreakerDb` | violation: `LeavesOpen` | only clients of the postgres breaker; with clients of `call_sync` alone (the embeddings) the outcome is the same, because they look at `breaker.state` first, too |
| `SessionManagerTracked` | violation: `TasksTracked` | as `SessionManager` |
| `SessionStatusCompletion` | violation: `CompletionStored` | one request at a time, one task, no failures |
| `SubProblemsResults` | violation: `ResultsComplete` | two sub-problems |

`CHECK_DEADLOCK FALSE` is set where the system may stop: when every request has
been served and every task has ended, when a meeting or its node is over, when
nothing more is published.

Every property of a passing run has a mutant in `PROJECT.json`: a definition
beside the one it replaces (a comment marks it), which makes TLC report the
property as violated. Mutants occur in no specification.

### What the properties excuse

Some properties hold only up to causes that the code does not prevent. Each is
named in the property, so that it cannot hide anything else.

* `SessionStatus`: `overlapped` and `stray` (above), a crash (nothing looks for
  interrupted meetings at start-up), a failed write of PostgreSQL (swallowed,
  `StoresAgree` only), "paused", which pause, clarify and the context choice
  write to Redis only, and the refused completion that is a finding.
* `EventPipeline`: a failure of the kind a property names. `StoredOnce` does not
  hold after a commit that was not acknowledged, an error of Redis or a crash:
  each can store an event again, and nothing notices. `VerdictTrue` excuses the
  same, because the collector counts rows and one too many hides one that is
  missing. `MeetingEndFlushes` is about meetings that the collector verifies: one
  that is killed or cancelled flushes nothing. `NoOvertaking` and
  `ReplayInOrder` do not speak of rows that a crash has cut off from their
  numbers, `ReplayInOrder` not of those of the retry worker, which carry the
  number of the publisher instead of that of the batcher.
* `EventStream`: after a crash the numbers of a session begin anew, and
  `seen_sequences` and the poller's `last_sequence` take new events for old ones.
  A replay out of the table and a poll send an event once for each of its rows
  (`streaming.py:792` does not look at `seen_sequences`), so `InOrder` asks that
  no event is stored twice and none by the retry worker (`Calm`).
  A replay out of the table, while the channel is ahead of it, may leave a gap or
  be overtaken (`behind`): the channel then brings an older event after a newer
  one. The connection itself sends nothing twice, but it leaves the browser with
  the older event's number, so that the *next* connection may send the newer one
  again. `InOrder` says as much: order up to such a replay, no repetition up to
  the end of its connection.
* `SubProblems`: a wait that timed out; a dependency with a larger index, which
  nobody waits for.

### Fairness

* *Time passes* (`Tick`) and *clients keep coming*: the server is in use.
* *The event loop runs what is ready* (`SessionManager`): weak fairness of lock
  waiters (`asyncio.Lock` is FIFO), of the end of a sleep, of the delivery of a
  cancellation and of whoever awaits an ended task. Nothing makes a deliberation
  end by itself, none of the properties needs it.
* *A request is answered or times out* (`LLMBroker`, `StorageBreaker`): the
  clients and the pool have timeouts.
* *A provider that is up answers now and then* (strong fairness of `Return`, in
  `CircuitBreaker` and `LLMBroker`): otherwise every call could be a faulty one or
  be cancelled, and nothing would ever be recorded. `LLMBroker` also assumes that
  calls are made in the minutes in which a circuit is open, again and again.
* `Recovers` and `FailsOver` speak of a provider that stays up, or down, from
  some time on; `FailsOver` of calls that are not cancelled.
* *LangGraph runs the next node* (`DeliberationGraph`, and each nested graph of
  `SubProblems`, whose calls all have timeouts), and *a gather goes on when its
  tasks have ended*. `Ends` excuses one behaviour: the facilitator calls the
  moderator again and again without a round between. The code has no bound on
  that other than the budget and LangGraph's recursion limit, which raises.
  The wait of ten minutes in `wait_for_ready` is left without fairness on
  purpose: `EndsWithoutTimeout` says what needs it.
* *The retry worker polls, and the collector goes on to its verdict*
  (`EventPipeline`); *a generator goes on whenever it can, and the worker ends
  the entry it has begun* (`EventStream`): all of them are tasks of the one event
  loop. Nobody is obliged to publish or to connect, and no property needs the
  persistence tasks to be fair, although the event loop runs them, too.

`SessionStatus` has no liveness property: with fairness its state space is out
of reach, and how requests and tasks end is the matter of `SessionManager`.

## 4. Where the code and its documentation disagree

Each is a run that TLC must find violated; the quotations are in `PROJECT.json`.

1. `LeavesOpen`: the postgres breaker never leaves OPEN. `db_session` refuses
   while it is open, and only `call` and `call_sync` run the recovery check.
2. `TasksTracked`: a second start of a session that waits for the capacity lock
   replaces the first one's entry; that task is out of reach of the kill switch.
3. `CompletionStored`: a meeting that has asked for a clarification and later
   loses a panel ends "completed" in Redis and stays "paused" in PostgreSQL.
4. `ResultsComplete`: the result of a nested discussion is made of the update of
   its last node alone; it has no name, no votes and no panel.

Observed while modelling, in the models, but without a run of their own:

* "evicting" and "evicted" violate the check constraint of PostgreSQL, which
  keeps "running" (`Synced` in `SessionManager`).
* After a failover the primary provider is not probed again as long as the
  fallback's circuit is closed: `get_active_llm_provider` looks at the state and
  runs no recovery check (`broker.py`, `LLMBroker`).
* A moderator's contribution bears the number of the round to come, so the guard
  of `parallel_round` takes the experts' turn in that round for held.
* A dependency with a larger index is not waited for; a failed one makes its
  dependents wait ten minutes, start all the same, and work for a node that will
  raise, whose other results are lost.
* `expert_memory["__dependency_context__"]` (`speculative.py:141`), the text that
  an early start is meant to build on, is read by nobody.
* `wrapped_execution` and the administrator's kill leave the metadata cache as it
  was, so an endpoint may look at the status of before for as long as the entry
  lives.
* After a restart the publisher numbers a session's events from one again
  (`event_publisher.py:1182`), which browsers take for a repetition.
* A commit that is not acknowledged (`database.py:328`) stores an event twice or
  more, although no event is refused: `retry_db` repeats the insert, the batcher
  falls back to single inserts (`event_batcher.py:299`), a critical event goes to
  the retry worker, and the unique key does not help, because it contains
  `created_at`.
* Two endpoints cannot succeed and are therefore not actions: retry treats the
  tuple of `resume_session_from_checkpoint` as a dictionary, and the resume from a
  checkpoint calls a method `get_checkpoint` that `RedisManager` has not.

## 5. What is proved

Each theorem is about `Spec` for every value of the constants, under the named
assumption on them; TLC evaluates the assumptions in the runs.

* `BreakerOpsProofs` (lemmas; `BreakerAssumption`: thresholds and timeouts are
  positive, the cap is at least the threshold). Every operation keeps
  `BreakerInv`: the record is a breaker, `Explained`, and while it is OPEN the
  last failure is not older than the last change of state. The last part is what
  makes `NoColdAdmission` inductive: a late failure in OPEN makes the wait longer,
  never shorter.
* `CircuitBreakerProofs`: `TypeCorrect`, `CountsExplainStateAlways` and
  `NeverAdmitsCold`, from `IInv == TypeOK /\ BreakerInv(breaker)`, for any number
  of callers.
* `LLMBrokerProofs` (`BrokerAssumption`): `TypeCorrect`, `RequestsAlwaysBounded`
  and `UnavailableOnlyWhenOpen`. The invariant relates the requests sent to the
  attempt (`Spent`) and says that openai's breaker is always CLOSED (`Healthy`);
  so only a call to anthropic sleeps, and one that is refused has seen its own
  circuit open.
* `SessionManagerProofs` (`ManagerAssumption`: room for at least one): `TypeCorrect`,
  `OneEvictorAlways`, `CoveredAlways`, `SettledAlways`. For `Settled` the
  invariant adds `ActiveOwn` (an entry holds a task of its own session) to
  `OneEvictor` and `Covered`: an evictor's victim keeps its session handled until
  the evictor has written "evicted", because no second evictor can take it over.
* `SessionStatusProofs` (`CallersAssumption`: finitely many requests at a time):
  `TypeCorrect`, `AlwaysRunningHasTask`, `FinalAlwaysMeansStopped`,
  `AlwaysOneTask`, `StoresAlwaysAgree`. Types need care here: the dictionary a request refers to is
  still in the heap (`Dicts`), and there is always a slot for another one, by
  counting (`FreeSlot`). Each of the many actions is then shown to be of one of
  a few forms (`Form`: quiet, starts, cancels, ends, moves, stops, crashes), and
  the three parts of the invariant are kept by each form: `Working` (who is behind a
  "running"), `Alone` (tasks, and whom a waiting request waits for), `Stopped`.
  There is no bound on tasks, and no `Orderly`. `StoresAlwaysAgree` adds
  `Settled`: the stores agree unless a task lives or a request waits, and what has
  spoilt that is named. It is kept because a task that is about to ask has said so
  in Redis (`Asked`) and because whoever has cancelled a task is still to write
  (`Told`): the last to go leaves both stores written.
* `DeliberationGraphProofs` (`GraphAssumption`: limits within 3 and the hard cap,
  as the assessor clamps them): `TypeCorrect`, `RoundsAlwaysWithinLimit`,
  `AlwaysSilentAfterStop`, `ResultsAlwaysGrounded`, `AlwaysEndsComplete`. The
  invariant `Inv` has three parts besides the types and `EndsComplete`. `Rounds`
  says how many rounds each node leaves to the limit: a node that is followed by
  a round without a check has at least one left. `Stages` says what
  each stage of a meeting knows: whose contributions are there, how many results
  are saved, that nothing must stop. `Orderly` is about the results already
  saved: they are named and in order (`InTurn`), or all come from nested graphs
  (`Nested`).
* `SubProblemsProofs` (`SubProblemsAssumption`: at least two sub-problems, limits
  within the hard cap): `StartsInformed`, `AlwaysJoined`, `OneResultForEach` and
  `TypeCorrect`. `Covering` says that
  the gather that runs covers everything active and every failure that has not
  decided the outcome yet; `ReadyIsPast` that a sub-problem is never called ready
  before it has held the rounds the threshold asks for, or its last one, which is
  where the two ways of reporting a round meet. For the results `Gathered` counts:
  as long as nothing has failed there is one for each sub-problem whose gather has
  ended. A gather lists its own in ascending order, once each, by counting: the
  place of each is the number of its members that are not above it. The types need one fact more (`Limited`): the counter of
  rounds stays within the limit of its sub-problem, so the hard cap that bounds
  its type never stops a round.
* `EventPipelineProofs`, about `EventPipeline` (`BatchAssumption`,
  `BoundAssumption`): `TypeCorrect`,
  `PipelineImplementsLedger`, `NoDuplicateRows`, `PollersReadAPrefix`,
  `ReplayIsInOrder`, `LossesArePaidFor`, `VerdictAlwaysTrue`. Every step of publisher, batcher and
  collector is one `Flow` of events: some are published, a set of tasks is taken,
  some rows are stored, some events queued; the worker's three steps and the
  crash are treated apart. The invariant `Inv` is `TypeRest`, `Normal` (what is
  buffered is not critical) and `Places`: an event is in at most one place on
  its way, but for a row that the worker has written before it removes the entry,
  which is what makes the map to `EventLedger` one move at a time.
  `Rows` adds what the rows say: a prefix, in the order of their numbers and, as
  long as every commit is acknowledged (`OneRow`), one for each event.
  `NoDuplicateRows` is that last part: whatever PostgreSQL refuses, however often
  calls are retried and whether or not the batch falls back to single inserts, no
  event is stored twice unless a commit was not acknowledged, Redis failed or the
  process died. The flush is described once for all of its outcomes: what it
  stores, what it leaves out (`Refused`) and what that costs. `LossesPaidFor` is inductive with `Inv`, by counting in each
  step what is newly lost against what has newly failed (`LossStep`).
  `VerdictTrue` follows from `Rows` and from where a verdict comes from: as long
  as Redis has not failed, every published event is in Redis' list; as every commit is acknowledged, there is one
  row for each stored event; so counts that agree are sets that agree (`Counted`),
  and what is stored or listed stays so (`OnlyMore`).

* `EventPipelineProofs`, about `EventStream` (also `StreamAssumption`: a batch of a
  poll holds at least one event): `StreamTypeCorrect`, `AlwaysInOrder`,
  `NeverGaps`, of `StreamSpec` and for any number of connections. Every step is
  one of the pipeline beside the stream (`Onward`: events keep their numbers, new
  ones have higher ones) or one of the stream aside from the pipeline (`Aside`: it
  may cost failures and nothing else), so the invariant of the pipeline carries
  over (`Pipe`) with three facts about it: numbers rise until the process dies
  (`Numbering`), what is stored went all the way (`AllTheWay`), and as long as
  PostgreSQL refuses nothing the batcher alone writes rows (`BatcherAlone`). How
  often an event is stored matters to the order alone: what a replay or a poll
  reads mounts, an event perhaps several times, as long as the rows are the
  batcher's (`Steady`), which is all that `NeverGaps` needs; it rises strictly
  when each event is stored once (`Calm`), as `AlwaysInOrder` asks.
  Over it stand three layers. `Typed`: what is sent comes from the session, the
  browser knows the last number it got, and the server holds events back only
  where a stage allows it. `Orderly`: the three marks of a stream - the number it
  resumes from, those it has seen, the last of a poll - fit together (`Marks`);
  its queues are in order; what the browser has got is older than the connection
  or known to it (`Known`); what was read from a store is newer than what was sent
  (`Unsent`); and where the channel overlaps a replay, what the replay lacks is
  newer than all of it (`Overlap`). `Complete`: where an event is that the browser
  is owed - on the channel of a first connection; sent, read or heard by a stream
  with a channel; sent, read or still to be asked for by one that polls; and with
  the browser, if that has anything newer (`Covered`). The last rests on
  `NoOvertaking` of the pipeline: a poll that passes over an event would pass over
  it for good, so the table must hold a prefix. `Largest` (that a bounded set has
  a maximum) is the one place where the proofs use well-founded induction.

Only model-checked: all liveness properties (`Recovers`, `StartServed`,
`KillReturns`, `EveryCallEnds`, `FailsOver`, `Ends`, `EndsWithoutTimeout`,
`RetriesSettle`, `MeetingEndFlushes`, `Delivered`), which need fairness and are out
of the prover's reach. Every invariant and every action property of a passing run,
and the refinement of `EventLedger`, is a theorem.

## 6. What is not modelled, and why

Inside the modules: metrics, logs and status reports; the text of contributions,
prompts and results; costs other than "over budget"; the connection pool behind
the postgres breaker; probes limited by nothing in HALF_OPEN (any number is
allowed, as in the code); the expiry of metadata in Redis and an unavailable
Redis in `SessionStatus` (the endpoints refuse to work without it); the statuses
that a shutdown leaves behind; the micro-batching of expert events, which
`publish_event` does not use; the status gate of the streaming endpoint.

The models cover the parts of the program in which several actors, stores or
lives of the process meet, which is a small part of its lines. Most of the rest
is of another kind: request handlers that run one or two SQL statements, whose
concurrency is PostgreSQL's (actions, projects, workspaces, datasets, SEO,
administration); prompts and parsers of answers, which the models take as any
value the code accepts; scheduled scripts; a Svelte user interface; configuration.
`PROJECT.json` lists each with its reason. A model of those would restate
assignments, and no property of it could fail in an interesting way.

Machines that remain, in the order of what they would add:

1. `resume` from LangGraph's checkpoint after a clarification, as soon as the
   program completes it;
2. the distributed lock with its expiry (`redis_lock.py`) under the holder that
   outlives it, and the queue in front of an exhausted pool
   (`pool_degradation.py`);
3. the cost buffer with its retry queue (`cost_tracker.py`), which has the shape
   of `EventPipeline` on a smaller scale.
