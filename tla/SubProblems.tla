------------------------------ MODULE SubProblems ------------------------------
(***************************************************************************)
(* parallel_subproblems_node: the sub-problems of one meeting, each        *)
(* discussed in a graph of its own (bo1/graph/deliberation/subgraph).      *)
(*                                                                         *)
(* With ENABLE_SPECULATIVE_PARALLELISM and a dependency all of them start  *)
(* at once, and a dependent waits until the rounds its dependencies have   *)
(* held reach EARLY_START_THRESHOLD (PartialContextProvider); otherwise    *)
(* they run in the batches of topological_batch_sort.  Either way one      *)
(* asyncio.gather waits for all of them, and one that failed fails the     *)
(* node.  Each node of a nested graph is one action; the sub-problems      *)
(* interleave.  The texts, the costs and the events are left out, and so   *)
(* is the text of the partial context, which no prompt uses.               *)
(***************************************************************************)
EXTENDS Naturals, FiniteSets, SequencesExt

CONSTANTS
  SubProblemCount,   \* how many sub-problems the meeting has
  MaxRounds,         \* what get_adaptive_max_rounds may return
  Thresholds         \* what EARLY_START_THRESHOLD may be

HARD_CAP_ROUNDS == 6

ASSUME SubProblemsAssumption ==
  /\ SubProblemCount \in Nat \ {0, 1}
  /\ MaxRounds \subseteq 2 .. HARD_CAP_ROUNDS
  /\ Thresholds \subseteq Nat

VARIABLES
  plan,          \* dependencies, modes and limits: fixed once the node runs
  at,            \* where each sub-problem is
  round_number,  \* SubProblemGraphState.round_number: the round to hold next
  ready,         \* _ready_events: who is ready for its dependents to start
  timed_out,     \* whose wait_for_ready ended by its timeout
  final_state,   \* what the executor of each has kept of its stream
  gathering,     \* the sub-problems of the gather that is running
  all_results,   \* the results gathered so far
  outcome        \* what became of parallel_subproblems_node

vars == <<plan, at, round_number, ready, timed_out, final_state,
          gathering, all_results, outcome>>

Index == 0 .. SubProblemCount - 1

(* The fields of a discussion that a SubProblemResult is made of.          *)
Field == {"sub_problem", "personas", "contributions", "recommendations",
          "synthesis", "expert_summaries", "metrics"}

(* Of those, the fields in the update that a node returns.                 *)
Update ==
  [select_personas   |-> {"personas", "metrics"},
   parallel_round    |-> {"contributions", "metrics"},
   check_convergence |-> {"metrics"},
   vote              |-> {"recommendations", "metrics"},
   synthesize        |-> {"synthesis", "expert_summaries", "metrics"}]

Result == [index : Index, fields : SUBSET Field]

(* "voting" is the rest of the vote node, after its first event.           *)
Running == DOMAIN Update \cup {"voting"}

Place == {"created", "waiting", "done", "failed"} \cup Running

(* topological_batch_sort: those that depend on none that remains.         *)
batch(dependencies, remaining) ==
  {i \in remaining : dependencies[i] \cap remaining = {}}

(* It fails on a circle, and then the node does not run.                   *)
Sortable(dependencies) ==
  \A remaining \in SUBSET Index \ {{}} : batch(dependencies, remaining) # {}

Plan ==
  [dependencies : [Index -> SUBSET Index], use_speculative : BOOLEAN,
   max_rounds : [Index -> MaxRounds], early_start_threshold : Thresholds]

TypeOK ==
  /\ plan \in Plan
  /\ at \in [Index -> Place]
  /\ round_number \in [Index -> 0 .. HARD_CAP_ROUNDS]
  /\ ready \subseteq Index
  /\ timed_out \subseteq Index
  /\ final_state \in [Index -> SUBSET Field]
  /\ gathering \subseteq Index
  /\ all_results \in Seq(Result)
  /\ outcome \in {"running", "returned", "raised"}

Init ==
  /\ plan \in Plan
  /\ Sortable(plan.dependencies)
  /\ plan.use_speculative => \E i \in Index : plan.dependencies[i] # {}
  /\ at = [i \in Index |-> "created"]
  /\ round_number = [i \in Index |-> 0]
  /\ ready = {}
  /\ timed_out = {}
  /\ final_state = [i \in Index |-> {}]
  /\ gathering = {}
  /\ all_results = << >>
  /\ outcome = "running"

-----------------------------------------------------------------------------
(* Starting them.  The tasks of a gather take their first steps in the     *)
(* order of the indices and before anything else runs.                     *)

(* wait_for_ready looks at the dependencies that are registered when it is *)
(* called: those with a smaller index.  The others are not waited for.     *)
Awaited(i) == {d \in plan.dependencies[i] : d < i}

Active(i) == at[i] \in Running \cup {"waiting"}

Ended(i) == at[i] \in {"done", "failed"}

_execute_speculative_parallel ==
  /\ outcome = "running" /\ plan.use_speculative
  /\ \A i \in Index : at[i] = "created"
  /\ at' = [i \in Index |-> IF Awaited(i) = {} THEN "select_personas" ELSE "waiting"]
  /\ gathering' = Index
  /\ UNCHANGED <<plan, round_number, ready, timed_out, final_state, all_results, outcome>>

(* The next batch starts once the one before is gathered.                  *)
_execute_batch ==
  LET remaining == {i \in Index : at[i] = "created"}
  IN /\ outcome = "running" /\ ~plan.use_speculative
     /\ gathering = {} /\ remaining # {}
     /\ gathering' = batch(plan.dependencies, remaining)
     /\ at' = [i \in Index |-> IF i \in gathering' THEN "select_personas" ELSE at[i]]
     /\ UNCHANGED <<plan, round_number, ready, timed_out, final_state, all_results, outcome>>

(* wait_for_ready: the events of all that are awaited are set, ...         *)
Ready(i) ==
  /\ at[i] = "waiting"
  /\ Awaited(i) \subseteq ready
  /\ at' = [at EXCEPT ![i] = "select_personas"]
  /\ UNCHANGED <<plan, round_number, ready, timed_out, final_state,
                 gathering, all_results, outcome>>

(* ... or ten minutes have passed; what it returns is not looked at.       *)
WaitTimesOut(i) ==
  /\ at[i] = "waiting"
  /\ ~(Awaited(i) \subseteq ready)
  /\ at' = [at EXCEPT ![i] = "select_personas"]
  /\ timed_out' = timed_out \cup {i}
  /\ UNCHANGED <<plan, round_number, ready, final_state,
                 gathering, all_results, outcome>>

-----------------------------------------------------------------------------
(* The nested graph.                                                       *)

(* The executor keeps the update of the node that ended last.              *)
Streamed(i, node) == final_state' = [final_state EXCEPT ![i] = Update[node]]

(* Mutant: a sub-problem is ready one round too early. *)
update_round_context_early(i, round_num) ==
  ready' = IF plan.use_speculative /\ round_num + 1 >= plan.early_start_threshold
             THEN ready \cup {i} ELSE ready

(* In speculative mode only: the batches have no PartialContextProvider.   *)
update_round_context(i, round_num) ==
  ready' = IF plan.use_speculative /\ round_num >= plan.early_start_threshold
             THEN ready \cup {i} ELSE ready

(* Mutant: a completed sub-problem is not announced as ready. *)
mark_complete_unannounced(i) == ready' = ready

mark_complete(i) == ready' = IF plan.use_speculative THEN ready \cup {i} ELSE ready

(* The node at which i is ends, and the next one follows.                  *)
Advance(i, node, following) ==
  /\ at[i] = node
  /\ at' = [at EXCEPT ![i] = following]
  /\ UNCHANGED <<plan, timed_out, gathering, all_results, outcome>>

select_personas_sp_node(i) ==
  /\ Advance(i, "select_personas", "parallel_round")
  /\ round_number' = [round_number EXCEPT ![i] = 1]
  /\ Streamed(i, "select_personas")
  /\ UNCHANGED ready

(* route_after_round sends a round past the limit straight to the vote.    *)
parallel_round_sp_node(i) ==
  /\ Advance(i, "parallel_round",
             IF round_number[i] + 1 > plan.max_rounds[i] THEN "vote" ELSE "check_convergence")
  /\ round_number' = [round_number EXCEPT ![i] = @ + 1]
  /\ Streamed(i, "parallel_round")
  /\ UNCHANGED ready

MustStop(i) ==
  \/ round_number[i] >= HARD_CAP_ROUNDS
  \/ round_number[i] >= plan.max_rounds[i]

(* The judgement may stop it at any round, the limits always do.  Its event*)
(* reports the round before round_number as completed.                     *)
check_convergence_sp_node(i) ==
  /\ \E should_stop \in BOOLEAN :
       /\ MustStop(i) => should_stop
       /\ Advance(i, "check_convergence",
            IF should_stop \/ round_number[i] > plan.max_rounds[i]
              THEN "vote" ELSE "parallel_round")
  /\ update_round_context(i, round_number[i] - 1)
  /\ Streamed(i, "check_convergence")
  /\ UNCHANGED round_number

(* "voting_started" reports one more round, which has not been held.       *)
VotingStarted(i) ==
  /\ Advance(i, "vote", "voting")
  /\ update_round_context(i, round_number[i])
  /\ UNCHANGED <<round_number, final_state>>

vote_sp_node(i) ==
  /\ Advance(i, "voting", "synthesize")
  /\ Streamed(i, "vote")
  /\ UNCHANGED <<round_number, ready>>

(* The last node, and the rest of the executor.                            *)
synthesize_sp_node(i) ==
  /\ Advance(i, "synthesize", "done")
  /\ mark_complete(i)
  /\ Streamed(i, "synthesize")
  /\ UNCHANGED round_number

(* A node raises: nobody is told but the gather.                           *)
NodeRaises(i) ==
  /\ at[i] \in Running
  /\ at' = [at EXCEPT ![i] = "failed"]
  /\ UNCHANGED <<plan, round_number, ready, timed_out, final_state,
                 gathering, all_results, outcome>>

-----------------------------------------------------------------------------
(* The end of a gather.                                                    *)

result_from_subgraph_state(i) == [index |-> i, fields |-> final_state[i]]

(* A finite set of numbers, in ascending order.                            *)
Ascending(S) ==
  CHOOSE list \in SetToSeqs(S) : \A i, j \in DOMAIN list : i < j => list[i] < list[j]

(* gather returns the results in the order of its arguments.               *)
Results(S) ==
  LET sorted == Ascending(S)
  IN [k \in DOMAIN sorted |-> result_from_subgraph_state(sorted[k])]

(* Mutant: the first failure ends the gather. *)
GatherOver_at_first_failure ==
  /\ gathering # {}
  /\ (\A i \in gathering : Ended(i)) \/ (\E i \in gathering : at[i] = "failed")

(* gather(..., return_exceptions=True): every one of them has ended.       *)
GatherOver == gathering # {} /\ \A i \in gathering : Ended(i)

(* Mutant: the results of those that succeeded are returned. *)
Verdict_without_failures ==
  IF \E i \in Index : at[i] = "created" THEN "running" ELSE "returned"

(* A failed one fails them all, and the results of earlier batches go too. *)
Verdict ==
  IF \E i \in gathering : at[i] = "failed" THEN "raised"
  ELSE IF \E i \in Index : at[i] = "created" THEN "running" ELSE "returned"

GatherEnds ==
  /\ outcome = "running"
  /\ GatherOver
  /\ outcome' = Verdict
  /\ gathering' = {}
  /\ all_results' = IF outcome' = "raised" THEN << >>
                    ELSE all_results \o Results({i \in gathering : at[i] = "done"})
  /\ UNCHANGED <<plan, at, round_number, ready, timed_out, final_state>>

RunNode(i) ==
  \/ select_personas_sp_node(i) \/ parallel_round_sp_node(i)
  \/ check_convergence_sp_node(i) \/ VotingStarted(i) \/ vote_sp_node(i)
  \/ synthesize_sp_node(i)

Execute == _execute_speculative_parallel \/ _execute_batch \/ GatherEnds

Next ==
  \/ Execute
  \/ \E i \in Index : Ready(i) \/ RunNode(i) \/ WaitTimesOut(i) \/ NodeRaises(i)

Spec == Init /\ [][Next]_vars

(* The event loop runs what can run, and every call of a node ends.  That  *)
(* a wait times out is left open.                                          *)
FairSpec ==
  /\ Spec
  /\ WF_vars(Execute)
  /\ \A i \in Index : WF_vars(Ready(i) \/ RunNode(i))

-----------------------------------------------------------------------------
(* Properties.                                                             *)

Started(i) == at[i] \notin {"created", "waiting"}

(* "Dependent SPs get early context": whoever is discussed, unless its     *)
(* wait timed out, builds on dependencies that have concluded (in batches) *)
(* or have held as many rounds as the threshold asks or are past their     *)
(* last round (speculatively, of those with a smaller index).              *)
InformedStart ==
  \A i \in Index :
    Started(i) /\ i \notin timed_out =>
      IF plan.use_speculative
        THEN \A d \in Awaited(i) :
               \/ round_number[d] > plan.early_start_threshold
               \/ at[d] \in {"voting", "synthesize", "done", "failed"}
        ELSE \A d \in plan.dependencies[i] : at[d] = "done"

(* When the node returns or raises, no nested discussion goes on behind    *)
(* its back, and it raises only if one of them failed.                     *)
Joined ==
  outcome # "running" =>
    /\ \A i \in Index : ~Active(i)
    /\ outcome = "raised" => \E i \in Index : at[i] = "failed"

(* All or nothing: a node that returns has the result of every sub-problem *)
(* once, however they finished and whatever the order of the batches, and  *)
(* in the order of the sub-problems if they ran speculatively.             *)
OneResultEach ==
  outcome = "returned" =>
    /\ Len(all_results) = SubProblemCount
    /\ \A i \in Index : \E k \in DOMAIN all_results : all_results[k].index = i
    /\ plan.use_speculative =>
         \A k \in DOMAIN all_results : all_results[k].index = k - 1

(* The node ends without the help of a timeout, unless somebody waits for a*)
(* sub-problem that has failed: nobody tells it.                           *)
EndsWithoutTimeout ==
  \/ <>(outcome # "running")
  \/ <>[](\E i \in Index : at[i] = "waiting" /\ \E d \in Awaited(i) : at[d] = "failed")

(* Disagrees with the code: result_from_subgraph_state "Extract[s]         *)
(* SubProblemResult from final subgraph state", with votes, panel and name,*)
(* but the executors hand it the update of the last node.                  *)
ResultsComplete ==
  \A k \in DOMAIN all_results : all_results[k].fields = Field

=============================================================================
