--------------------------- MODULE DeliberationGraph ---------------------------
(***************************************************************************)
(* The LangGraph deliberation (bo1/graph/config.py): which node runs next, *)
(* and what each node does to the fields of the graph state that the       *)
(* routers, the guards and the stopping rules read.                        *)
(*                                                                         *)
(* A node returns a partial update that LangGraph merges into the state    *)
(* and checkpoints with the next node, so a node is one atomic action: a   *)
(* crash or kill in the middle of it loses nothing but the work, and a     *)
(* resumed run starts it again.  What a language model answers (a          *)
(* decision, a score, the cost of a call) is any answer the code accepts.  *)
(* The text of contributions, the personas and the metrics are left out.   *)
(***************************************************************************)
EXTENDS Naturals, Integers, Sequences

CONSTANTS
  MaxSubProblems,      \* bound: the decomposer's cap on sub-problems
  RecommendedRounds,   \* what the complexity assessor may recommend
  MaxInterjections     \* bound: how often the user raises a hand

HARD_CAP_ROUNDS == 6
MIN_ROUNDS_BEFORE_VOTING == 2
MAX_CLARIFICATIONS == 2

(* recommended_rounds is clamped to 3-6 (complexity_assessor.py).          *)
ASSUME GraphAssumption ==
  /\ MaxSubProblems \in Nat \ {0}
  /\ RecommendedRounds \subseteq 3 .. HARD_CAP_ROUNDS
  /\ MaxInterjections \in Nat

VARIABLES
  next,            \* the node LangGraph runs next, "END", or "raised"
  state,           \* DeliberationGraphState
  interjections    \* external: how often the user has raised a hand

vars == <<next, state, interjections>>

None == -1   \* current_sub_problem when there is none

Index == 0 .. MaxSubProblems - 1

(* contributions: for which sub-problem, in which round and by whom.  The  *)
(* code prunes those of earlier rounds once they are summarised; no guard  *)
(* reads them, and the summaries carry on what they said.                  *)
Contribution ==
  [about : Index, round : 0 .. HARD_CAP_ROUNDS, by : {"expert", "moderator"}]

(* SubProblemResult: its sub_problem_id, and which discussion it rests on. *)
(* A sub-problem is known by its index: the ids that the decomposition     *)
(* gives are taken to be distinct, which the code does not check.          *)
Result == [sub_problem_id : Index \cup {None}, drawn_from : SUBSET Index]

StopReason == {"None", "clarification_needed", "cost_budget_exceeded",
               "context_insufficient", "hard_cap_6_rounds", "max_rounds",
               "quality"}   \* "quality": every reason that is a judgement

Guidance == {"None", "impasse_intervention", "other"}

Setup == {"decompose", "identify_gaps", "analyze_dependencies"}

Discussion == {"facilitator_decide", "parallel_round", "moderator_intervene",
               "research", "data_analysis", "clarification",
               "interjection_response"}

Node == Setup \cup Discussion \cup
  {"parallel_subproblems", "select_personas", "initial_round", "cost_guard",
   "check_convergence", "vote", "synthesize", "next_subproblem",
   "meta_synthesis"}

Over == {"END", "raised"}

State ==
  [sub_problems : 0 .. MaxSubProblems,
   current_sub_problem : Index \cup {None},
   sub_problem_index : Index,
   sub_problem_results : Seq(Result),
   round_number : 0 .. HARD_CAP_ROUNDS,
   max_rounds : 3 .. HARD_CAP_ROUNDS,
   contributions : SUBSET Contribution,
   contributions_checked : BOOLEAN,     \* total_contributions_checked >= 3
   pending_research_queries : BOOLEAN,  \* there are some
   facilitator_guidance : Guidance,
   clarification_count : 0 .. MAX_CLARIFICATIONS,
   needs_interjection_response : BOOLEAN,
   context_insufficient_emitted : BOOLEAN,
   over_budget : BOOLEAN,               \* metrics.total_cost > max_cost
   should_stop : BOOLEAN,
   stop_reason : StopReason]

TypeOK ==
  /\ next \in Node \cup Over
  /\ state \in State
  /\ interjections \in 0 .. MaxInterjections

create_initial_state ==
  [sub_problems |-> 0,
   current_sub_problem |-> None,
   sub_problem_index |-> 0,
   sub_problem_results |-> << >>,
   round_number |-> 0,
   max_rounds |-> HARD_CAP_ROUNDS,
   contributions |-> {},
   contributions_checked |-> FALSE,
   pending_research_queries |-> FALSE,
   facilitator_guidance |-> "None",
   clarification_count |-> 0,
   needs_interjection_response |-> FALSE,
   context_insufficient_emitted |-> FALSE,
   over_budget |-> FALSE,
   should_stop |-> FALSE,
   stop_reason |-> "None"]

(* context_collection, the entry node, only enriches the problem's text.   *)
Init ==
  /\ next = "decompose"
  /\ state = create_initial_state
  /\ interjections = 0

-----------------------------------------------------------------------------
(* The set-up nodes.                                                       *)

(* Mutant: the number of sub-problems is not limited. *)
decompose_node_unclamped ==
  /\ next = "decompose"
  /\ state' = [state EXCEPT !.sub_problems = MaxSubProblems + 1,
                            !.current_sub_problem = 0]
  /\ next' = "identify_gaps"
  /\ UNCHANGED interjections

(* A comparison question leaves research queries for the first discussion. *)
decompose_node ==
  /\ next = "decompose"
  /\ \E n \in 1 .. MaxSubProblems, r \in RecommendedRounds, q \in BOOLEAN :
       state' = [state EXCEPT !.sub_problems = n,
                              !.current_sub_problem = 0,
                              !.max_rounds = r,
                              !.pending_research_queries = q]
  /\ next' = "identify_gaps"
  /\ UNCHANGED interjections

route_after_identify_gaps(s) ==
  IF s.should_stop /\ s.stop_reason = "clarification_needed"
    THEN "END" ELSE "analyze_dependencies"

identify_gaps_node ==
  /\ next = "identify_gaps"
  /\ \/ UNCHANGED state
     \/ state' = [state EXCEPT !.should_stop = TRUE,
                               !.stop_reason = "clarification_needed"]
  /\ next' = route_after_identify_gaps(state')
  /\ UNCHANGED interjections

(* Several sub-problems run in nested graphs, unless their dependencies    *)
(* are circular: then they are discussed here, one after the other.        *)
analyze_dependencies_node ==
  /\ next = "analyze_dependencies"
  /\ \E parallel_mode \in BOOLEAN :
       /\ parallel_mode => state.sub_problems > 1
       /\ state.sub_problems = 1 => ~parallel_mode
       /\ state' = [state EXCEPT
                      !.current_sub_problem = IF parallel_mode THEN None ELSE 0]
       /\ next' = IF parallel_mode THEN "parallel_subproblems" ELSE "select_personas"
  /\ UNCHANGED interjections

(* The nested graphs return a result each, or the node raises (SubProblems):*)
(* in the order of their batches, and without the names of the sub-problems.*)
parallel_subproblems_node ==
  /\ next = "parallel_subproblems"
  /\ \E order \in [1 .. state.sub_problems -> 0 .. state.sub_problems - 1] :
       /\ \A j \in 0 .. state.sub_problems - 1 :
            \E i \in 1 .. state.sub_problems : order[i] = j
       /\ state' = [state EXCEPT
            !.current_sub_problem = None,
            !.sub_problem_results =
               [i \in 1 .. state.sub_problems |->
                  [sub_problem_id |-> None, drawn_from |-> {order[i]}]]]
  /\ next' = "meta_synthesis"
  /\ UNCHANGED interjections

select_personas_node ==
  /\ next = "select_personas"
  /\ next' = "initial_round"
  /\ UNCHANGED <<state, interjections>>

-----------------------------------------------------------------------------
(* The discussion of one sub-problem.  round_number is the round that the  *)
(* experts speak in next.                                                  *)

RoundHeld(r) == \E c \in state.contributions : c.round = r

ByExperts(r) == [about |-> state.sub_problem_index, round |-> r, by |-> "expert"]

initial_round_node ==
  /\ next = "initial_round"
  /\ \E q \in BOOLEAN :
       state' = IF RoundHeld(1)
                  THEN [state EXCEPT !.round_number = 2]
                  ELSE [state EXCEPT !.contributions = {ByExperts(1)},
                                     !.round_number = 2,
                                     !.facilitator_guidance = "None",
                                     !.pending_research_queries = q]
  /\ next' = "facilitator_decide"
  /\ UNCHANGED interjections

(* decide_next_action: the impasse guidance decides alone; otherwise a     *)
(* rule or the language model chooses, and any action may come out.        *)
decide_next_action ==
  IF state.facilitator_guidance = "impasse_intervention"
    THEN {"continue"}
    ELSE {"continue", "vote", "research", "moderator", "clarify", "analyze_data"}

_validate_and_override_decision(action) ==
  IF \/ action = "clarify" /\ state.clarification_count >= MAX_CLARIFICATIONS
     \/ action = "vote" /\ state.round_number < MIN_ROUNDS_BEFORE_VOTING
    THEN "continue" ELSE action

facilitator_decisions ==
  IF state.needs_interjection_response THEN {"interjection_response"}
  ELSE IF state.pending_research_queries THEN {"research"}
  ELSE {_validate_and_override_decision(a) : a \in decide_next_action}

route_facilitator_decision ==
  [vote |-> "vote", continue |-> "parallel_round", research |-> "research",
   moderator |-> "moderator_intervene", clarify |-> "clarification",
   analyze_data |-> "data_analysis",
   interjection_response |-> "interjection_response"]

facilitator_decide_node ==
  /\ next = "facilitator_decide"
  /\ \E action \in facilitator_decisions :
       /\ state' = IF action = "clarify"
                     THEN [state EXCEPT !.clarification_count = @ + 1]
                     ELSE state
       /\ next' = route_facilitator_decision[action]
  /\ UNCHANGED interjections

(* "GUARD: Check if this round already has contributions": it counts the   *)
(* moderator's contribution too.                                           *)
parallel_round_node ==
  /\ next = "parallel_round"
  /\ \/ /\ RoundHeld(state.round_number)
        /\ state' = [state EXCEPT !.round_number = @ + 1]
     \/ /\ ~RoundHeld(state.round_number)
        /\ \E q, enough \in BOOLEAN :
             state' = [state EXCEPT
                         !.contributions = @ \cup {ByExperts(state.round_number)},
                         !.contributions_checked = @ \/ enough,
                         !.round_number = @ + 1,
                         !.pending_research_queries = q]
  /\ next' = "cost_guard"
  /\ UNCHANGED interjections

moderator_intervene_node ==
  /\ next = "moderator_intervene"
  /\ state' = [state EXCEPT !.contributions =
                 @ \cup {[about |-> state.sub_problem_index,
                          round |-> state.round_number, by |-> "moderator"]}]
  /\ next' = "cost_guard"
  /\ UNCHANGED interjections

(* Also the query of a facilitator's decision; then none is pending.       *)
research_node ==
  /\ next = "research"
  /\ state' = [state EXCEPT !.pending_research_queries = FALSE]
  /\ next' = "parallel_round"
  /\ UNCHANGED interjections

data_analysis_node ==
  /\ next = "data_analysis"
  /\ next' = "parallel_round"
  /\ UNCHANGED <<state, interjections>>

route_clarification(s) == IF s.should_stop THEN "END" ELSE "parallel_round"

(* The server pauses; on a terminal the user may also answer or skip.      *)
clarification_node ==
  /\ next = "clarification"
  /\ \/ state' = [state EXCEPT !.should_stop = TRUE,
                               !.stop_reason = "clarification_needed"]
     \/ UNCHANGED state
  /\ next' = route_clarification(state')
  /\ UNCHANGED interjections

(* Mutant: the answered interjection stays pending. *)
interjection_response_node_pending ==
  /\ next = "interjection_response"
  /\ next' = "facilitator_decide"
  /\ UNCHANGED <<state, interjections>>

interjection_response_node ==
  /\ next = "interjection_response"
  /\ state' = [state EXCEPT !.needs_interjection_response = FALSE]
  /\ next' = "facilitator_decide"
  /\ UNCHANGED interjections

route_cost_guard(s) ==
  IF s.stop_reason = "cost_budget_exceeded" THEN "vote" ELSE "check_convergence"

(* The cost only grows: once over budget, always over budget.              *)
cost_guard_node ==
  /\ next = "cost_guard"
  /\ \E over \in BOOLEAN :
       /\ state.over_budget => over
       /\ state' = IF over
                     THEN [state EXCEPT !.over_budget = TRUE,
                                        !.should_stop = TRUE,
                                        !.stop_reason = "cost_budget_exceeded"]
                     ELSE state
  /\ next' = route_cost_guard(state')
  /\ UNCHANGED interjections

check_context_insufficiency ==
  /\ state.round_number <= 2
  /\ ~state.context_insufficient_emitted
  /\ state.contributions_checked

(* Mutant: the limit is compared with > instead of >=. *)
evaluate_off_by_one(should_stop, stop_reason, guidance) ==
  IF state.round_number >= HARD_CAP_ROUNDS
    THEN should_stop /\ stop_reason = "hard_cap_6_rounds" /\ guidance = "None"
  ELSE IF state.round_number > state.max_rounds
    THEN should_stop /\ stop_reason = "max_rounds" /\ guidance = "None"
  ELSE /\ stop_reason = (IF should_stop THEN "quality" ELSE "None")
       /\ should_stop => guidance = "None"

(* StoppingRulesEvaluator.evaluate: the hard cap, then max_rounds, then    *)
(* the judgements, which may also leave guidance for the facilitator.      *)
evaluate(should_stop, stop_reason, guidance) ==
  IF state.round_number >= HARD_CAP_ROUNDS
    THEN should_stop /\ stop_reason = "hard_cap_6_rounds" /\ guidance = "None"
  ELSE IF state.round_number >= state.max_rounds
    THEN should_stop /\ stop_reason = "max_rounds" /\ guidance = "None"
  ELSE /\ stop_reason = (IF should_stop THEN "quality" ELSE "None")
       /\ should_stop => guidance = "None"

route_convergence_check(s) ==
  IF s.should_stop THEN "vote" ELSE "facilitator_decide"

(* Only a reason or guidance there is replaces the one before.             *)
check_convergence_node ==
  /\ next = "check_convergence"
  /\ \/ /\ check_context_insufficiency
        /\ state' = [state EXCEPT !.context_insufficient_emitted = TRUE,
                                  !.should_stop = TRUE,
                                  !.stop_reason = "context_insufficient"]
     \/ \E should_stop \in BOOLEAN, stop_reason \in StopReason, guidance \in Guidance :
          /\ evaluate(should_stop, stop_reason, guidance)
          /\ state' = [state EXCEPT
               !.should_stop = should_stop,
               !.stop_reason = IF stop_reason = "None" THEN @ ELSE stop_reason,
               !.facilitator_guidance = IF guidance = "None" THEN @ ELSE guidance]
  /\ next' = route_convergence_check(state')
  /\ UNCHANGED interjections

vote_node ==
  /\ next = "vote"
  /\ next' = "synthesize"
  /\ UNCHANGED <<state, interjections>>

-----------------------------------------------------------------------------
(* From one sub-problem to the next.                                       *)

synthesize_node ==
  /\ next = "synthesize"
  /\ next' = IF state.sub_problems = 1 THEN "END" ELSE "next_subproblem"
  /\ UNCHANGED <<state, interjections>>

ResultExists ==
  \E i \in DOMAIN state.sub_problem_results :
    state.sub_problem_results[i].sub_problem_id = state.current_sub_problem

SubProblemResult ==
  [sub_problem_id |-> state.current_sub_problem,
   drawn_from |-> {c.about : c \in state.contributions}]

(* Mutant: the last sub-problem is left out. *)
HasNext_off_by_one(index) == index + 2 < state.sub_problems

HasNext(index) == index + 1 < state.sub_problems

(* The guard against double processing moves on without a reset.           *)
SkippedSubProblem ==
  IF HasNext(state.sub_problem_index)
    THEN [state EXCEPT !.current_sub_problem = state.sub_problem_index + 1,
                       !.sub_problem_index = @ + 1]
    ELSE [state EXCEPT !.current_sub_problem = None]

(* Mutant: the contributions are not reset. *)
SavedSubProblem_keeps_contributions ==
  LET results == Append(state.sub_problem_results, SubProblemResult)
  IN IF HasNext(state.sub_problem_index)
       THEN [state EXCEPT !.current_sub_problem = state.sub_problem_index + 1,
                          !.sub_problem_index = @ + 1,
                          !.sub_problem_results = results,
                          !.round_number = 0,
                          !.should_stop = FALSE,
                          !.stop_reason = "None"]
       ELSE [state EXCEPT !.current_sub_problem = None,
                          !.sub_problem_results = results]

(* Mutant: the stop flag is not reset. *)
SavedSubProblem_still_stopped ==
  LET results == Append(state.sub_problem_results, SubProblemResult)
  IN IF HasNext(state.sub_problem_index)
       THEN [state EXCEPT !.current_sub_problem = state.sub_problem_index + 1,
                          !.sub_problem_index = @ + 1,
                          !.sub_problem_results = results,
                          !.round_number = 0,
                          !.contributions = {}]
       ELSE [state EXCEPT !.current_sub_problem = None,
                          !.sub_problem_results = results]

SavedSubProblem ==
  LET results == Append(state.sub_problem_results, SubProblemResult)
  IN IF HasNext(state.sub_problem_index)
       THEN [state EXCEPT !.current_sub_problem = state.sub_problem_index + 1,
                          !.sub_problem_index = @ + 1,
                          !.sub_problem_results = results,
                          !.round_number = 0,
                          !.contributions = {},
                          !.should_stop = FALSE,
                          !.stop_reason = "None"]
       ELSE [state EXCEPT !.current_sub_problem = None,
                          !.sub_problem_results = results]

route_after_next_subproblem(s) ==
  IF s.current_sub_problem # None THEN "select_personas"
  ELSE IF Len(s.sub_problem_results) < s.sub_problems THEN "END"
  ELSE "meta_synthesis"

next_subproblem_node ==
  /\ next = "next_subproblem"
  /\ state' = IF ResultExists THEN SkippedSubProblem ELSE SavedSubProblem
  /\ next' = route_after_next_subproblem(state')
  /\ UNCHANGED interjections

meta_synthesize_node ==
  /\ next = "meta_synthesis"
  /\ next' = "END"
  /\ UNCHANGED <<state, interjections>>

-----------------------------------------------------------------------------
(* The user raises a hand while the meeting runs.  The endpoint writes the *)
(* flag to the checkpoint of a run that keeps its state in memory: the     *)
(* flag reaches the run, or the checkpoint of the next node overwrites it. *)
raise_hand ==
  /\ next \notin Over
  /\ interjections < MaxInterjections
  /\ interjections' = interjections + 1
  /\ \/ state' = [state EXCEPT !.needs_interjection_response = TRUE]
     \/ UNCHANGED state
  /\ UNCHANGED next

(* Any node may raise (a provider is down, no persona was selected): the   *)
(* run ends at its last checkpoint.                                        *)
Raise ==
  /\ next \notin Over
  /\ next' = "raised"
  /\ UNCHANGED <<state, interjections>>

SetupStep ==
  \/ decompose_node \/ identify_gaps_node \/ analyze_dependencies_node
  \/ parallel_subproblems_node \/ select_personas_node

DiscussionStep ==
  \/ initial_round_node \/ facilitator_decide_node \/ parallel_round_node
  \/ moderator_intervene_node \/ research_node \/ data_analysis_node
  \/ clarification_node \/ interjection_response_node \/ cost_guard_node
  \/ check_convergence_node \/ vote_node

ClosingStep ==
  \/ synthesize_node \/ next_subproblem_node \/ meta_synthesize_node

RunNode == SetupStep \/ DiscussionStep \/ ClosingStep

Next == RunNode \/ raise_hand \/ Raise

Spec == Init /\ [][Next]_vars

(* LangGraph runs the next node; nothing makes a node raise.               *)
FairSpec == Spec /\ WF_vars(RunNode)

-----------------------------------------------------------------------------
(* Properties.                                                             *)

(* The round counter never passes the limit that the assessor set, although*)
(* the initial round sets it to 2, three nodes lead to a round without     *)
(* a convergence check in between and a skipped round counts as well       *)
(* (validate_round_counter_invariants, which no node calls).               *)
RoundsWithinLimit == state.round_number <= state.max_rounds

(* Once the meeting must stop - the budget is spent, a limit is reached,   *)
(* the panel has converged - nobody speaks again in this sub-problem: the  *)
(* stop flag is down whenever the facilitator or the experts are next.     *)
SilentAfterStop ==
  next \in Discussion => ~state.should_stop /\ state.stop_reason = "None"

(* The result of a sub-problem rests on its own discussion and on no other:*)
(* one that starts while the last one's contributions are still there is   *)
(* mistaken for one that has been held.  (Those of nested graphs have lost *)
(* their names.)                                                           *)
ResultsGrounded ==
  \A i \in DOMAIN state.sub_problem_results :
    LET r == state.sub_problem_results[i]
    IN \E j \in Index : r.drawn_from = {j} /\ r.sub_problem_id \in {j, None}

(* A meeting that ends, and does not pause for the user, has one result    *)
(* for each of its sub-problems, those with a name in order (a single one  *)
(* is synthesised without being saved).                                    *)
Complete ==
  /\ Len(state.sub_problem_results) = state.sub_problems
  /\ \A i \in DOMAIN state.sub_problem_results :
       state.sub_problem_results[i].sub_problem_id \in {i - 1, None}
  /\ \A j \in 0 .. state.sub_problems - 1 :
       \E i \in DOMAIN state.sub_problem_results :
         state.sub_problem_results[i].drawn_from = {j}

EndsComplete ==
  next = "END" =>
    \/ state.stop_reason = "clarification_needed"
    \/ state.sub_problems = 1
    \/ Complete

(* The only way to go on forever is to call the moderator forever: every   *)
(* other cycle passes a round or a raised hand.  (A moderator cycle ends   *)
(* at LangGraph's recursion limit, which raises.)                          *)
Ends ==
  \/ <>(next \in Over)
  \/ []<><<moderator_intervene_node>>_vars

=============================================================================
