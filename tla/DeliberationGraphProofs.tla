------------------------ MODULE DeliberationGraphProofs ------------------------
(***************************************************************************)
(* For every number of sub-problems, every set of round limits within the  *)
(* hard cap and any number of raised hands: type correctness, the bound on *)
(* rounds, silence after a stop, and that results are complete and         *)
(* grounded.                                                               *)
(***************************************************************************)
EXTENDS DeliberationGraph, TLAPS

(* A discussion node runs only while another round is allowed.  This is    *)
(* what makes RoundsWithinLimit inductive: a skipped round counts too.     *)
RoundsLeft ==
  /\ next = "decompose" => state.round_number = 0
  /\ next \in Discussion \cup {"cost_guard", "check_convergence"} =>
       2 <= state.round_number
  /\ next \in Discussion => state.round_number < state.max_rounds

Rounds == RoundsWithinLimit /\ RoundsLeft

LEMMA Bounds ==
  /\ RecommendedRounds \subseteq 3 .. 6
  /\ 1 .. MaxSubProblems \subseteq 0 .. MaxSubProblems
  /\ 0 \in Index
  /\ Index \subseteq Int
  /\ \A r \in 0 .. 6 : r \in Int
BY GraphAssumption DEF HARD_CAP_ROUNDS, Index

(* The nodes before the discussion keep the type of the state.             *)
LEMMA SetupState ==
  ASSUME state \in State, SetupStep
  PROVE  state' \in State
<1>1. CASE decompose_node
  <2>1. PICK n \in 1 .. MaxSubProblems, r \in RecommendedRounds, q \in BOOLEAN :
          state' = [state EXCEPT !.sub_problems = n,
                                 !.current_sub_problem = 0,
                                 !.max_rounds = r,
                                 !.pending_research_queries = q]
    BY <1>1 DEF decompose_node
  <2> QED
    BY <2>1, Bounds DEF State, HARD_CAP_ROUNDS
<1>2. CASE identify_gaps_node
  <2>1. "clarification_needed" \in StopReason /\ TRUE \in BOOLEAN
    BY DEF StopReason
  <2>2. \/ state' = state
        \/ state' = [state EXCEPT !.should_stop = TRUE,
                                  !.stop_reason = "clarification_needed"]
    BY <1>2 DEF identify_gaps_node
  <2> QED
    BY <2>1, <2>2, Zenon DEF State
<1>3. CASE analyze_dependencies_node
  <2>1. PICK p \in BOOLEAN :
          state' = [state EXCEPT !.current_sub_problem = IF p THEN None ELSE 0]
    BY <1>3 DEF analyze_dependencies_node
  <2> QED
    BY <2>1, Bounds DEF State
<1>4. CASE parallel_subproblems_node
  <2>1. PICK order \in [1 .. state.sub_problems -> 0 .. state.sub_problems - 1] :
          state' = [state EXCEPT
            !.current_sub_problem = None,
            !.sub_problem_results =
               [i \in 1 .. state.sub_problems |->
                  [sub_problem_id |-> None, drawn_from |-> {order[i]}]]]
    BY <1>4 DEF parallel_subproblems_node
  <2> DEFINE results == [i \in 1 .. state.sub_problems |->
                           [sub_problem_id |-> None, drawn_from |-> {order[i]}]]
  <2>2. results \in Seq(Result)
    <3>1. state.sub_problems \in 0 .. MaxSubProblems
      BY DEF State
    <3>2. \A i \in 1 .. state.sub_problems :
            [sub_problem_id |-> None, drawn_from |-> {order[i]}] \in Result
      BY <3>1, GraphAssumption DEF Result, Index
    <3>3. state.sub_problems \in Nat
      BY <3>1, GraphAssumption
    <3> QED
      BY <3>2, <3>3
  <2>3. state' = [state EXCEPT !.current_sub_problem = None,
                               !.sub_problem_results = results]
    BY <2>1
  <2> HIDE DEF results
  <2>4. None \in Index \cup {None}
    OBVIOUS
  <2> QED
    BY <2>2, <2>3, <2>4 DEF State
<1>5. CASE select_personas_node
  BY <1>5 DEF select_personas_node
<1> QED
  BY <1>1, <1>2, <1>3, <1>4, <1>5 DEF SetupStep

(* The nodes of the discussion do: the two counters stay in their range    *)
(* because of the override of a third clarification and of RoundsLeft.     *)
LEMMA DiscussionState ==
  ASSUME state \in State, Rounds, DiscussionStep
  PROVE  state' \in State
<1>1. CASE initial_round_node
  <2>1. PICK q \in BOOLEAN :
          state' = IF RoundHeld(1)
                     THEN [state EXCEPT !.round_number = 2]
                     ELSE [state EXCEPT !.contributions = {ByExperts(1)},
                                        !.round_number = 2,
                                        !.facilitator_guidance = "None",
                                        !.pending_research_queries = q]
    BY <1>1 DEF initial_round_node
  <2>2. {ByExperts(1)} \in SUBSET Contribution
    BY DEF ByExperts, Contribution, State, HARD_CAP_ROUNDS
  <2>3. 2 \in 0 .. HARD_CAP_ROUNDS /\ "None" \in Guidance
    BY DEF HARD_CAP_ROUNDS, Guidance
  <2>4. CASE RoundHeld(1)
    BY <2>1, <2>3, <2>4 DEF State
  <2>5. CASE ~RoundHeld(1)
    <3>1. state' = [state EXCEPT !.contributions = {ByExperts(1)},
                                 !.round_number = 2,
                                 !.facilitator_guidance = "None",
                                 !.pending_research_queries = q]
      BY <2>1, <2>5
    <3> QED
      BY <2>2, <2>3, <3>1, Zenon DEF State
  <2> QED
    BY <2>4, <2>5
<1>2. CASE facilitator_decide_node
  <2>1. PICK action \in facilitator_decisions :
          state' = IF action = "clarify"
                     THEN [state EXCEPT !.clarification_count = @ + 1]
                     ELSE state
    BY <1>2 DEF facilitator_decide_node
  <2>2. action = "clarify" => ~(state.clarification_count >= MAX_CLARIFICATIONS)
    BY DEF facilitator_decisions, _validate_and_override_decision
  <2>3. CASE action = "clarify"
    <3>1. state.clarification_count + 1 \in 0 .. MAX_CLARIFICATIONS
      BY <2>2, <2>3 DEF State, MAX_CLARIFICATIONS
    <3> QED
      BY <2>1, <2>3, <3>1 DEF State
  <2>4. CASE action # "clarify"
    BY <2>1, <2>4
  <2> QED
    BY <2>3, <2>4
<1>3. CASE parallel_round_node
  <2>1. state.round_number + 1 \in 0 .. HARD_CAP_ROUNDS
    <3>1. state.round_number \in 0 .. 6 /\ state.max_rounds \in 3 .. 6
      BY DEF State, HARD_CAP_ROUNDS
    <3>2. state.round_number < state.max_rounds
      BY <1>3 DEF parallel_round_node, Rounds, RoundsLeft, Discussion
    <3> QED
      BY <3>1, <3>2 DEF HARD_CAP_ROUNDS
  <2>2. ByExperts(state.round_number) \in Contribution
    BY DEF ByExperts, Contribution, State
  <2>3. state.contributions \cup {ByExperts(state.round_number)} \in SUBSET Contribution
    BY <2>2 DEF State
  <2>4. CASE state' = [state EXCEPT !.round_number = @ + 1]
    BY <2>1, <2>4 DEF State
  <2>5. CASE \E q, enough \in BOOLEAN :
               state' = [state EXCEPT
                           !.contributions = @ \cup {ByExperts(state.round_number)},
                           !.contributions_checked = @ \/ enough,
                           !.round_number = @ + 1,
                           !.pending_research_queries = q]
    <3> DEFINE more == state.contributions \cup {ByExperts(state.round_number)}
               after == state.round_number + 1
    <3>1. PICK q \in BOOLEAN, checked \in BOOLEAN :
            state' = [state EXCEPT !.contributions = more,
                                   !.contributions_checked = checked,
                                   !.round_number = after,
                                   !.pending_research_queries = q]
      BY <2>5 DEF State
    <3> HIDE DEF more, after
    <3>2. more \in SUBSET Contribution /\ after \in 0 .. HARD_CAP_ROUNDS
      BY <2>1, <2>3 DEF more, after
    <3> QED
      BY <3>1, <3>2 DEF State
  <2> QED
    BY <1>3, <2>4, <2>5 DEF parallel_round_node
<1>4. CASE moderator_intervene_node
  <2> DEFINE said == [about |-> state.sub_problem_index,
                      round |-> state.round_number, by |-> "moderator"]
  <2>1. state.contributions \cup {said} \in SUBSET Contribution
    BY DEF Contribution, State
  <2>2. state' = [state EXCEPT !.contributions = @ \cup {said}]
    BY <1>4 DEF moderator_intervene_node
  <2> HIDE DEF said
  <2> QED
    BY <2>1, <2>2 DEF State
<1>5. CASE research_node
  BY <1>5 DEF research_node, State
<1>6. CASE data_analysis_node
  BY <1>6 DEF data_analysis_node
<1>7. CASE clarification_node
  <2>1. "clarification_needed" \in StopReason /\ TRUE \in BOOLEAN
    BY DEF StopReason
  <2>2. \/ state' = state
        \/ state' = [state EXCEPT !.should_stop = TRUE,
                                  !.stop_reason = "clarification_needed"]
    BY <1>7 DEF clarification_node
  <2> QED
    BY <2>1, <2>2, Zenon DEF State
<1>8. CASE interjection_response_node
  BY <1>8 DEF interjection_response_node, State
<1>9. CASE cost_guard_node
  <2>1. \/ UNCHANGED state
        \/ state' = [state EXCEPT !.over_budget = TRUE,
                                  !.should_stop = TRUE,
                                  !.stop_reason = "cost_budget_exceeded"]
    BY <1>9 DEF cost_guard_node
  <2>2. "cost_budget_exceeded" \in StopReason
    BY DEF StopReason
  <2> QED
    BY <2>1, <2>2 DEF State
<1>10. CASE check_convergence_node
  <2>1. CASE state' = [state EXCEPT !.context_insufficient_emitted = TRUE,
                                    !.should_stop = TRUE,
                                    !.stop_reason = "context_insufficient"]
    <3>1. "context_insufficient" \in StopReason
      BY DEF StopReason
    <3> QED
      BY <2>1, <3>1 DEF State
  <2>2. CASE \E should_stop \in BOOLEAN, stop_reason \in StopReason, guidance \in Guidance :
               state' = [state EXCEPT
                 !.should_stop = should_stop,
                 !.stop_reason = IF stop_reason = "None" THEN @ ELSE stop_reason,
                 !.facilitator_guidance = IF guidance = "None" THEN @ ELSE guidance]
    <3>1. PICK stop \in BOOLEAN, reason \in StopReason, guidance \in Guidance :
            state' = [state EXCEPT
              !.should_stop = stop,
              !.stop_reason = IF reason = "None" THEN @ ELSE reason,
              !.facilitator_guidance = IF guidance = "None" THEN @ ELSE guidance]
      BY <2>2
    <3> DEFINE kept == IF reason = "None" THEN state.stop_reason ELSE reason
               guided == IF guidance = "None" THEN state.facilitator_guidance
                                              ELSE guidance
    <3>2. kept \in StopReason /\ guided \in Guidance
      BY DEF State
    <3>3. state' = [state EXCEPT !.should_stop = stop,
                                 !.stop_reason = kept,
                                 !.facilitator_guidance = guided]
      BY <3>1
    <3> HIDE DEF kept, guided
    <3> QED
      BY <3>2, <3>3 DEF State
  <2> QED
    BY <1>10, <2>1, <2>2 DEF check_convergence_node
<1>11. CASE vote_node
  BY <1>11 DEF vote_node
<1> QED
  BY <1>1, <1>2, <1>3, <1>4, <1>5, <1>6, <1>7, <1>8, <1>9, <1>10, <1>11
     DEF DiscussionStep

(* Saving a result, or skipping a saved one, keeps the type of the state.  *)
LEMMA ClosingState ==
  ASSUME state \in State, ClosingStep,
         next = "next_subproblem" => state.current_sub_problem \in Index
  PROVE  state' \in State
<1>1. CASE next_subproblem_node
  <2> DEFINE results == Append(state.sub_problem_results, SubProblemResult)
             following == state.sub_problem_index + 1
  <2>1. results \in Seq(Result)
    <3>1. {c.about : c \in state.contributions} \in SUBSET Index
      BY DEF State, Contribution
    <3>2. SubProblemResult \in Result
      BY <1>1, <3>1 DEF SubProblemResult, Result, next_subproblem_node
    <3> QED
      BY <3>2 DEF State
  <2>2. HasNext(state.sub_problem_index) => following \in Index
    BY GraphAssumption DEF HasNext, State, Index
  <2>3. None \in Index \cup {None} /\ 0 \in 0 .. HARD_CAP_ROUNDS
        /\ "None" \in StopReason
    BY DEF HARD_CAP_ROUNDS, StopReason
  <2>4. \/ state' = [state EXCEPT !.current_sub_problem = None]
        \/ /\ HasNext(state.sub_problem_index)
           /\ state' = [state EXCEPT !.current_sub_problem = following,
                                     !.sub_problem_index = following]
        \/ state' = [state EXCEPT !.current_sub_problem = None,
                                  !.sub_problem_results = results]
        \/ /\ HasNext(state.sub_problem_index)
           /\ state' = [state EXCEPT !.current_sub_problem = following,
                                     !.sub_problem_index = following,
                                     !.sub_problem_results = results,
                                     !.round_number = 0,
                                     !.contributions = {},
                                     !.should_stop = FALSE,
                                     !.stop_reason = "None"]
    BY <1>1 DEF next_subproblem_node, SkippedSubProblem, SavedSubProblem
  <2> HIDE DEF results, following
  <2>5. CASE state' = [state EXCEPT !.current_sub_problem = None]
    BY <2>3, <2>5, Zenon DEF State
  <2>6. CASE /\ HasNext(state.sub_problem_index)
             /\ state' = [state EXCEPT !.current_sub_problem = following,
                                       !.sub_problem_index = following]
    BY <2>2, <2>6, Zenon DEF State
  <2>7. CASE state' = [state EXCEPT !.current_sub_problem = None,
                                    !.sub_problem_results = results]
    BY <2>1, <2>3, <2>7, Zenon DEF State
  <2>8. CASE /\ HasNext(state.sub_problem_index)
             /\ state' = [state EXCEPT !.current_sub_problem = following,
                                       !.sub_problem_index = following,
                                       !.sub_problem_results = results,
                                       !.round_number = 0,
                                       !.contributions = {},
                                       !.should_stop = FALSE,
                                       !.stop_reason = "None"]
    BY <2>1, <2>2, <2>3, <2>8, Zenon DEF State
  <2> QED
    BY <2>4, <2>5, <2>6, <2>7, <2>8
<1> QED
  BY <1>1 DEF ClosingStep, synthesize_node, meta_synthesize_node

-----------------------------------------------------------------------------
(* Rounds.                                                                 *)

LEMMA SetupRounds ==
  ASSUME state \in State, Rounds, SetupStep
  PROVE  Rounds'
<1>1. CASE decompose_node
  BY <1>1, Bounds DEF decompose_node, State, Rounds, RoundsWithinLimit, RoundsLeft, Discussion
<1>2. CASE ~decompose_node
  <2>1. state'.round_number = state.round_number /\ state'.max_rounds = state.max_rounds
    BY <1>2 DEF SetupStep, identify_gaps_node, analyze_dependencies_node,
         parallel_subproblems_node, select_personas_node, State
  <2>2. next' \notin Discussion \cup {"cost_guard", "check_convergence", "decompose"}
    BY <1>2 DEF SetupStep, identify_gaps_node, route_after_identify_gaps,
         analyze_dependencies_node, parallel_subproblems_node,
         select_personas_node, Discussion
  <2> QED
    BY <2>1, <2>2 DEF Rounds, RoundsWithinLimit, RoundsLeft
<1> QED
  BY <1>1, <1>2

(* A round is run only when one is left, and the facilitator is asked only *)
(* when the convergence check has found the counter below the limit.       *)
LEMMA DiscussionRounds ==
  ASSUME state \in State, Rounds, DiscussionStep
  PROVE  Rounds'
<1>1. state.round_number \in 0 .. 6 /\ state.max_rounds \in 3 .. 6
  BY DEF State, HARD_CAP_ROUNDS
<1>2. CASE initial_round_node
  <2>1. state'.round_number = 2 /\ state'.max_rounds = state.max_rounds
    BY <1>2 DEF initial_round_node, State
  <2> QED
    BY <1>1, <1>2, <2>1 DEF initial_round_node, Rounds, RoundsWithinLimit, RoundsLeft
<1>3. CASE parallel_round_node
  <2>1. state'.round_number = state.round_number + 1 /\ state'.max_rounds = state.max_rounds
    BY <1>3 DEF parallel_round_node, State
  <2>2. next = "parallel_round" /\ next' = "cost_guard"
    BY <1>3 DEF parallel_round_node
  <2>3. 2 <= state.round_number /\ state.round_number < state.max_rounds
    BY <2>2 DEF Rounds, RoundsLeft, Discussion
  <2>4. 2 <= state'.round_number /\ state'.round_number <= state'.max_rounds
    BY <1>1, <2>1, <2>3
  <2> QED
    BY <2>2, <2>4 DEF Rounds, RoundsWithinLimit, RoundsLeft, Discussion
<1>4. CASE check_convergence_node
  <2>1. state'.round_number = state.round_number /\ state'.max_rounds = state.max_rounds
    BY <1>4 DEF check_convergence_node, State
  <2>2. next' = IF state'.should_stop THEN "vote" ELSE "facilitator_decide"
    BY <1>4 DEF check_convergence_node, route_convergence_check
  <2>3. ~state'.should_stop => state.round_number < state.max_rounds
    <3>1. CASE check_context_insufficiency
               /\ state' = [state EXCEPT !.context_insufficient_emitted = TRUE,
                                         !.should_stop = TRUE,
                                         !.stop_reason = "context_insufficient"]
      BY <3>1 DEF State
    <3>2. CASE \E should_stop \in BOOLEAN, stop_reason \in StopReason, guidance \in Guidance :
                 /\ evaluate(should_stop, stop_reason, guidance)
                 /\ state' = [state EXCEPT
                      !.should_stop = should_stop,
                      !.stop_reason = IF stop_reason = "None" THEN @ ELSE stop_reason,
                      !.facilitator_guidance = IF guidance = "None" THEN @ ELSE guidance]
      <4>1. PICK should_stop \in BOOLEAN, stop_reason \in StopReason, guidance \in Guidance :
              /\ evaluate(should_stop, stop_reason, guidance)
              /\ state' = [state EXCEPT
                   !.should_stop = should_stop,
                   !.stop_reason = IF stop_reason = "None" THEN @ ELSE stop_reason,
                   !.facilitator_guidance = IF guidance = "None" THEN @ ELSE guidance]
        BY <3>2
      <4>2. state'.should_stop = should_stop
        BY <4>1 DEF State
      <4> QED
        BY <1>1, <4>1, <4>2 DEF evaluate
    <3> QED
      BY <1>4, <3>1, <3>2 DEF check_convergence_node
  <2> QED
    BY <1>1, <1>4, <2>1, <2>2, <2>3
       DEF check_convergence_node, Rounds, RoundsWithinLimit, RoundsLeft, Discussion
<1>5. CASE facilitator_decide_node \/ research_node \/ data_analysis_node
           \/ clarification_node \/ interjection_response_node
  <2>1. state'.round_number = state.round_number /\ state'.max_rounds = state.max_rounds
    BY <1>5 DEF facilitator_decide_node, research_node, data_analysis_node,
         clarification_node, interjection_response_node, State
  <2>2. next \in Discussion
    BY <1>5 DEF facilitator_decide_node, research_node, data_analysis_node,
         clarification_node, interjection_response_node, Discussion
  <2>3. next' # "decompose"
    BY <1>5 DEF facilitator_decide_node, research_node, data_analysis_node,
         clarification_node, interjection_response_node, route_clarification,
         facilitator_decisions, decide_next_action, _validate_and_override_decision,
         route_facilitator_decision
  <2> QED
    BY <2>1, <2>2, <2>3 DEF Rounds, RoundsWithinLimit, RoundsLeft
<1>6. CASE moderator_intervene_node \/ cost_guard_node \/ vote_node
  <2>1. state'.round_number = state.round_number /\ state'.max_rounds = state.max_rounds
    BY <1>6 DEF moderator_intervene_node, cost_guard_node, vote_node, State
  <2>2. /\ next' \notin Discussion \cup {"decompose"}
        /\ next' \in {"cost_guard", "check_convergence"} =>
             next \in Discussion \cup {"cost_guard"}
    BY <1>6 DEF moderator_intervene_node, cost_guard_node, vote_node,
         route_cost_guard, Discussion
  <2> QED
    BY <2>1, <2>2 DEF Rounds, RoundsWithinLimit, RoundsLeft
<1> QED
  BY <1>2, <1>3, <1>4, <1>5, <1>6 DEF DiscussionStep

LEMMA ClosingRounds ==
  ASSUME state \in State, Rounds, ClosingStep
  PROVE  Rounds'
<1>1. state.round_number \in 0 .. 6 /\ state.max_rounds \in 3 .. 6
  BY DEF State, HARD_CAP_ROUNDS
<1>2. /\ state'.round_number \in {0, state.round_number}
      /\ state'.max_rounds = state.max_rounds
  BY DEF ClosingStep, synthesize_node, next_subproblem_node, meta_synthesize_node,
       SkippedSubProblem, SavedSubProblem, State
<1>3. next' \notin Discussion \cup {"cost_guard", "check_convergence", "decompose"}
  BY DEF ClosingStep, synthesize_node, next_subproblem_node, meta_synthesize_node,
       route_after_next_subproblem, Discussion
<1> QED
  BY <1>1, <1>2, <1>3 DEF Rounds, RoundsWithinLimit, RoundsLeft


-----------------------------------------------------------------------------
(* The stages of a meeting.                                                *)

Opening == {"select_personas", "initial_round"}

Speaking == Discussion \cup {"cost_guard", "check_convergence"}

Meeting == Opening \cup Speaking \cup {"vote", "synthesize", "next_subproblem"}

Quiet == ~state.should_stop /\ state.stop_reason = "None"

Unstarted ==
  /\ Quiet
  /\ state.sub_problem_index = 0
  /\ state.sub_problem_results = << >>
  /\ state.contributions = {}

(* What each stage knows: a sub-problem is discussed in its turn, with the *)
(* results of those before it saved, with contributions of its own only -  *)
(* none until the initial round, some from then on - and without a stop.   *)
Stages ==
  /\ next \in Setup \cup {"parallel_subproblems"} => Unstarted
  /\ next \in (Setup \ {"decompose"}) \cup {"parallel_subproblems"} =>
       state.sub_problems >= 1
  /\ next \in Meeting =>
       /\ state.current_sub_problem = state.sub_problem_index
       /\ state.sub_problem_index < state.sub_problems
       /\ Len(state.sub_problem_results) = state.sub_problem_index
       /\ \A c \in state.contributions : c.about = state.sub_problem_index
  /\ next \in Opening => Quiet /\ state.contributions = {}
  /\ next \in Meeting \ Opening => state.contributions # {}
  /\ next \in Speaking => Quiet
  /\ next = "meta_synthesis" =>
       Len(state.sub_problem_results) = state.sub_problems

(* The results that were saved in turn are in order and grounded.          *)
InTurn ==
  \A i \in DOMAIN state.sub_problem_results :
    /\ state.sub_problem_results[i].sub_problem_id = i - 1
    /\ state.sub_problem_results[i].drawn_from = {i - 1}

(* Those of nested graphs have no name, and there is one for each.         *)
Nested ==
  /\ \A i \in DOMAIN state.sub_problem_results :
       /\ state.sub_problem_results[i].sub_problem_id = None
       /\ \E j \in 0 .. state.sub_problems - 1 :
            state.sub_problem_results[i].drawn_from = {j}
  /\ \A j \in 0 .. state.sub_problems - 1 :
       \E i \in DOMAIN state.sub_problem_results :
         state.sub_problem_results[i].drawn_from = {j}

(* No discussion follows on nested graphs.                                 *)
Orderly == InTurn \/ (Nested /\ next \in {"meta_synthesis"} \cup Over)

Inv == TypeOK /\ Rounds /\ Stages /\ Orderly /\ EndsComplete

LEMMA SetupStages ==
  ASSUME state \in State, Stages, Orderly, SetupStep
  PROVE  Stages' /\ Orderly'
<1>1. CASE decompose_node
  <2>1. PICK n \in 1 .. MaxSubProblems, r \in RecommendedRounds, q \in BOOLEAN :
          state' = [state EXCEPT !.sub_problems = n,
                                 !.current_sub_problem = 0,
                                 !.max_rounds = r,
                                 !.pending_research_queries = q]
    BY <1>1 DEF decompose_node
  <2>2. next = "decompose" /\ next' = "identify_gaps"
    BY <1>1 DEF decompose_node
  <2>3. Unstarted' /\ state'.sub_problems >= 1
    BY <2>1, <2>2, GraphAssumption DEF State, Stages, Setup, Unstarted, Quiet
  <2> QED
    BY <2>2, <2>3 DEF Stages, Orderly, InTurn, Nested, Over, Unstarted, Meeting, Opening, Speaking, Discussion
<1>2. CASE identify_gaps_node
  <2>1. next = "identify_gaps" /\ Unstarted /\ state.sub_problems >= 1
    BY <1>2 DEF identify_gaps_node, Stages, Setup
  <2>2. CASE UNCHANGED state
    <3>1. next' = "analyze_dependencies"
      BY <1>2, <2>1, <2>2 DEF identify_gaps_node, route_after_identify_gaps,
           Unstarted, Quiet
    <3> QED
      BY <2>1, <2>2, <3>1
         DEF Stages, Orderly, InTurn, Nested, Over, Unstarted, Quiet, Meeting, Opening, Speaking, Discussion
  <2>3. CASE state' = [state EXCEPT !.should_stop = TRUE,
                                    !.stop_reason = "clarification_needed"]
    <3>1. next' = "END"
      BY <1>2, <2>3 DEF identify_gaps_node, route_after_identify_gaps, State
    <3>2. state'.sub_problem_results = << >>
      BY <2>1, <2>3 DEF State, Unstarted
    <3> QED
      BY <3>1, <3>2
         DEF Stages, Orderly, InTurn, Nested, Over, Setup, Meeting, Opening, Speaking, Discussion
  <2> QED
    BY <1>2, <2>2, <2>3 DEF identify_gaps_node
<1>3. CASE analyze_dependencies_node
  <2>1. next = "analyze_dependencies" /\ Unstarted /\ state.sub_problems >= 1
    BY <1>3 DEF analyze_dependencies_node, Stages, Setup
  <2>2. PICK p \in BOOLEAN :
          /\ state' = [state EXCEPT !.current_sub_problem = IF p THEN None ELSE 0]
          /\ next' = IF p THEN "parallel_subproblems" ELSE "select_personas"
    BY <1>3 DEF analyze_dependencies_node
  <2>3. Unstarted' /\ state'.sub_problems >= 1
    BY <2>1, <2>2 DEF State, Unstarted, Quiet
  <2>4. next' = "select_personas" => state'.current_sub_problem = 0
    BY <2>2 DEF State
  <2>5. next' \in {"parallel_subproblems", "select_personas"}
    BY <2>2
  <2>6. state'.sub_problems \in Int
    BY <2>2 DEF State
  <2> QED
    BY <2>3, <2>4, <2>5, <2>6
       DEF Stages, Orderly, InTurn, Nested, Over, Unstarted, Setup, Meeting, Opening, Speaking, Discussion
<1>4. CASE parallel_subproblems_node
  <2>1. PICK order \in [1 .. state.sub_problems -> 0 .. state.sub_problems - 1] :
          /\ \A j \in 0 .. state.sub_problems - 1 :
               \E i \in 1 .. state.sub_problems : order[i] = j
          /\ state' = [state EXCEPT
               !.current_sub_problem = None,
               !.sub_problem_results =
                  [i \in 1 .. state.sub_problems |->
                     [sub_problem_id |-> None, drawn_from |-> {order[i]}]]]
    BY <1>4 DEF parallel_subproblems_node
  <2> DEFINE results == [i \in 1 .. state.sub_problems |->
                           [sub_problem_id |-> None, drawn_from |-> {order[i]}]]
  <2>2. state'.sub_problem_results = results /\ state'.sub_problems = state.sub_problems
    BY <2>1 DEF State
  <2>3. state.sub_problems \in Nat
    BY GraphAssumption DEF State
  <2>4. /\ Len(results) = state.sub_problems
        /\ DOMAIN results = 1 .. state.sub_problems
        /\ \A i \in 1 .. state.sub_problems :
             /\ results[i].sub_problem_id = None
             /\ results[i].drawn_from = {order[i]}
    BY <2>3
  <2> HIDE DEF results
  <2>5. next' = "meta_synthesis"
    BY <1>4 DEF parallel_subproblems_node
  <2>6. Stages'
    BY <2>2, <2>4, <2>5 DEF Stages, Setup, Meeting, Opening, Speaking, Discussion
  <2>7. Nested'
    <3>1. \A i \in DOMAIN state'.sub_problem_results :
            /\ state'.sub_problem_results[i].sub_problem_id = None
            /\ state'.sub_problem_results[i].drawn_from = {order[i]}
            /\ order[i] \in 0 .. state'.sub_problems - 1
      BY <2>1, <2>2, <2>4
    <3>2. \A j \in 0 .. state'.sub_problems - 1 :
            \E i \in DOMAIN state'.sub_problem_results : order[i] = j
      BY <2>1, <2>2, <2>4
    <3> QED
      BY <3>1, <3>2 DEF Nested
  <2> QED
    BY <2>5, <2>6, <2>7 DEF Orderly
<1>5. CASE select_personas_node
  <2>1. next = "select_personas" /\ next' = "initial_round" /\ state' = state
    BY <1>5 DEF select_personas_node
  <2> QED
    BY <2>1 DEF Stages, Orderly, InTurn, Nested, Over, Quiet, Setup, Meeting, Opening, Speaking, Discussion
<1> QED
  BY <1>1, <1>2, <1>3, <1>4, <1>5 DEF SetupStep

(* The discussion changes neither the plan nor the results.                *)
LEMMA DiscussionKeeps ==
  ASSUME state \in State, DiscussionStep
  PROVE  /\ state'.sub_problems = state.sub_problems
         /\ state'.current_sub_problem = state.current_sub_problem
         /\ state'.sub_problem_index = state.sub_problem_index
         /\ state'.sub_problem_results = state.sub_problem_results
<1>1. CASE initial_round_node \/ facilitator_decide_node \/ parallel_round_node
  BY <1>1 DEF initial_round_node, facilitator_decide_node, parallel_round_node, State
<1>2. CASE moderator_intervene_node \/ research_node \/ data_analysis_node
           \/ clarification_node \/ interjection_response_node
  BY <1>2 DEF moderator_intervene_node, research_node, data_analysis_node,
       clarification_node, interjection_response_node, State
<1>3. CASE cost_guard_node \/ check_convergence_node \/ vote_node
  BY <1>3 DEF cost_guard_node, check_convergence_node, vote_node, State
<1> QED
  BY <1>1, <1>2, <1>3 DEF DiscussionStep

(* Whoever speaks, speaks about the sub-problem at hand, and the initial   *)
(* round is held because no contribution of an earlier one is left.        *)
LEMMA DiscussionContributes ==
  ASSUME state \in State, Stages, DiscussionStep
  PROVE  /\ state'.contributions # {}
         /\ \A c \in state'.contributions : c.about = state.sub_problem_index
<1>1. \A c \in state.contributions : c.about = state.sub_problem_index
  BY DEF DiscussionStep, initial_round_node, facilitator_decide_node,
       parallel_round_node, moderator_intervene_node, research_node,
       data_analysis_node, clarification_node, interjection_response_node,
       cost_guard_node, check_convergence_node, vote_node,
       Stages, Meeting, Opening, Speaking, Discussion
<1>2. CASE initial_round_node
  <2>1. ~RoundHeld(1)
    BY <1>2 DEF initial_round_node, Stages, Opening, RoundHeld
  <2>2. state'.contributions = {ByExperts(1)}
    BY <1>2, <2>1 DEF initial_round_node, State
  <2> QED
    BY <2>2 DEF ByExperts
<1>3. CASE ~initial_round_node
  <2>1. state.contributions # {}
    BY <1>3 DEF DiscussionStep, facilitator_decide_node,
         parallel_round_node, moderator_intervene_node, research_node,
         data_analysis_node, clarification_node, interjection_response_node,
         cost_guard_node, check_convergence_node, vote_node,
         Stages, Meeting, Opening, Speaking, Discussion
  <2>2. CASE parallel_round_node
    <3>1. state'.contributions \in
            {state.contributions,
             state.contributions \cup {ByExperts(state.round_number)}}
      BY <2>2 DEF parallel_round_node, State
    <3> QED
      BY <1>1, <2>1, <3>1 DEF ByExperts
  <2>3. CASE moderator_intervene_node
    <3> DEFINE said == [about |-> state.sub_problem_index,
                        round |-> state.round_number, by |-> "moderator"]
    <3>1. state'.contributions = state.contributions \cup {said}
      BY <2>3 DEF moderator_intervene_node, State
    <3>2. said.about = state.sub_problem_index
      OBVIOUS
    <3> HIDE DEF said
    <3> QED
      BY <1>1, <3>1, <3>2
  <2>4. CASE ~parallel_round_node /\ ~moderator_intervene_node
    <3>1. state'.contributions = state.contributions
      <4>1. CASE facilitator_decide_node \/ research_node \/ data_analysis_node
        BY <4>1 DEF facilitator_decide_node, research_node, data_analysis_node, State
      <4>2. CASE clarification_node \/ interjection_response_node
        BY <4>2 DEF clarification_node, interjection_response_node, State
      <4>3. CASE cost_guard_node \/ check_convergence_node \/ vote_node
        BY <4>3 DEF cost_guard_node, check_convergence_node, vote_node, State
      <4> QED
        BY <1>3, <2>4, <4>1, <4>2, <4>3 DEF DiscussionStep
    <3> QED
      BY <1>1, <2>1, <3>1
  <2> QED
    BY <2>2, <2>3, <2>4
<1> QED
  BY <1>2, <1>3

LEMMA DiscussionQuiet ==
  ASSUME state \in State, Stages, DiscussionStep, next' \in Speaking
  PROVE  Quiet'
<1>1. CASE initial_round_node
  <2>1. Quiet
    BY <1>1 DEF initial_round_node, Stages, Opening
  <2> QED
    BY <1>1, <2>1 DEF initial_round_node, Quiet, State
<1>2. CASE facilitator_decide_node \/ parallel_round_node \/ moderator_intervene_node
           \/ research_node \/ data_analysis_node \/ interjection_response_node
  <2>1. Quiet
    BY <1>2 DEF facilitator_decide_node, parallel_round_node, moderator_intervene_node,
         research_node, data_analysis_node, interjection_response_node,
         Stages, Speaking, Discussion
  <2>2. /\ state'.should_stop = state.should_stop
        /\ state'.stop_reason = state.stop_reason
    <3>1. CASE facilitator_decide_node \/ parallel_round_node
      BY <3>1 DEF facilitator_decide_node, parallel_round_node, State
    <3>2. CASE moderator_intervene_node \/ research_node \/ data_analysis_node
               \/ interjection_response_node
      BY <3>2 DEF moderator_intervene_node, research_node, data_analysis_node,
           interjection_response_node, State
    <3> QED
      BY <1>2, <3>1, <3>2
  <2> QED
    BY <2>1, <2>2 DEF Quiet
<1>3. CASE clarification_node
  <2>1. Quiet
    BY <1>3 DEF clarification_node, Stages, Speaking, Discussion
  <2>2. ~state'.should_stop
    BY <1>3 DEF clarification_node, route_clarification, Speaking, Discussion
  <2> QED
    BY <1>3, <2>1, <2>2 DEF clarification_node, State, Quiet
<1>4. CASE cost_guard_node
  <2>1. Quiet
    BY <1>4 DEF cost_guard_node, Stages, Speaking
  <2>2. state'.stop_reason # "cost_budget_exceeded"
    BY <1>4 DEF cost_guard_node, route_cost_guard, Speaking, Discussion
  <2> QED
    BY <1>4, <2>1, <2>2 DEF cost_guard_node, State, Quiet
<1>5. CASE check_convergence_node
  <2>1. Quiet
    BY <1>5 DEF check_convergence_node, Stages, Speaking
  <2>2. ~state'.should_stop
    BY <1>5 DEF check_convergence_node, route_convergence_check, Speaking, Discussion
  <2>3. CASE state' = [state EXCEPT !.context_insufficient_emitted = TRUE,
                                    !.should_stop = TRUE,
                                    !.stop_reason = "context_insufficient"]
    BY <2>2, <2>3 DEF State
  <2>4. CASE \E should_stop \in BOOLEAN, stop_reason \in StopReason, guidance \in Guidance :
               /\ evaluate(should_stop, stop_reason, guidance)
               /\ state' = [state EXCEPT
                    !.should_stop = should_stop,
                    !.stop_reason = IF stop_reason = "None" THEN @ ELSE stop_reason,
                    !.facilitator_guidance = IF guidance = "None" THEN @ ELSE guidance]
    <3>1. PICK should_stop \in BOOLEAN, stop_reason \in StopReason, guidance \in Guidance :
            /\ evaluate(should_stop, stop_reason, guidance)
            /\ state' = [state EXCEPT
                 !.should_stop = should_stop,
                 !.stop_reason = IF stop_reason = "None" THEN @ ELSE stop_reason,
                 !.facilitator_guidance = IF guidance = "None" THEN @ ELSE guidance]
      BY <2>4
    <3>2. /\ state'.should_stop = should_stop
          /\ state'.stop_reason = IF stop_reason = "None" THEN state.stop_reason
                                  ELSE stop_reason
      BY <3>1 DEF State
    <3>3. stop_reason = "None"
      BY <2>2, <3>1, <3>2 DEF evaluate
    <3> QED
      BY <2>1, <2>2, <3>2, <3>3 DEF Quiet
  <2> QED
    BY <1>5, <2>3, <2>4 DEF check_convergence_node
<1>6. CASE vote_node
  BY <1>6 DEF vote_node, Speaking, Discussion
<1> QED
  BY <1>1, <1>2, <1>3, <1>4, <1>5, <1>6 DEF DiscussionStep

LEMMA DiscussionStages ==
  ASSUME state \in State, Stages, Orderly, DiscussionStep
  PROVE  Stages' /\ Orderly'
<1>1. /\ state.current_sub_problem = state.sub_problem_index
      /\ state.sub_problem_index < state.sub_problems
      /\ Len(state.sub_problem_results) = state.sub_problem_index
  BY DEF DiscussionStep, initial_round_node, facilitator_decide_node,
       parallel_round_node, moderator_intervene_node, research_node,
       data_analysis_node, clarification_node, interjection_response_node,
       cost_guard_node, check_convergence_node, vote_node,
       Stages, Meeting, Opening, Speaking, Discussion
<1>2. next' \in Speaking \cup {"vote", "synthesize", "END"}
  <2>1. CASE initial_round_node \/ parallel_round_node \/ moderator_intervene_node
             \/ research_node \/ data_analysis_node \/ interjection_response_node
    BY <2>1 DEF initial_round_node, parallel_round_node, moderator_intervene_node,
         research_node, data_analysis_node, interjection_response_node,
         Speaking, Discussion
  <2>2. CASE facilitator_decide_node
    BY <2>2 DEF facilitator_decide_node, facilitator_decisions, decide_next_action,
         _validate_and_override_decision, route_facilitator_decision,
         Speaking, Discussion
  <2>3. CASE clarification_node \/ cost_guard_node \/ check_convergence_node \/ vote_node
    BY <2>3 DEF clarification_node, route_clarification, cost_guard_node,
         route_cost_guard, check_convergence_node, route_convergence_check,
         vote_node, Speaking, Discussion
  <2> QED
    BY <2>1, <2>2, <2>3 DEF DiscussionStep
<1>3. next' \in Speaking => Quiet'
  BY DiscussionQuiet
<1>4. next' \notin Setup \cup Opening \cup {"parallel_subproblems", "meta_synthesis"}
  BY <1>2 DEF Speaking, Discussion, Setup, Opening
<1>5. Stages'
  BY <1>1, <1>3, <1>4, DiscussionKeeps, DiscussionContributes DEF Stages
<1>6. next \in Meeting
  BY DEF DiscussionStep, initial_round_node, facilitator_decide_node,
       parallel_round_node, moderator_intervene_node, research_node,
       data_analysis_node, clarification_node, interjection_response_node,
       cost_guard_node, check_convergence_node, vote_node,
       Meeting, Opening, Speaking, Discussion
<1>7. InTurn
  BY <1>6 DEF Orderly, Over, Meeting, Opening, Speaking, Discussion
<1>8. Orderly'
  BY <1>7, DiscussionKeeps DEF Orderly, InTurn
<1> QED
  BY <1>5, <1>8

(* A result is appended in its turn, so the guard against double           *)
(* processing never skips a sub-problem.                                   *)
LEMMA ClosingStages ==
  ASSUME state \in State, Stages, Orderly, ClosingStep
  PROVE  /\ Stages' /\ Orderly'
         /\ next = "next_subproblem" => next' # "END"
<1>1. CASE synthesize_node
  <2>1. /\ next = "synthesize" /\ state' = state
        /\ next' \in {"END", "next_subproblem"}
    BY <1>1 DEF synthesize_node
  <2> QED
    BY <2>1 DEF Stages, Orderly, InTurn, Nested, Over, Setup, Meeting, Opening, Speaking, Discussion
<1>2. CASE next_subproblem_node
  <2> DEFINE index   == state.sub_problem_index
             results == state.sub_problem_results
             saved   == Append(results, SubProblemResult)
  <2>1. /\ state.current_sub_problem = index
        /\ index < state.sub_problems
        /\ Len(results) = index
        /\ state.contributions # {}
        /\ \A c \in state.contributions : c.about = index
    BY <1>2 DEF next_subproblem_node, Stages, Meeting, Opening, Speaking
  <2>2. index \in Nat /\ state.sub_problems \in Nat /\ results \in Seq(Result)
    BY GraphAssumption DEF State, Index
  <2>3. InTurn /\ ~ResultExists
    <3>1. InTurn
      BY <1>2 DEF next_subproblem_node, Orderly, Over
    <3> QED
      BY <2>1, <2>2, <3>1 DEF ResultExists, InTurn
  <2>4. state' = SavedSubProblem
    BY <1>2, <2>3 DEF next_subproblem_node
  <2>5. SubProblemResult.sub_problem_id = index /\ SubProblemResult.drawn_from = {index}
    BY <2>1 DEF SubProblemResult
  <2>6. state'.sub_problem_results = saved /\ state'.sub_problems = state.sub_problems
    BY <2>4 DEF SavedSubProblem, State
  <2>7. Len(saved) = index + 1
    BY <2>1, <2>2
  <2>8. Orderly'
    <3>1. ASSUME NEW i \in DOMAIN saved
          PROVE  saved[i].sub_problem_id = i - 1 /\ saved[i].drawn_from = {i - 1}
      <4>1. CASE i = index + 1
        BY <2>1, <2>2, <2>5, <4>1
      <4>2. CASE i # index + 1
        <5>1. i \in DOMAIN results /\ saved[i] = results[i]
          BY <2>1, <2>2, <3>1, <4>2
        <5> QED
          BY <2>3, <5>1 DEF InTurn
      <4> QED
        BY <4>1, <4>2
    <3> QED
      BY <2>6, <3>1 DEF Orderly, InTurn
  <2>9. CASE HasNext(index)
    <3>1. /\ state'.current_sub_problem = index + 1
          /\ state'.sub_problem_index = index + 1
          /\ state'.contributions = {}
          /\ Quiet'
      BY <2>4, <2>9 DEF SavedSubProblem, State, Quiet
    <3>2. next' = "select_personas"
      BY <1>2, <2>2, <3>1 DEF next_subproblem_node, route_after_next_subproblem, None
    <3>3. index + 1 < state.sub_problems
      BY <2>9 DEF HasNext
    <3> QED
      BY <2>6, <2>7, <2>8, <3>1, <3>2, <3>3
         DEF Stages, Setup, Meeting, Opening, Speaking, Discussion
  <2>10. CASE ~HasNext(index)
    <3>1. state'.current_sub_problem = None
      BY <2>4, <2>10 DEF SavedSubProblem, State
    <3>2. index + 1 = state.sub_problems
      BY <2>1, <2>2, <2>10 DEF HasNext
    <3>3. next' = "meta_synthesis"
      BY <1>2, <2>2, <2>6, <2>7, <3>1, <3>2
         DEF next_subproblem_node, route_after_next_subproblem
    <3> QED
      BY <2>6, <2>7, <2>8, <3>2, <3>3
         DEF Stages, Setup, Meeting, Opening, Speaking, Discussion
  <2> QED
    BY <2>9, <2>10
<1>3. CASE meta_synthesize_node
  <2>1. next = "meta_synthesis" /\ state' = state /\ next' = "END"
    BY <1>3 DEF meta_synthesize_node
  <2> QED
    BY <2>1 DEF Stages, Orderly, InTurn, Nested, Over, Setup, Meeting, Opening, Speaking, Discussion
<1> QED
  BY <1>1, <1>2, <1>3 DEF ClosingStep

-----------------------------------------------------------------------------
(* The end, the interruptions and the theorems.                            *)

LEMMA NodeEnds ==
  ASSUME state \in State, Stages, Orderly, RunNode, next' = "END",
         state'.stop_reason # "clarification_needed", state'.sub_problems # 1
  PROVE  Len(state'.sub_problem_results) = state'.sub_problems
<1>1. CASE identify_gaps_node
  BY <1>1 DEF identify_gaps_node, route_after_identify_gaps
<1>2. CASE clarification_node
  <2>1. Quiet
    BY <1>2 DEF clarification_node, Stages, Speaking, Discussion
  <2> QED
    BY <1>2, <2>1 DEF clarification_node, route_clarification, State, Quiet
<1>3. CASE synthesize_node
  BY <1>3 DEF synthesize_node
<1>4. CASE next_subproblem_node
  BY <1>4, ClosingStages DEF ClosingStep, next_subproblem_node
<1>5. CASE meta_synthesize_node
  BY <1>5 DEF meta_synthesize_node, Stages
<1>6. CASE SetupStep /\ ~identify_gaps_node
  BY <1>6 DEF SetupStep, decompose_node, analyze_dependencies_node,
       parallel_subproblems_node, select_personas_node
<1>7. CASE DiscussionStep /\ ~clarification_node
  <2>1. CASE facilitator_decide_node
    BY <2>1 DEF facilitator_decide_node, facilitator_decisions, decide_next_action,
         _validate_and_override_decision, route_facilitator_decision
  <2> QED
    BY <1>7, <2>1 DEF DiscussionStep, initial_round_node, parallel_round_node,
         moderator_intervene_node, research_node, data_analysis_node,
         interjection_response_node, cost_guard_node, route_cost_guard,
         check_convergence_node, route_convergence_check, vote_node
<1> QED
  BY <1>1, <1>2, <1>3, <1>4, <1>5, <1>6, <1>7 DEF RunNode, ClosingStep

LEMMA NodeNext ==
  ASSUME RunNode
  PROVE  next' \in Node \cup Over
<1>1. CASE SetupStep
  BY <1>1 DEF SetupStep, decompose_node, identify_gaps_node, route_after_identify_gaps,
       analyze_dependencies_node, parallel_subproblems_node, select_personas_node,
       Node, Over, Setup
<1>2. CASE facilitator_decide_node
  BY <1>2 DEF facilitator_decide_node, facilitator_decisions, decide_next_action,
       _validate_and_override_decision, route_facilitator_decision, Node, Discussion
<1>3. CASE DiscussionStep /\ ~facilitator_decide_node
  BY <1>3 DEF DiscussionStep, initial_round_node, parallel_round_node,
       moderator_intervene_node, research_node, data_analysis_node,
       clarification_node, route_clarification, interjection_response_node,
       cost_guard_node, route_cost_guard, check_convergence_node,
       route_convergence_check, vote_node, Node, Over, Discussion
<1>4. CASE ClosingStep
  BY <1>4 DEF ClosingStep, synthesize_node, next_subproblem_node,
       route_after_next_subproblem, meta_synthesize_node, Node, Over
<1> QED
  BY <1>1, <1>2, <1>3, <1>4 DEF RunNode

LEMMA NodeInterjections ==
  ASSUME RunNode
  PROVE  interjections' = interjections /\ next \notin Over
<1>1. CASE SetupStep
  BY <1>1 DEF SetupStep, decompose_node, identify_gaps_node,
       analyze_dependencies_node, parallel_subproblems_node, select_personas_node, Over
<1>2. CASE DiscussionStep
  BY <1>2 DEF DiscussionStep, initial_round_node, facilitator_decide_node,
       parallel_round_node, moderator_intervene_node, research_node,
       data_analysis_node, clarification_node, interjection_response_node,
       cost_guard_node, check_convergence_node, vote_node, Over
<1>3. CASE ClosingStep
  BY <1>3 DEF ClosingStep, synthesize_node, next_subproblem_node,
       meta_synthesize_node, Over
<1> QED
  BY <1>1, <1>2, <1>3 DEF RunNode

LEMMA InitInv == Init => Inv
<1> SUFFICES ASSUME Init PROVE Inv
  OBVIOUS
<1>1. state \in State
  <2>1. << >> \in Seq(Result) /\ {} \in SUBSET Contribution
    OBVIOUS
  <2>2. 0 \in 0 .. MaxSubProblems /\ None \in Index \cup {None} /\ 0 \in Index
    BY GraphAssumption, Bounds
  <2>3. /\ 0 \in 0 .. HARD_CAP_ROUNDS /\ 0 \in 0 .. MAX_CLARIFICATIONS
        /\ HARD_CAP_ROUNDS \in 3 .. HARD_CAP_ROUNDS
        /\ "None" \in Guidance /\ "None" \in StopReason
    BY DEF HARD_CAP_ROUNDS, MAX_CLARIFICATIONS, Guidance, StopReason
  <2> QED
    BY <2>1, <2>2, <2>3 DEF Init, create_initial_state, State
<1>2. TypeOK
  BY <1>1, GraphAssumption DEF Init, TypeOK, Node, Setup
<1>3. Rounds
  BY DEF Init, create_initial_state, Rounds, RoundsWithinLimit, RoundsLeft,
       HARD_CAP_ROUNDS, Discussion
<1>4. Stages
  BY DEF Init, create_initial_state, Stages, Unstarted, Quiet,
       Setup, Meeting, Opening, Speaking, Discussion
<1>5. Orderly /\ EndsComplete
  BY DEF Init, create_initial_state, Orderly, InTurn, EndsComplete
<1> QED
  BY <1>2, <1>3, <1>4, <1>5 DEF Inv

LEMMA RunNodeInv ==
  ASSUME Inv, RunNode
  PROVE  Inv'
<1>1. state \in State /\ Rounds /\ Stages /\ Orderly
  BY DEF Inv, TypeOK
<1>2. next = "next_subproblem" => state.current_sub_problem \in Index
  BY <1>1 DEF Stages, Meeting, Opening, Speaking, State
<1>3. state' \in State
  BY <1>1, <1>2, SetupState, DiscussionState, ClosingState DEF RunNode
<1>4. TypeOK'
  BY <1>3, NodeNext, NodeInterjections DEF Inv, TypeOK
<1>5. Rounds'
  BY <1>1, SetupRounds, DiscussionRounds, ClosingRounds DEF RunNode
<1>6. Stages' /\ Orderly'
  BY <1>1, SetupStages, DiscussionStages, ClosingStages DEF RunNode
<1>7. EndsComplete'
  <2>1. ASSUME next' = "END", state'.stop_reason # "clarification_needed",
               state'.sub_problems # 1
        PROVE  Complete'
    <3>1. Len(state'.sub_problem_results) = state'.sub_problems
      BY <1>1, <2>1, NodeEnds
    <3>2. state'.sub_problems \in Nat /\ state'.sub_problem_results \in Seq(Result)
      BY <1>3, GraphAssumption DEF State
    <3>3. CASE InTurn'
      <4>1. \A j \in 0 .. state'.sub_problems - 1 :
              /\ j + 1 \in DOMAIN state'.sub_problem_results
              /\ state'.sub_problem_results[j + 1].drawn_from = {j}
        BY <3>1, <3>2, <3>3 DEF InTurn
      <4> QED
        BY <3>1, <3>3, <4>1 DEF Complete, InTurn
    <3>4. CASE Nested'
      BY <3>1, <3>4 DEF Complete, Nested
    <3> QED
      BY <1>6, <3>3, <3>4 DEF Orderly
  <2> QED
    BY <2>1 DEF EndsComplete
<1> QED
  BY <1>4, <1>5, <1>6, <1>7 DEF Inv

(* A raised hand sets one flag at most, and a node that raises leaves the  *)
(* state as it was.                                                        *)
LEMMA InterruptInv ==
  ASSUME Inv, raise_hand \/ Raise \/ UNCHANGED vars
  PROVE  Inv'
<1>1. CASE raise_hand
  <2>1. \/ state' = [state EXCEPT !.needs_interjection_response = TRUE]
        \/ state' = state
    BY <1>1 DEF raise_hand
  <2>2. state' \in State
    BY <2>1 DEF Inv, TypeOK, State
  <2>3. interjections' \in 0 .. MaxInterjections /\ next' = next
    BY <1>1, GraphAssumption DEF raise_hand, Inv, TypeOK
  <2>4. TypeOK'
    BY <2>2, <2>3 DEF Inv, TypeOK
  <2>5. /\ state'.sub_problems = state.sub_problems
        /\ state'.current_sub_problem = state.current_sub_problem
        /\ state'.sub_problem_index = state.sub_problem_index
        /\ state'.sub_problem_results = state.sub_problem_results
        /\ state'.contributions = state.contributions
        /\ state'.should_stop = state.should_stop
        /\ state'.stop_reason = state.stop_reason
        /\ state'.round_number = state.round_number
        /\ state'.max_rounds = state.max_rounds
    BY <2>1 DEF Inv, TypeOK, State
  <2>6. Rounds'
    BY <2>3, <2>5 DEF Inv, Rounds, RoundsWithinLimit, RoundsLeft
  <2>7. Stages' /\ Orderly'
    <3>1. Stages'
      BY <2>3, <2>5 DEF Inv, Stages, Unstarted, Quiet
    <3>2. InTurn => InTurn'
      BY <2>5 DEF InTurn
    <3>3. ASSUME Nested PROVE Nested'
      <4> DEFINE of(s) == s.sub_problem_results
      <4>1. of(state') = of(state) /\ state'.sub_problems = state.sub_problems
        BY <2>5
      <4>2. \A i \in DOMAIN of(state') :
              /\ of(state')[i].sub_problem_id = None
              /\ \E j \in 0 .. state'.sub_problems - 1 : of(state')[i].drawn_from = {j}
        BY <3>3, <4>1 DEF Nested
      <4>3. \A j \in 0 .. state'.sub_problems - 1 :
              \E i \in DOMAIN of(state') : of(state')[i].drawn_from = {j}
        BY <3>3, <4>1 DEF Nested
      <4> QED
        BY <4>2, <4>3 DEF Nested
    <3> QED
      BY <2>3, <3>1, <3>2, <3>3 DEF Inv, Orderly
  <2>8. EndsComplete'
    BY <1>1, <2>3 DEF raise_hand, EndsComplete, Over
  <2> QED
    BY <2>4, <2>6, <2>7, <2>8 DEF Inv
<1>2. CASE Raise
  <2>1. next' = "raised" /\ state' = state /\ interjections' = interjections
    BY <1>2 DEF Raise
  <2>2. TypeOK' /\ Orderly' /\ EndsComplete'
    BY <2>1 DEF Inv, TypeOK, Over, Orderly, InTurn, Nested, EndsComplete
  <2>3. Rounds'
    BY <2>1 DEF Inv, Rounds, RoundsWithinLimit, RoundsLeft, Discussion
  <2>4. Stages'
    BY <2>1 DEF Stages, Setup, Meeting, Opening, Speaking, Discussion
  <2> QED
    BY <2>2, <2>3, <2>4 DEF Inv
<1>3. CASE UNCHANGED vars
  BY <1>3 DEF vars, Inv, TypeOK, Rounds, RoundsWithinLimit, RoundsLeft, Stages,
       Unstarted, Quiet, Orderly, InTurn, Nested, EndsComplete, Complete
<1> QED
  BY <1>1, <1>2, <1>3

(* The inductive invariant of the graph.                                   *)
THEOREM InvAlways == Spec => []Inv
<1>1. Init => Inv
  BY InitInv
<1>2. Inv /\ [Next]_vars => Inv'
  BY RunNodeInv, InterruptInv DEF Next
<1> QED
  BY <1>1, <1>2, PTL DEF Spec

(* Type correctness: next names a node of the graph or an end, and the     *)
(* counters of the state stay within the caps of the code.                 *)
THEOREM TypeCorrect == Spec => []TypeOK
<1>1. Inv => TypeOK
  BY DEF Inv
<1> QED
  BY <1>1, InvAlways, PTL

(* The round counter never passes the limit set by the assessor.           *)
THEOREM RoundsAlwaysWithinLimit == Spec => []RoundsWithinLimit
<1>1. Inv => RoundsWithinLimit
  BY DEF Inv, Rounds
<1> QED
  BY <1>1, InvAlways, PTL

(* Nobody speaks in a sub-problem once it must stop.                       *)
THEOREM AlwaysSilentAfterStop == Spec => []SilentAfterStop
<1>1. Inv => SilentAfterStop
  BY DEF Inv, Stages, Speaking, Quiet, SilentAfterStop
<1> QED
  BY <1>1, InvAlways, PTL

(* Every result rests on the discussion of its own sub-problem only.       *)
THEOREM ResultsAlwaysGrounded == Spec => []ResultsGrounded
<1>1. Inv => ResultsGrounded
  <2> SUFFICES ASSUME Inv, NEW i \in DOMAIN state.sub_problem_results
               PROVE  \E j \in Index :
                        /\ state.sub_problem_results[i].drawn_from = {j}
                        /\ state.sub_problem_results[i].sub_problem_id \in {j, None}
    BY DEF ResultsGrounded
  <2>1. /\ state.sub_problem_results[i] \in Result /\ i \in Nat \ {0}
        /\ state.sub_problems \in 0 .. MaxSubProblems
    BY DEF Inv, TypeOK, State
  <2>2. CASE InTurn
    BY <2>1, <2>2 DEF InTurn, Result, None, Index
  <2>3. CASE Nested
    <3>1. PICK j \in 0 .. state.sub_problems - 1 :
            state.sub_problem_results[i].drawn_from = {j}
      BY <2>3 DEF Nested
    <3>2. j \in Index
      BY <2>1, <3>1, GraphAssumption DEF Index
    <3> QED
      BY <2>3, <3>1, <3>2 DEF Nested
  <2> QED
    BY <2>2, <2>3 DEF Inv, Orderly
<1> QED
  BY <1>1, InvAlways, PTL

(* A meeting that ends has a result for each sub-problem, or waits for the *)
(* user, or had a single sub-problem.                                      *)
THEOREM AlwaysEndsComplete == Spec => []EndsComplete
<1>1. Inv => EndsComplete
  BY DEF Inv
<1> QED
  BY <1>1, InvAlways, PTL

=============================================================================
