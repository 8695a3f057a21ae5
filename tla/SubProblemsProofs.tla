--------------------------- MODULE SubProblemsProofs ---------------------------
(***************************************************************************)
(* For any number of sub-problems, any plan and any threshold: dependents  *)
(* start informed unless their wait timed out, no nested discussion        *)
(* outlives the node, and a node that returns has one result for each.     *)
(***************************************************************************)
EXTENDS SubProblems, FiniteSetTheorems, SequenceTheorems, TLAPS

Typed ==
  /\ plan \in Plan
  /\ at \in [Index -> Place]
  /\ round_number \in [Index -> Nat]

(* The gather that runs covers everything active, and every failure that   *)
(* has not decided the outcome yet.                                        *)
Covering ==
  /\ gathering \subseteq Index
  /\ gathering # {} => outcome = "running"
  /\ \A i \in Index : Active(i) => i \in gathering
  /\ \A i \in gathering : at[i] # "created"
  /\ outcome = "running" => \A i \in Index : at[i] = "failed" => i \in gathering
  /\ outcome = "raised" => \E i \in Index : at[i] = "failed"

(* d has held the rounds the threshold asks for, or its last one.          *)
Past(d) ==
  \/ round_number[d] > plan.early_start_threshold
  \/ at[d] \in {"voting", "synthesize", "done", "failed"}

(* "Ready" is never said too early, of a round counter that starts at 0.   *)
ReadyIsPast ==
  /\ plan.use_speculative => \A d \in Index \cap ready : Past(d)
  /\ \A d \in Index :
       at[d] \in {"created", "waiting", "select_personas"} => round_number[d] = 0

Modes ==
  ~plan.use_speculative => \A i \in Index : at[i] # "waiting"

IInv == Typed /\ Covering /\ ReadyIsPast /\ Modes /\ InformedStart

LEMMA InitIInv == Init => IInv
<1> SUFFICES ASSUME Init PROVE IInv
  OBVIOUS
<1>1. Typed
  BY DEF Init, Typed, Place
<1>2. Covering
  BY DEF Init, Covering, Active, Running, Update
<1>3. ReadyIsPast /\ Modes
  BY DEF Init, ReadyIsPast, Modes
<1>4. InformedStart
  BY DEF Init, InformedStart, Started
<1> QED
  BY <1>1, <1>2, <1>3, <1>4 DEF IInv

(* The places of a discussion.                                             *)
LEMMA Places ==
  /\ Running = {"select_personas", "parallel_round", "check_convergence",
                "vote", "synthesize", "voting"}
  /\ Place = Running \cup {"created", "waiting", "done", "failed"}
BY DEF Running, Update, Place

(* The gather starts them all: those with somebody to await do not start. *)
LEMMA StartSpeculative ==
  ASSUME IInv, _execute_speculative_parallel
  PROVE  IInv'
<1>1. \A i \in Index : /\ at[i] = "created"
                       /\ at'[i] = IF Awaited(i) = {} THEN "select_personas" ELSE "waiting"
  BY DEF _execute_speculative_parallel
<1>2. /\ gathering' = Index /\ outcome = "running" /\ plan.use_speculative
      /\ UNCHANGED <<plan, round_number, ready, timed_out, outcome>>
  BY DEF _execute_speculative_parallel
<1>3. Typed'
  BY <1>2, Places DEF IInv, Typed, _execute_speculative_parallel
<1>4. Covering'
  BY <1>1, <1>2 DEF Covering
<1>5. ReadyIsPast'
  BY <1>1, <1>2 DEF IInv, ReadyIsPast, Past
<1>6. Modes'
  BY <1>2 DEF Modes
<1>7. InformedStart'
  BY <1>1, <1>2 DEF InformedStart, Started, Awaited
<1> QED
  BY <1>3, <1>4, <1>5, <1>6, <1>7 DEF IInv

(* A batch depends on nothing that remains, so on what is done.            *)
LEMMA StartBatch ==
  ASSUME IInv, _execute_batch
  PROVE  IInv'
<1> DEFINE remaining == {i \in Index : at[i] = "created"}
<1>1. /\ gathering = {} /\ outcome = "running" /\ ~plan.use_speculative
      /\ gathering' = batch(plan.dependencies, remaining)
      /\ UNCHANGED <<plan, round_number, ready, timed_out, outcome>>
  BY DEF _execute_batch
<1>2. at' = [i \in Index |-> IF i \in gathering' THEN "select_personas" ELSE at[i]]
  BY DEF _execute_batch
<1>3. gathering' = {i \in remaining : plan.dependencies[i] \cap remaining = {}}
  BY <1>1 DEF batch
<1>4. \A i \in Index : at[i] \in {"created", "done"}
  BY <1>1, Places DEF IInv, Typed, Covering, Active
<1>5. Typed'
  BY <1>1, <1>2, Places DEF IInv, Typed
<1>6. Covering'
  BY <1>1, <1>2, <1>3, <1>4, Places DEF Covering, Active
<1>7. ReadyIsPast'
  BY <1>1, <1>2, <1>3 DEF IInv, ReadyIsPast
<1>8. Modes'
  BY <1>1, <1>2, <1>4 DEF Modes
<1>9. InformedStart'
  <2>1. \A i \in Index, d \in Index :
          at[i] = "done" /\ i \notin timed_out /\ d \in plan.dependencies[i] => at[d] = "done"
    BY <1>1 DEF IInv, InformedStart, Started
  <2>2. \A i \in Index : plan.dependencies[i] \subseteq Index
    BY DEF IInv, Typed, Plan
  <2>3. \A i \in gathering' : \A d \in plan.dependencies[i] : at[d] = "done"
    BY <1>3, <1>4, <2>2
  <2>4. \A i \in Index : at[i] = "done" => at'[i] = "done"
    BY <1>2, <1>3
  <2>5. \A i \in Index : at'[i] \notin {"created", "waiting"} =>
                           at[i] = "done" \/ i \in gathering'
    BY <1>2, <1>4
  <2> QED
    BY <1>1, <2>1, <2>2, <2>3, <2>4, <2>5 DEF InformedStart, Started
<1> QED
  BY <1>5, <1>6, <1>7, <1>8, <1>9 DEF IInv

(* The end of a wait, in time or not.                                      *)
LEMMA WaitEnds ==
  ASSUME IInv, NEW i \in Index, Ready(i) \/ WaitTimesOut(i)
  PROVE  IInv'
<1>1. /\ at[i] = "waiting" /\ at' = [at EXCEPT ![i] = "select_personas"]
      /\ UNCHANGED <<plan, round_number, ready, gathering, outcome>>
      /\ \/ timed_out' = timed_out /\ Awaited(i) \subseteq ready
         \/ timed_out' = timed_out \cup {i}
  BY DEF Ready, WaitTimesOut
<1>2. plan.use_speculative
  BY <1>1 DEF IInv, Modes
<1>3. Typed'
  BY <1>1, Places DEF IInv, Typed
<1>4. Covering'
  BY <1>1, Places DEF IInv, Typed, Covering, Active
<1>5. ReadyIsPast'
  BY <1>1 DEF IInv, Typed, ReadyIsPast, Past
<1>6. Modes'
  BY <1>1, <1>2 DEF Modes
<1>7. InformedStart'
  <2>1. \A j \in Index : Awaited(j) \subseteq Index /\ Awaited(j)' = Awaited(j)
    BY <1>1 DEF IInv, Typed, Plan, Awaited
  <2>2. \A d \in Index : Past(d) => Past(d)'
    BY <1>1 DEF IInv, Typed, Past
  <2>3. ASSUME NEW j \in Index, Started(j)', j \notin timed_out', NEW d \in Awaited(j)'
        PROVE  Past(d)'
    <3>1. CASE j = i
      BY <1>1, <1>2, <2>1, <2>2, <2>3, <3>1 DEF IInv, ReadyIsPast
    <3>2. CASE j # i
      <4>1. Started(j) /\ j \notin timed_out /\ d \in Awaited(j)
        BY <1>1, <2>1, <2>3, <3>2 DEF Started, IInv, Typed
      <4> QED
        BY <1>2, <2>1, <2>2, <4>1 DEF IInv, InformedStart, Past
    <3> QED
      BY <3>1, <3>2
  <2> QED
    BY <1>1, <1>2, <2>3 DEF InformedStart, Past
<1> QED
  BY <1>3, <1>4, <1>5, <1>6, <1>7 DEF IInv

(* Most nodes leave the round counter as it is.                            *)
LEMMA SameRound ==
  ASSUME Typed, NEW i \in Index, round_number' = round_number
  PROVE  \E r \in Nat : /\ round_number' = [round_number EXCEPT ![i] = r]
                        /\ r >= round_number[i]
<1>1. round_number[i] \in Nat /\ round_number' = [round_number EXCEPT ![i] = round_number[i]]
  BY DEF Typed
<1>2. round_number[i] >= round_number[i]
  BY <1>1
<1> QED
  BY <1>1, <1>2

(* A step of a nested graph, or its failure: one sub-problem moves on, its *)
(* round counter grows at most, and "ready" is said of it at most.         *)
LEMMA NodeForms ==
  ASSUME Typed, NEW i \in Index, RunNode(i) \/ NodeRaises(i)
  PROVE  /\ at[i] \in Running
         /\ \E p \in Place \ {"created", "waiting", "select_personas"} :
              /\ at' = [at EXCEPT ![i] = p]
              /\ at[i] \in {"voting", "synthesize"} =>
                   p \in {"voting", "synthesize", "done", "failed"}
         /\ \E r \in Nat : /\ round_number' = [round_number EXCEPT ![i] = r]
                           /\ at[i] # "select_personas" => r >= round_number[i]
         /\ \/ ready' = ready
            \/ ready' = ready \cup {i} /\ (plan.use_speculative => Past(i)')
         /\ UNCHANGED <<plan, timed_out, gathering, outcome>>
<1>1. CASE select_personas_sp_node(i)
  BY <1>1, Places DEF select_personas_sp_node, Advance, Typed
<1>2. CASE parallel_round_sp_node(i)
  <2>1. /\ at[i] = "parallel_round" /\ ready' = ready
        /\ \E p \in {"vote", "check_convergence"} : at' = [at EXCEPT ![i] = p]
        /\ round_number' = [round_number EXCEPT ![i] = round_number[i] + 1]
        /\ UNCHANGED <<plan, timed_out, gathering, outcome>>
    BY <1>2 DEF parallel_round_sp_node, Advance
  <2>2. round_number[i] + 1 \in Nat /\ round_number[i] + 1 >= round_number[i]
    BY DEF Typed
  <2> QED
    BY <2>1, <2>2, Places
<1>3. CASE check_convergence_sp_node(i)
  <2>1. /\ at[i] = "check_convergence" /\ round_number' = round_number
        /\ \E p \in {"vote", "parallel_round"} : at' = [at EXCEPT ![i] = p]
        /\ UNCHANGED <<plan, timed_out, gathering, outcome>>
    BY <1>3 DEF check_convergence_sp_node, Advance
  <2>2. \E r \in Nat : /\ round_number' = [round_number EXCEPT ![i] = r]
                       /\ r >= round_number[i]
    BY <2>1, SameRound
  <2>3. \/ ready' = ready
        \/ /\ ready' = ready \cup {i}
           /\ round_number[i] - 1 >= plan.early_start_threshold
    BY <1>3 DEF check_convergence_sp_node, update_round_context
  <2>4. plan.early_start_threshold \in Nat
    BY SubProblemsAssumption DEF Typed, Plan
  <2>5. round_number[i] - 1 >= plan.early_start_threshold => Past(i)'
    BY <2>1, <2>4 DEF Past, Typed
  <2> QED
    BY <2>1, <2>2, <2>3, <2>5, Places
<1>4. CASE VotingStarted(i)
  <2>1. /\ at[i] = "vote" /\ round_number' = round_number
        /\ at' = [at EXCEPT ![i] = "voting"]
        /\ UNCHANGED <<plan, timed_out, gathering, outcome>>
        /\ ready' = ready \/ ready' = ready \cup {i}
    BY <1>4 DEF VotingStarted, Advance, update_round_context
  <2>2. Past(i)'
    BY <2>1 DEF Past, Typed
  <2>3. \E r \in Nat : /\ round_number' = [round_number EXCEPT ![i] = r]
                       /\ r >= round_number[i]
    BY <2>1, SameRound
  <2> QED
    BY <2>1, <2>2, <2>3, Places
<1>5. CASE vote_sp_node(i)
  <2>1. /\ at[i] = "voting" /\ round_number' = round_number
        /\ at' = [at EXCEPT ![i] = "synthesize"]
        /\ UNCHANGED <<plan, timed_out, gathering, outcome, ready>>
    BY <1>5 DEF vote_sp_node, Advance
  <2>2. \E r \in Nat : /\ round_number' = [round_number EXCEPT ![i] = r]
                       /\ r >= round_number[i]
    BY <2>1, SameRound
  <2> QED
    BY <2>1, <2>2, Places
<1>6. CASE synthesize_sp_node(i)
  <2>1. /\ at[i] = "synthesize" /\ round_number' = round_number
        /\ at' = [at EXCEPT ![i] = "done"]
        /\ UNCHANGED <<plan, timed_out, gathering, outcome>>
        /\ ready' = ready \/ ready' = ready \cup {i}
    BY <1>6 DEF synthesize_sp_node, Advance, mark_complete
  <2>2. Past(i)'
    BY <2>1 DEF Past, Typed
  <2>3. \E r \in Nat : /\ round_number' = [round_number EXCEPT ![i] = r]
                       /\ r >= round_number[i]
    BY <2>1, SameRound
  <2> QED
    BY <2>1, <2>2, <2>3, Places
<1>7. CASE NodeRaises(i)
  <2>1. /\ at[i] \in Running /\ round_number' = round_number
        /\ at' = [at EXCEPT ![i] = "failed"]
        /\ UNCHANGED <<plan, timed_out, gathering, outcome, ready>>
    BY <1>7 DEF NodeRaises
  <2>2. \E r \in Nat : /\ round_number' = [round_number EXCEPT ![i] = r]
                       /\ r >= round_number[i]
    BY <2>1, SameRound
  <2> QED
    BY <2>1, <2>2, Places
<1> QED
  BY <1>1, <1>2, <1>3, <1>4, <1>5, <1>6, <1>7 DEF RunNode

(* What was past the threshold stays so while one sub-problem moves on.    *)
LEMMA NodeIInv ==
  ASSUME IInv, NEW i \in Index, RunNode(i) \/ NodeRaises(i)
  PROVE  IInv'
<1>1. /\ at[i] \in Running
      /\ UNCHANGED <<plan, timed_out, gathering, outcome>>
      /\ \/ ready' = ready
         \/ ready' = ready \cup {i} /\ (plan.use_speculative => Past(i)')
  BY NodeForms DEF IInv
<1>2. PICK p \in Place \ {"created", "waiting", "select_personas"} :
        /\ at' = [at EXCEPT ![i] = p]
        /\ at[i] \in {"voting", "synthesize"} =>
             p \in {"voting", "synthesize", "done", "failed"}
  BY NodeForms DEF IInv
<1>3. PICK r \in Nat : /\ round_number' = [round_number EXCEPT ![i] = r]
                       /\ at[i] # "select_personas" => r >= round_number[i]
  BY NodeForms DEF IInv
<1>4. Typed'
  BY <1>1, <1>2, <1>3 DEF IInv, Typed
<1>5. i \in gathering /\ outcome = "running"
  BY <1>1 DEF IInv, Covering, Active
<1>6. Covering'
  <2>1. \A j \in Index : at'[j] = IF j = i THEN p ELSE at[j]
    BY <1>2 DEF IInv, Typed
  <2> QED
    BY <1>1, <1>2, <1>5, <2>1 DEF IInv, Covering, Active
<1>7. \A d \in Index : Past(d) => Past(d)'
  <2>1. plan.early_start_threshold \in Nat /\ plan' = plan
    BY <1>1, SubProblemsAssumption DEF IInv, Typed, Plan
  <2>2. ASSUME NEW d \in Index, Past(d) PROVE Past(d)'
    <3>1. CASE d # i
      BY <1>2, <1>3, <2>1, <2>2, <3>1 DEF IInv, Typed, Past
    <3>2. CASE d = i /\ at[i] \in {"voting", "synthesize"}
      BY <1>2, <3>2 DEF IInv, Typed, Past
    <3>3. CASE d = i /\ at[i] \notin {"voting", "synthesize"}
      <4>1. round_number[i] > plan.early_start_threshold
        BY <1>1, <2>2, <3>3, Places DEF Past
      <4>2. at[i] # "select_personas"
        BY <2>1, <4>1 DEF IInv, ReadyIsPast
      <4>3. round_number'[i] = r /\ r >= round_number[i] /\ round_number[i] \in Nat
        BY <1>3, <4>2 DEF IInv, Typed
      <4> QED
        BY <2>1, <3>3, <4>1, <4>3 DEF Past
    <3> QED
      BY <3>1, <3>2, <3>3
  <2> QED
    BY <2>2
<1>8. ReadyIsPast'
  <2>1. plan'.use_speculative => \A d \in Index \cap ready' : Past(d)'
    BY <1>1, <1>7 DEF IInv, ReadyIsPast
  <2>2. \A d \in Index : at'[d] \in {"created", "waiting", "select_personas"} =>
                           round_number'[d] = 0
    BY <1>2, <1>3 DEF IInv, Typed, ReadyIsPast
  <2> QED
    BY <2>1, <2>2 DEF ReadyIsPast
<1>9. Modes'
  BY <1>1, <1>2 DEF IInv, Typed, Modes
<1>10. InformedStart'
  <2>1. \A j \in Index : /\ Started(j)' => Started(j)
                         /\ at[j] = "done" => at'[j] = "done"
    BY <1>1, <1>2, Places DEF IInv, Typed, Started
  <2>2. \A j \in Index : /\ Awaited(j)' = Awaited(j)
                         /\ Awaited(j) \subseteq Index
                         /\ plan.dependencies[j] \subseteq Index
    BY <1>1 DEF IInv, Typed, Plan, Awaited
  <2>3. ASSUME NEW j \in Index, Started(j)', j \notin timed_out', plan'.use_speculative,
               NEW d \in Awaited(j)'
        PROVE  Past(d)'
    <3>1. Started(j) /\ j \notin timed_out /\ plan.use_speculative /\ d \in Awaited(j)
      BY <1>1, <2>1, <2>2, <2>3
    <3>2. Past(d)
      BY <3>1 DEF IInv, InformedStart, Past
    <3> QED
      BY <1>7, <2>2, <3>1, <3>2
  <2>4. ASSUME NEW j \in Index, Started(j)', j \notin timed_out', ~plan'.use_speculative,
               NEW d \in plan'.dependencies[j]
        PROVE  at'[d] = "done"
    <3>1. Started(j) /\ j \notin timed_out /\ ~plan.use_speculative
          /\ d \in plan.dependencies[j]
      BY <1>1, <2>1, <2>4
    <3>2. at[d] = "done"
      BY <3>1 DEF IInv, InformedStart
    <3> QED
      BY <2>1, <2>2, <3>1, <3>2
  <2> QED
    BY <2>3, <2>4 DEF InformedStart, Past
<1> QED
  BY <1>4, <1>6, <1>8, <1>9, <1>10 DEF IInv

(* A gather ends only when nothing it covers is active.                    *)
LEMMA GatherIInv ==
  ASSUME IInv, GatherEnds
  PROVE  IInv'
<1>1. /\ outcome = "running" /\ gathering # {} /\ gathering' = {}
      /\ \A i \in gathering : at[i] \in {"done", "failed"}
      /\ UNCHANGED <<plan, at, round_number, ready, timed_out>>
  BY DEF GatherEnds, GatherOver, Ended
<1>2. /\ outcome' = "raised" => \E i \in gathering : at[i] = "failed"
      /\ outcome' = "running" => ~ \E i \in gathering : at[i] = "failed"
  BY DEF GatherEnds, Verdict
<1>3. Typed' /\ ReadyIsPast' /\ Modes' /\ InformedStart'
  BY <1>1 DEF IInv, Typed, ReadyIsPast, Past, Modes, InformedStart, Started, Awaited
<1>4. Covering'
  BY <1>1, <1>2, Places DEF IInv, Covering, Active
<1> QED
  BY <1>3, <1>4 DEF IInv

(* The inductive invariant: whatever is active is in the running gather,   *)
(* and only who is past the threshold counts as ready.                     *)
THEOREM IInvAlways == Spec => []IInv
<1>1. IInv /\ [Next]_vars => IInv'
  <2> SUFFICES ASSUME IInv, [Next]_vars PROVE IInv'
    OBVIOUS
  <2>1. CASE Next
    BY <2>1, StartSpeculative, StartBatch, GatherIInv, WaitEnds, NodeIInv DEF Next, Execute
  <2>2. CASE UNCHANGED vars
    BY <2>2 DEF vars, IInv, Typed, Covering, Active, ReadyIsPast, Past, Modes,
         InformedStart, Started, Awaited
  <2> QED
    BY <2>1, <2>2
<1> QED
  BY <1>1, InitIInv, PTL DEF Spec

(* Whoever is discussed builds on dependencies that have concluded, or have*)
(* held the rounds that the threshold asks for, unless its wait timed out. *)
THEOREM StartsInformed == Spec => []InformedStart
<1>1. IInv => InformedStart
  BY DEF IInv
<1> QED
  BY <1>1, IInvAlways, PTL

(* Nothing goes on behind the back of a node that has ended, and it raises *)
(* only if a sub-problem failed.                                           *)
THEOREM AlwaysJoined == Spec => []Joined
<1>1. IInv => Joined
  BY DEF IInv, Covering, Joined
<1> QED
  BY <1>1, IInvAlways, PTL

-----------------------------------------------------------------------------
(* Lists of numbers in ascending order.                                    *)

(* A listing of a finite set takes every element once.                     *)
LEMMA ListingFacts ==
  ASSUME NEW S, IsFiniteSet(S), NEW list \in SetToSeqs(S)
  PROVE  /\ Cardinality(S) \in Nat
         /\ list \in [1 .. Cardinality(S) -> S]
         /\ \A i, j \in 1 .. Cardinality(S) : i # j => list[i] # list[j]
         /\ \A x \in S : \E i \in 1 .. Cardinality(S) : list[i] = x
<1> DEFINE D == 1 .. Cardinality(S)
<1>1. Cardinality(S) \in Nat
  BY FS_CardinalityType
<1>2. list \in [D -> S] /\ \A i, j \in D : i # j => list[i] # list[j]
  BY DEF SetToSeqs
<1>3. IsFiniteSet(D) /\ Cardinality(D) = Cardinality(S)
  BY <1>1, FS_Interval
<1>4. list \in Injection(D, S)
  BY <1>2 DEF Injection, IsInjective
<1>5. list \in Surjection(D, S)
  BY <1>3, <1>4, FS_Injection
<1>. QED
  BY <1>1, <1>2, <1>5 DEF Surjection

(* A finite set of numbers can be listed in ascending order, and so is.     *)
LEMMA AscendingFacts ==
  ASSUME NEW S \in SUBSET Nat, IsFiniteSet(S)
  PROVE  /\ Ascending(S) \in SetToSeqs(S)
         /\ \A i, j \in DOMAIN Ascending(S) : i < j => Ascending(S)[i] < Ascending(S)[j]
<1> DEFINE n == Cardinality(S)
           upto(x) == {y \in S : y <= x}
           rank == [x \in S |-> Cardinality(upto(x))]
           list == [i \in 1 .. n |-> CHOOSE x \in S : rank[x] = i]
<1>1. n \in Nat
  BY FS_CardinalityType
<1>2. ASSUME NEW x \in S PROVE IsFiniteSet(upto(x)) /\ rank[x] \in 1 .. n
  <2>1. IsFiniteSet(upto(x)) /\ Cardinality(upto(x)) <= n
    BY FS_Subset
  <2>2. Cardinality(upto(x)) \in Nat /\ (Cardinality(upto(x)) = 0 => upto(x) = {})
    BY <2>1, FS_CardinalityType, FS_EmptySet
  <2>3. x \in upto(x)
    OBVIOUS
  <2>. QED
    BY <1>1, <2>1, <2>2, <2>3
<1>3. ASSUME NEW x \in S, NEW z \in S, x < z PROVE rank[x] < rank[z]
  <2>1. upto(x) \in SUBSET upto(z) /\ z \in upto(z) /\ z \notin upto(x)
    <3>1. x \in Nat /\ z \in Nat /\ \A y \in S : y \in Nat
      OBVIOUS
    <3>2. \A y \in S : y <= x => y <= z
      BY <1>3, <3>1
    <3>3. z \notin upto(x)
      BY <1>3, <3>1
    <3>4. z <= z
      BY <3>1
    <3>5. z \in upto(z)
      BY <3>4
    <3>6. upto(x) \subseteq upto(z)
      BY <3>2
    <3>. QED
      BY <3>3, <3>5, <3>6
  <2>2. /\ Cardinality(upto(x)) <= Cardinality(upto(z))
        /\ Cardinality(upto(x)) # Cardinality(upto(z))
    <3>. HIDE DEF upto
    <3>. QED
      BY <1>2, <2>1, FS_Subset
  <2>. QED
    BY <1>2, <2>2
<1>4. \A i \in 1 .. n : \E x \in S : rank[x] = i
  <2>1. IsFiniteSet(1 .. n) /\ Cardinality(1 .. n) = n
    BY <1>1, FS_Interval
  <2>2. \A x, z \in S : rank[x] = rank[z] => x = z
    <3>1. SUFFICES ASSUME NEW x \in S, NEW z \in S, rank[x] = rank[z], x # z PROVE FALSE
      OBVIOUS
    <3>2. x < z \/ z < x
      BY <3>1
    <3>3. rank[x] < rank[z] \/ rank[z] < rank[x]
      BY <1>3, <3>2
    <3>4. rank[x] \in Nat /\ rank[z] \in Nat
      BY <1>1, <1>2
    <3>. HIDE DEF rank
    <3>. QED
      BY <3>1, <3>3, <3>4
  <2>3. rank \in [S -> 1 .. n]
    BY <1>2
  <2>4. rank \in Injection(S, 1 .. n)
    <3>. HIDE DEF rank
    <3>. QED
      BY <2>2, <2>3 DEF Injection, IsInjective
  <2>5. rank \in Surjection(S, 1 .. n)
    BY <2>1, <2>4, FS_Injection
  <2>. QED
    BY <2>5 DEF Surjection
<1>5. \A i \in 1 .. n : list[i] \in S /\ rank[list[i]] = i
  <2>. HIDE DEF rank
  <2>. QED
    BY <1>4
<1>6. \A i, j \in 1 .. n : i < j => list[i] < list[j]
  <2>1. SUFFICES ASSUME NEW i \in 1 .. n, NEW j \in 1 .. n, i < j PROVE list[i] < list[j]
    OBVIOUS
  <2>2. rank[list[i]] = i /\ rank[list[j]] = j /\ list[i] \in Nat /\ list[j] \in Nat
    BY <1>5
  <2>3. list[j] < list[i] => rank[list[j]] < rank[list[i]]
    <3>. HIDE DEF rank, list
    <3>. QED
      BY <1>3, <1>5
  <2>. HIDE DEF rank, list
  <2>. QED
    BY <1>1, <2>1, <2>2, <2>3
<1>7. list \in SetToSeqs(S)
  <2>1. list \in [1 .. n -> S]
    BY <1>5
  <2>2. \A i, j \in 1 .. n : i # j => list[i] # list[j]
    <3>. HIDE DEF rank, list
    <3>. QED
      BY <1>1, <1>5
  <2>. HIDE DEF list
  <2>. QED
    BY <2>1, <2>2 DEF SetToSeqs
<1>8. DOMAIN list = 1 .. n
  OBVIOUS
<1>. HIDE DEF list
<1>9. \E l \in SetToSeqs(S) : \A i, j \in DOMAIN l : i < j => l[i] < l[j]
  BY <1>6, <1>7, <1>8
<1>. QED
  BY <1>9 DEF Ascending

(* The first numbers in ascending order: each stands where it belongs.     *)
LEMMA AscendingInterval ==
  ASSUME NEW n \in Nat
  PROVE  /\ Len(Ascending(0 .. n - 1)) = n
         /\ \A k \in 1 .. n : Ascending(0 .. n - 1)[k] = k - 1
<1> DEFINE S == 0 .. n - 1
           f == Ascending(S)
<1>1. S \in SUBSET Nat /\ IsFiniteSet(S) /\ Cardinality(S) = n
  BY FS_Interval
<1>2. f \in SetToSeqs(S) /\ \A i, j \in DOMAIN f : i < j => f[i] < f[j]
  <2>. HIDE DEF S
  <2>. QED
    BY <1>1, AscendingFacts
<1>. HIDE DEF f
<1>3. /\ f \in [1 .. n -> S]
      /\ \A x \in S : \E i \in 1 .. n : f[i] = x
  <2>. HIDE DEF S
  <2>. QED
    BY <1>1, <1>2, ListingFacts
<1>4. ASSUME NEW k \in 1 .. n PROVE f[k] = k - 1
  <2> DEFINE T == 0 .. f[k]
             g == [i \in 1 .. k |-> f[i]]
  <2>1. f[k] \in 0 .. n - 1 /\ k \in Nat
    BY <1>3
  <2>2. IsFiniteSet(1 .. k) /\ Cardinality(1 .. k) = k /\ Cardinality(T) = f[k] + 1
    BY <2>1, FS_Interval
  <2>3. \A i \in 1 .. k : f[i] \in T
    <3>1. SUFFICES ASSUME NEW i \in 1 .. k PROVE f[i] \in T
      OBVIOUS
    <3>2. i \in DOMAIN f /\ k \in DOMAIN f /\ (i = k \/ i < k) /\ f[i] \in Nat
      BY <1>3, <2>1
    <3>3. f[i] <= f[k]
      BY <1>2, <2>1, <3>2
    <3>. QED
      BY <2>1, <3>2, <3>3
  <2>4. \A y \in T : \E i \in 1 .. k : f[i] = y
    <3>1. SUFFICES ASSUME NEW y \in T PROVE \E i \in 1 .. k : f[i] = y
      OBVIOUS
    <3>2. y \in S /\ y <= f[k]
      BY <2>1
    <3>3. PICK i \in 1 .. n : f[i] = y
      BY <1>3, <3>2
    <3>4. k < i => f[k] < f[i]
      BY <1>2, <1>3
    <3>. QED
      BY <2>1, <3>2, <3>3, <3>4
  <2>5. \A i, j \in 1 .. k : f[i] = f[j] => i = j
    <3>1. SUFFICES ASSUME NEW i \in 1 .. k, NEW j \in 1 .. k, f[i] = f[j], i # j PROVE FALSE
      OBVIOUS
    <3>2. i \in DOMAIN f /\ j \in DOMAIN f /\ (i < j \/ j < i) /\ f[i] \in Nat
      BY <1>3, <2>1, <3>1
    <3>. QED
      BY <1>2, <3>1, <3>2
  <2>6. g \in [1 .. k -> T] /\ \A i \in 1 .. k : g[i] = f[i]
    BY <2>3
  <2>7. g \in Surjection(1 .. k, T) /\ g \in Injection(1 .. k, T)
    <3>. HIDE DEF T, g
    <3>. QED
      BY <2>4, <2>5, <2>6 DEF Surjection, Injection, IsInjective
  <2>8. Cardinality(T) = Cardinality(1 .. k)
    <3>. HIDE DEF T, g
    <3>. QED
      BY <2>2, <2>7, FS_Surjection
  <2>. QED
    BY <2>1, <2>2, <2>8
<1>. QED
  BY <1>3, <1>4 DEF f

-----------------------------------------------------------------------------
(* The results.                                                            *)

(* The sub-problems whose gather has ended.                                *)
Collected == {i \in Index : at[i] # "created"} \ gathering

(* As long as nothing has failed there is one result for each of them.     *)
Gathered ==
  outcome = "running" =>
    /\ Len(all_results) = Cardinality(Collected)
    /\ \A i \in Collected : \E k \in DOMAIN all_results : all_results[k].index = i
    /\ plan.use_speculative => Collected = {} /\ gathering \in {{}, Index}

ResultsInv ==
  /\ all_results \in Seq(Result)
  /\ final_state \in [Index -> SUBSET Field]
  /\ Gathered /\ OneResultEach

LEMMA IndexFacts ==
  /\ IsFiniteSet(Index) /\ Cardinality(Index) = SubProblemCount
  /\ Index \subseteq Nat /\ Index # {}
<1>1. SubProblemCount \in Nat /\ SubProblemCount >= 2
  BY SubProblemsAssumption
<1>2. IsFiniteSet(0 .. SubProblemCount - 1) /\ Cardinality(0 .. SubProblemCount - 1) = SubProblemCount
  BY <1>1, FS_Interval
<1>3. 0 \in Index
  BY <1>1 DEF Index
<1>. QED
  BY <1>2, <1>3 DEF Index

LEMMA InitResults == Init => ResultsInv
<1> SUFFICES ASSUME Init PROVE ResultsInv
  OBVIOUS
<1>1. Collected = {} /\ all_results = << >> /\ gathering = {} /\ outcome = "running"
  BY DEF Init, Collected
<1>2. Gathered
  BY <1>1, FS_EmptySet DEF Gathered
<1>. QED
  BY <1>1, <1>2 DEF Init, ResultsInv, OneResultEach

(* What a gather adds.                                                     *)
LEMMA ResultsFacts ==
  ASSUME NEW S \in SUBSET Index, final_state \in [Index -> SUBSET Field]
  PROVE  /\ IsFiniteSet(S) /\ Cardinality(S) \in Nat
         /\ Results(S) \in Seq(Result) /\ Len(Results(S)) = Cardinality(S)
         /\ \A i \in S : \E k \in 1 .. Cardinality(S) : Results(S)[k].index = i
         /\ \A k \in 1 .. Cardinality(S) : Results(S)[k].index = Ascending(S)[k]
<1> DEFINE n == Cardinality(S)
           f == Ascending(S)
           R == [k \in 1 .. n |-> result_from_subgraph_state(f[k])]
<1>1. IsFiniteSet(S) /\ S \in SUBSET Nat
  BY IndexFacts, FS_Subset
<1>2. f \in SetToSeqs(S)
  BY <1>1, AscendingFacts
<1>3. /\ n \in Nat /\ f \in [1 .. n -> S]
      /\ \A x \in S : \E i \in 1 .. n : f[i] = x
  <2>. HIDE DEF f
  <2>. QED
    BY <1>1, <1>2, ListingFacts
<1>. HIDE DEF f
<1>4. Results(S) = R
  BY <1>3 DEF Results, f
<1>5. \A k \in 1 .. n : R[k] \in Result /\ R[k].index = f[k]
  BY <1>3 DEF result_from_subgraph_state, Result
<1>6. R \in [1 .. n -> Result]
  BY <1>5
<1>7. R \in Seq(Result) /\ Len(R) = n
  <2>. HIDE DEF R
  <2>. QED
    BY <1>3, <1>6
<1>. QED
  BY <1>1, <1>3, <1>4, <1>5, <1>7 DEF f

(* The end of a gather appends the results of what it has covered.         *)
LEMMA GatherResults ==
  ASSUME IInv, ResultsInv, GatherEnds
  PROVE  ResultsInv'
<1> DEFINE S == {i \in gathering : at[i] = "done"}
           more == Results(S)
<1>1. /\ outcome = "running" /\ gathering # {} /\ gathering' = {}
      /\ \A i \in gathering : at[i] \in {"done", "failed"}
      /\ UNCHANGED <<plan, at, final_state>>
      /\ all_results' = IF outcome' = "raised" THEN << >> ELSE all_results \o more
  BY DEF GatherEnds, GatherOver, Ended
<1>2. /\ outcome' \in {"raised", "running", "returned"}
      /\ outcome' # "raised" => ~ \E i \in gathering : at[i] = "failed"
      /\ outcome' = "returned" => \A i \in Index : at[i] # "created"
  BY DEF GatherEnds, Verdict
<1>3. CASE outcome' = "raised"
  BY <1>1, <1>3 DEF ResultsInv, Gathered, OneResultEach
<1>4. CASE outcome' # "raised"
  <2>1. S = gathering /\ gathering \in SUBSET Index
    BY <1>1, <1>2, <1>4 DEF IInv, Covering
  <2>2. /\ IsFiniteSet(gathering) /\ Cardinality(gathering) \in Nat
        /\ more \in Seq(Result) /\ Len(more) = Cardinality(gathering)
        /\ \A i \in gathering : \E k \in 1 .. Cardinality(gathering) : more[k].index = i
        /\ \A k \in 1 .. Cardinality(gathering) : more[k].index = Ascending(gathering)[k]
    <3>1. more = Results(gathering)
      BY <2>1
    <3>. HIDE DEF more
    <3>. QED
      BY <2>1, <3>1, ResultsFacts, FS_CardinalityType DEF ResultsInv
  <2>. HIDE DEF more
  <2>3. Collected' = Collected \cup gathering /\ Collected \cap gathering = {}
    BY <1>1, <2>1 DEF Collected, IInv, Covering
  <2>4. IsFiniteSet(Collected) /\ Cardinality(Collected) \in Nat
    <3>1. Collected \in SUBSET Index
      BY DEF Collected
    <3>. QED
      BY <3>1, IndexFacts, FS_Subset, FS_CardinalityType
  <2>5. Cardinality(Collected') = Cardinality(Collected) + Cardinality(gathering)
    <3>1. Cardinality(Collected \cup gathering)
            = Cardinality(Collected) + Cardinality(gathering) - Cardinality(Collected \cap gathering)
      BY <2>2, <2>4, FS_Union
    <3>2. Cardinality(Collected \cap gathering) = 0
      BY <2>3, FS_EmptySet
    <3>. QED
      BY <2>2, <2>3, <2>4, <3>1, <3>2
  <2>6. /\ all_results \in Seq(Result) /\ Len(all_results) = Cardinality(Collected)
        /\ \A i \in Collected : \E k \in 1 .. Len(all_results) : all_results[k].index = i
        /\ plan.use_speculative => Collected = {} /\ gathering = Index
    BY <1>1 DEF ResultsInv, Gathered
  <2>7. /\ all_results' \in Seq(Result)
        /\ Len(all_results') = Len(all_results) + Len(more)
        /\ \A k \in 1 .. Len(all_results) : all_results'[k] = all_results[k]
        /\ \A k \in 1 .. Len(more) : all_results'[Len(all_results) + k] = more[k]
    <3>1. all_results' = all_results \o more
      BY <1>1, <1>4
    <3>2. /\ all_results \o more \in Seq(Result)
          /\ Len(all_results \o more) = Len(all_results) + Len(more)
      BY <2>2, <2>6
    <3>3. \A k \in 1 .. Len(all_results) + Len(more) : (all_results \o more)[k] =
            IF k <= Len(all_results) THEN all_results[k] ELSE more[k - Len(all_results)]
      BY <2>2, <2>6, ConcatProperties
    <3>4. Len(all_results) \in Nat /\ Len(more) \in Nat
      BY <2>2, <2>6
    <3>. QED
      BY <3>1, <3>2, <3>3, <3>4
  <2>8. Len(all_results') = Cardinality(Collected')
    BY <2>2, <2>5, <2>6, <2>7
  <2>9. \A i \in Collected' : \E k \in DOMAIN all_results' : all_results'[k].index = i
    <3>1. DOMAIN all_results' = 1 .. Len(all_results') /\ Len(all_results) \in Nat
      BY <2>6, <2>7
    <3>2. ASSUME NEW i \in Collected
          PROVE  \E k \in DOMAIN all_results' : all_results'[k].index = i
      <4>1. PICK k \in 1 .. Len(all_results) : all_results[k].index = i
        BY <2>6
      <4>2. k \in DOMAIN all_results' /\ all_results'[k] = all_results[k]
        BY <2>2, <2>7, <3>1
      <4>. QED
        BY <4>1, <4>2
    <3>3. ASSUME NEW i \in gathering
          PROVE  \E k \in DOMAIN all_results' : all_results'[k].index = i
      <4>1. PICK k \in 1 .. Len(more) : more[k].index = i
        BY <2>2
      <4>2. /\ Len(all_results) + k \in DOMAIN all_results'
            /\ all_results'[Len(all_results) + k] = more[k]
        BY <2>2, <2>7, <3>1
      <4>. QED
        BY <4>1, <4>2
    <3>. QED
      BY <2>3, <3>2, <3>3
  <2>10. Gathered'
    <3>1. outcome' = "running" => ~plan.use_speculative
      <4>1. SUFFICES ASSUME outcome' = "running", plan.use_speculative PROVE FALSE
        OBVIOUS
      <4>2. gathering = Index /\ \E i \in Index : at[i] = "created"
        BY <1>1, <2>6, <4>1 DEF GatherEnds, Verdict
      <4>. QED
        BY <1>1, <4>2
    <3>. QED
      BY <1>1, <2>8, <2>9, <3>1 DEF Gathered
  <2>11. OneResultEach'
    <3>1. SUFFICES ASSUME outcome' = "returned"
                   PROVE  /\ Len(all_results') = SubProblemCount
                          /\ \A i \in Index : \E k \in DOMAIN all_results' : all_results'[k].index = i
                          /\ plan.use_speculative =>
                               \A k \in DOMAIN all_results' : all_results'[k].index = k - 1
      BY <1>1 DEF OneResultEach
    <3>2. Collected' = Index
      BY <1>1, <1>2, <3>1 DEF Collected
    <3>3. ASSUME plan.use_speculative, NEW k \in DOMAIN all_results'
          PROVE  all_results'[k].index = k - 1
      <4>1. gathering = 0 .. SubProblemCount - 1 /\ Len(all_results) = 0
        BY <2>6, <3>3, FS_EmptySet DEF Index
      <4>2. k \in 1 .. SubProblemCount /\ SubProblemCount \in Nat
        BY <2>7, <2>8, <3>2, IndexFacts, SubProblemsAssumption
      <4>3. Cardinality(gathering) = SubProblemCount
        BY <2>6, <3>3, IndexFacts
      <4>4. all_results'[k] = more[k]
        BY <2>2, <2>7, <4>1, <4>2, <4>3
      <4>5. Ascending(gathering)[k] = k - 1
        BY <4>1, <4>2, AscendingInterval
      <4>. QED
        BY <2>2, <4>2, <4>3, <4>4, <4>5
    <3>. QED
      BY <2>8, <2>9, <3>2, <3>3, IndexFacts
  <2>. QED
    BY <1>1, <2>7, <2>10, <2>11 DEF ResultsInv
<1>. QED
  BY <1>3, <1>4

(* Every other step leaves the results alone and begins, goes on with or   *)
(* ends a discussion inside the gather.                                    *)
LEMMA OtherResults ==
  ASSUME IInv, ResultsInv,
         UNCHANGED <<plan, outcome, all_results>>, final_state' \in [Index -> SUBSET Field],
         Collected' = Collected,
         outcome = "running" /\ plan.use_speculative => gathering' \in {{}, Index}
  PROVE  ResultsInv'
BY DEF ResultsInv, Gathered, OneResultEach

LEMMA NextResults == IInv /\ ResultsInv /\ [Next]_vars => ResultsInv'
<1> SUFFICES ASSUME IInv, ResultsInv, [Next]_vars PROVE ResultsInv'
  OBVIOUS
<1>1. CASE GatherEnds
  BY <1>1, GatherResults
<1>2. CASE _execute_speculative_parallel
  <2>1. /\ gathering' = Index /\ \A i \in Index : at[i] = "created"
        /\ \A i \in Index : at'[i] # "created"
        /\ UNCHANGED <<plan, outcome, all_results, final_state>>
    BY <1>2 DEF _execute_speculative_parallel
  <2>2. Collected' = Collected
    BY <2>1 DEF Collected
  <2>. QED
    BY <2>1, <2>2, OtherResults DEF ResultsInv
<1>3. CASE _execute_batch
  <2>1. /\ gathering = {} /\ ~plan.use_speculative
        /\ gathering' \subseteq {i \in Index : at[i] = "created"}
        /\ \A i \in Index : at'[i] = IF i \in gathering' THEN "select_personas" ELSE at[i]
        /\ UNCHANGED <<plan, outcome, all_results, final_state>>
    BY <1>3 DEF _execute_batch, batch
  <2>2. Collected' = Collected
    BY <2>1 DEF Collected
  <2>. QED
    BY <2>1, <2>2, OtherResults DEF ResultsInv
<1>4. ASSUME NEW i \in Index, Ready(i) \/ WaitTimesOut(i) PROVE ResultsInv'
  <2>1. /\ at[i] = "waiting" /\ at' = [at EXCEPT ![i] = "select_personas"]
        /\ UNCHANGED <<plan, outcome, all_results, final_state, gathering>>
    BY <1>4 DEF Ready, WaitTimesOut
  <2>2. Collected' = Collected
    BY <2>1 DEF Collected, IInv, Typed
  <2>. QED
    BY <2>1, <2>2, OtherResults DEF ResultsInv, Gathered
<1>5. ASSUME NEW i \in Index, RunNode(i) \/ NodeRaises(i) PROVE ResultsInv'
  <2>1. /\ at[i] \in Running
        /\ UNCHANGED <<plan, outcome, gathering>>
        /\ \E p \in Place \ {"created", "waiting", "select_personas"} : at' = [at EXCEPT ![i] = p]
    BY <1>5, NodeForms DEF IInv
  <2>2. Collected' = Collected
    BY <2>1, Places DEF Collected, IInv, Typed
  <2>3. /\ all_results' = all_results
        /\ \/ final_state' = final_state
           \/ \E node \in DOMAIN Update : final_state' = [final_state EXCEPT ![i] = Update[node]]
    BY <1>5 DEF RunNode, NodeRaises, select_personas_sp_node, parallel_round_sp_node,
         check_convergence_sp_node, VotingStarted, vote_sp_node, synthesize_sp_node,
         Advance, Streamed, Update
  <2>4. \A node \in DOMAIN Update : Update[node] \in SUBSET Field
    BY DEF Update, Field
  <2>5. final_state' \in [Index -> SUBSET Field]
    BY <2>3, <2>4 DEF ResultsInv
  <2>. QED
    BY <2>1, <2>2, <2>3, <2>5, OtherResults DEF ResultsInv, Gathered
<1>6. CASE UNCHANGED vars
  BY <1>6, OtherResults DEF vars, ResultsInv, Gathered, Collected
<1>. QED
  BY <1>1, <1>2, <1>3, <1>4, <1>5, <1>6 DEF Next, Execute

(* A node that returns has the result of every sub-problem once, and in    *)
(* their order if they ran speculatively.                                  *)
THEOREM OneResultForEach == Spec => []OneResultEach
<1>1. Spec => [](IInv /\ ResultsInv)
  BY InitIInv, InitResults, NextResults, IInvAlways, PTL DEF Spec
<1>2. ResultsInv => OneResultEach
  BY DEF ResultsInv
<1>. QED
  BY <1>1, <1>2, PTL

(* No discussion holds more rounds than get_adaptive_max_rounds allows, so *)
(* the cap of six is never reached for want of a limit.                    *)
Limited ==
  /\ \A i \in Index : /\ round_number[i] <= plan.max_rounds[i]
                      /\ at[i] = "parallel_round" => round_number[i] < plan.max_rounds[i]
  /\ ready \subseteq Index /\ timed_out \subseteq Index
  /\ outcome \in {"running", "returned", "raised"}

LEMMA MaxRoundsFacts ==
  ASSUME Typed, NEW i \in Index
  PROVE  plan.max_rounds[i] \in Nat /\ 2 <= plan.max_rounds[i] /\ plan.max_rounds[i] <= HARD_CAP_ROUNDS
<1>1. plan.max_rounds[i] \in MaxRounds
  BY DEF Typed, Plan
<1>2. plan.max_rounds[i] \in 2 .. HARD_CAP_ROUNDS
  BY <1>1, SubProblemsAssumption
<1>. QED
  BY <1>2 DEF HARD_CAP_ROUNDS

(* A step of one sub-problem touches its own counter only.                 *)
LEMMA LimitedBy ==
  ASSUME Typed, Limited, NEW i \in Index, NEW p, NEW r \in Nat,
         at' = [at EXCEPT ![i] = p], round_number' = [round_number EXCEPT ![i] = r],
         plan' = plan, outcome' = outcome, ready' \subseteq Index, timed_out' \subseteq Index,
         r <= plan.max_rounds[i], p = "parallel_round" => r < plan.max_rounds[i]
  PROVE  Limited'
<1>1. \A j \in Index : /\ at'[j] = IF j = i THEN p ELSE at[j]
                       /\ round_number'[j] = IF j = i THEN r ELSE round_number[j]
  BY DEF Typed
<1>. QED
  BY <1>1 DEF Limited

LEMMA NextLimited == Typed /\ Limited /\ [Next]_vars => Limited'
<1> SUFFICES ASSUME Typed, Limited, [Next]_vars PROVE Limited'
  OBVIOUS
<1>1. CASE Execute
  <2>1. /\ UNCHANGED <<plan, round_number, ready, timed_out>>
        /\ outcome' \in {"running", "returned", "raised"}
        /\ \A i \in Index : at'[i] = "parallel_round" => at[i] = "parallel_round"
    BY <1>1 DEF Execute, _execute_speculative_parallel, _execute_batch, GatherEnds, Verdict,
         Limited
  <2>. QED
    BY <2>1 DEF Limited
<1>2. ASSUME NEW i \in Index, Ready(i) \/ WaitTimesOut(i) \/ RunNode(i) \/ NodeRaises(i)
      PROVE  Limited'
  <2>0. /\ round_number[i] \in Nat /\ round_number[i] <= plan.max_rounds[i]
        /\ round_number' = round_number =>
             round_number' = [round_number EXCEPT ![i] = round_number[i]]
        /\ ready \subseteq Index /\ timed_out \subseteq Index
    BY DEF Typed, Limited
  <2>a. /\ plan.max_rounds[i] \in Nat /\ 2 <= plan.max_rounds[i]
        /\ plan.max_rounds[i] <= HARD_CAP_ROUNDS
    BY MaxRoundsFacts
  <2>1. CASE Ready(i) \/ WaitTimesOut(i)
    <3>1. /\ at' = [at EXCEPT ![i] = "select_personas"]
          /\ UNCHANGED <<plan, round_number, outcome, ready>>
          /\ timed_out' = timed_out \/ timed_out' = timed_out \cup {i}
      BY <2>1 DEF Ready, WaitTimesOut
    <3>2. timed_out' \subseteq Index
      BY <2>0, <3>1
    <3>. QED
      BY <2>0, <3>1, <3>2, LimitedBy
  <2>2. CASE select_personas_sp_node(i)
    <3>1. /\ at' = [at EXCEPT ![i] = "parallel_round"]
          /\ round_number' = [round_number EXCEPT ![i] = 1]
          /\ UNCHANGED <<plan, timed_out, outcome, ready>>
      BY <2>2 DEF select_personas_sp_node, Advance
    <3>2. 1 \in Nat /\ 1 < plan.max_rounds[i] /\ 1 <= plan.max_rounds[i]
      BY <2>a
    <3>. QED
      BY <2>0, <3>1, <3>2, LimitedBy
  <2>3. CASE parallel_round_sp_node(i)
    <3>1. /\ at[i] = "parallel_round"
          /\ \E p \in {"vote", "check_convergence"} : at' = [at EXCEPT ![i] = p]
          /\ round_number' = [round_number EXCEPT ![i] = round_number[i] + 1]
          /\ UNCHANGED <<plan, timed_out, outcome, ready>>
      BY <2>3 DEF parallel_round_sp_node, Advance
    <3>2. round_number[i] + 1 \in Nat /\ round_number[i] + 1 <= plan.max_rounds[i]
      BY <2>0, <2>a, <3>1 DEF Limited
    <3>. QED
      BY <2>0, <3>1, <3>2, LimitedBy
  <2>4. CASE check_convergence_sp_node(i)
    <3>1. /\ UNCHANGED <<plan, timed_out, outcome, round_number>>
          /\ ready' \in {ready, ready \cup {i}}
          /\ \E p \in {"vote", "parallel_round"} :
               /\ at' = [at EXCEPT ![i] = p]
               /\ p = "parallel_round" => ~MustStop(i)
      BY <2>4 DEF check_convergence_sp_node, Advance, update_round_context
    <3>2. PICK p \in {"vote", "parallel_round"} :
            at' = [at EXCEPT ![i] = p] /\ (p = "parallel_round" => ~MustStop(i))
      BY <3>1
    <3>3. p = "parallel_round" => round_number[i] < plan.max_rounds[i]
      BY <2>0, <2>a, <3>2 DEF MustStop
    <3>4. ready' \subseteq Index
      BY <2>0, <3>1
    <3>. QED
      BY <2>0, <3>1, <3>2, <3>3, <3>4, LimitedBy
  <2>5. CASE VotingStarted(i) \/ vote_sp_node(i) \/ synthesize_sp_node(i) \/ NodeRaises(i)
    <3>1. /\ UNCHANGED <<plan, timed_out, outcome, round_number>>
          /\ ready' \in {ready, ready \cup {i}}
          /\ \E p \in {"voting", "synthesize", "done", "failed"} : at' = [at EXCEPT ![i] = p]
      BY <2>5 DEF VotingStarted, vote_sp_node, synthesize_sp_node, NodeRaises, Advance,
           update_round_context, mark_complete
    <3>2. ready' \subseteq Index
      BY <2>0, <3>1
    <3>. QED
      BY <2>0, <3>1, <3>2, LimitedBy
  <2>. QED
    BY <1>2, <2>1, <2>2, <2>3, <2>4, <2>5 DEF RunNode
<1>3. CASE UNCHANGED vars
  BY <1>3 DEF vars, Limited
<1>. QED
  BY <1>1, <1>2, <1>3 DEF Next

(* Type correctness; above all, no round counter passes HARD_CAP_ROUNDS.   *)
THEOREM TypeCorrect == Spec => []TypeOK
<1>1. Init => Limited
  <2>1. SUFFICES ASSUME Init PROVE Limited
    OBVIOUS
  <2>2. Typed
    BY <2>1, InitIInv DEF IInv
  <2>3. \A i \in Index : 0 <= plan.max_rounds[i]
    BY <2>2, MaxRoundsFacts
  <2>. QED
    BY <2>1, <2>3 DEF Init, Limited
<1>2. Spec => [](IInv /\ ResultsInv /\ Limited)
  <2>1. IInv => Typed
    BY DEF IInv
  <2>. QED
    BY <1>1, <2>1, InitIInv, InitResults, NextResults, NextLimited, IInvAlways, PTL DEF Spec
<1>3. IInv /\ ResultsInv /\ Limited => TypeOK
  <2>1. SUFFICES ASSUME IInv, ResultsInv, Limited PROVE TypeOK
    OBVIOUS
  <2>2. \A i \in Index : round_number[i] \in 0 .. HARD_CAP_ROUNDS
    BY <2>1, MaxRoundsFacts DEF IInv, Typed, Limited, HARD_CAP_ROUNDS
  <2>3. round_number \in [Index -> 0 .. HARD_CAP_ROUNDS]
    BY <2>1, <2>2 DEF IInv, Typed
  <2>. QED
    BY <2>1, <2>3 DEF IInv, Typed, Covering, ResultsInv, Limited, TypeOK
<1>. QED
  BY <1>2, <1>3, PTL

=============================================================================
