---------------------------- MODULE EventLedger ----------------------------
(***************************************************************************)
(* What the event machinery owes the replay of a meeting: every event that *)
(* is published is pending until it is kept in PostgreSQL for good or, when *)
(* PostgreSQL refused it again and again, laid aside in the dead letter     *)
(* queue.  An event may be lost, but only in a step in which a service      *)
(* fails or the process dies; and what is kept, dead or lost stays so.      *)
(*                                                                          *)
(* EventPipeline shows that publisher, batcher and retry worker implement   *)
(* this.                                                                    *)
(***************************************************************************)
EXTENDS Naturals

CONSTANT Events     \* the events that are ever published
VARIABLES
  fate,             \* what has become of each event
  harm              \* the number of failures so far

Fates == {"unpublished", "pending", "kept", "dead", "lost"}

(* What may become of an event in one step.                                 *)
Moves == {<<"unpublished", "pending">>, <<"unpublished", "lost">>,
          <<"pending", "kept">>, <<"pending", "dead">>, <<"pending", "lost">>}

Init ==
  /\ fate = [e \in Events |-> "unpublished"]
  /\ harm = 0

(* A step may move several events: a batch is stored or refused as it comes. *)
Next ==
  /\ fate' \in [Events -> Fates]
  /\ \A e \in Events : fate'[e] # fate[e] => <<fate[e], fate'[e]>> \in Moves
  /\ harm' \in Nat /\ harm' >= harm
  /\ (\E e \in Events : fate'[e] = "lost" /\ fate[e] # "lost") => harm' > harm

Spec == Init /\ [][Next]_<<fate, harm>>
=============================================================================
