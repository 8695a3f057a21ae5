-------------------------- MODULE MCEventPipeline --------------------------
(* Values for the constants of EventPipeline. *)
EXTENDS EventPipeline
=============================================================================
