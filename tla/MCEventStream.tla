--------------------------- MODULE MCEventStream ---------------------------
(* Values for the constants of EventStream. *)
EXTENDS EventStream
=============================================================================
