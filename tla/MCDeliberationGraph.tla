-------------------------- MODULE MCDeliberationGraph --------------------------
(* The round limits the assessor may recommend. *)
EXTENDS DeliberationGraph
===============================================================================
