--------------------------- MODULE MCCircuitBreaker ---------------------------
(* A small breaker: two failures to trip it and two successes to close it. *)
EXTENDS CircuitBreaker
===============================================================================
