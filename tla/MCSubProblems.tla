--------------------------- MODULE MCSubProblems ---------------------------
(* Three sub-problems with any dependencies that are not circular.        *)
EXTENDS SubProblems
============================================================================
