--------------------------- MODULE MCSessionManager ---------------------------
(* A registry with room for one session and a few requests. *)
EXTENDS SessionManager
===============================================================================
