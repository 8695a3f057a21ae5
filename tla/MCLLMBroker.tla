----------------------------- MODULE MCLLMBroker ------------------------------
(* Few calls, one retry and breakers that two counted failures trip. *)
EXTENDS LLMBroker
===============================================================================
