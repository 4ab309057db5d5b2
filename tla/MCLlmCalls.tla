----------------------------- MODULE MCLlmCalls -----------------------------
(* Model-checking instance of LlmCalls. *)
EXTENDS LlmCalls
=============================================================================
