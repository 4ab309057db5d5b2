--------------------------- MODULE MCAgentRuntime ---------------------------
(* Instances of AgentRuntime for TLC. *)
EXTENDS AgentRuntimeProperties, TLC

\* Tenants are interchangeable when all or none of them have limits.
Symmetry == Permutations(Tenants)
=============================================================================
