---------------------------- MODULE MCMessageBus ----------------------------
(* Model-checking instance of MessageBus. *)
EXTENDS MessageBus, TLC

CONSTANTS a1, a2, h1, h2

Symmetry == Permutations(Handlers) \cup Permutations(Agents)
=============================================================================
