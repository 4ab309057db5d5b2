---------------------------- MODULE MCAgentServer ---------------------------
EXTENDS AgentServer, TLC

CONSTANTS p, h1, h2   \* an HTTP request and two heartbeats

\* Heartbeats are told apart by nothing but their ids.
Symmetry == Permutations(Heartbeats)
=============================================================================
