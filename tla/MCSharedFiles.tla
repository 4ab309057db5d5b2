---------------------------- MODULE MCSharedFiles ----------------------------
(* Model-checking instance of SharedFiles and the store under it. *)
EXTENDS SharedFiles, TLC

CONSTANTS p, q, w1, w2

Symmetry == Permutations(Requests) \cup Permutations(Workers)
=============================================================================
