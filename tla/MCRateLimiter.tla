--------------------------- MODULE MCRateLimiter ---------------------------
(***************************************************************************)
(* The values of RateLimiter that a .cfg cannot write.                     *)
(***************************************************************************)
EXTENDS RateLimiter, TLC

\* Keys are only ever compared, and those that are not watched are alike.
Symmetry == Permutations(Keys \ Watched)
=============================================================================
