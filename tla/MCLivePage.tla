----------------------------- MODULE MCLivePage -----------------------------
(* Instances of LivePage for TLC. *)
EXTENDS LivePage, TLC
=============================================================================
