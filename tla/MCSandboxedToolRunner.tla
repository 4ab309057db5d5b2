------------------------ MODULE MCSandboxedToolRunner ------------------------
(* Model-checking instance of SandboxedToolRunner. *)
EXTENDS SandboxedToolRunner
=============================================================================
