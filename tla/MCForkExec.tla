----------------------------- MODULE MCForkExec -----------------------------
(* Instances of ForkExec for TLC. *)
EXTENDS ForkExec
=============================================================================
