----------------------------- MODULE MCNetwork ------------------------------
(* An instance of Network for TLC. *)
EXTENDS Network
=============================================================================
