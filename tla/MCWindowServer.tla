--------------------------- MODULE MCWindowServer ---------------------------
(* Instances of WindowServer for TLC. *)
EXTENDS WindowServer
=============================================================================
