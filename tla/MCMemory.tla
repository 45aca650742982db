------------------------------ MODULE MCMemory ------------------------------
(* Memory for TLC.  The properties say nothing of what follows once two    *)
(* uses of the temporary mapping overlapped, or the machine stopped, so    *)
(* those states have no successors here.                                   *)
EXTENDS Memory, TLC

NoRaceYet == ~raced

\* Names are compared only.
Symmetry == Permutations(Guids)
=============================================================================
