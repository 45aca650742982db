-------------------------- MODULE MCHeapAllocator ---------------------------
(* Instances of HeapAllocator for TLC. *)
EXTENDS HeapAllocator
=============================================================================
