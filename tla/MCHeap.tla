------------------------------- MODULE MCHeap -------------------------------
(* Two threads on a heap of four small blocks. *)
EXTENDS Heap

CONSTANTS u1, u2
=============================================================================
