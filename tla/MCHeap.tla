------------------------------- MODULE MCHeap -------------------------------
(* Blocks are interchangeable. *)
EXTENDS Heap, TLC
Interchangeable == Permutations(Addresses)
=============================================================================
