------------------------------- MODULE MCHeap -------------------------------
(***************************************************************************)
(* Module Heap for TLC.  Blocks are compared by their keys only, never by  *)
(* identity, so they are interchangeable.                                  *)
(***************************************************************************)
EXTENDS Heap, TLC

BlockSymmetry == Permutations(Blocks)

=============================================================================
