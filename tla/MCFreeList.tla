----------------------------- MODULE MCFreeList -----------------------------
(***************************************************************************)
(* FreeList for model checking: threads are interchangeable.               *)
(***************************************************************************)
EXTENDS FreeList, TLC

ThreadSymmetry == Permutations(Threads)
=============================================================================
