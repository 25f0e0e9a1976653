----------------------------- MODULE MCIndexHeap -----------------------------
EXTENDS IndexHeap, TLC
(* Repositories are interchangeable. *)
MCSymmetry == Permutations(Repos)
=============================================================================
