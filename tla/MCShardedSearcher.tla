-------------------------- MODULE MCShardedSearcher --------------------------
EXTENDS ShardedSearcher, TLC
CONSTANTS ld1, ld2
(* Two ranks, so that feeder has an order. *)
MCRank == [l \in Loads |-> IF l = ld1 THEN 1 ELSE 2]
(* File names are interchangeable. *)
MCSymmetry == Permutations(Keys)
=============================================================================
