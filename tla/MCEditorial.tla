---------------------------- MODULE MCEditorial ----------------------------
(* Editorial for TLC.  Posts, keys and calls are interchangeable. *)
EXTENDS Editorial, TLC

Symmetry == Permutations(Posts) \cup Permutations(Clicks) \cup Permutations(Calls)
=============================================================================
