-------------------------- MODULE MCInstigatorPolls --------------------------
(* InstigatorPolls for TLC.  Claims, members, options and requests are interchangeable. *)
EXTENDS InstigatorPolls, TLC

Symmetry ==
  Permutations(ClaimIds) \cup Permutations(Members) \cup Permutations(Options)
    \cup Permutations(Requests)
=============================================================================
