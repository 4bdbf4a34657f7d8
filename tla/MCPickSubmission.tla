--------------------------- MODULE MCPickSubmission ---------------------------
(* PickSubmission for TLC: users, keys, markets and requests are interchangeable. *)
EXTENDS PickSubmission, TLC

Symmetry ==
  Permutations(Users) \cup Permutations(Keys) \cup Permutations(Markets)
    \cup Permutations(Requests)
=============================================================================
