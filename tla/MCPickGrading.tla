---------------------------- MODULE MCPickGrading ----------------------------
(* PickGrading for TLC: leagues, and events, are interchangeable. *)
EXTENDS PickGrading, TLC

Symmetry == Permutations(Leagues) \cup Permutations(Events)
=============================================================================
