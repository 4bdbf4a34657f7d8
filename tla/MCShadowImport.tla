--------------------------- MODULE MCShadowImport ---------------------------
(* ShadowImport for TLC: the bounds are in the configuration.  Nothing distinguishes two owners. *)
EXTENDS ShadowImport, TLC

Symmetry == Permutations(Owners)
=============================================================================
