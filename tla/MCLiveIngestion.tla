--------------------------- MODULE MCLiveIngestion ---------------------------
(* LiveIngestion for TLC. *)
EXTENDS LiveIngestion, TLC
Symmetry == Permutations(Ingests)
=============================================================================
