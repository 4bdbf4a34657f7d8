------------------------- MODULE MCHistoricalImport -------------------------
(* HistoricalImport for TLC: one or all of the seasons down from the second, as    *)
(* onboarding from an older row asks, and from the third, as the rollover asks.    *)
EXTENDS HistoricalImport, TLC

Ranges == {{2}, {1, 2}, {1, 2, 3}}

Symmetry == Permutations(Imports)
=============================================================================
