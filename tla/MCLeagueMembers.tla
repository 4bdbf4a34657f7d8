-------------------------- MODULE MCLeagueMembers ---------------------------
(* LeagueMembers for TLC: users, teams and slots are interchangeable. *)
EXTENDS LeagueMembers, TLC

Symmetry == Permutations(Users) \cup Permutations(Teams) \cup Permutations(Slots)
=============================================================================
