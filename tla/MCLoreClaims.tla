---------------------------- MODULE MCLoreClaims ----------------------------
(* LoreClaims for TLC.  Nothing distinguishes two members, two requests or two runs of the job. *)
EXTENDS LoreClaims, TLC

Symmetry == Permutations(Members) \cup Permutations(Requests) \cup Permutations(Workers)

Submit(outcome, rel, viaRoute) ==
  [outcome |-> outcome, relation |-> rel, viaRoute |-> viaRoute]

\* An opinion claim of a member, of a record hook, and a claim the statistics confirm.
VoteSubmissions ==
  {Submit("vote", "root", TRUE), Submit("vote", "root", FALSE), Submit("canon", "root", FALSE)}

\* A canon claim, responses to it, and every way to challenge it.
ChallengeSubmissions ==
  {Submit("canon", "root", TRUE), Submit("vote", "response", TRUE)}
    \cup {Submit(o, "dispute", TRUE) : o \in {"vote", "canon", "rejected"}}
=============================================================================
