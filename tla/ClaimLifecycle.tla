--------------------------- MODULE ClaimLifecycle ---------------------------
(***************************************************************************)
(* What the lore engine promises about the status of a league's claims,    *)
(* with every transaction one atomic step.  A claim enters as an open vote *)
(* or already settled by the statistics, is settled once, and may later be *)
(* vetoed; a challenge marks the canon claim it disputes, and settling the *)
(* challenge displaces or upholds that claim in the same step.             *)
(* LoreClaims, where transactions interleave, is shown to implement this.  *)
(***************************************************************************)
EXTENDS Integers

CONSTANTS
  ClaimIds,     \* identifiers of lore_claims rows
  None          \* "no claim"

\* What the theorems assume of the constants.
NoneIsNoClaim == None \notin ClaimIds

VARIABLES
  status,       \* status[c]: lore_claims.status, "absent" before the insert
  challenged    \* challenged[c]: the claim c disputes or relitigates, or None

lifecycleVars == <<status, challenged>>

Statuses == {"absent", "vote", "canon", "disputed", "rejected", "superseded"}

\* A standing claim is one the league holds true, contested or not.
Standing == {"canon", "disputed"}

\* updateLoreClaimStatus: p moves to `to` if its status is one of `from`.
UpdateStatus(s, p, from, to) ==
  [c \in ClaimIds |-> IF c = p /\ s[c] \in from THEN to ELSE s[c]]

\* Faulty variants: a ratified challenge spares a disputed claim, a failed challenge
\* leaves its mark.
UnsettledUndisputed(next) == IF next = "canon" THEN {"canon"} ELSE {"disputed"}
OutcomeKeepsMark(next) == IF next = "canon" THEN "superseded" ELSE "disputed"

\* What settling a challenge does to the claim it challenges.
Unsettled(next) == IF next = "canon" THEN Standing ELSE {"disputed"}
Outcome(next) == IF next = "canon" THEN "superseded" ELSE "canon"

AfterVerdict(s, c, p, next) ==
  [UpdateStatus(s, p, Unsettled(next), Outcome(next)) EXCEPT ![c] = next]

Init ==
  /\ status = [c \in ClaimIds |-> "absent"]
  /\ challenged = [c \in ClaimIds |-> None]

\* A claim opens for a vote; a challenge takes a canon claim into dispute.
Open(c, p) ==
  /\ status[c] = "absent"
  /\ p # None => status[p] = "canon"
  /\ status' = [UpdateStatus(status, p, {"canon"}, "disputed") EXCEPT ![c] = "vote"]
  /\ challenged' = [challenged EXCEPT ![c] = p]

\* A claim the statistics settle on submit never opens a vote.  The claim it
\* challenges has been canon, and may have been challenged or settled since.
Verify(c, p, next) ==
  /\ status[c] = "absent"
  /\ p # None => status[p] \notin {"absent", "vote"}
  /\ status' = AfterVerdict(status, c, p, next)
  /\ challenged' = [challenged EXCEPT ![c] = p]

\* The vote, or a steward, settles an open claim.
Settle(c, next) ==
  /\ status[c] = "vote"
  /\ status' = AfterVerdict(status, c, challenged[c], next)
  /\ UNCHANGED challenged

Veto(c) ==
  /\ status[c] = "canon"
  /\ status' = [status EXCEPT ![c] = "rejected"]
  /\ UNCHANGED challenged

Next ==
  \E c \in ClaimIds :
    \/ \E p \in ClaimIds \cup {None} :
         \/ Open(c, p)
         \/ \E next \in {"canon", "rejected"} : Verify(c, p, next)
    \/ \E next \in {"canon", "rejected"} : Settle(c, next)
    \/ Veto(c)

Spec == Init /\ [][Next]_lifecycleVars

-----------------------------------------------------------------------------
(* Properties *)

\* Every variable has its type.
TypeOK ==
  /\ status \in [ClaimIds -> Statuses]
  /\ challenged \in [ClaimIds -> ClaimIds \cup {None}]

\* A challenged claim was canon when it was challenged: it is in the table and
\* its own vote is over, so a verdict on the challenge never settles an open vote.
ChallengedIsSettled ==
  \A c \in ClaimIds : challenged[c] # None => status[challenged[c]] \notin {"absent", "vote"}

\* A claim and the challenge that beat it are never both held true.
NeverBothStanding ==
  \A c \in ClaimIds : challenged[c] # None /\ status[c] \in Standing
                      => status[challenged[c]] \notin Standing

\* A disputed claim always has a challenge whose vote is open.
DisputedHasOpenChallenge ==
  \A p \in ClaimIds : status[p] = "disputed" =>
    \E c \in ClaimIds : challenged[c] = p /\ status[c] = "vote"

\* The inductive invariant: the three together are kept by every transaction that
\* settles a challenge (engine.ts, resolveChallengeInTx).
Inv ==
  /\ TypeOK
  /\ ChallengedIsSettled
  /\ NeverBothStanding
  /\ DisputedHasOpenChallenge
=============================================================================
