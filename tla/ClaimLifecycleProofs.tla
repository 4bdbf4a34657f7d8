------------------------ MODULE ClaimLifecycleProofs ------------------------
(***************************************************************************)
(* Invariants of the claim lifecycle, for every set of claims.             *)
(***************************************************************************)
EXTENDS ClaimLifecycle, TLAPS

\* What ends a dispute needs; it is kept without NeverBothStanding.
Resolvable == TypeOK /\ ChallengedIsSettled /\ DisputedHasOpenChallenge

\* What a step does to the invariant: either part is kept on its own account.
KeepsInv == Resolvable' /\ (NeverBothStanding => NeverBothStanding')

LEMMA InvParts == Inv <=> Resolvable /\ NeverBothStanding
  BY DEF Inv, Resolvable

\* What updateLoreClaimStatus does to one row.
LEMMA UpdateStatusValue ==
  ASSUME NEW s \in [ClaimIds -> Statuses], NEW p, NEW from, NEW to \in Statuses
  PROVE  /\ UpdateStatus(s, p, from, to) \in [ClaimIds -> Statuses]
         /\ \A k \in ClaimIds : UpdateStatus(s, p, from, to)[k] =
              IF k = p /\ s[k] \in from THEN to ELSE s[k]
  BY DEF UpdateStatus

\* What settling c does to every row: c takes the verdict, the challenged claim is
\* displaced or upheld, nothing else moves.
LEMMA AfterVerdictValue ==
  ASSUME NEW s \in [ClaimIds -> Statuses], NEW c \in ClaimIds, NEW p, p # c,
         NEW next \in {"canon", "rejected"}
  PROVE  /\ AfterVerdict(s, c, p, next) \in [ClaimIds -> Statuses]
         /\ AfterVerdict(s, c, p, next)[c] = next
         /\ \A k \in ClaimIds \ {c} : AfterVerdict(s, c, p, next)[k] =
              IF k = p /\ s[k] \in Unsettled(next) THEN Outcome(next) ELSE s[k]
  BY DEF AfterVerdict, UpdateStatus, Statuses, Outcome

\* The invariant holds of an empty table.
LEMMA InitInv == ASSUME NoneIsNoClaim PROVE Init => Inv
  BY DEF NoneIsNoClaim, Init, Inv, TypeOK, ChallengedIsSettled,
     NeverBothStanding, DisputedHasOpenChallenge, Statuses, Standing

\* Opening a vote, or a dispute, keeps the invariant.
LEMMA OpenKeepsInv ==
  ASSUME NoneIsNoClaim, Resolvable, NEW c \in ClaimIds, NEW p \in ClaimIds \cup {None},
         Open(c, p)
  PROVE  KeepsInv
<1> DEFINE s == UpdateStatus(status, p, {"canon"}, "disputed")
<1>1. /\ s \in [ClaimIds -> Statuses]
      /\ \A k \in ClaimIds : s[k] = IF k = p /\ status[k] = "canon" THEN "disputed" ELSE status[k]
  BY UpdateStatusValue DEF Resolvable, TypeOK, Statuses
<1>2. status' = [s EXCEPT ![c] = "vote"] /\ challenged' = [challenged EXCEPT ![c] = p]
  BY DEF Open
<1> HIDE DEF s
<1>3. p # c /\ status[c] = "absent" /\ (p # None => status[p] = "canon")
  BY DEF NoneIsNoClaim, Open
<1>4. TypeOK'
  BY <1>1, <1>2 DEF Resolvable, TypeOK, Statuses
<1>5. \A k \in ClaimIds \ {c} : status'[k] = s[k] /\ challenged'[k] = challenged[k]
  BY <1>1, <1>2 DEF Resolvable, TypeOK
<1>6. status'[c] = "vote" /\ challenged'[c] = p
  BY <1>1, <1>2 DEF Resolvable, TypeOK
<1>8. ChallengedIsSettled'
  BY <1>1, <1>3, <1>5, <1>6 DEF NoneIsNoClaim, Resolvable, TypeOK, ChallengedIsSettled
<1>9. NeverBothStanding => NeverBothStanding'
  <2> SUFFICES ASSUME NeverBothStanding, NEW k \in ClaimIds,
                      challenged'[k] # None, status'[k] \in Standing
               PROVE  status'[challenged'[k]] \notin Standing
    BY DEF NeverBothStanding, Standing
  <2>1. k # c /\ challenged[k] # None /\ status[k] \in Standing
    BY <1>1, <1>5, <1>6 DEF Standing
  <2>2. challenged[k] # c /\ challenged[k] \in ClaimIds
    BY <1>3, <2>1 DEF Resolvable, TypeOK, ChallengedIsSettled
  <2>3. status[challenged[k]] \notin Standing
    BY <2>1 DEF NeverBothStanding
  <2> QED
    BY <1>1, <1>5, <2>1, <2>2, <2>3 DEF Standing
<1>10. DisputedHasOpenChallenge'
  <2> SUFFICES ASSUME NEW k \in ClaimIds, status'[k] = "disputed"
               PROVE  \E d \in ClaimIds : challenged'[d] = k /\ status'[d] = "vote"
    BY DEF DisputedHasOpenChallenge
  <2>1. CASE k = p
    BY <1>6, <2>1
  <2>2. CASE k # p
    <3>1. k # c /\ status[k] = "disputed"
      BY <1>1, <1>5, <1>6, <2>2
    <3>2. PICK d \in ClaimIds : challenged[d] = k /\ status[d] = "vote"
      BY <3>1 DEF Resolvable, DisputedHasOpenChallenge
    <3> QED
      BY <1>1, <1>3, <1>5, <3>2
  <2> QED
    BY <2>1, <2>2
<1> QED
  BY <1>4, <1>8, <1>9, <1>10 DEF KeepsInv, Resolvable

\* Settling a claim, by its vote, a steward or the statistics, keeps the invariant.
\* The three ways differ only in the status c had and in when c's challenge was set.
LEMMA VerdictKeepsInv ==
  ASSUME NoneIsNoClaim, Resolvable, NEW c \in ClaimIds, NEW p \in ClaimIds \cup {None},
         NEW next \in {"canon", "rejected"},
         status[c] \in {"absent", "vote"},
         status[c] = "vote" => challenged[c] = p,
         p # None => status[p] \notin {"absent", "vote"},
         status' = AfterVerdict(status, c, p, next),
         challenged' = [challenged EXCEPT ![c] = p]
  PROVE  KeepsInv
<1>1. p # c
  BY DEF NoneIsNoClaim
<1>2. /\ status' \in [ClaimIds -> Statuses]
      /\ status'[c] = next
      /\ \A k \in ClaimIds \ {c} : status'[k] =
           IF k = p /\ status[k] \in Unsettled(next) THEN Outcome(next) ELSE status[k]
  BY <1>1, AfterVerdictValue DEF Resolvable, TypeOK
<1>3. /\ challenged' \in [ClaimIds -> ClaimIds \cup {None}]
      /\ challenged'[c] = p
      /\ \A k \in ClaimIds \ {c} : challenged'[k] = challenged[k]
  BY DEF Resolvable, TypeOK
<1>4. \A k \in ClaimIds : challenged[k] # c
  BY DEF NoneIsNoClaim, Resolvable, TypeOK, ChallengedIsSettled
<1>5. TypeOK'
  BY <1>2, <1>3 DEF Resolvable, TypeOK, Outcome
<1>6. ChallengedIsSettled'
  BY <1>1, <1>2, <1>3, <1>4 DEF NoneIsNoClaim, Resolvable, TypeOK, ChallengedIsSettled, Outcome
<1>7. NeverBothStanding => NeverBothStanding'
  <2> SUFFICES ASSUME NeverBothStanding, NEW k \in ClaimIds,
                      challenged'[k] # None, status'[k] \in Standing
               PROVE  status'[challenged'[k]] \notin Standing
    BY DEF NeverBothStanding, Standing
  <2>1. CASE k = c
    BY <1>1, <1>2, <1>3, <2>1 DEF NoneIsNoClaim, Unsettled, Outcome, Standing
  <2>2. CASE k # c
    <3>1. challenged[k] # None /\ challenged[k] \in ClaimIds \ {c}
      BY <1>3, <1>4, <2>2 DEF Resolvable, TypeOK
    <3>2. status[k] \in Standing
      BY <1>2, <2>2 DEF Unsettled, Outcome, Standing
    <3>3. status[challenged[k]] \notin Standing
      BY <3>1, <3>2 DEF NeverBothStanding
    <3> QED
      BY <1>2, <1>3, <2>2, <3>1, <3>3 DEF Unsettled, Outcome, Standing
  <2> QED
    BY <2>1, <2>2
<1>8. DisputedHasOpenChallenge'
  <2> SUFFICES ASSUME NEW k \in ClaimIds, status'[k] = "disputed"
               PROVE  \E d \in ClaimIds : challenged'[d] = k /\ status'[d] = "vote"
    BY DEF DisputedHasOpenChallenge
  <2>1. k # c /\ k # p /\ status[k] = "disputed"
    BY <1>1, <1>2 DEF Unsettled, Outcome, Standing
  <2>2. PICK d \in ClaimIds : challenged[d] = k /\ status[d] = "vote"
    BY <2>1 DEF Resolvable, DisputedHasOpenChallenge
  <2>3. d # c
    BY <2>1, <2>2
  <2> QED
    BY <1>2, <1>3, <2>2, <2>3 DEF Unsettled, Standing
<1> QED
  BY <1>5, <1>6, <1>7, <1>8 DEF KeepsInv, Resolvable

\* A veto takes one canon claim out of canon and touches no other row.
LEMMA VetoKeepsInv ==
  ASSUME NoneIsNoClaim, Resolvable, NEW c \in ClaimIds, Veto(c)
  PROVE  KeepsInv
<1>1. status[c] = "canon" /\ challenged' = challenged
  BY DEF Veto
<1>2. /\ status' \in [ClaimIds -> Statuses]
      /\ status'[c] = "rejected"
      /\ \A k \in ClaimIds \ {c} : status'[k] = status[k]
  BY DEF Veto, Resolvable, TypeOK, Statuses
<1>3. TypeOK'
  BY <1>1, <1>2 DEF Resolvable, TypeOK
<1>4. ChallengedIsSettled'
  BY <1>1, <1>2 DEF NoneIsNoClaim, Resolvable, TypeOK, ChallengedIsSettled
<1>5. NeverBothStanding => NeverBothStanding'
  BY <1>1, <1>2 DEF NoneIsNoClaim, Resolvable, TypeOK, NeverBothStanding, Standing
<1>6. DisputedHasOpenChallenge'
  BY <1>1, <1>2 DEF Resolvable, TypeOK, DisputedHasOpenChallenge
<1> QED
  BY <1>3, <1>4, <1>5, <1>6 DEF KeepsInv, Resolvable

\* Every step of the lifecycle keeps the invariant.
LEMMA StepKeepsInv ==
  ASSUME NoneIsNoClaim, Resolvable, [Next]_lifecycleVars
  PROVE  KeepsInv
<1>1. ASSUME NEW c \in ClaimIds, NEW p \in ClaimIds \cup {None}, Open(c, p)
      PROVE  KeepsInv
  BY <1>1, OpenKeepsInv
<1>2. ASSUME NEW c \in ClaimIds, NEW p \in ClaimIds \cup {None},
             NEW next \in {"canon", "rejected"}, Verify(c, p, next)
      PROVE  KeepsInv
  BY <1>2, VerdictKeepsInv DEF Verify
<1>3. ASSUME NEW c \in ClaimIds, NEW next \in {"canon", "rejected"}, Settle(c, next)
      PROVE  KeepsInv
  <2>1. challenged[c] \in ClaimIds \cup {None}
        /\ challenged' = [challenged EXCEPT ![c] = challenged[c]]
    BY <1>3 DEF Settle, Resolvable, TypeOK
  <2>2. challenged[c] # None => status[challenged[c]] \notin {"absent", "vote"}
    BY DEF Resolvable, ChallengedIsSettled
  <2> QED
    BY <1>3, <2>1, <2>2, VerdictKeepsInv DEF Settle
<1>4. ASSUME NEW c \in ClaimIds, Veto(c)
      PROVE  KeepsInv
  BY <1>4, VetoKeepsInv
<1>5. CASE UNCHANGED lifecycleVars
  BY <1>5 DEF KeepsInv, lifecycleVars, Resolvable, TypeOK, ChallengedIsSettled, NeverBothStanding,
     DisputedHasOpenChallenge
<1> QED
  BY <1>1, <1>2, <1>3, <1>4, <1>5 DEF Next

\* The lifecycle never holds a claim and the challenge that beat it both true, and
\* never leaves a claim disputed when no challenge to it is open.
THEOREM Safety == ASSUME NoneIsNoClaim PROVE Spec => []Inv
<1>1. Init => Inv
  BY InitInv
<1>2. Inv /\ [Next]_lifecycleVars => Inv'
  BY StepKeepsInv, InvParts DEF KeepsInv, Inv, Resolvable
<1> QED
  BY <1>1, <1>2, PTL DEF Spec
=============================================================================
