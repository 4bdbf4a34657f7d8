-------------------------- MODULE LoreClaimsProofs --------------------------
(***************************************************************************)
(* LoreClaims keeps its types and implements ClaimLifecycle, for every     *)
(* number of claims, members, requests and runs of the closing job; and    *)
(* its audit trail tells what became of each claim.                        *)
(***************************************************************************)
EXTENDS LoreClaims, SequenceTheorems, FiniteSetTheorems, TLAPS

\* A claim out of `absent` and `vote` has been settled; no step undoes that.
Settled(c) == status[c] \notin {"absent", "vote"}

\* What a transaction remembers still holds when it commits, whatever committed
\* in between: the claim it challenges was canon and is still settled, a voting
\* claim has a deadline, and a decision ready to commit is one.
ReqOK(q) ==
  /\ q.op = "submit" /\ q.relation = "dispute" => q.branchOf \in ClaimIds /\ Settled(q.branchOf)
  /\ q.op = "submit" /\ q.outcome = "vote" => q.closesAt \in Times
  /\ q.op \in {"tiebreak", "override"} => q.next \in Decisions
  /\ q.op = "close" /\ q.pc = "commit" => q.next \in Decisions

ReqInv == \A r \in Requests \cup Workers : ReqOK(req[r])

\* A challenge in the table challenges a settled claim.
RowInv ==
  \A c \in ClaimIds : relation[c] = "dispute" =>
    branchOf[c] \in ClaimIds /\ Settled(branchOf[c])

IInv == TypeOK /\ ReqInv /\ RowInv

\* What LoreClaims and the lifecycle each do in one step.
LStep == [L!Next]_(L!lifecycleVars)

-----------------------------------------------------------------------------

\* The rows one transaction inserts keep lore_events a sequence of event rows.
LEMMA RecordType ==
  ASSUME TypeOK, NEW c, NEW own \in Seq(EventRecs), NEW p, NEW other \in Seq(EventRecs),
         Record(c, own, p, other)
  PROVE  events' \in [ClaimIds -> Seq(EventRecs)]
<1>1. \A k \in ClaimIds : events[k] \in Seq(EventRecs)
  BY DEF TypeOK
<1>2. \A k \in ClaimIds : events[k] \o own \in Seq(EventRecs) /\ events[k] \o other \in Seq(EventRecs)
  BY <1>1, ConcatProperties
<1> QED
  BY <1>1, <1>2 DEF Record

\* A step that moves one request and unsettles no claim keeps what the others remember.
LEMMA ReqInvKept ==
  ASSUME IInv, NEW r \in Requests \cup Workers, NEW q,
         req' = [req EXCEPT ![r] = q], ReqOK(q)',
         \A c \in ClaimIds : Settled(c) => Settled(c)'
  PROVE  ReqInv'
  BY DEF IInv, TypeOK, ReqInv, ReqOK

\* A request that moves, without a write, keeps the invariant.
LEMMA MoveKeepsInv ==
  ASSUME IInv, NEW r \in Requests \cup Workers, NEW q \in ReqStates,
         req' = [req EXCEPT ![r] = q], ReqOK(q),
         UNCHANGED <<now, claimVars, votes, events, job>>
  PROVE  IInv'
<1>1. \A c \in ClaimIds : Settled(c) <=> Settled(c)'
  BY DEF Settled, claimVars
<1>2. ReqOK(q)'
  BY DEF ReqOK, Settled, claimVars, Times
<1>3. ReqInv'
  BY <1>1, <1>2, ReqInvKept
<1>4. RowInv'
  BY DEF IInv, RowInv, Settled, claimVars
<1>5. TypeOK'
  BY DEF IInv, TypeOK, claimVars
<1> QED
  BY <1>3, <1>4, <1>5 DEF IInv

LEMMA BeginSubmitKeepsInv ==
  ASSUME IInv, NEW r \in Requests, BeginSubmit(r)
  PROVE  IInv'
<1>1. PICK s \in Submissions, p \in ClaimIds \cup {None}, t \in Captured :
        /\ p = None <=> s.relation = "root"
        /\ s.relation = "dispute" => status[p] = "canon"
        /\ t + VoteWindow <= MaxTime
        /\ Start(r, [op |-> "submit", outcome |-> s.outcome, relation |-> s.relation,
                     branchOf |-> p, viaRoute |-> s.viaRoute, parentWas |-> None,
                     closesAt |-> IF s.outcome = "vote" THEN t + VoteWindow ELSE None])
  BY DEF BeginSubmit
<1> DEFINE q == [op |-> "submit", outcome |-> s.outcome, relation |-> s.relation,
                 branchOf |-> p, viaRoute |-> s.viaRoute, parentWas |-> None,
                 closesAt |-> IF s.outcome = "vote" THEN t + VoteWindow ELSE None]
<1>2. t + VoteWindow \in Times
  BY <1>1, BoundsAssumption DEF Captured, Times
<1>3. s \in [outcome : {"vote"} \cup Decisions, relation : Relations, viaRoute : BOOLEAN]
  BY BoundsAssumption
<1>4. q \in SubmitReqs
  BY <1>2, <1>3 DEF SubmitReqs
<1>5. q \in ReqStates
  BY <1>4 DEF ReqStates
<1>6. q.relation = "dispute" => q.branchOf \in ClaimIds /\ Settled(q.branchOf)
  BY <1>1, <1>3 DEF Settled, Relations
<1>7. UNCHANGED <<now, claimVars, votes, events, job>>
  BY DEF BeginSubmit
<1>8. q.outcome = "vote" => q.closesAt \in Times
  BY <1>2
<1>9. q.op = "submit" /\ req' = [req EXCEPT ![r] = q]
  BY <1>1 DEF Start
<1>10. ReqOK(q)
  BY <1>6, <1>8 DEF ReqOK
<1> HIDE DEF q
<1> QED
  BY <1>5, <1>7, <1>9, <1>10, MoveKeepsInv

\* The other operations begin from idle with a record of their own shape.
LEMMA BeginKeepsInv ==
  ASSUME IInv, NEW r \in Requests,
         BeginCast(r) \/ BeginDecision(r) \/ BeginExtend(r) \/ BeginVeto(r)
  PROVE  IInv'
<1>1. CASE BeginCast(r)
  <2>1. PICK c \in ClaimIds, m \in Members, choice \in Choices :
          Start(r, [op |-> "cast", claim |-> c, voter |-> m, choice |-> choice])
    BY <1>1 DEF BeginCast
  <2>2. [op |-> "cast", claim |-> c, voter |-> m, choice |-> choice] \in ReqStates
    BY DEF ReqStates, CastReqs
  <2> QED
    BY <1>1, <2>1, <2>2, MoveKeepsInv DEF BeginCast, Start, ReqOK
<1>2. CASE BeginDecision(r)
  <2>1. PICK c \in ClaimIds, op \in {"tiebreak", "override"}, next \in Decisions, t \in Captured :
          Start(r, [op |-> op, pc |-> "tally", claim |-> c, next |-> next,
                    expired |-> t >= closesAt[c], parentWas |-> None])
    BY <1>2 DEF BeginDecision
  <2>2. (t >= closesAt[c]) \in BOOLEAN
    OBVIOUS
  <2>3. [op |-> op, pc |-> "tally", claim |-> c, next |-> next,
         expired |-> t >= closesAt[c], parentWas |-> None] \in DecideReqs
    BY <2>2 DEF DecideReqs
  <2> QED
    BY <1>2, <2>1, <2>3, MoveKeepsInv DEF BeginDecision, ReqStates, Start, ReqOK
<1>3. CASE BeginExtend(r)
  <2>1. PICK c \in ClaimIds, until \in Times :
          Start(r, [op |-> "extend", claim |-> c, until |-> until])
    BY <1>3 DEF BeginExtend
  <2>2. [op |-> "extend", claim |-> c, until |-> until] \in ReqStates
    BY DEF ReqStates, ExtendReqs
  <2> QED
    BY <1>3, <2>1, <2>2, MoveKeepsInv DEF BeginExtend, Start, ReqOK
<1>4. CASE BeginVeto(r)
  <2>1. PICK c \in ClaimIds : Start(r, [op |-> "veto", claim |-> c])
    BY <1>4 DEF BeginVeto
  <2>2. [op |-> "veto", claim |-> c] \in ReqStates
    BY DEF ReqStates, VetoReqs
  <2> QED
    BY <1>4, <2>1, <2>2, MoveKeepsInv DEF BeginVeto, Start, ReqOK
<1> QED
  BY <1>1, <1>2, <1>3, <1>4

LEMMA BeginCloseKeepsInv ==
  ASSUME IInv, NEW w \in Workers, NEW c \in ClaimIds, BeginClose(w, c)
  PROVE  IInv'
<1> DEFINE q == [op |-> "close", pc |-> "tally", claim |-> c, next |-> None,
                 expired |-> TRUE, parentWas |-> None]
<1>1. q \in ReqStates
  BY DEF ReqStates, DecideReqs
<1>2. Start(w, q) /\ UNCHANGED <<now, claimVars, votes, events, job>>
  BY DEF BeginClose
<1> QED
  BY <1>1, <1>2, MoveKeepsInv DEF Start, ReqOK

LEMMA ReadTallyKeepsInv ==
  ASSUME IInv, NEW r \in Requests \cup Workers, ReadTally(r)
  PROVE  IInv'
<1> DEFINE n == Decision(req[r])
           q == [req[r] EXCEPT !.pc = "commit", !.next = n]
<1>1. req[r] \in DecideReqs
  BY DEF ReadTally, IInv, TypeOK, ReqStates, Idle, SubmitReqs, CastReqs, ExtendReqs, VetoReqs, DecideReqs
<1>2. n \in Decisions
  BY <1>1 DEF Decision, Decisions, IInv, ReqInv, ReqOK, DecideReqs
<1> HIDE DEF n
<1>3. q \in DecideReqs /\ q.op = req[r].op /\ q.next = n
  BY <1>1, <1>2 DEF DecideReqs
<1>4. q \in ReqStates /\ ReqOK(q)
  BY <1>2, <1>3 DEF ReqStates, ReqOK, DecideReqs
<1>5. req' = [req EXCEPT ![r] = q] /\ UNCHANGED <<now, claimVars, votes, events, job>>
  BY DEF ReadTally, n
<1> QED
  BY <1>4, <1>5, MoveKeepsInv

LEMMA ReadChallengedKeepsInv ==
  ASSUME IInv, NEW r \in Requests \cup Workers, ReadChallenged(r)
  PROVE  IInv'
<1> DEFINE p == IF req[r].op = "submit"
                THEN IF req[r].relation = "dispute" THEN req[r].branchOf ELSE None
                ELSE Challenged(req[r].claim)
           q == [req[r] EXCEPT !.parentWas = status[p]]
<1>1. req[r] \in SubmitReqs \cup DecideReqs /\ p # None
  BY DEF ReadChallenged, IInv, TypeOK, ReqStates, Idle, SubmitReqs, CastReqs, ExtendReqs, VetoReqs, DecideReqs
<1>2. p \in ClaimIds
  BY <1>1 DEF IInv, TypeOK, ReqInv, ReqOK, RowInv, Challenged, SubmitReqs, DecideReqs
<1>3. status[p] \in Statuses
  BY <1>2 DEF IInv, TypeOK
<1>4. req' = [req EXCEPT ![r] = q] /\ UNCHANGED <<now, claimVars, votes, events, job>>
  BY DEF ReadChallenged, IInv, TypeOK
<1> HIDE DEF p
<1>5. q \in ReqStates
  BY <1>1, <1>3 DEF ReqStates, SubmitReqs, DecideReqs
<1>6. ReqOK(req[r])
  BY DEF IInv, ReqInv
<1>7. ReqOK(q)
  BY <1>1, <1>6 DEF ReqOK, SubmitReqs, DecideReqs
<1> QED
  BY <1>4, <1>5, <1>7, MoveKeepsInv

-----------------------------------------------------------------------------
(* The transactions that change the table *)

\* The shapes a request can have, by its operation.
LEMMA ReqShape ==
  ASSUME TypeOK, NEW r \in Requests \cup Workers
  PROVE  /\ req[r].op = "submit" => req[r] \in SubmitReqs
         /\ req[r].op \in {"close", "tiebreak", "override"} => req[r] \in DecideReqs
         /\ req[r].op = "extend" => req[r] \in ExtendReqs
         /\ req[r].op = "veto" => req[r] \in VetoReqs
         /\ req[r].op = "cast" => req[r] \in CastReqs
  BY DEF TypeOK, ReqStates, Idle, SubmitReqs, CastReqs, ExtendReqs, VetoReqs, DecideReqs

\* A verdict settles c, and the claim it challenges stays settled.
LEMMA VerdictType ==
  ASSUME IInv, NEW c \in ClaimIds, NEW p \in ClaimIds \cup {None}, NEW next \in Decisions,
         NEW seen \in Statuses \cup {None}, NEW own \in Seq(EventRecs), NEW reason \in Reasons,
         p # c, ApplyVerdict(c, p, next, seen, own, reason)
  PROVE  /\ status' \in [ClaimIds -> Statuses]
         /\ events' \in [ClaimIds -> Seq(EventRecs)]
         /\ Settled(c)'
         /\ \A k \in ClaimIds : Settled(k) => Settled(k)'
<1>1. status \in [ClaimIds -> Statuses] /\ TypeOK
  BY DEF IInv, TypeOK
<1>2. L!Outcome(next) \in {"superseded", "canon"}
  BY DEF L!Outcome
<1>3. status' \in [ClaimIds -> Statuses]
  BY <1>1, <1>2 DEF ApplyVerdict, L!AfterVerdict, L!UpdateStatus, Decisions, Statuses
<1>4. /\ status'[c] = next
      /\ \A k \in ClaimIds \ {c} : status'[k] \in {status[k], "superseded", "canon"}
  BY <1>1, <1>2 DEF ApplyVerdict, L!AfterVerdict, L!UpdateStatus
<1>5. Settled(c)' /\ \A k \in ClaimIds : Settled(k) => Settled(k)'
  BY <1>4 DEF Settled, Decisions
<1> DEFINE e == Event(IF next = "canon" THEN "superseded" ELSE "disputed",
                      reason, seen, L!Outcome(next))
<1>6. e \in EventRecs
  BY <1>2 DEF Event, EventRecs, EventKinds, Statuses
<1> HIDE DEF e
<1>7. <<e>> \in Seq(EventRecs) /\ <<>> \in Seq(EventRecs)
  BY <1>6
<1>8. events' \in [ClaimIds -> Seq(EventRecs)]
  <2>1. PICK other \in {<<>>, <<e>>} : Record(c, own, p, other)
    BY DEF ApplyVerdict, e
  <2> QED
    BY <1>1, <1>7, <2>1, RecordType
<1> QED
  BY <1>3, <1>5, <1>8

\* The claim a challenge challenges, for a row and for a row about to be inserted.
LEMMA ChallengedType ==
  ASSUME IInv, NEW c \in ClaimIds
  PROVE  /\ Challenged(c) \in ClaimIds \cup {None}
         /\ Challenged(c) # None => Settled(Challenged(c))
  BY DEF IInv, RowInv, Challenged

\* updateLoreClaimStatus, for a claim known to have the status it is moved from.
LEMMA UpdateStatusMoves ==
  ASSUME NEW p \in ClaimIds \cup {None}, p # None => status[p] = "canon"
  PROVE  L!UpdateStatus(status, p, {"canon"}, "disputed")
           = [k \in ClaimIds |-> IF k = p THEN "disputed" ELSE status[k]]
<1>1. \A k \in ClaimIds : k = p => status[k] \in {"canon"}
  BY BoundsAssumption
<1> QED
  BY <1>1 DEF L!UpdateStatus

\* createVotingClaimInTx opens a vote, and marks the claim it disputes.
LEMMA CommitVotingClaimStep ==
  ASSUME IInv, NEW r \in Requests, NEW c \in ClaimIds, CommitVotingClaim(r, c)
  PROVE  IInv' /\ LStep
<1> DEFINE q == req[r]
           p == IF q.relation = "dispute" THEN q.branchOf ELSE None
<1>1. q \in SubmitReqs /\ q.op = "submit" /\ q.outcome = "vote" /\ TypeOK /\ ReqOK(q)
  BY ReqShape DEF CommitVotingClaim, IInv, ReqInv
<1>2. p \in ClaimIds \cup {None} /\ p # c /\ (p # None => status[p] = "canon") /\ status[c] = "absent"
  BY <1>1, BoundsAssumption DEF CommitVotingClaim, OpensDispute, InsertClaim, NextId, ReqOK, Settled
<1>3. status' = [L!UpdateStatus(status, p, {"canon"}, "disputed") EXCEPT ![c] = "vote"]
  BY DEF CommitVotingClaim
<1>4. /\ status' \in [ClaimIds -> Statuses]
      /\ status'[c] = "vote"
      /\ \A k \in ClaimIds \ {c} : status'[k] = IF k = p THEN "disputed" ELSE status[k]
  <2> HIDE DEF p, q
  <2>1. status' = [[k \in ClaimIds |-> IF k = p THEN "disputed" ELSE status[k]] EXCEPT ![c] = "vote"]
    BY <1>2, <1>3, UpdateStatusMoves
  <2> QED
    BY <1>1, <1>2, <2>1 DEF TypeOK, Statuses
<1>5. \A k \in ClaimIds : Settled(k) => Settled(k)'
  BY <1>2, <1>4 DEF Settled
<1>6. /\ relation' = [relation EXCEPT ![c] = q.relation]
      /\ branchOf' = [branchOf EXCEPT ![c] = q.branchOf]
      /\ closesAt' = [closesAt EXCEPT ![c] = q.closesAt]
      /\ ratifiedBy' = [ratifiedBy EXCEPT ![c] = None]
      /\ req' = [req EXCEPT ![r] = Idle] /\ UNCHANGED <<now, votes>>
  BY DEF CommitVotingClaim, InsertClaim, Finish
<1>7. events' \in [ClaimIds -> Seq(EventRecs)]
  <2> DEFINE opened == <<Event("created", "claim_opened", None, "vote"),
                         Event("vote_opened", "claim_opened", None, "vote")>>
             marked == <<Event("disputed", "dispute_opened", "canon", "disputed")>>
  <2>1. opened \in Seq(EventRecs) /\ marked \in Seq(EventRecs)
    BY DEF Event, EventRecs, EventKinds, Reasons, Statuses
  <2>2. Record(c, opened, p, marked)
    BY DEF CommitVotingClaim
  <2> HIDE DEF opened, marked
  <2> QED
    BY <1>1, <2>1, <2>2, RecordType
<1>8. job' \in [ClaimIds -> Jobs]
  BY <1>1, BoundsAssumption DEF CommitVotingClaim, TypeOK, Jobs, ReqOK
<1>9. TypeOK'
  BY <1>1, <1>4, <1>6, <1>7, <1>8 DEF TypeOK, SubmitReqs, ReqStates, Times
<1>10. ReqInv'
  BY <1>5, <1>6, ReqInvKept DEF ReqOK, Idle
<1>11. RowInv'
  BY <1>1, <1>5, <1>6 DEF IInv, TypeOK, RowInv, ReqOK
<1>12. L!Open(c, p)
  <2>1. [k \in ClaimIds |-> IF relation[k] = "dispute" THEN branchOf[k] ELSE None]'
          = [[k \in ClaimIds |-> IF relation[k] = "dispute" THEN branchOf[k] ELSE None]
               EXCEPT ![c] = p]
    BY <1>1, <1>6 DEF TypeOK
  <2> QED
    BY <1>2, <1>3, <2>1 DEF L!Open
<1> HIDE DEF p, q
<1>13. L!Next
  BY <1>2, <1>12 DEF L!Next, L!Open
<1>14. LStep
  BY <1>13 DEF LStep
<1> QED
  BY <1>14, <1>9, <1>10, <1>11 DEF IInv

\* The job runner's record of an event survives the outcome of an attempt.
LEMMA JobType ==
  ASSUME TypeOK, NEW c \in ClaimIds, JobSucceeds(c) \/ JobFails(c)
  PROVE  job' \in [ClaimIds -> Jobs]
<1>1. job \in [ClaimIds -> Jobs] /\ MaxAttempts \in Nat
  BY BoundsAssumption DEF TypeOK
<1>2. CASE JobSucceeds(c)
  BY <1>1, <1>2 DEF JobSucceeds, Jobs
<1>3. CASE JobFails(c)
  <2> DEFINE f == IF job[c].failures < MaxAttempts THEN job[c].failures + 1 ELSE job[c].failures
  <2>1. f \in 0..MaxAttempts
    BY <1>1 DEF Jobs
  <2>2. job' = [job EXCEPT ![c].failures = f]
    BY <1>3 DEF JobFails
  <2> HIDE DEF f
  <2> QED
    BY <1>1, <2>1, <2>2 DEF Jobs
<1> QED
  BY <1>2, <1>3

\* createResolvedDataClaimInTx inserts a settled claim and settles its challenge.
LEMMA CommitDataClaimStep ==
  ASSUME IInv, NEW r \in Requests, NEW c \in ClaimIds, CommitDataClaim(r, c)
  PROVE  IInv' /\ LStep
<1> DEFINE q == req[r]
           p == IF q.relation = "dispute" THEN q.branchOf ELSE None
           own == <<Event("created", "claim_submitted", None, q.outcome),
                    Event(VerdictKind(q.outcome), "verification", None, q.outcome)>>
<1>1. q \in SubmitReqs /\ q.op = "submit" /\ q.outcome \in Decisions /\ TypeOK /\ ReqOK(q)
  BY ReqShape DEF CommitDataClaim, IInv, ReqInv
<1>2. p \in ClaimIds \cup {None} /\ p # c /\ (p # None => Settled(p)) /\ status[c] = "absent"
  BY <1>1, BoundsAssumption DEF CommitDataClaim, InsertClaim, NextId, ReqOK, Settled
<1>3. ApplyVerdict(c, p, q.outcome, q.parentWas, own, "verification")
  BY DEF CommitDataClaim
<1>4. own \in Seq(EventRecs)
  BY <1>1 DEF Event, EventRecs, EventKinds, Reasons, Statuses, VerdictKind, Decisions
<1>5. "verification" \in Reasons /\ q.parentWas \in Statuses \cup {None} /\ q.relation \in Relations
      /\ q.branchOf \in ClaimIds \cup {None} /\ q.closesAt \in Times \cup {None}
  BY <1>1 DEF Reasons, SubmitReqs
<1>6. /\ relation' = [relation EXCEPT ![c] = q.relation]
      /\ branchOf' = [branchOf EXCEPT ![c] = q.branchOf]
      /\ closesAt' = [closesAt EXCEPT ![c] = q.closesAt]
      /\ ratifiedBy' = [ratifiedBy EXCEPT ![c] = IF q.outcome = "canon" THEN "verified" ELSE None]
      /\ req' = [req EXCEPT ![r] = Idle] /\ UNCHANGED <<now, votes, job>>
  BY DEF CommitDataClaim, InsertClaim, Finish
<1>7. p = IF q.relation = "dispute" THEN q.branchOf ELSE None
  OBVIOUS
<1>8. q.relation = "dispute" => q.branchOf \in ClaimIds /\ Settled(q.branchOf)
  BY <1>1 DEF ReqOK
<1> HIDE DEF p, q, own
<1>9. /\ status' \in [ClaimIds -> Statuses]
      /\ events' \in [ClaimIds -> Seq(EventRecs)]
      /\ Settled(c)'
      /\ \A k \in ClaimIds : Settled(k) => Settled(k)'
  BY <1>1, <1>2, <1>3, <1>4, <1>5, VerdictType
<1>10. TypeOK'
  BY <1>1, <1>5, <1>6, <1>9 DEF TypeOK, ReqStates, Times
<1>11. ReqInv'
  BY <1>6, <1>9, ReqInvKept DEF ReqOK, Idle
<1>12. RowInv'
  BY <1>1, <1>6, <1>8, <1>9 DEF IInv, TypeOK, RowInv
<1>13. L!Verify(c, p, q.outcome)
  <2>1. [k \in ClaimIds |-> IF relation[k] = "dispute" THEN branchOf[k] ELSE None]'
          = [[k \in ClaimIds |-> IF relation[k] = "dispute" THEN branchOf[k] ELSE None]
               EXCEPT ![c] = p]
    BY <1>1, <1>6, <1>7 DEF TypeOK
  <2>2. status' = L!AfterVerdict(status, c, p, q.outcome)
    BY <1>3 DEF ApplyVerdict
  <2> QED
    BY <1>2, <2>1, <2>2 DEF L!Verify, Settled
<1>14. LStep
  BY <1>1, <1>2, <1>13 DEF LStep, L!Next, L!Verify, Decisions
<1> QED
  BY <1>10, <1>11, <1>12, <1>14 DEF IInv

\* The verdict of a vote or of a steward settles an open claim: what the closing
\* job and the steward's ratify, reject and override have in common.
LEMMA SettleStep ==
  ASSUME IInv, NEW r \in Requests \cup Workers, NEW own \in Seq(EventRecs), NEW reason \in Reasons,
         NEW by \in {None, "vote", "steward", "verified"},
         req[r] \in DecideReqs, req[r].next \in Decisions, status[req[r].claim] = "vote",
         ApplyVerdict(req[r].claim, Challenged(req[r].claim), req[r].next, req[r].parentWas, own, reason),
         ratifiedBy' = [ratifiedBy EXCEPT ![req[r].claim] = by],
         Finish(r), job' \in [ClaimIds -> Jobs],
         UNCHANGED <<now, relation, branchOf, closesAt, votes>>
  PROVE  IInv' /\ LStep
<1> DEFINE c == req[r].claim
           p == Challenged(c)
           next == req[r].next
<1>1. c \in ClaimIds /\ next \in Decisions /\ req[r].parentWas \in Statuses \cup {None}
  BY DEF DecideReqs
<1>2. p \in ClaimIds \cup {None} /\ p # c /\ (p # None => Settled(p))
  BY <1>1, ChallengedType, BoundsAssumption DEF Settled
<1>3. ApplyVerdict(c, p, next, req[r].parentWas, own, reason)
  OBVIOUS
<1>4. status[c] = "vote" /\ ratifiedBy' = [ratifiedBy EXCEPT ![c] = by]
  OBVIOUS
<1>5. p = [k \in ClaimIds |-> IF relation[k] = "dispute" THEN branchOf[k] ELSE None][c]
  BY <1>1 DEF Challenged
<1> HIDE DEF c, p, next
<1>6. /\ status' \in [ClaimIds -> Statuses]
      /\ events' \in [ClaimIds -> Seq(EventRecs)]
      /\ \A k \in ClaimIds : Settled(k) => Settled(k)'
  BY <1>1, <1>2, <1>3, VerdictType
<1>7. TypeOK'
  <2>1. ratifiedBy' \in [ClaimIds -> {None, "vote", "steward", "verified"}]
    BY <1>1, <1>4 DEF IInv, TypeOK
  <2>2. req' \in [Requests \cup Workers -> ReqStates]
    BY DEF IInv, TypeOK, ReqStates, Finish
  <2> QED
    BY <1>6, <2>1, <2>2 DEF IInv, TypeOK
<1>8. ReqInv'
  BY <1>6, ReqInvKept DEF ReqOK, Idle, Finish
<1>9. RowInv'
  BY <1>6 DEF IInv, RowInv
<1>10. L!Settle(c, next)
  BY <1>3, <1>4, <1>5 DEF L!Settle, ApplyVerdict
<1>11. LStep
  BY <1>1, <1>10 DEF LStep, L!Next, L!Settle, Decisions
<1> QED
  BY <1>7, <1>8, <1>9, <1>11 DEF IInv

LEMMA CommitDecisionStep ==
  ASSUME IInv, NEW r \in Requests, CommitDecision(r)
  PROVE  IInv' /\ LStep
<1> DEFINE q == req[r]
           own == <<Event("steward_action", StewardReason(q.op), "vote", q.next),
                    Event(VerdictKind(q.next), StewardReason(q.op), "vote", q.next)>>
           by == IF q.next = "canon" THEN "steward" ELSE None
<1>1. q \in DecideReqs /\ q.next \in Decisions /\ job' \in [ClaimIds -> Jobs]
  BY ReqShape DEF CommitDecision, IInv, TypeOK, ReqInv, ReqOK
<1>2. StewardReason(q.op) \in Reasons
  BY DEF StewardReason, Reasons
<1>3. own \in Seq(EventRecs) /\ by \in {None, "vote", "steward", "verified"}
  BY <1>1, <1>2 DEF Event, EventRecs, EventKinds, Statuses, VerdictKind, Decisions
<1>4. /\ status[q.claim] = "vote"
      /\ ApplyVerdict(q.claim, Challenged(q.claim), q.next, q.parentWas, own, StewardReason(q.op))
      /\ ratifiedBy' = [ratifiedBy EXCEPT ![q.claim] = by]
      /\ Finish(r)
      /\ UNCHANGED <<now, relation, branchOf, closesAt, votes>>
  BY DEF CommitDecision, StillOpen
<1> HIDE DEF own, by
<1> QED
  BY <1>1, <1>2, <1>3, <1>4, SettleStep

LEMMA CommitCloseStep ==
  ASSUME IInv, NEW w \in Workers, CommitClose(w)
  PROVE  IInv' /\ LStep
<1> DEFINE q == req[w]
           own == <<Event(VerdictKind(q.next), "vote_threshold", "vote", q.next)>>
           by == IF q.next = "canon" THEN "vote" ELSE None
<1>1. q \in DecideReqs /\ q.next \in Decisions /\ q.claim \in ClaimIds
  BY ReqShape DEF CommitClose, IInv, ReqInv, ReqOK, DecideReqs
<1>2. job' \in [ClaimIds -> Jobs]
  BY <1>1, JobType DEF CommitClose, IInv
<1>3. /\ own \in Seq(EventRecs) /\ by \in {None, "vote", "steward", "verified"}
      /\ "vote_threshold" \in Reasons
  BY <1>1 DEF Event, EventRecs, EventKinds, Reasons, Statuses, VerdictKind, Decisions
<1>4. /\ status[q.claim] = "vote"
      /\ ApplyVerdict(q.claim, Challenged(q.claim), q.next, q.parentWas, own, "vote_threshold")
      /\ ratifiedBy' = [ratifiedBy EXCEPT ![q.claim] = by]
      /\ Finish(w)
      /\ UNCHANGED <<now, relation, branchOf, closesAt, votes>>
  BY DEF CommitClose, StillOpen
<1> HIDE DEF own, by
<1> QED
  BY <1>1, <1>2, <1>3, <1>4, SettleStep

LEMMA CommitVetoStep ==
  ASSUME IInv, NEW r \in Requests, CommitVeto(r)
  PROVE  IInv' /\ LStep
<1> DEFINE c == req[r].claim
           own == <<Event("steward_action", "steward:veto", "canon", "rejected"),
                    Event("rejected", "steward:veto", "canon", "rejected")>>
<1>1. c \in ClaimIds /\ TypeOK
  BY ReqShape DEF CommitVeto, IInv, VetoReqs
<1>2. /\ status[c] = "canon" /\ status' = [status EXCEPT ![c] = "rejected"]
      /\ ratifiedBy' = [ratifiedBy EXCEPT ![c] = None]
      /\ Record(c, own, None, <<>>)
      /\ req' = [req EXCEPT ![r] = Idle]
      /\ UNCHANGED <<now, relation, branchOf, closesAt, votes, job>>
  BY DEF CommitVeto, Finish
<1>3. own \in Seq(EventRecs) /\ <<>> \in Seq(EventRecs)
  BY DEF Event, EventRecs, EventKinds, Reasons, Statuses
<1> HIDE DEF c, own
<1>4. events' \in [ClaimIds -> Seq(EventRecs)]
  BY <1>1, <1>2, <1>3, RecordType
<1>5. \A k \in ClaimIds : Settled(k) => Settled(k)'
  BY <1>1, <1>2 DEF TypeOK, Settled
<1>6. TypeOK'
  BY <1>1, <1>2, <1>4 DEF TypeOK, Statuses, ReqStates
<1>7. ReqInv'
  BY <1>2, <1>5, ReqInvKept DEF ReqOK, Idle
<1>8. RowInv'
  BY <1>2, <1>5 DEF IInv, RowInv
<1>9. L!Veto(c)
  BY <1>2 DEF L!Veto
<1>10. LStep
  BY <1>1, <1>9 DEF LStep, L!Next, L!Veto
<1> QED
  BY <1>6, <1>7, <1>8, <1>10 DEF IInv

-----------------------------------------------------------------------------
(* The other steps leave every claim's status and relation alone *)

\* Such a step is a stutter of the lifecycle.
LEMMA StutterStep ==
  ASSUME UNCHANGED <<status, relation, branchOf>>
  PROVE  LStep
  BY DEF LStep, L!lifecycleVars

\* castLoreVote's upsert, and a steward's extension of the deadline.
LEMMA CommitCastOrExtend ==
  ASSUME IInv, NEW r \in Requests, CommitCast(r) \/ CommitExtend(r)
  PROVE  IInv' /\ LStep
<1>1. UNCHANGED <<now, status, relation, branchOf, ratifiedBy, job>> /\ Finish(r)
  BY DEF CommitCast, CommitExtend, claimVars
<1>2. TypeOK /\ \A k \in ClaimIds : Settled(k) => Settled(k)'
  BY <1>1 DEF IInv, Settled
<1>3. ReqInv' /\ RowInv'
  BY <1>1, <1>2, ReqInvKept DEF IInv, RowInv, Settled, ReqOK, Idle, Finish
<1>4. req' \in [Requests \cup Workers -> ReqStates]
  BY <1>1, <1>2 DEF TypeOK, Finish, ReqStates
<1>5. CASE CommitCast(r)
  <2>1. req[r].claim \in ClaimIds /\ req[r].voter \in Members /\ req[r].choice \in Choices
    BY <1>2, <1>5, ReqShape DEF CommitCast, CastReqs
  <2>2. votes' \in [ClaimIds -> [Members -> Choices \cup {None}]]
    BY <1>2, <1>5, <2>1 DEF CommitCast, TypeOK
  <2> QED
    BY <1>1, <1>2, <1>3, <1>4, <1>5, <2>2, StutterStep DEF CommitCast, claimVars, IInv, TypeOK
<1>6. CASE CommitExtend(r)
  <2> DEFINE own == <<Event("steward_action", "steward:extend", "vote", "vote")>>
  <2>1. req[r].claim \in ClaimIds /\ req[r].until \in Times
    BY <1>2, <1>6, ReqShape DEF CommitExtend, ExtendReqs
  <2>2. own \in Seq(EventRecs) /\ <<>> \in Seq(EventRecs)
    BY DEF Event, EventRecs, EventKinds, Reasons, Statuses
  <2>3. Record(req[r].claim, own, None, <<>>)
    BY <1>6 DEF CommitExtend
  <2> HIDE DEF own
  <2>4. events' \in [ClaimIds -> Seq(EventRecs)]
    BY <1>2, <2>2, <2>3, RecordType
  <2>5. closesAt' \in [ClaimIds -> Times \cup {None}]
    BY <1>2, <1>6, <2>1 DEF CommitExtend, TypeOK
  <2> QED
    BY <1>1, <1>2, <1>3, <1>4, <1>6, <2>4, <2>5, StutterStep DEF CommitExtend, IInv, TypeOK
<1> QED
  BY <1>5, <1>6

\* Sending, losing and refusing the close event touch the job's record only.
LEMMA JobStep ==
  ASSUME IInv, NEW c \in ClaimIds,
         ScheduleClose(c) \/ LoseClose(c) \/ ReuseClose(c) \/ RefuseClose(c)
  PROVE  IInv' /\ LStep
<1>1. UNCHANGED <<now, claimVars, votes, events, req>>
  BY DEF ScheduleClose, LoseClose, ReuseClose, RefuseClose
<1>2. job' \in [ClaimIds -> Jobs]
  <2>1. CASE ScheduleClose(c) \/ LoseClose(c)
    <3>1. PICK s \in {"scheduled", "none"} : job' = [job EXCEPT ![c].state = s]
      BY <2>1 DEF ScheduleClose, LoseClose
    <3>2. job \in [ClaimIds -> Jobs]
      BY DEF IInv, TypeOK
    <3> QED
      BY <3>1, <3>2 DEF Jobs
  <2>2. CASE ReuseClose(c) \/ RefuseClose(c)
    BY <2>2, JobType DEF ReuseClose, RefuseClose, IInv
  <2> QED
    BY <2>1, <2>2
<1>3. TypeOK'
  BY <1>1, <1>2 DEF IInv, TypeOK, claimVars
<1>4. ReqInv' /\ RowInv'
  BY <1>1 DEF IInv, ReqInv, ReqOK, RowInv, Settled, claimVars
<1> QED
  BY <1>1, <1>3, <1>4, StutterStep DEF IInv, claimVars

LEMMA AbortStep ==
  ASSUME IInv, NEW r \in Requests \cup Workers, Abort(r)
  PROVE  IInv' /\ LStep
<1>1. UNCHANGED <<now, claimVars, votes, events>> /\ Finish(r)
  BY DEF Abort
<1>2. job' \in [ClaimIds -> Jobs]
  <2>1. CASE req[r].op = "close"
    BY <2>1, JobType, ReqShape DEF Abort, IInv, DecideReqs
  <2>2. CASE req[r].op # "close"
    BY <2>2 DEF Abort, IInv, TypeOK
  <2> QED
    BY <2>1, <2>2
<1>3. req' \in [Requests \cup Workers -> ReqStates]
  BY <1>1 DEF IInv, TypeOK, Finish, ReqStates
<1>4. TypeOK'
  BY <1>1, <1>2, <1>3 DEF IInv, TypeOK, claimVars
<1>5. \A k \in ClaimIds : Settled(k) => Settled(k)'
  BY <1>1 DEF Settled, claimVars
<1>6. ReqInv' /\ RowInv'
  BY <1>1, <1>5, ReqInvKept DEF IInv, RowInv, Settled, ReqOK, Idle, Finish, claimVars
<1> QED
  BY <1>1, <1>4, <1>6, StutterStep DEF IInv, claimVars

LEMMA TickStep ==
  ASSUME IInv, Tick
  PROVE  IInv' /\ LStep
<1>1. now' \in Times
  BY BoundsAssumption DEF Tick, IInv, TypeOK, Times
<1>2. UNCHANGED <<claimVars, votes, events, job, req>>
  BY DEF Tick
<1>3. TypeOK'
  BY <1>1, <1>2 DEF IInv, TypeOK, claimVars
<1>4. ReqInv' /\ RowInv'
  BY <1>2 DEF IInv, ReqInv, ReqOK, RowInv, Settled, claimVars
<1> QED
  BY <1>2, <1>3, <1>4, StutterStep DEF IInv, claimVars

\* Reading, before and after the first step of a transaction, changes no row.
LEMMA ReadStep ==
  ASSUME IInv, NEW r \in Requests \cup Workers,
         \/ r \in Requests /\ (\/ BeginSubmit(r) \/ BeginCast(r) \/ BeginDecision(r)
                               \/ BeginExtend(r) \/ BeginVeto(r))
         \/ r \in Workers /\ \E c \in ClaimIds : BeginClose(r, c)
         \/ ReadTally(r) \/ ReadChallenged(r)
  PROVE  IInv' /\ LStep
<1>1. IInv'
  BY BeginSubmitKeepsInv, BeginKeepsInv, BeginCloseKeepsInv, ReadTallyKeepsInv, ReadChallengedKeepsInv
<1>2. UNCHANGED claimVars
  BY DEF BeginSubmit, BeginCast, BeginDecision, BeginExtend, BeginVeto, BeginClose, ReadTally, ReadChallenged
<1> QED
  BY <1>1, <1>2, StutterStep DEF claimVars

-----------------------------------------------------------------------------

LEMMA InitInv == Init => IInv /\ L!Init
<1> SUFFICES ASSUME Init PROVE IInv /\ L!Init
  OBVIOUS
<1>1. TypeOK
  <2>1. \A c \in ClaimIds : <<>> \in Seq(EventRecs)
    OBVIOUS
  <2>2. NoJob \in Jobs /\ now \in Times
    BY BoundsAssumption DEF NoJob, Jobs, Times, Init
  <2> QED
    BY <2>1, <2>2 DEF Init, TypeOK, Statuses, Relations, ReqStates
<1>2. ReqInv /\ RowInv
  BY DEF Init, ReqInv, ReqOK, Idle, RowInv
<1>3. L!Init
  BY DEF Init, L!Init
<1> QED
  BY <1>1, <1>2, <1>3 DEF IInv

LEMMA NextStep == IInv /\ [Next]_vars => IInv' /\ LStep
<1> SUFFICES ASSUME IInv, [Next]_vars PROVE IInv' /\ LStep
  OBVIOUS
<1>1. CASE Tick
  BY <1>1, TickStep
<1>2. CASE \E r \in Requests : RequestStep(r) \/ ReadTally(r) \/ ReadChallenged(r) \/ Abort(r)
  <2>1. PICK r \in Requests : RequestStep(r) \/ ReadTally(r) \/ ReadChallenged(r) \/ Abort(r)
    BY <1>2
  <2>2. CASE \/ BeginSubmit(r) \/ BeginCast(r) \/ BeginDecision(r) \/ BeginExtend(r) \/ BeginVeto(r)
             \/ ReadTally(r) \/ ReadChallenged(r)
    BY <2>2, ReadStep
  <2>3. CASE \E c \in ClaimIds : CommitVotingClaim(r, c) \/ CommitDataClaim(r, c)
    BY <2>3, CommitVotingClaimStep, CommitDataClaimStep
  <2>4. CASE CommitCast(r) \/ CommitExtend(r)
    BY <2>4, CommitCastOrExtend
  <2>5. CASE CommitDecision(r)
    BY <2>5, CommitDecisionStep
  <2>6. CASE CommitVeto(r)
    BY <2>6, CommitVetoStep
  <2>7. CASE Abort(r)
    BY <2>7, AbortStep
  <2> QED
    BY <2>1, <2>2, <2>3, <2>4, <2>5, <2>6, <2>7 DEF RequestStep
<1>3. CASE \E w \in Workers : WorkerStep(w) \/ \E c \in ClaimIds : BeginClose(w, c)
  <2>1. PICK w \in Workers : WorkerStep(w) \/ \E c \in ClaimIds : BeginClose(w, c)
    BY <1>3
  <2>2. CASE ReadTally(w) \/ ReadChallenged(w) \/ \E c \in ClaimIds : BeginClose(w, c)
    BY <2>2, ReadStep
  <2>3. CASE CommitClose(w)
    BY <2>3, CommitCloseStep
  <2>4. CASE Abort(w)
    BY <2>4, AbortStep
  <2> QED
    BY <2>1, <2>2, <2>3, <2>4 DEF WorkerStep
<1>4. CASE \E c \in ClaimIds : ScheduleClose(c) \/ LoseClose(c) \/ ReuseClose(c) \/ RefuseClose(c)
  BY <1>4, JobStep
<1>5. CASE UNCHANGED vars
  <2>1. UNCHANGED <<now, claimVars, votes, events, job, req>>
    BY <1>5 DEF vars
  <2>2. TypeOK'
    BY <2>1 DEF IInv, TypeOK, claimVars
  <2>3. ReqInv' /\ RowInv'
    BY <2>1 DEF IInv, ReqInv, ReqOK, RowInv, Settled, claimVars
  <2> QED
    BY <2>1, <2>2, <2>3, StutterStep DEF IInv, claimVars
<1> QED
  BY <1>1, <1>2, <1>3, <1>4, <1>5 DEF Next

-----------------------------------------------------------------------------

\* The engine's interleaved transactions keep every variable in its type, and
\* what they remember and the challenge relation sound.
THEOREM InductiveInvariant == Spec => []IInv
  BY InitInv, NextStep, PTL DEF Spec

\* Every variable of the interleaved engine keeps its type.
THEOREM TypeCorrect == Spec => []TypeOK
<1>1. IInv => TypeOK
  BY DEF IInv
<1> QED
  BY <1>1, InductiveInvariant, PTL

\* READ COMMITTED transactions with conditional updates only ever do to the
\* status of the claims what atomic transactions could.
THEOREM Implements == Spec => Lifecycle
<1>1. Init => IInv /\ L!Init
  BY InitInv
<1>2. IInv /\ [Next]_vars => IInv' /\ [L!Next]_(L!lifecycleVars)
  BY NextStep DEF LStep
<1> QED
  BY <1>1, <1>2, PTL DEF Spec, Lifecycle, L!Spec

LP == INSTANCE ClaimLifecycleProofs WITH
        challenged <- [c \in ClaimIds |->
                         IF relation[c] = "dispute" THEN branchOf[c] ELSE None]

\* What ClaimLifecycle's proofs show of it holds of every behavior of the engine.
LEMMA LifecycleInvariant == Spec => []LP!Inv
<1>1. LP!Spec => []LP!Inv
  BY LP!Safety, BoundsAssumption DEF LP!NoneIsNoClaim
<1>2. L!Spec <=> LP!Spec
  BY DEF L!Spec, LP!Spec, L!Init, LP!Init, L!Next, LP!Next, L!Open, LP!Open, L!Verify, LP!Verify,
         L!Settle, LP!Settle, L!Veto, LP!Veto, L!lifecycleVars, LP!lifecycleVars,
         L!UpdateStatus, LP!UpdateStatus, L!AfterVerdict, LP!AfterVerdict,
         L!Unsettled, LP!Unsettled, L!Outcome, LP!Outcome, L!Standing, LP!Standing
<1> QED
  BY <1>1, <1>2, Implements, PTL DEF Lifecycle

\* A claim and the challenge that beat it never both reach the AI as true.
THEOREM NeverBoth == Spec => []NeverBothStanding
<1>1. LP!Inv => NeverBothStanding
  BY BoundsAssumption DEF LP!Inv, LP!NeverBothStanding, NeverBothStanding, Challenged, Standing, LP!Standing
<1> QED
  BY <1>1, LifecycleInvariant, PTL

\* A disputed claim always has a challenge whose vote is open.
THEOREM DisputeCanEnd == Spec => []DisputedHasOpenChallenge
<1>1. LP!Inv => DisputedHasOpenChallenge
  BY BoundsAssumption DEF LP!Inv, LP!DisputedHasOpenChallenge, DisputedHasOpenChallenge, Challenged
<1> QED
  BY <1>1, LifecycleInvariant, PTL

\* No step, of whatever transactions, brings back a rejected or superseded claim.
THEOREM SettledStays == Spec => SettledForGood
<1>1. ASSUME IInv, [Next]_vars, NEW k \in ClaimIds, status[k] \in {"rejected", "superseded"}
      PROVE  status'[k] = status[k]
  <2>1. LStep /\ status \in [ClaimIds -> Statuses]
    BY <1>1, NextStep DEF IInv, TypeOK
  <2>2. ASSUME NEW c \in ClaimIds, NEW p \in ClaimIds \cup {None}, L!Open(c, p)
        PROVE  status'[k] = status[k]
    BY <1>1, <2>1, <2>2 DEF L!Open, L!UpdateStatus
  <2>3. ASSUME NEW c \in ClaimIds, NEW p, NEW next, status[c] \in {"absent", "vote"},
               status' = L!AfterVerdict(status, c, p, next)
        PROVE  status'[k] = status[k]
    BY <1>1, <2>3 DEF L!AfterVerdict, L!UpdateStatus, L!Unsettled, L!Standing
  <2>4. ASSUME NEW c \in ClaimIds, NEW p \in ClaimIds \cup {None}, NEW next \in Decisions,
               L!Verify(c, p, next)
        PROVE  status'[k] = status[k]
    BY <2>3, <2>4 DEF L!Verify
  <2>5. ASSUME NEW c \in ClaimIds, NEW next \in Decisions, L!Settle(c, next)
        PROVE  status'[k] = status[k]
    BY <2>3, <2>5 DEF L!Settle
  <2>6. ASSUME NEW c \in ClaimIds, L!Veto(c)
        PROVE  status'[k] = status[k]
    BY <1>1, <2>1, <2>6 DEF L!Veto
  <2>7. CASE UNCHANGED L!lifecycleVars
    BY <2>7 DEF L!lifecycleVars
  <2> QED
    BY <2>1, <2>2, <2>4, <2>5, <2>6, <2>7 DEF LStep, L!Next, Decisions
<1>2. IInv /\ [Next]_vars =>
      [\A c \in ClaimIds : status[c] \in {"rejected", "superseded"} => status'[c] = status[c]]_vars
  BY <1>1
<1> QED
  BY <1>2, InductiveInvariant, PTL DEF Spec, SettledForGood

-----------------------------------------------------------------------------
(* The rows of one claim: its status, who ratified it, and its trail *)

IsVerdict(e) == e.kind \in {"ratified", "rejected"} /\ e.reason # "steward:veto"

NoVerdict(rows) == \A i \in 1..Len(rows) : ~IsVerdict(rows[i])
OneVerdict(rows) == \E i \in 1..Len(rows) : \A j \in 1..Len(rows) : IsVerdict(rows[j]) <=> j = i

\* A quorum of members has voted on c.  Votes are changed, never withdrawn.
HasQuorum(c) == Cardinality({m \in Members : votes[c][m] # None}) >= Quorum

\* The rows of one transaction tell the status it left, and none but a challenge says "disputed".
AllAfter(rows, s) == \A i \in 1..Len(rows) : rows[i].after = s
NoDispute(rows) == \A i \in 1..Len(rows) : rows[i].kind # "disputed"

\* The ways in which a transaction takes one claim from a status to another, with
\* what it makes of the claim's provenance and the rows it adds to the trail.
Opens(k, rows) ==
  /\ status[k] = "absent" /\ status'[k] = "vote" /\ ratifiedBy'[k] = None
  /\ NoVerdict(rows) /\ NoDispute(rows)
Decides(k, rows) ==
  /\ status[k] \in {"absent", "vote"} /\ status'[k] \in Decisions
  /\ ratifiedBy'[k] # None <=> status'[k] = "canon"
  /\ ratifiedBy'[k] = "vote" => HasQuorum(k)
  /\ OneVerdict(rows) /\ NoDispute(rows)
Turns(k, rows) ==
  /\ status[k] \in Standing /\ status'[k] \in Standing \cup {"superseded"}
  /\ status'[k] = "disputed" => status[k] = "canon"
  /\ status'[k] = "canon" => status[k] = "disputed"
  /\ Len(rows) = 1 /\ (rows[1].kind = "disputed" <=> status'[k] # "superseded")
  /\ ratifiedBy'[k] = ratifiedBy[k]
  /\ NoVerdict(rows)
Vetoes(k, rows) ==
  /\ status[k] = "canon" /\ status'[k] = "rejected" /\ ratifiedBy'[k] = None
  /\ NoVerdict(rows) /\ NoDispute(rows)
Prolongs(k, rows) ==
  /\ status[k] = "vote" /\ status'[k] = "vote" /\ ratifiedBy'[k] = ratifiedBy[k]
  /\ NoVerdict(rows) /\ NoDispute(rows)

RowKept(k) ==
  status'[k] = status[k] /\ ratifiedBy'[k] = ratifiedBy[k] /\ events'[k] = events[k]

RowWritten(k) ==
  \E rows \in Seq(EventRecs) :
    /\ rows # <<>> /\ AllAfter(rows, status'[k])
    /\ events'[k] = events[k] \o rows
    /\ \/ Opens(k, rows) \/ Decides(k, rows) \/ Turns(k, rows)
       \/ Vetoes(k, rows) \/ Prolongs(k, rows)

\* What one step does to every claim.
RowsStep == \A k \in ClaimIds : RowKept(k) \/ RowWritten(k)

\* The rows of a claim, counted: it is rejected or superseded when a row says so, and has been
\* disputed as often as upheld, and once more while it is disputed.
TrailOK(k) ==
  /\ Into(k, "superseded") # {} <=> status[k] = "superseded"
  /\ Into(k, "rejected") # {} <=> status[k] = "rejected"
  /\ status[k] \in {"absent", "vote"} => Into(k, "canon") = {}
  /\ status[k] \in Standing => Into(k, "canon") # {}
  /\ status[k] # "superseded" =>
       Cardinality(Into(k, "disputed")) =
         Cardinality(Upheld(k)) + (IF status[k] = "disputed" THEN 1 ELSE 0)

\* A claim's trail has a verdict exactly when the claim is settled, and tells its
\* status; its provenance is that of a claim that is, or was, canon.
RowOK(k) ==
  /\ status[k] \in {"absent", "vote"} => Verdicts(k) = {}
  /\ status[k] \notin {"absent", "vote"} => \E i : Verdicts(k) = {i}
  /\ TrailOK(k)
  /\ ratifiedBy[k] # None <=> status[k] \in Standing \cup {"superseded"}
  /\ ratifiedBy[k] = "vote" => HasQuorum(k)

\* A closing job that has decided to canonize has seen a quorum.
QuorumRead ==
  \A r \in Requests \cup Workers : \A c \in ClaimIds :
    /\ req[r].op = "close" /\ req[r].claim = c
    /\ req[r].pc = "commit" /\ req[r].next = "canon"
    => HasQuorum(c)

TrailInv == IInv /\ QuorumRead /\ \A k \in ClaimIds : RowOK(k)

\* The verdicts of a trail to which rows have been added.
LEMMA VerdictsOfLonger ==
  ASSUME NEW k \in ClaimIds, NEW rows \in Seq(EventRecs), events[k] \in Seq(EventRecs),
         events'[k] = events[k] \o rows
  PROVE  /\ NoVerdict(rows) => Verdicts(k)' = Verdicts(k)
         /\ OneVerdict(rows) /\ Verdicts(k) = {} => \E i : Verdicts(k)' = {i}
<1> DEFINE n == Len(events[k])
           old == events[k]
           new == events'[k]
<1>1. /\ n \in Nat /\ Len(rows) \in Nat /\ new \in Seq(EventRecs)
      /\ Len(new) = n + Len(rows)
      /\ \A i \in 1..n : new[i] = old[i]
      /\ \A j \in 1..Len(rows) : new[n + j] = rows[j]
  BY ConcatProperties
<1>2. \A i : i \in Verdicts(k) <=> i \in 1..n /\ IsVerdict(old[i])
  BY <1>1 DEF Verdicts, IsVerdict
<1>3. \A i : i \in Verdicts(k)' <=> i \in 1..(n + Len(rows)) /\ IsVerdict(new[i])
  BY <1>1 DEF Verdicts, IsVerdict
<1> HIDE DEF n, old, new
<1>4. \A i \in 1..(n + Len(rows)) : i \notin 1..n => \E j \in 1..Len(rows) : i = n + j
  <2> SUFFICES ASSUME NEW i \in 1..(n + Len(rows)), i \notin 1..n
               PROVE  i - n \in 1..Len(rows) /\ i = n + (i - n)
    OBVIOUS
  <2> QED
    BY <1>1
<1>5. 1..n \subseteq 1..(n + Len(rows))
  BY <1>1
<1>6. ASSUME NoVerdict(rows) PROVE Verdicts(k)' = Verdicts(k)
  <2>1. \A j \in 1..Len(rows) : ~IsVerdict(new[n + j])
    BY <1>1, <1>6 DEF NoVerdict
  <2>2. \A i \in 1..n : IsVerdict(new[i]) <=> IsVerdict(old[i])
    BY <1>1
  <2>3. \A i : i \in Verdicts(k)' <=> i \in Verdicts(k)
    BY <1>2, <1>3, <1>4, <1>5, <2>1, <2>2
  <2> QED
    BY <2>3
<1>7. ASSUME OneVerdict(rows), Verdicts(k) = {} PROVE \E i : Verdicts(k)' = {i}
  <2>1. PICK j \in 1..Len(rows) : \A h \in 1..Len(rows) : IsVerdict(rows[h]) <=> h = j
    BY <1>7 DEF OneVerdict
  <2>2. n + j \in Verdicts(k)'
    BY <1>1, <1>3, <2>1
  <2>3. \A i \in Verdicts(k)' : i = n + j
    <3>1. ASSUME NEW i \in 1..n PROVE ~IsVerdict(new[i])
      BY <1>1, <1>2, <1>7
    <3>2. ASSUME NEW h \in 1..Len(rows), IsVerdict(new[n + h]) PROVE h = j
      BY <1>1, <2>1, <3>2
    <3> QED
      BY <1>3, <1>4, <3>1, <3>2
  <2> QED
    BY <2>2, <2>3
<1> QED
  BY <1>6, <1>7


\* The rows of a longer trail that are in S are the old ones and the new ones in S.
LEMMA RowsOfLonger ==
  ASSUME NEW old \in Seq(EventRecs), NEW rows \in Seq(EventRecs), NEW S
  PROVE  {i \in DOMAIN (old \o rows) : (old \o rows)[i] \in S}
           = {i \in DOMAIN old : old[i] \in S}
               \cup {Len(old) + j : j \in {h \in 1..Len(rows) : rows[h] \in S}}
<1> DEFINE n == Len(old)
           new == old \o rows
           added == {n + j : j \in {h \in 1..Len(rows) : rows[h] \in S}}
<1>1. /\ n \in Nat /\ Len(rows) \in Nat /\ DOMAIN old = 1..n /\ DOMAIN new = 1..(n + Len(rows))
      /\ \A i \in 1..n : new[i] = old[i]
      /\ \A j \in 1..Len(rows) : new[n + j] = rows[j]
  BY ConcatProperties
<1> HIDE DEF n, new
<1>2. \A i \in 1..(n + Len(rows)) : i \notin 1..n => i - n \in 1..Len(rows) /\ i = n + (i - n)
  BY <1>1
<1>3. \A j \in 1..Len(rows) : n + j \in 1..(n + Len(rows)) /\ n + j \notin 1..n
  BY <1>1
<1>4. 1..n \subseteq 1..(n + Len(rows))
  BY <1>1
<1>5. ASSUME NEW i, i \in DOMAIN new, new[i] \in S
      PROVE  (i \in DOMAIN old /\ old[i] \in S) \/ i \in added
  <2>1. CASE i \in 1..n
    BY <1>1, <1>5, <2>1
  <2>2. CASE i \notin 1..n
    <3>1. PICK j \in 1..Len(rows) : i = n + j
      BY <1>1, <1>2, <1>5, <2>2
    <3>. QED
      BY <1>1, <1>5, <3>1
  <2>. QED
    BY <2>1, <2>2
<1>6. ASSUME NEW i \in DOMAIN old, old[i] \in S PROVE i \in DOMAIN new /\ new[i] \in S
  BY <1>1, <1>4, <1>6
<1>7. ASSUME NEW i \in added PROVE i \in DOMAIN new /\ new[i] \in S
  BY <1>1, <1>3
<1>8. added = {Len(old) + j : j \in {h \in 1..Len(rows) : rows[h] \in S}}
  BY DEF n
<1> HIDE DEF added
<1>9. {i \in DOMAIN new : new[i] \in S} = {i \in DOMAIN old : old[i] \in S} \cup added
  BY <1>5, <1>6, <1>7
<1> QED
  BY <1>8, <1>9 DEF new

\* Places in a trail are counted.
LEMMA Places ==
  ASSUME NEW n \in Nat, NEW A, A \subseteq 1..n
  PROVE  Cardinality(A) \in Nat /\ Cardinality(A \cup {n + 1}) = Cardinality(A) + 1
<1>1. IsFiniteSet(1..n)
  BY FS_Interval
<1>2. IsFiniteSet(A)
  BY <1>1, FS_Subset
<1>3. n + 1 \notin A
  OBVIOUS
<1> QED
  BY <1>2, <1>3, FS_CardinalityType, FS_AddElement

AfterRecs(s) == {e \in EventRecs : e.after = s}
UpheldRecs == {e \in EventRecs : e.after = "canon" /\ e.kind = "disputed"}

\* What the rows of a transaction that leaves the claim at t add to its trail.
LEMMA TrailOfLonger ==
  ASSUME NEW k \in ClaimIds, NEW rows \in Seq(EventRecs), events[k] \in Seq(EventRecs),
         events'[k] = events[k] \o rows, rows # <<>>, NEW t, AllAfter(rows, t)
  PROVE  /\ \A s : s # t => Into(k, s)' = Into(k, s)
         /\ Into(k, t)' # {}
         /\ NoDispute(rows) \/ t # "canon" => Upheld(k)' = Upheld(k)
         /\ Len(rows) = 1 =>
              Cardinality(Into(k, t)') = Cardinality(Into(k, t)) + 1
         /\ Len(rows) = 1 /\ rows[1].kind = "disputed" /\ t = "canon" =>
              Cardinality(Upheld(k)') = Cardinality(Upheld(k)) + 1
<1> DEFINE n == Len(events[k])
           Added(S) == {n + j : j \in {h \in 1..Len(rows) : rows[h] \in S}}
           In(old, S) == {i \in DOMAIN old : old[i] \in S}
<1>1. /\ n \in Nat /\ Len(rows) \in Nat \ {0} /\ DOMAIN events[k] = 1..n
      /\ events'[k] \in Seq(EventRecs)
      /\ \A h \in 1..Len(rows) : rows[h] \in EventRecs
      /\ \A i \in DOMAIN events[k] : events[k][i] \in EventRecs
      /\ \A i \in DOMAIN events'[k] : events'[k][i] \in EventRecs
  BY EmptySeq, ConcatProperties
<1>2. \A S : In(events'[k], S) = In(events[k], S) \cup Added(S)
  BY RowsOfLonger
<1>3. \A s : Into(k, s) = In(events[k], AfterRecs(s)) /\ Into(k, s)' = In(events'[k], AfterRecs(s))
  BY <1>1 DEF Into, AfterRecs
<1>4. Upheld(k) = In(events[k], UpheldRecs) /\ Upheld(k)' = In(events'[k], UpheldRecs)
  BY <1>1 DEF Upheld, Into, UpheldRecs
<1>5. ASSUME NEW s, s # t PROVE Added(AfterRecs(s)) = {}
  BY <1>5 DEF AllAfter, AfterRecs
<1>6. n + 1 \in Added(AfterRecs(t))
  BY <1>1 DEF AllAfter, AfterRecs
<1>7. ASSUME NoDispute(rows) \/ t # "canon" PROVE Added(UpheldRecs) = {}
  BY <1>7 DEF AllAfter, NoDispute, UpheldRecs
<1>8. \A S : In(events[k], S) \subseteq 1..n
  BY <1>1
<1>9. ASSUME Len(rows) = 1 PROVE Added(AfterRecs(t)) = {n + 1}
  BY <1>1, <1>9 DEF AllAfter, AfterRecs
<1>10. ASSUME Len(rows) = 1, rows[1].kind = "disputed", t = "canon" PROVE Added(UpheldRecs) = {n + 1}
  BY <1>1, <1>10 DEF AllAfter, UpheldRecs
<1>11. ASSUME NEW A, A \subseteq 1..n PROVE Cardinality(A \cup {n + 1}) = Cardinality(A) + 1
  BY <1>1, <1>11, Places
<1> HIDE DEF n, Added, In
<1>12. \A s : s # t => Into(k, s)' = Into(k, s)
  BY <1>2, <1>3, <1>5
<1>13. Into(k, t)' # {}
  BY <1>2, <1>3, <1>6
<1>14. NoDispute(rows) \/ t # "canon" => Upheld(k)' = Upheld(k)
  BY <1>2, <1>4, <1>7
<1>15. Len(rows) = 1 => Cardinality(Into(k, t)') = Cardinality(Into(k, t)) + 1
  BY <1>2, <1>3, <1>8, <1>9, <1>11
<1>16. Len(rows) = 1 /\ rows[1].kind = "disputed" /\ t = "canon" =>
         Cardinality(Upheld(k)') = Cardinality(Upheld(k)) + 1
  BY <1>2, <1>4, <1>8, <1>10, <1>11
<1> QED
  BY <1>12, <1>13, <1>14, <1>15, <1>16

\* Votes are changed, and never withdrawn.
VotesKept == \A c \in ClaimIds : \A m \in Members : votes[c][m] # None => votes'[c][m] # None

LEMMA QuorumKept ==
  ASSUME VotesKept, NEW c \in ClaimIds, HasQuorum(c)
  PROVE  HasQuorum(c)'
<1> DEFINE before == {m \in Members : votes[c][m] # None}
           after == {m \in Members : votes'[c][m] # None}
<1>1. before \subseteq after /\ IsFiniteSet(after)
  <2>1. before \subseteq after
    BY DEF VotesKept
  <2>2. after \in SUBSET Members
    OBVIOUS
  <2> QED
    BY <2>1, <2>2, FS_Subset, BoundsAssumption
<1>2. Cardinality(before) <= Cardinality(after) /\ Cardinality(before) \in Nat /\ Cardinality(after) \in Nat
  BY <1>1, FS_Subset, FS_CardinalityType
<1>3. Quorum \in Int
  <2>1. Cardinality(Members) \in Nat
    BY BoundsAssumption, FS_CardinalityType
  <2> QED
    BY <2>1 DEF Quorum
<1>4. Cardinality(before) >= Quorum
  BY DEF HasQuorum
<1> HIDE DEF before, after
<1>5. Cardinality(after) >= Quorum
  BY <1>2, <1>3, <1>4
<1> QED
  BY <1>5 DEF HasQuorum, Quorum, after

\* A tally that canonizes has counted a quorum.
LEMMA TallyHasQuorum ==
  ASSUME TypeOK, NEW c \in ClaimIds, ShouldCanonize(c)
  PROVE  HasQuorum(c)
<1> DEFINE affirmed == {m \in Members : votes[c][m] = "affirm"}
           voted == {m \in Members : votes[c][m] # None}
<1>1. affirmed \subseteq voted /\ voted \in SUBSET Members
  BY BoundsAssumption DEF TypeOK
<1>2. IsFiniteSet(voted)
  BY <1>1, FS_Subset, BoundsAssumption
<1>3. Cardinality(affirmed) <= Cardinality(voted) /\ Cardinality(affirmed) \in Nat /\ Cardinality(voted) \in Nat
  BY <1>1, <1>2, FS_Subset, FS_CardinalityType
<1>4. Quorum \in Int
  <2>1. Cardinality(Members) \in Nat
    BY BoundsAssumption, FS_CardinalityType
  <2> QED
    BY <2>1 DEF Quorum
<1>5. Cardinality(affirmed) >= Quorum
  BY DEF ShouldCanonize, Count
<1> HIDE DEF affirmed, voted
<1>6. Cardinality(voted) >= Quorum
  BY <1>3, <1>4, <1>5
<1> QED
  BY <1>6 DEF HasQuorum, voted

\* A transaction keeps what the rows of a claim tell.
LEMMA TrailStaysOK ==
  ASSUME NEW k \in ClaimIds, NEW rows \in Seq(EventRecs), events[k] \in Seq(EventRecs),
         events'[k] = events[k] \o rows, rows # <<>>, AllAfter(rows, status'[k]), TrailOK(k),
         \/ Opens(k, rows) \/ Decides(k, rows) \/ Turns(k, rows)
         \/ Vetoes(k, rows) \/ Prolongs(k, rows)
  PROVE  TrailOK(k)'
<1> DEFINE up == Cardinality(Upheld(k))
           down == Cardinality(Into(k, "disputed"))
<1>0. up \in Nat /\ down \in Nat
  <2>1. Upheld(k) \subseteq 1..Len(events[k]) /\ Into(k, "disputed") \subseteq 1..Len(events[k])
    BY DEF Upheld, Into
  <2>. QED
    BY <2>1, Places, LenProperties
<1>1. CASE status'[k] = "vote"
  BY <1>1, TrailOfLonger DEF TrailOK, Opens, Decides, Turns, Vetoes, Prolongs, Standing, Decisions
<1>2. CASE Decides(k, rows) /\ status'[k] = "canon"
  BY <1>2, TrailOfLonger DEF TrailOK, Decides, Standing
<1>3. CASE (Decides(k, rows) \/ Vetoes(k, rows)) /\ status'[k] = "rejected"
  BY <1>3, TrailOfLonger DEF TrailOK, Decides, Vetoes, Standing
<1>4. CASE Turns(k, rows) /\ status'[k] = "canon"
  <2>1. /\ Into(k, "superseded")' = Into(k, "superseded") /\ Into(k, "rejected")' = Into(k, "rejected")
        /\ Into(k, "disputed")' = Into(k, "disputed") /\ Into(k, "canon")' # {}
        /\ Cardinality(Upheld(k)') = up + 1
    BY <1>4, TrailOfLonger DEF Turns
  <2>2. status[k] = "disputed" /\ down = up + 1
    BY <1>4 DEF Turns, TrailOK
  <2> HIDE DEF up
  <2>. QED
    BY <1>0, <1>4, <2>1, <2>2 DEF TrailOK, Standing, Turns
<1>5. CASE Turns(k, rows) /\ status'[k] = "disputed"
  <2>1. /\ Into(k, "superseded")' = Into(k, "superseded") /\ Into(k, "rejected")' = Into(k, "rejected")
        /\ Into(k, "canon")' = Into(k, "canon") /\ Upheld(k)' = Upheld(k)
        /\ Cardinality(Into(k, "disputed")') = down + 1
    BY <1>5, TrailOfLonger DEF Turns
  <2>2. status[k] = "canon" /\ down = up
    BY <1>0, <1>5 DEF Turns, TrailOK
  <2> HIDE DEF down
  <2>. QED
    BY <1>0, <1>5, <2>1, <2>2 DEF TrailOK, Standing, Turns
<1>6. CASE Turns(k, rows) /\ status'[k] = "superseded"
  BY <1>6, TrailOfLonger DEF TrailOK, Turns, Standing
<1> QED
  BY <1>1, <1>2, <1>3, <1>4, <1>5, <1>6
     DEF Opens, Decides, Turns, Vetoes, Prolongs, Standing, Decisions

\* A transaction keeps the rows of each claim as they should be.
LEMMA RowStaysOK ==
  ASSUME TypeOK, TypeOK', VotesKept, NEW k \in ClaimIds, RowOK(k), RowKept(k) \/ RowWritten(k)
  PROVE  RowOK(k)'
<1>1. HasQuorum(k) => HasQuorum(k)'
  BY QuorumKept
<1>2. CASE RowKept(k)
  <2>1. /\ status'[k] = status[k] /\ Upheld(k)' = Upheld(k) /\ \A s : Into(k, s)' = Into(k, s)
        /\ Verdicts(k)' = Verdicts(k) /\ ratifiedBy'[k] = ratifiedBy[k]
    BY <1>2 DEF RowKept, Verdicts, Into, Upheld
  <2>2. TrailOK(k)'
    BY <2>1 DEF RowOK, TrailOK
  <2>. QED
    BY <1>1, <2>1, <2>2 DEF RowOK
<1>3. CASE RowWritten(k)
  <2>1. PICK rows \in Seq(EventRecs) :
          /\ rows # <<>> /\ AllAfter(rows, status'[k])
          /\ events'[k] = events[k] \o rows
          /\ \/ Opens(k, rows) \/ Decides(k, rows) \/ Turns(k, rows)
             \/ Vetoes(k, rows) \/ Prolongs(k, rows)
    BY <1>3 DEF RowWritten
  <2>2. events[k] \in Seq(EventRecs)
    BY DEF TypeOK
  <2>3. TrailOK(k)'
    BY <2>1, <2>2, TrailStaysOK DEF RowOK
  <2>4. /\ NoVerdict(rows) => Verdicts(k)' = Verdicts(k)
        /\ OneVerdict(rows) /\ Verdicts(k) = {} => \E i : Verdicts(k)' = {i}
    BY <2>1, <2>2, VerdictsOfLonger
  <2>5. None \notin {"vote", "steward", "verified"}
    BY BoundsAssumption DEF Statuses
  <2>6. CASE Opens(k, rows)
    BY <2>3, <2>4, <2>5, <2>6 DEF Opens, RowOK, Standing
  <2>7. CASE Decides(k, rows)
    BY <1>1, <2>3, <2>4, <2>7 DEF Decides, RowOK, Standing, Decisions
  <2>8. CASE Turns(k, rows)
    BY <1>1, <2>3, <2>4, <2>8 DEF Turns, RowOK, Standing
  <2>9. CASE Vetoes(k, rows)
    BY <2>3, <2>4, <2>5, <2>9 DEF Vetoes, RowOK, Standing
  <2>10. CASE Prolongs(k, rows)
    BY <1>1, <2>3, <2>4, <2>10 DEF Prolongs, RowOK, Standing
  <2> QED
    BY <2>1, <2>6, <2>7, <2>8, <2>9, <2>10
<1> QED
  BY <1>2, <1>3


-----------------------------------------------------------------------------
(* What the transactions do to the rows *)

\* A step that moves one request and withdraws no vote keeps the quorums that were read.
LEMMA QuorumReadKept ==
  ASSUME TypeOK, QuorumRead, VotesKept, NEW r \in Requests \cup Workers, NEW q,
         req' = [req EXCEPT ![r] = q],
         \A c \in ClaimIds :
           /\ q.op = "close" /\ q.claim = c
           /\ q.pc = "commit" /\ q.next = "canon"
           => HasQuorum(c)
  PROVE  QuorumRead'
<1>1. \A s \in Requests \cup Workers : req'[s] = IF s = r THEN q ELSE req[s]
  BY DEF TypeOK
<1>2. ASSUME NEW s \in Requests \cup Workers, NEW c \in ClaimIds,
             req'[s].op = "close", req'[s].claim = c,
             req'[s].pc = "commit", req'[s].next = "canon"
      PROVE  HasQuorum(c)'
  <2>1. HasQuorum(c)
    BY <1>1, <1>2 DEF QuorumRead
  <2> QED
    BY <2>1, QuorumKept
<1> QED
  BY <1>2 DEF QuorumRead

\* A transaction with a verdict on c: c is decided, the claim it challenges displaced
\* or upheld, and no other row written.
LEMMA VerdictRows ==
  ASSUME TypeOK, NEW c \in ClaimIds, NEW p \in ClaimIds \cup {None}, p # c, p # None => Settled(p),
         NEW next \in Decisions, NEW seen \in Statuses \cup {None}, NEW own \in Seq(EventRecs),
         NEW reason \in Reasons, NEW by,
         ApplyVerdict(c, p, next, seen, own, reason), status[c] \in {"absent", "vote"},
         own # <<>>, AllAfter(own, next), OneVerdict(own), NoDispute(own),
         ratifiedBy' = [ratifiedBy EXCEPT ![c] = by],
         by # None <=> next = "canon", by = "vote" => HasQuorum(c)
  PROVE  RowsStep
<1> DEFINE e == Event(IF next = "canon" THEN "superseded" ELSE "disputed",
                      reason, seen, L!Outcome(next))
           other == IF p = None \/ status[p] \notin L!Unsettled(next) THEN <<>> ELSE <<e>>
<1>1. /\ status'[c] = next
      /\ \A k \in ClaimIds \ {c} :
           status'[k] = IF k = p /\ status[k] \in L!Unsettled(next) THEN L!Outcome(next) ELSE status[k]
  BY DEF TypeOK, ApplyVerdict, L!AfterVerdict, L!UpdateStatus
<1>2. /\ L!Unsettled(next) \subseteq Standing
      /\ L!Outcome(next) \in {"superseded", "canon"}
  BY DEF L!Unsettled, L!Outcome, L!Standing, Standing
<1>3. /\ e \in EventRecs /\ e.after = L!Outcome(next) /\ ~IsVerdict(e)
      /\ e.kind = "disputed" <=> L!Outcome(next) # "superseded"
  BY <1>2 DEF Event, L!Outcome, EventRecs, EventKinds, Statuses, IsVerdict
<1>4. Record(c, own, p, other)
  BY DEF ApplyVerdict
<1>5. /\ events'[c] = events[c] \o own
      /\ p # None => events'[p] = events[p] \o other
      /\ \A k \in ClaimIds \ {c, p} : events'[k] = events[k]
  BY <1>4 DEF Record
<1>6. ratifiedBy'[c] = by /\ \A k \in ClaimIds \ {c} : ratifiedBy'[k] = ratifiedBy[k]
  BY DEF TypeOK
<1>7. SUFFICES ASSUME NEW k \in ClaimIds
               PROVE  RowKept(k) \/ RowWritten(k)
  BY DEF RowsStep
<1>8. CASE k = c
  <2>1. Decides(k, own)
    BY <1>1, <1>6, <1>8 DEF Decides, HasQuorum
  <2> QED
    BY <1>1, <1>5, <1>8, <2>1 DEF RowWritten
<1>9. CASE k = p /\ status[k] \in L!Unsettled(next)
  <2> HIDE DEF e
  <2>1. <<e>> \in Seq(EventRecs) /\ <<e>> # <<>> /\ Len(<<e>>) = 1 /\ <<e>>[1] = e
    BY <1>3
  <2>2. p # None
    BY <1>9, BoundsAssumption
  <2>3. events'[k] = events[k] \o <<e>> /\ status'[k] = L!Outcome(next)
    BY <1>1, <1>5, <1>9, <2>2
  <2>4. Turns(k, <<e>>)
    <3>1. L!Outcome(next) = "canon" => status[k] = "disputed"
      BY <1>9 DEF L!Outcome, L!Unsettled
    <3>. QED
      BY <1>2, <1>3, <1>6, <1>9, <2>1, <2>3, <3>1 DEF Turns, NoVerdict, Standing
  <2> QED
    <3>1. AllAfter(<<e>>, status'[k])
      BY <1>3, <2>1, <2>3 DEF AllAfter
    <3>. QED
      BY <2>1, <2>3, <2>4, <3>1 DEF RowWritten
<1>10. CASE k # c /\ ~(k = p /\ status[k] \in L!Unsettled(next))
  <2>1. events[k] \o <<>> = events[k]
    BY ConcatEmptySeq DEF TypeOK
  <2>2. ASSUME k = p PROVE events'[k] = events[k] \o <<>>
    BY <1>5, <1>10, <2>2, BoundsAssumption
  <2> QED
    BY <1>1, <1>5, <1>6, <1>10, <2>1, <2>2 DEF RowKept
<1> QED
  BY <1>8, <1>9, <1>10

LEMMA CommitVotingClaimRows ==
  ASSUME IInv, NEW r \in Requests, NEW c \in ClaimIds, CommitVotingClaim(r, c)
  PROVE  RowsStep
<1> DEFINE q == req[r]
           p == IF q.relation = "dispute" THEN q.branchOf ELSE None
           opened == <<Event("created", "claim_opened", None, "vote"),
                       Event("vote_opened", "claim_opened", None, "vote")>>
           marked == <<Event("disputed", "dispute_opened", "canon", "disputed")>>
<1>1. q \in SubmitReqs /\ q.op = "submit" /\ q.outcome = "vote" /\ TypeOK /\ ReqOK(q)
  BY ReqShape DEF CommitVotingClaim, IInv, ReqInv
<1>2. p \in ClaimIds \cup {None} /\ p # c /\ (p # None => status[p] = "canon") /\ status[c] = "absent"
  BY <1>1, BoundsAssumption DEF CommitVotingClaim, OpensDispute, InsertClaim, NextId, ReqOK, Settled
<1>3. /\ status' = [L!UpdateStatus(status, p, {"canon"}, "disputed") EXCEPT ![c] = "vote"]
      /\ Record(c, opened, p, marked)
      /\ ratifiedBy' = [ratifiedBy EXCEPT ![c] = None]
  BY DEF CommitVotingClaim, InsertClaim
<1>4. /\ opened \in Seq(EventRecs) /\ marked \in Seq(EventRecs)
      /\ opened # <<>> /\ AllAfter(opened, "vote") /\ NoVerdict(opened) /\ NoDispute(opened)
      /\ marked # <<>> /\ AllAfter(marked, "disputed") /\ NoVerdict(marked)
      /\ Len(marked) = 1 /\ marked[1].kind = "disputed"
  BY DEF Event, EventRecs, EventKinds, Reasons, Statuses, NoVerdict, IsVerdict, AllAfter, NoDispute
<1> HIDE DEF p, q, opened, marked
<1>5. /\ status'[c] = "vote"
      /\ \A k \in ClaimIds \ {c} : status'[k] = IF k = p THEN "disputed" ELSE status[k]
  BY <1>1, <1>2, <1>3, UpdateStatusMoves
<1>6. /\ events'[c] = events[c] \o opened
      /\ p # None => events'[p] = events[p] \o marked
      /\ \A k \in ClaimIds \ {c, p} : events'[k] = events[k]
  BY <1>2, <1>3 DEF Record
<1>7. ratifiedBy'[c] = None /\ \A k \in ClaimIds \ {c} : ratifiedBy'[k] = ratifiedBy[k]
  BY <1>1, <1>3 DEF TypeOK
<1>8. SUFFICES ASSUME NEW k \in ClaimIds
               PROVE  RowKept(k) \/ RowWritten(k)
  BY DEF RowsStep
<1>9. CASE k = c
  <2>1. Opens(k, opened)
    BY <1>2, <1>4, <1>5, <1>7, <1>9 DEF Opens
  <2> QED
    BY <1>4, <1>5, <1>6, <1>9, <2>1 DEF RowWritten
<1>10. CASE k = p
  <2>1. p # None
    BY <1>10, BoundsAssumption
  <2>2. Turns(k, marked)
    BY <1>2, <1>4, <1>5, <1>7, <1>10, <2>1 DEF Turns, Standing
  <2> QED
    BY <1>2, <1>4, <1>5, <1>6, <1>10, <2>1, <2>2 DEF RowWritten
<1>11. CASE k # c /\ k # p
  BY <1>5, <1>6, <1>7, <1>11 DEF RowKept
<1> QED
  BY <1>9, <1>10, <1>11


LEMMA CommitDataClaimRows ==
  ASSUME IInv, NEW r \in Requests, NEW c \in ClaimIds, CommitDataClaim(r, c)
  PROVE  RowsStep
<1> DEFINE q == req[r]
           p == IF q.relation = "dispute" THEN q.branchOf ELSE None
           own == <<Event("created", "claim_submitted", None, q.outcome),
                    Event(VerdictKind(q.outcome), "verification", None, q.outcome)>>
           by == IF q.outcome = "canon" THEN "verified" ELSE None
<1>1. q \in SubmitReqs /\ q.op = "submit" /\ q.outcome \in Decisions /\ TypeOK /\ ReqOK(q)
  BY ReqShape DEF CommitDataClaim, IInv, ReqInv
<1>2. p \in ClaimIds \cup {None} /\ p # c /\ (p # None => Settled(p)) /\ status[c] = "absent"
  BY <1>1, BoundsAssumption DEF CommitDataClaim, InsertClaim, NextId, ReqOK, Settled
<1>3. /\ ApplyVerdict(c, p, q.outcome, q.parentWas, own, "verification")
      /\ ratifiedBy' = [ratifiedBy EXCEPT ![c] = by]
  BY DEF CommitDataClaim, InsertClaim
<1>4. own \in Seq(EventRecs)
  BY <1>1 DEF Event, EventRecs, EventKinds, Reasons, Statuses, VerdictKind, Decisions
<1>5. own # <<>> /\ Len(own) = 2 /\ AllAfter(own, q.outcome) /\ NoDispute(own)
  BY DEF Event, AllAfter, NoDispute, VerdictKind
<1>6. ~IsVerdict(own[1]) /\ IsVerdict(own[2])
  BY DEF Event, IsVerdict, VerdictKind
<1>7. "verification" \in Reasons /\ q.parentWas \in Statuses \cup {None}
  BY <1>1 DEF Reasons, SubmitReqs
<1>8. (by # None <=> q.outcome = "canon") /\ by # "vote"
  BY BoundsAssumption DEF Statuses
<1> HIDE DEF q, p, own, by
<1>9. OneVerdict(own)
  BY <1>5, <1>6 DEF OneVerdict
<1> QED
  BY <1>1, <1>2, <1>3, <1>4, <1>5, <1>7, <1>8, <1>9, VerdictRows

\* What a steward's decision and the closing job have in common.
LEMMA SettleRows ==
  ASSUME IInv, NEW r \in Requests \cup Workers, NEW own \in Seq(EventRecs), NEW reason \in Reasons,
         NEW by, req[r] \in DecideReqs, req[r].next \in Decisions, status[req[r].claim] = "vote",
         ApplyVerdict(req[r].claim, Challenged(req[r].claim), req[r].next, req[r].parentWas, own, reason),
         ratifiedBy' = [ratifiedBy EXCEPT ![req[r].claim] = by],
         own # <<>>, AllAfter(own, req[r].next), OneVerdict(own), NoDispute(own),
         by # None <=> req[r].next = "canon", by = "vote" => HasQuorum(req[r].claim)
  PROVE  RowsStep
<1> DEFINE c == req[r].claim
<1>1. c \in ClaimIds /\ req[r].parentWas \in Statuses \cup {None} /\ TypeOK
  BY DEF DecideReqs, IInv
<1>2. /\ Challenged(c) \in ClaimIds \cup {None} /\ Challenged(c) # c
      /\ Challenged(c) # None => Settled(Challenged(c))
  BY <1>1, ChallengedType, BoundsAssumption DEF Settled
<1>3. status[c] \in {"absent", "vote"} /\ (by = "vote" => HasQuorum(c))
  OBVIOUS
<1> QED
  BY <1>1, <1>2, <1>3, VerdictRows

LEMMA CommitDecisionRows ==
  ASSUME IInv, NEW r \in Requests, CommitDecision(r)
  PROVE  RowsStep
<1> DEFINE q == req[r]
           own == <<Event("steward_action", StewardReason(q.op), "vote", q.next),
                    Event(VerdictKind(q.next), StewardReason(q.op), "vote", q.next)>>
           by == IF q.next = "canon" THEN "steward" ELSE None
<1>1. q \in DecideReqs /\ q.next \in Decisions
  BY ReqShape DEF CommitDecision, IInv, ReqInv, ReqOK
<1>2. StewardReason(q.op) \in Reasons \ {"steward:veto"}
  BY DEF StewardReason, Reasons
<1>3. /\ own \in Seq(EventRecs) /\ own # <<>> /\ Len(own) = 2
      /\ AllAfter(own, q.next) /\ NoDispute(own)
  BY <1>1, <1>2 DEF Event, EventRecs, EventKinds, Statuses, VerdictKind, Decisions, AllAfter, NoDispute
<1>4. ~IsVerdict(own[1]) /\ IsVerdict(own[2])
  BY <1>2 DEF Event, IsVerdict, VerdictKind
<1>5. /\ status[q.claim] = "vote"
      /\ ApplyVerdict(q.claim, Challenged(q.claim), q.next, q.parentWas, own, StewardReason(q.op))
      /\ ratifiedBy' = [ratifiedBy EXCEPT ![q.claim] = by]
  BY DEF CommitDecision, StillOpen
<1>6. (by # None <=> q.next = "canon") /\ by # "vote"
  BY BoundsAssumption DEF Statuses
<1> HIDE DEF own, by
<1>7. OneVerdict(own)
  BY <1>3, <1>4 DEF OneVerdict
<1> QED
  BY <1>1, <1>2, <1>3, <1>5, <1>6, <1>7, SettleRows

LEMMA CommitCloseRows ==
  ASSUME IInv, QuorumRead, NEW w \in Workers, CommitClose(w)
  PROVE  RowsStep
<1> DEFINE q == req[w]
           own == <<Event(VerdictKind(q.next), "vote_threshold", "vote", q.next)>>
           by == IF q.next = "canon" THEN "vote" ELSE None
<1>1. q \in DecideReqs /\ q.next \in Decisions /\ q.claim \in ClaimIds /\ "vote_threshold" \in Reasons
  BY ReqShape DEF CommitClose, IInv, ReqInv, ReqOK, DecideReqs, Reasons
<1>2. /\ own \in Seq(EventRecs) /\ own # <<>> /\ Len(own) = 1
      /\ AllAfter(own, q.next) /\ NoDispute(own)
  BY <1>1 DEF Event, EventRecs, EventKinds, Reasons, Statuses, VerdictKind, Decisions, AllAfter, NoDispute
<1>3. IsVerdict(own[1])
  BY DEF Event, IsVerdict, VerdictKind
<1>4. /\ status[q.claim] = "vote"
      /\ ApplyVerdict(q.claim, Challenged(q.claim), q.next, q.parentWas, own, "vote_threshold")
      /\ ratifiedBy' = [ratifiedBy EXCEPT ![q.claim] = by]
  BY DEF CommitClose, StillOpen
<1>5. (by # None <=> q.next = "canon") /\ (by = "vote" => HasQuorum(q.claim))
  BY <1>1, BoundsAssumption DEF Statuses, CommitClose, QuorumRead
<1> HIDE DEF own, by
<1>6. OneVerdict(own)
  BY <1>2, <1>3 DEF OneVerdict
<1> QED
  BY <1>1, <1>2, <1>4, <1>5, <1>6, SettleRows


LEMMA CommitVetoRows ==
  ASSUME IInv, NEW r \in Requests, CommitVeto(r)
  PROVE  RowsStep
<1> DEFINE c == req[r].claim
           own == <<Event("steward_action", "steward:veto", "canon", "rejected"),
                    Event("rejected", "steward:veto", "canon", "rejected")>>
<1>1. c \in ClaimIds /\ TypeOK
  BY ReqShape DEF CommitVeto, IInv, VetoReqs
<1>2. /\ status[c] = "canon" /\ status' = [status EXCEPT ![c] = "rejected"]
      /\ ratifiedBy' = [ratifiedBy EXCEPT ![c] = None]
      /\ Record(c, own, None, <<>>)
  BY DEF CommitVeto
<1>3. /\ own \in Seq(EventRecs) /\ own # <<>> /\ AllAfter(own, "rejected")
      /\ NoVerdict(own) /\ NoDispute(own)
  BY DEF Event, EventRecs, EventKinds, Reasons, Statuses, NoVerdict, IsVerdict, AllAfter, NoDispute
<1> HIDE DEF c, own
<1>4. SUFFICES ASSUME NEW k \in ClaimIds
               PROVE  RowKept(k) \/ RowWritten(k)
  BY DEF RowsStep
<1>5. CASE k = c
  <2>1. events'[k] = events[k] \o own /\ status'[k] = "rejected" /\ ratifiedBy'[k] = None
    BY <1>1, <1>2, <1>5 DEF Record, TypeOK
  <2>2. Vetoes(k, own)
    BY <1>2, <1>3, <1>5, <2>1 DEF Vetoes
  <2> QED
    BY <1>3, <2>1, <2>2 DEF RowWritten
<1>6. CASE k # c
  BY <1>1, <1>2, <1>6, BoundsAssumption DEF RowKept, Record, TypeOK
<1> QED
  BY <1>5, <1>6

LEMMA CommitExtendRows ==
  ASSUME IInv, NEW r \in Requests, CommitExtend(r)
  PROVE  RowsStep
<1> DEFINE c == req[r].claim
           own == <<Event("steward_action", "steward:extend", "vote", "vote")>>
<1>1. c \in ClaimIds /\ TypeOK
  BY ReqShape DEF CommitExtend, IInv, ExtendReqs
<1>2. status[c] = "vote" /\ Record(c, own, None, <<>>) /\ UNCHANGED <<status, ratifiedBy>>
  BY DEF CommitExtend, StillOpen
<1>3. /\ own \in Seq(EventRecs) /\ own # <<>> /\ AllAfter(own, "vote")
      /\ NoVerdict(own) /\ NoDispute(own)
  BY DEF Event, EventRecs, EventKinds, Reasons, Statuses, NoVerdict, IsVerdict, AllAfter, NoDispute
<1> HIDE DEF c, own
<1>4. SUFFICES ASSUME NEW k \in ClaimIds
               PROVE  RowKept(k) \/ RowWritten(k)
  BY DEF RowsStep
<1>5. CASE k = c
  <2>1. events'[k] = events[k] \o own /\ status'[k] = "vote"
    BY <1>1, <1>2, <1>5 DEF Record
  <2>2. Prolongs(k, own)
    BY <1>2, <1>3, <1>5 DEF Prolongs
  <2> QED
    BY <1>3, <2>1, <2>2 DEF RowWritten
<1>6. CASE k # c
  BY <1>2, <1>6, BoundsAssumption DEF RowKept, Record
<1> QED
  BY <1>5, <1>6

\* The other steps write no row and no event.
LEMMA OtherRows ==
  ASSUME UNCHANGED <<status, ratifiedBy, events>>
  PROVE  RowsStep
  BY DEF RowsStep, RowKept

\* A step that leaves the votes and the requests alone keeps the quorums that were read.
LEMMA QuorumReadUnmoved ==
  ASSUME UNCHANGED <<votes, req>>, QuorumRead
  PROVE  VotesKept /\ QuorumRead'
  BY DEF VotesKept, QuorumRead, HasQuorum, Quorum

\* A request that ends keeps them too.
LEMMA FinishKeepsQuorums ==
  ASSUME TypeOK, QuorumRead, VotesKept, NEW r \in Requests \cup Workers, Finish(r)
  PROVE  QuorumRead'
<1>1. req' = [req EXCEPT ![r] = Idle]
  BY DEF Finish
<1>2. Idle.op # "close"
  BY DEF Idle
<1> QED
  BY <1>1, <1>2, QuorumReadKept

LEMMA CommitRows ==
  ASSUME IInv, QuorumRead, NEW r \in Requests,
         \/ \E c \in ClaimIds : CommitVotingClaim(r, c) \/ CommitDataClaim(r, c)
         \/ CommitDecision(r) \/ CommitExtend(r) \/ CommitVeto(r)
  PROVE  RowsStep /\ VotesKept /\ QuorumRead'
<1>1. RowsStep
  BY CommitVotingClaimRows, CommitDataClaimRows, CommitDecisionRows, CommitExtendRows, CommitVetoRows
<1>2. UNCHANGED votes /\ Finish(r)
  BY DEF CommitVotingClaim, CommitDataClaim, CommitDecision, CommitExtend, CommitVeto
<1>3. VotesKept
  BY <1>2 DEF VotesKept
<1> QED
  BY <1>1, <1>2, <1>3, FinishKeepsQuorums DEF IInv

\* An upsert changes a vote, or makes one.
LEMMA CommitCastRows ==
  ASSUME IInv, QuorumRead, NEW r \in Requests, CommitCast(r)
  PROVE  RowsStep /\ VotesKept /\ QuorumRead'
<1>1. req[r].claim \in ClaimIds /\ req[r].voter \in Members /\ req[r].choice \in Choices
  BY ReqShape DEF CommitCast, CastReqs, IInv
<1>2. votes' = [votes EXCEPT ![req[r].claim][req[r].voter] = req[r].choice]
  BY DEF CommitCast
<1>3. None \notin Choices
  BY BoundsAssumption
<1>4. VotesKept
  BY <1>1, <1>2, <1>3 DEF VotesKept, IInv, TypeOK
<1>5. UNCHANGED <<status, ratifiedBy, events>> /\ Finish(r)
  BY DEF CommitCast, claimVars
<1> QED
  BY <1>4, <1>5, OtherRows, FinishKeepsQuorums DEF IInv

\* The closing job that decides to canonize has just counted a quorum.
LEMMA ReadRows ==
  ASSUME IInv, QuorumRead, NEW r \in Requests \cup Workers,
         \/ BeginSubmit(r) \/ BeginCast(r) \/ BeginDecision(r) \/ BeginExtend(r) \/ BeginVeto(r)
         \/ \E c \in ClaimIds : BeginClose(r, c)
         \/ ReadTally(r) \/ ReadChallenged(r)
  PROVE  RowsStep /\ VotesKept /\ QuorumRead'
<1>1. UNCHANGED <<status, ratifiedBy, events, votes>>
  BY DEF BeginSubmit, BeginCast, BeginDecision, BeginExtend, BeginVeto, BeginClose,
         ReadTally, ReadChallenged, claimVars
<1>2. RowsStep /\ VotesKept
  BY <1>1, OtherRows DEF VotesKept
<1>3. CASE BeginSubmit(r) \/ BeginCast(r) \/ BeginExtend(r) \/ BeginVeto(r)
  <2>1. \E q : Start(r, q) /\ q.op # "close"
    <3>1. CASE BeginSubmit(r)
      BY <3>1 DEF BeginSubmit
    <3>2. CASE BeginCast(r)
      BY <3>2 DEF BeginCast
    <3>3. CASE BeginExtend(r)
      BY <3>3 DEF BeginExtend
    <3>4. CASE BeginVeto(r)
      BY <3>4 DEF BeginVeto
    <3> QED
      BY <1>3, <3>1, <3>2, <3>3, <3>4
  <2>2. PICK q : Start(r, q) /\ q.op # "close"
    BY <2>1
  <2> QED
    BY <1>2, <2>2, QuorumReadKept DEF IInv, Start
<1>4. CASE BeginDecision(r) \/ \E c \in ClaimIds : BeginClose(r, c)
  <2>1. \E q : Start(r, q) /\ q.pc = "tally"
    <3>1. CASE BeginDecision(r)
      BY <3>1 DEF BeginDecision
    <3>2. CASE \E c \in ClaimIds : BeginClose(r, c)
      BY <3>2 DEF BeginClose
    <3> QED
      BY <1>4, <3>1, <3>2
  <2>2. PICK q : Start(r, q) /\ q.pc = "tally"
    BY <2>1
  <2> QED
    BY <1>2, <2>2, QuorumReadKept DEF IInv, Start
<1>5. CASE ReadTally(r)
  <2> DEFINE q == [req[r] EXCEPT !.pc = "commit", !.next = Decision(req[r])]
  <2>1. req[r] \in DecideReqs /\ req' = [req EXCEPT ![r] = q] /\ TypeOK
    BY <1>5, ReqShape DEF ReadTally, IInv
  <2>2. ASSUME NEW c \in ClaimIds, q.op = "close", q.claim = c, q.next = "canon"
        PROVE  HasQuorum(c)
    <3>1. req[r].op = "close" /\ req[r].claim = c /\ q.next = Decision(req[r])
      BY <2>1, <2>2 DEF DecideReqs
    <3>2. ShouldCanonize(c)
      BY <2>2, <3>1 DEF Decision
    <3> QED
      BY <2>1, <3>2, TallyHasQuorum
  <2> QED
    BY <1>2, <2>1, <2>2, QuorumReadKept DEF IInv
<1>6. CASE ReadChallenged(r)
  <2>1. PICK p : req' = [req EXCEPT ![r].parentWas = status[p]]
    BY <1>6 DEF ReadChallenged
  <2> DEFINE q == [req[r] EXCEPT !.parentWas = status[p]]
  <2>2. TypeOK /\ req' = [req EXCEPT ![r] = q] /\ req[r] \in SubmitReqs \cup DecideReqs
    BY <1>6, <2>1, ReqShape DEF ReadChallenged, IInv, TypeOK
  <2>3. q.op = "close" => /\ req[r].op = "close" /\ q.claim = req[r].claim
                          /\ q.pc = req[r].pc /\ q.next = req[r].next
    BY <2>2 DEF SubmitReqs, DecideReqs
  <2>4. ASSUME NEW c \in ClaimIds, q.op = "close", q.claim = c, q.pc = "commit", q.next = "canon"
        PROVE  HasQuorum(c)
    BY <2>3, <2>4 DEF QuorumRead
  <2> HIDE DEF q
  <2> QED
    BY <1>2, <2>2, <2>4, QuorumReadKept
<1> QED
  BY <1>1, <1>2, <1>3, <1>4, <1>5, <1>6


LEMMA TrailStep == TrailInv /\ [Next]_vars => RowsStep /\ VotesKept /\ QuorumRead'
<1> SUFFICES ASSUME TrailInv, [Next]_vars
             PROVE  RowsStep /\ VotesKept /\ QuorumRead'
  OBVIOUS
<1> USE DEF TrailInv
<1>1. CASE Tick \/ UNCHANGED vars
  <2>1. UNCHANGED <<status, ratifiedBy, events, votes, req>>
    BY <1>1 DEF Tick, vars, claimVars
  <2> QED
    BY <2>1, OtherRows, QuorumReadUnmoved
<1>2. CASE \E c \in ClaimIds : ScheduleClose(c) \/ LoseClose(c) \/ ReuseClose(c) \/ RefuseClose(c)
  <2>1. UNCHANGED <<status, ratifiedBy, events, votes, req>>
    BY <1>2 DEF ScheduleClose, LoseClose, ReuseClose, RefuseClose, claimVars
  <2> QED
    BY <2>1, OtherRows, QuorumReadUnmoved
<1>3. ASSUME NEW r \in Requests \cup Workers, Abort(r)
      PROVE  RowsStep /\ VotesKept /\ QuorumRead'
  <2>1. UNCHANGED <<status, ratifiedBy, events, votes>> /\ Finish(r)
    BY <1>3 DEF Abort, claimVars
  <2>2. VotesKept
    BY <2>1 DEF VotesKept
  <2> QED
    BY <2>1, <2>2, OtherRows, FinishKeepsQuorums DEF IInv
<1>4. CASE \E r \in Requests : RequestStep(r) \/ ReadTally(r) \/ ReadChallenged(r) \/ Abort(r)
  <2>1. PICK r \in Requests : RequestStep(r) \/ ReadTally(r) \/ ReadChallenged(r) \/ Abort(r)
    BY <1>4
  <2> QED
    BY <1>3, <2>1, ReadRows, CommitRows, CommitCastRows DEF RequestStep
<1>5. CASE \E w \in Workers : WorkerStep(w) \/ \E c \in ClaimIds : BeginClose(w, c)
  <2>1. PICK w \in Workers : WorkerStep(w) \/ \E c \in ClaimIds : BeginClose(w, c)
    BY <1>5
  <2>2. CASE CommitClose(w)
    <3>1. UNCHANGED votes /\ Finish(w)
      BY <2>2 DEF CommitClose
    <3>2. VotesKept
      BY <3>1 DEF VotesKept
    <3> QED
      BY <2>2, <3>1, <3>2, CommitCloseRows, FinishKeepsQuorums DEF IInv
  <2> QED
    BY <1>3, <2>1, <2>2, ReadRows DEF WorkerStep
<1> QED
  BY <1>1, <1>2, <1>3, <1>4, <1>5 DEF Next

\* The trail of every claim stays in step with its row, whatever interleaves.
LEMMA TrailInvariant == Spec => []TrailInv
<1>1. Init => TrailInv
  <2> SUFFICES ASSUME Init PROVE QuorumRead /\ \A k \in ClaimIds : RowOK(k)
    BY InitInv DEF TrailInv
  <2>1. QuorumRead
    BY DEF Init, QuorumRead, Idle
  <2>2. ASSUME NEW k \in ClaimIds PROVE RowOK(k)
    <3>1. status[k] = "absent" /\ ratifiedBy[k] = None /\ events[k] = <<>>
      BY DEF Init
    <3>2. Verdicts(k) = {}
      BY <3>1 DEF Verdicts
    <3>3. TrailOK(k)
      <4>1. \A s : Into(k, s) = {}
        BY <3>1 DEF Into
      <4>2. Upheld(k) = {}
        BY <4>1 DEF Upheld
      <4>3. Cardinality(Into(k, "disputed")) = 0 /\ Cardinality(Upheld(k)) = 0
        BY <4>1, <4>2, FS_EmptySet
      <4>. QED
        BY <3>1, <4>1, <4>3 DEF TrailOK, Standing
    <3> QED
      BY <3>1, <3>2, <3>3, BoundsAssumption DEF RowOK, Standing, Statuses
  <2> QED
    BY <2>1, <2>2
<1>2. TrailInv /\ [Next]_vars => TrailInv'
  <2> SUFFICES ASSUME TrailInv, [Next]_vars PROVE TrailInv'
    OBVIOUS
  <2>1. IInv' /\ RowsStep /\ VotesKept /\ QuorumRead'
    BY TrailStep, NextStep DEF TrailInv
  <2>2. ASSUME NEW k \in ClaimIds PROVE RowOK(k)'
    BY <2>1, RowStaysOK DEF TrailInv, IInv, RowsStep
  <2> QED
    BY <2>1, <2>2 DEF TrailInv
<1> QED
  BY <1>1, <1>2, PTL DEF Spec

\* Whichever of the closing job, its retries and the stewards get there first, a
\* claim is settled once, and has no verdict on record before.
THEOREM SettledOnce == Spec => []DecidedOnce
<1>1. ASSUME TrailInv, NEW c \in ClaimIds
      PROVE  Cardinality(Verdicts(c)) = IF status[c] \in {"absent", "vote"} THEN 0 ELSE 1
  <2>1. RowOK(c)
    BY <1>1 DEF TrailInv
  <2> QED
    BY <2>1, FS_EmptySet, FS_Singleton DEF RowOK
<1>2. TrailInv => DecidedOnce
  BY <1>1 DEF DecidedOnce
<1> QED
  BY <1>2, TrailInvariant, PTL

\* The rows of a claim's audit trail tell the status it has, whatever interleaved and in
\* whatever order they are read.
THEOREM TrailTells == Spec => []TrailTellsStatus
<1>1. ASSUME TrailInv, NEW c \in ClaimIds, status[c] # "absent" PROVE status[c] = Told(c)
  <2>1. TrailOK(c) /\ status[c] \in Statuses /\ events[c] \in Seq(EventRecs)
    BY <1>1 DEF TrailInv, RowOK, IInv, TypeOK
  <2>2. Cardinality(Into(c, "disputed")) \in Nat /\ Cardinality(Upheld(c)) \in Nat
    <3>1. Upheld(c) \subseteq 1..Len(events[c]) /\ Into(c, "disputed") \subseteq 1..Len(events[c])
      BY <2>1 DEF Upheld, Into
    <3>. QED
      BY <2>1, <3>1, Places, LenProperties
  <2>3. CASE status[c] \in {"vote", "canon", "disputed"}
    BY <2>1, <2>2, <2>3 DEF Told, TrailOK, Standing
  <2>4. CASE status[c] \in {"rejected", "superseded"}
    BY <2>1, <2>4 DEF Told, TrailOK
  <2> QED
    BY <1>1, <2>1, <2>3, <2>4 DEF Statuses
<1>2. TrailInv => TrailTellsStatus
  BY <1>1 DEF TrailTellsStatus
<1> QED
  BY <1>2, TrailInvariant, PTL

\* Who ratified a claim is on its row exactly while it is, or was, canon.
THEOREM ProvenanceIsKept == Spec => []ProvenanceKept
<1>1. TrailInv => ProvenanceKept
  BY DEF TrailInv, RowOK, ProvenanceKept
<1> QED
  BY <1>1, TrailInvariant, PTL

\* A claim the closing job made canon has a quorum of voters, for every size of the
\* league, though votes are still cast between its tally and its write.
THEOREM CanonByVoteHasQuorum == Spec => []VoteCanonHasQuorum
<1>1. TrailInv => VoteCanonHasQuorum
  BY DEF TrailInv, RowOK, HasQuorum, VoteCanonHasQuorum
<1> QED
  BY <1>1, TrailInvariant, PTL
=============================================================================
