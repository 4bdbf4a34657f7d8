------------------------ MODULE InstigatorPollsProofs ------------------------
(***************************************************************************)
(* A poll and the claim it opens, beside the lore engine, for every number *)
(* of claims, polls, members and requests.  The instigator may reopen what *)
(* the engine settled, but it never writes to a claim that challenges      *)
(* another one, and so never takes from a disputed claim its challenge.    *)
(***************************************************************************)
EXTENDS InstigatorPolls, FiniteSetTheorems, TLAPS

LP == INSTANCE ClaimLifecycleProofs

\* No two claims have one poll.
OneEach ==
  \A c, d \in ClaimIds : sourcePoll[c] # None /\ sourcePoll[c] = sourcePoll[d] => c = d

\* A row that is not in the table yet, and a poll's claim, challenge nothing.
PollClaimsChallengeNone ==
  \A c \in ClaimIds :
    /\ status[c] = "absent" => sourcePoll[c] = None /\ challenged[c] = None
    /\ sourcePoll[c] # None => challenged[c] = None

\* What a close has read: a claim that is one of a poll's, a winner that is an option.
ReadOK(q) ==
  /\ q.claim # None => sourcePoll[q.claim] # None
  /\ q.pc \in {"claim", "commit"} => q.winner \in Options

ReadIsPolls == \A k \in Closers : req[k].op = "close" => ReadOK(req[k])

IInv ==
  /\ TypeOK
  /\ Lore!ChallengedIsSettled /\ Lore!DisputedHasOpenChallenge
  /\ OneEach /\ PollClaimsChallengeNone /\ ReadIsPolls

LEMMA PollConstants ==
  /\ None \notin ClaimIds /\ None \notin Options /\ None \notin Polls
  /\ IsFiniteSet(Members) /\ Requests \cap Closers = {}
BY PollAssumption

-----------------------------------------------------------------------------
(* The lore engine's steps *)

\* A step of the lifecycle keeps what ends a dispute.
LEMMA LoreKeeps ==
  ASSUME Lore!TypeOK, Lore!ChallengedIsSettled, Lore!DisputedHasOpenChallenge, Lore!Next
  PROVE  (Lore!TypeOK /\ Lore!ChallengedIsSettled /\ Lore!DisputedHasOpenChallenge)'
<1>1. LP!Resolvable /\ LP!NoneIsNoClaim
  BY PollConstants
     DEF LP!Resolvable, LP!NoneIsNoClaim, Lore!TypeOK, LP!TypeOK, Lore!Statuses, LP!Statuses,
         Lore!ChallengedIsSettled, LP!ChallengedIsSettled,
         Lore!DisputedHasOpenChallenge, LP!DisputedHasOpenChallenge
<1>2. LP!Next
  BY DEF Lore!Next, LP!Next, Lore!Open, LP!Open, Lore!Verify, LP!Verify, Lore!Settle, LP!Settle,
         Lore!Veto, LP!Veto, Lore!UpdateStatus, LP!UpdateStatus,
         Lore!AfterVerdict, LP!AfterVerdict, Lore!Unsettled, LP!Unsettled,
         Lore!Outcome, LP!Outcome, Lore!Standing, LP!Standing
<1>3. LP!KeepsInv  BY <1>1, <1>2, LP!StepKeepsInv
<1>. QED
  BY <1>3
     DEF LP!KeepsInv, LP!Resolvable, Lore!TypeOK, LP!TypeOK, Lore!Statuses, LP!Statuses,
         Lore!ChallengedIsSettled, LP!ChallengedIsSettled,
         Lore!DisputedHasOpenChallenge, LP!DisputedHasOpenChallenge

\* A step of the lifecycle sets the challenge of a new row only, and no row leaves the
\* table.
LEMMA LoreMoves ==
  ASSUME Lore!TypeOK, Lore!Next, NEW c \in ClaimIds, Lore!ChallengedIsSettled
  PROVE  /\ status[c] # "absent" => status'[c] # "absent" /\ challenged'[c] = challenged[c]
         /\ status'[c] = "absent" => status[c] = "absent" /\ challenged'[c] = challenged[c]
<1>. USE DEF Lore!TypeOK
<1>1. ASSUME NEW k \in ClaimIds, NEW p \in ClaimIds \cup {None}, Lore!Open(k, p)
      PROVE  /\ status[c] # "absent" => status'[c] # "absent" /\ challenged'[c] = challenged[c]
             /\ status'[c] = "absent" => status[c] = "absent" /\ challenged'[c] = challenged[c]
  BY <1>1 DEF Lore!Open, Lore!UpdateStatus
<1>2. ASSUME NEW k \in ClaimIds, NEW p \in ClaimIds \cup {None},
             NEW next \in {"canon", "rejected"}, Lore!Verify(k, p, next)
      PROVE  /\ status[c] # "absent" => status'[c] # "absent" /\ challenged'[c] = challenged[c]
             /\ status'[c] = "absent" => status[c] = "absent" /\ challenged'[c] = challenged[c]
  BY <1>2 DEF Lore!Verify, Lore!AfterVerdict, Lore!UpdateStatus, Lore!Unsettled, Lore!Outcome,
              Lore!Standing
<1>3. ASSUME NEW k \in ClaimIds, NEW next \in {"canon", "rejected"}, Lore!Settle(k, next)
      PROVE  /\ status[c] # "absent" => status'[c] # "absent" /\ challenged'[c] = challenged[c]
             /\ status'[c] = "absent" => status[c] = "absent" /\ challenged'[c] = challenged[c]
  BY <1>3 DEF Lore!Settle, Lore!AfterVerdict, Lore!UpdateStatus, Lore!Unsettled, Lore!Outcome,
              Lore!Standing
<1>4. ASSUME NEW k \in ClaimIds, Lore!Veto(k)
      PROVE  /\ status[c] # "absent" => status'[c] # "absent" /\ challenged'[c] = challenged[c]
             /\ status'[c] = "absent" => status[c] = "absent" /\ challenged'[c] = challenged[c]
  BY <1>4 DEF Lore!Veto
<1>. QED  BY <1>1, <1>2, <1>3, <1>4 DEF Lore!Next

LEMMA LoreStepKeeps == ASSUME IInv, LoreStep PROVE IInv'
<1>0. /\ Lore!TypeOK /\ Lore!Next /\ TypeOK
      /\ trail' = [c \in ClaimIds |-> IF status'[c] # status[c] THEN status'[c] ELSE trail[c]]
      /\ UNCHANGED <<sourcePoll, statement, poll, instigation, pollVotes, due, req>>
  BY DEF IInv, TypeOK, LoreStep, pollVars
<1>1. (Lore!TypeOK /\ Lore!ChallengedIsSettled /\ Lore!DisputedHasOpenChallenge)'
  BY <1>0, LoreKeeps DEF IInv
<1>2. TypeOK'
  <2>1. trail' \in [ClaimIds -> Lore!Statuses]
    BY <1>0, <1>1 DEF TypeOK, Lore!TypeOK
  <2>. QED  BY <1>0, <1>1, <2>1 DEF TypeOK, SeedReqs, CastReqs, CloseReqs, Lore!Statuses
<1>3. OneEach' /\ ReadIsPolls'  BY <1>0 DEF IInv, OneEach, ReadIsPolls, ReadOK
<1>4. PollClaimsChallengeNone'
  BY <1>0, LoreMoves DEF IInv, PollClaimsChallengeNone
<1>. QED  BY <1>1, <1>2, <1>3, <1>4 DEF IInv

-----------------------------------------------------------------------------
(* The instigator's steps *)

\* What an operation in flight carries.
LEMMA InFlight ==
  ASSUME TypeOK, NEW r \in Requests \cup Closers
  PROVE  /\ req[r].op = "seed" => req[r] \in SeedReqs
         /\ req[r].op = "cast" => req[r] \in CastReqs
         /\ req[r].op = "close" => req[r] \in CloseReqs
         /\ req[r] # Idle => req[r].op # "idle"
BY DEF TypeOK, Idle, SeedReqs, CastReqs, CloseReqs

\* A step that leaves the claims alone, and of a close at most its own reads.
LEMMA ClaimsAlone ==
  ASSUME IInv, TypeOK', UNCHANGED claimVars, ReadIsPolls'
  PROVE  IInv'
<1>1. (Lore!ChallengedIsSettled /\ Lore!DisputedHasOpenChallenge)'
  BY DEF IInv, claimVars, Lore!ChallengedIsSettled, Lore!DisputedHasOpenChallenge
<1>2. OneEach' /\ PollClaimsChallengeNone'
  BY DEF IInv, claimVars, OneEach, PollClaimsChallengeNone
<1>. QED  BY <1>1, <1>2 DEF IInv

\* An operation that starts, ends or is rolled back.
LEMMA FinishReads ==
  ASSUME IInv, NEW r \in Requests \cup Closers, Finish(r), UNCHANGED sourcePoll
  PROVE  /\ ReadIsPolls'
         /\ req' \in [Requests \cup Closers -> {Idle} \cup SeedReqs \cup CastReqs \cup CloseReqs]
<1>1. /\ req' \in [Requests \cup Closers -> {Idle} \cup SeedReqs \cup CastReqs \cup CloseReqs]
      /\ \A k \in Closers : req'[k] = Idle \/ req'[k] = req[k]
  BY DEF Finish, IInv, TypeOK
<1>2. ReadIsPolls'  BY <1>1 DEF IInv, ReadIsPolls, ReadOK, Idle
<1>. QED  BY <1>1, <1>2

LEMMA StartReads ==
  ASSUME IInv, NEW r \in Requests, UNCHANGED sourcePoll,
         NEW q \in SeedReqs \cup CastReqs, Start(r, q)
  PROVE  /\ ReadIsPolls'
         /\ req' \in [Requests \cup Closers -> {Idle} \cup SeedReqs \cup CastReqs \cup CloseReqs]
<1>1. /\ req' \in [Requests \cup Closers -> {Idle} \cup SeedReqs \cup CastReqs \cup CloseReqs]
      /\ \A k \in Closers : req'[k] = req[k]
  BY PollConstants DEF Start, IInv, TypeOK
<1>2. ReadIsPolls'  BY <1>1 DEF IInv, ReadIsPolls, ReadOK
<1>. QED  BY <1>1, <1>2

\* The insert of a poll's claim: the poll has none, the row challenges nothing.
LEMMA InsertKeeps ==
  ASSUME IInv, NEW p \in Polls, Unclaimed(p), NEW c \in ClaimIds,
         NEW st \in {"vote", "canon"}, NEW text \in Options \cup {"claim"},
         InsertClaim(c, p, st, text), NEW r \in Requests \cup Closers, Finish(r),
         poll' \in [Polls -> [status : {"absent", "open", "closed"},
                              winner : Options \cup {None}]],
         instigation' \in [Polls -> {"absent", "polling", "resolved", "skipped"}],
         UNCHANGED <<pollVotes, due>>
  PROVE  IInv'
<1>1. /\ status[c] = "absent" /\ sourcePoll[c] = None /\ challenged[c] = None
      /\ challenged' = challenged
      /\ \A d \in ClaimIds : challenged[d] # c
  BY PollConstants
     DEF InsertClaim, IInv, PollClaimsChallengeNone, Lore!ChallengedIsSettled, TypeOK, Lore!TypeOK
<1>2. /\ status' \in [ClaimIds -> Lore!Statuses] /\ status'[c] = st
      /\ sourcePoll' \in [ClaimIds -> Polls \cup {None}] /\ sourcePoll'[c] = p
      /\ statement' \in [ClaimIds -> Options \cup {"claim"}]
      /\ trail' \in [ClaimIds -> Lore!Statuses]
      /\ \A d \in ClaimIds : d # c => status'[d] = status[d] /\ sourcePoll'[d] = sourcePoll[d]
  BY DEF InsertClaim, IInv, TypeOK, Lore!TypeOK, Lore!Statuses
<1>3. \A k \in Closers : req'[k] = Idle \/ req'[k] = req[k]
  BY DEF Finish, IInv, TypeOK
<1>4. req' \in [Requests \cup Closers -> {Idle} \cup SeedReqs \cup CastReqs \cup CloseReqs]
  BY DEF Finish, IInv, TypeOK
<1>5. TypeOK'
  BY <1>1, <1>2, <1>4 DEF IInv, TypeOK, Lore!TypeOK, SeedReqs, CastReqs, CloseReqs, Lore!Statuses
<1>6. Lore!ChallengedIsSettled'
  BY <1>1, <1>2 DEF IInv, TypeOK, Lore!TypeOK, Lore!ChallengedIsSettled
<1>7. Lore!DisputedHasOpenChallenge'
  BY <1>1, <1>2 DEF IInv, TypeOK, Lore!TypeOK, Lore!DisputedHasOpenChallenge
<1>8. OneEach'
  <2>1. \A d \in ClaimIds : sourcePoll[d] # p  BY DEF Unclaimed, ClaimsOf
  <2>. QED  BY <1>2, <2>1 DEF IInv, OneEach
<1>9. PollClaimsChallengeNone'
  BY <1>1, <1>2 DEF IInv, PollClaimsChallengeNone
<1>10. ReadIsPolls'
  <2>1. p # None  BY PollConstants
  <2>2. \A k \in Closers : req[k].op = "close" => req[k].claim \in ClaimIds \cup {None}
    BY InFlight DEF IInv, CloseReqs
  <2>3. \A d \in ClaimIds : sourcePoll[d] # None => sourcePoll'[d] # None
    BY <1>2, <2>1
  <2>. QED  BY <1>3, <2>2, <2>3 DEF IInv, ReadIsPolls, ReadOK, Idle
<1>. QED  BY <1>5, <1>6, <1>7, <1>8, <1>9, <1>10 DEF IInv

LEMMA SeedKeeps ==
  ASSUME IInv, NEW r \in Requests,
         (\E p \in Polls : SeedPoll(r, p)) \/ EnsureClaim(r)
  PROVE  IInv'
<1>1. ASSUME NEW p \in Polls, SeedPoll(r, p) PROVE IInv'
  <2>. DEFINE q == [op |-> "seed", poll |-> p]
  <2>1. q \in SeedReqs /\ Start(r, q) /\ UNCHANGED <<claimVars, pollVotes, due>>
    BY <1>1 DEF SeedPoll, SeedReqs
  <2>2. /\ poll' \in [Polls -> [status : {"absent", "open", "closed"},
                               winner : Options \cup {None}]]
        /\ instigation' \in [Polls -> {"absent", "polling", "resolved", "skipped"}]
    <3>1. CASE /\ poll' = [poll EXCEPT ![p].status = "open"]
               /\ instigation' = [instigation EXCEPT ![p] = Seeded]
      <4>1. poll[p] \in [status : {"absent", "open", "closed"}, winner : Options \cup {None}]
        BY DEF IInv, TypeOK
      <4>2. [poll[p] EXCEPT !.status = "open"]
              \in [status : {"absent", "open", "closed"}, winner : Options \cup {None}]
        BY <4>1
      <4>. QED  BY <3>1, <4>2 DEF IInv, TypeOK, Seeded
    <3>2. CASE UNCHANGED <<poll, instigation>>  BY <3>2 DEF IInv, TypeOK
    <3>. QED  BY <1>1, <3>1, <3>2 DEF SeedPoll
  <2>. HIDE DEF q
  <2>3. /\ ReadIsPolls'
        /\ req' \in [Requests \cup Closers -> {Idle} \cup SeedReqs \cup CastReqs \cup CloseReqs]
    BY <2>1, StartReads DEF claimVars
  <2>4. TypeOK'
    BY <2>1, <2>2, <2>3 DEF IInv, TypeOK, claimVars, Lore!TypeOK, SeedReqs, CastReqs, CloseReqs,
                            Lore!Statuses
  <2>. QED  BY <2>1, <2>3, <2>4, ClaimsAlone
<1>2. CASE EnsureClaim(r)
  <2>1. req[r].poll \in Polls /\ Finish(r) /\ UNCHANGED pollVars
    BY <1>2, InFlight DEF EnsureClaim, IInv, SeedReqs
  <2>2. CASE Unclaimed(req[r].poll)
    <3>1. PICK c \in ClaimIds : InsertClaim(c, req[r].poll, "vote", "claim")
      BY <1>2, <2>2 DEF EnsureClaim
    <3>2. /\ poll' \in [Polls -> [status : {"absent", "open", "closed"},
                                 winner : Options \cup {None}]]
          /\ instigation' \in [Polls -> {"absent", "polling", "resolved", "skipped"}]
          /\ UNCHANGED <<pollVotes, due>>
      BY <2>1 DEF IInv, TypeOK, pollVars
    <3>. QED  BY <2>1, <2>2, <3>1, <3>2, InsertKeeps
  <2>3. CASE UNCHANGED claimVars
    <3>1. /\ ReadIsPolls'
          /\ req' \in [Requests \cup Closers -> {Idle} \cup SeedReqs \cup CastReqs \cup CloseReqs]
      BY <2>1, <2>3, FinishReads DEF claimVars
    <3>2. TypeOK'
      BY <2>1, <2>3, <3>1 DEF IInv, TypeOK, claimVars, pollVars, Lore!TypeOK, SeedReqs, CastReqs,
                              CloseReqs, Lore!Statuses
    <3>. QED  BY <2>3, <3>1, <3>2, ClaimsAlone
  <2>. QED  BY <1>2, <2>2, <2>3 DEF EnsureClaim
<1>. QED  BY <1>1, <1>2

LEMMA CastKeeps ==
  ASSUME IInv, NEW r \in Requests,
         (\E p \in Polls : BeginCast(r, p)) \/ CommitCast(r)
  PROVE  IInv'
<1>1. ASSUME NEW p \in Polls, BeginCast(r, p) PROVE IInv'
  <2>1. PICK m \in Members, o \in Options :
          Start(r, [op |-> "cast", poll |-> p, member |-> m, option |-> o])
    BY <1>1 DEF BeginCast
  <2>. DEFINE q == [op |-> "cast", poll |-> p, member |-> m, option |-> o]
  <2>2. q \in CastReqs /\ Start(r, q) /\ UNCHANGED <<claimVars, pollVars>>
    BY <1>1, <2>1 DEF BeginCast, CastReqs
  <2>. HIDE DEF q
  <2>3. /\ ReadIsPolls'
        /\ req' \in [Requests \cup Closers -> {Idle} \cup SeedReqs \cup CastReqs \cup CloseReqs]
    BY <2>2, StartReads DEF claimVars
  <2>4. TypeOK'
    BY <2>2, <2>3 DEF IInv, TypeOK, claimVars, pollVars, Lore!TypeOK, SeedReqs, CastReqs,
                      CloseReqs, Lore!Statuses
  <2>. QED  BY <2>2, <2>3, <2>4, ClaimsAlone
<1>2. CASE CommitCast(r)
  <2>1. req[r] \in CastReqs /\ Finish(r) /\ UNCHANGED <<claimVars, poll, instigation, due>>
    BY <1>2, InFlight DEF CommitCast, IInv
  <2>2. pollVotes' \in [Polls -> [Members -> Options \cup {None}]]
    BY <1>2, <2>1 DEF CommitCast, CastReqs, IInv, TypeOK
  <2>3. /\ ReadIsPolls'
        /\ req' \in [Requests \cup Closers -> {Idle} \cup SeedReqs \cup CastReqs \cup CloseReqs]
    BY <2>1, FinishReads DEF claimVars
  <2>4. TypeOK'
    BY <2>1, <2>2, <2>3 DEF IInv, TypeOK, claimVars, Lore!TypeOK, SeedReqs, CastReqs, CloseReqs,
                            Lore!Statuses
  <2>. QED  BY <2>1, <2>3, <2>4, ClaimsAlone
<1>. QED  BY <1>1, <1>2

\* The reads of a close: the claim it takes is one of its poll's.
LEMMA ReadsKeep ==
  ASSUME IInv, NEW k \in Closers,
         (\E p \in Polls : BeginClose(k, p)) \/ ReadVotes(k) \/ ReadClaim(k)
  PROVE  IInv'
<1>1. UNCHANGED <<claimVars, pollVars>>  BY DEF BeginClose, ReadVotes, ReadClaim
<1>2. PICK q \in CloseReqs :
        /\ req' = [req EXCEPT ![k] = q]
        /\ ReadOK(q)
  <2>1. ASSUME NEW p \in Polls, BeginClose(k, p)
        PROVE  \E q \in CloseReqs : /\ req' = [req EXCEPT ![k] = q]
                                    /\ ReadOK(q)
    <3>. DEFINE q == [op |-> "close", poll |-> p, pc |-> "votes", winner |-> None,
                      claim |-> None, was |-> None]
    <3>1. q \in CloseReqs /\ ReadOK(q)  BY DEF CloseReqs, ReadOK
    <3>2. req' = [req EXCEPT ![k] = q]  BY <2>1 DEF BeginClose, Start
    <3>. HIDE DEF q
    <3>. QED  BY <3>1, <3>2
  <2>2. CASE ReadVotes(k)
    <3>1. req[k] \in CloseReqs /\ ReadOK(req[k])
      BY <2>2, InFlight DEF ReadVotes, IInv, ReadIsPolls
    <3>2. CASE req' = [req EXCEPT ![k].pc = "skip"]
      <4>. DEFINE q == [req[k] EXCEPT !.pc = "skip"]
      <4>1. q \in CloseReqs /\ ReadOK(q)  BY <3>1 DEF CloseReqs, ReadOK
      <4>2. req' = [req EXCEPT ![k] = q]  BY <3>2
      <4>. HIDE DEF q
      <4>. QED  BY <4>1, <4>2
    <3>3. ASSUME NEW o \in Winners(req[k].poll),
                 req' = [req EXCEPT ![k].pc = "claim", ![k].winner = o]
          PROVE  \E q \in CloseReqs : /\ req' = [req EXCEPT ![k] = q]
                                      /\ ReadOK(q)
      <4>. DEFINE q == [req[k] EXCEPT !.pc = "claim", !.winner = o]
      <4>0. o \in Options  BY DEF Winners
      <4>1. q \in CloseReqs /\ ReadOK(q)  BY <3>1, <4>0 DEF CloseReqs, ReadOK
      <4>2. req' = [req EXCEPT ![k] = q]  BY <3>3 DEF IInv, TypeOK
      <4>. HIDE DEF q
      <4>. QED  BY <4>1, <4>2
    <3>. QED  BY <2>2, <3>2, <3>3 DEF ReadVotes
  <2>3. CASE ReadClaim(k)
    <3>1. req[k] \in CloseReqs /\ ReadOK(req[k])
      BY <2>3, InFlight DEF ReadClaim, IInv, ReadIsPolls
    <3>2. CASE req' = [req EXCEPT ![k].pc = "commit"]
      <4>. DEFINE q == [req[k] EXCEPT !.pc = "commit"]
      <4>1. q \in CloseReqs /\ ReadOK(q)
        BY <2>3, <3>1 DEF ReadClaim, CloseReqs, ReadOK
      <4>2. req' = [req EXCEPT ![k] = q]  BY <3>2
      <4>. HIDE DEF q
      <4>. QED  BY <4>1, <4>2
    <3>3. ASSUME NEW c \in ClaimsOf(req[k].poll),
                 req' = [req EXCEPT ![k].pc = "commit", ![k].claim = c, ![k].was = status[c]]
          PROVE  \E q \in CloseReqs : /\ req' = [req EXCEPT ![k] = q]
                                      /\ ReadOK(q)
      <4>. DEFINE q == [req[k] EXCEPT !.pc = "commit", !.claim = c, !.was = status[c]]
      <4>0. /\ c \in ClaimIds /\ sourcePoll[c] = req[k].poll /\ req[k].poll \in Polls
            /\ status[c] \in Lore!Statuses
        BY <3>1 DEF ClaimsOf, CloseReqs, IInv, TypeOK, Lore!TypeOK
      <4>3. sourcePoll[c] # None  BY <4>0, PollConstants
      <4>1. q \in CloseReqs /\ ReadOK(q)
        BY <2>3, <3>1, <4>0, <4>3 DEF ReadClaim, CloseReqs, ReadOK
      <4>2. req' = [req EXCEPT ![k] = q]  BY <3>3 DEF IInv, TypeOK
      <4>. HIDE DEF q
      <4>. QED  BY <4>1, <4>2
    <3>. QED  BY <2>3, <3>2, <3>3 DEF ReadClaim
  <2>. QED  BY <2>1, <2>2, <2>3
<1>3. TypeOK'
  BY <1>1, <1>2 DEF IInv, TypeOK, claimVars, pollVars, Lore!TypeOK, Lore!Statuses
<1>4. ReadIsPolls'
  BY <1>1, <1>2 DEF IInv, TypeOK, ReadIsPolls, ReadOK, claimVars
<1>. QED  BY <1>1, <1>3, <1>4, ClaimsAlone

\* What resolving a poll leaves behind.
LEMMA ResolvedPoll ==
  ASSUME TypeOK, NEW p \in Polls, NEW w \in Options \cup {None},
         NEW outcome \in {"resolved", "skipped"}, ResolvePoll(p, w, outcome)
  PROVE  /\ poll' \in [Polls -> [status : {"absent", "open", "closed"},
                                winner : Options \cup {None}]]
         /\ instigation' \in [Polls -> {"absent", "polling", "resolved", "skipped"}]
         /\ UNCHANGED <<pollVotes, due>>
         /\ \A o \in Polls : o # p => poll'[o] = poll[o]
<1>. DEFINE closed == [status |-> "closed", winner |-> w]
<1>1. closed \in [status : {"absent", "open", "closed"}, winner : Options \cup {None}]
  OBVIOUS
<1>2. poll' = [poll EXCEPT ![p] = closed]  BY DEF ResolvePoll
<1>. HIDE DEF closed
<1>. QED  BY <1>1, <1>2 DEF ResolvePoll, TypeOK

\* A skipped poll rejects its own open claim only, which challenges nothing.
LEMMA SkipKeeps == ASSUME IInv, NEW k \in Closers, CommitSkip(k) PROVE IInv'
<1>. DEFINE p == req[k].poll
            rejected == Rejectable(p)
<1>1. /\ req[k] \in CloseReqs /\ p \in Polls /\ Finish(k) /\ TypeOK
      /\ UNCHANGED <<challenged, sourcePoll, statement>>
      /\ ResolvePoll(p, poll[p].winner, "skipped")
  BY InFlight DEF CommitSkip, IInv, CloseReqs
<1>2. poll[p].winner \in Options \cup {None}  BY <1>1 DEF TypeOK
<1>3. /\ poll' \in [Polls -> [status : {"absent", "open", "closed"},
                             winner : Options \cup {None}]]
      /\ instigation' \in [Polls -> {"absent", "polling", "resolved", "skipped"}]
      /\ UNCHANGED <<pollVotes, due>>
  BY <1>1, <1>2, ResolvedPoll
<1>4. \A c \in rejected : /\ c \in ClaimIds /\ status[c] = "vote" /\ challenged[c] = None
                          /\ \A d \in ClaimIds : challenged[d] # c
  BY <1>1, PollConstants
     DEF Rejectable, ClaimsOf, IInv, PollClaimsChallengeNone, Lore!ChallengedIsSettled,
         TypeOK, Lore!TypeOK
<1>5. /\ status' = [c \in ClaimIds |-> IF c \in rejected THEN "rejected" ELSE status[c]]
      /\ trail' = [c \in ClaimIds |-> IF c \in rejected THEN "rejected" ELSE trail[c]]
  BY DEF CommitSkip
<1>. HIDE DEF rejected
<1>6. status' \in [ClaimIds -> Lore!Statuses] /\ trail' \in [ClaimIds -> Lore!Statuses]
  BY <1>1, <1>5 DEF TypeOK, Lore!TypeOK, Lore!Statuses
<1>7. /\ ReadIsPolls'
      /\ req' \in [Requests \cup Closers -> {Idle} \cup SeedReqs \cup CastReqs \cup CloseReqs]
  BY <1>1, FinishReads
<1>8. TypeOK'
  BY <1>1, <1>3, <1>6, <1>7 DEF TypeOK, Lore!TypeOK, SeedReqs, CastReqs, CloseReqs, Lore!Statuses
<1>9. Lore!ChallengedIsSettled'
  BY <1>1, <1>4, <1>5 DEF IInv, TypeOK, Lore!TypeOK, Lore!ChallengedIsSettled
<1>10. Lore!DisputedHasOpenChallenge'
  <2>. SUFFICES ASSUME NEW d \in ClaimIds, status'[d] = "disputed"
                PROVE  \E c \in ClaimIds : challenged'[c] = d /\ status'[c] = "vote"
    BY DEF Lore!DisputedHasOpenChallenge
  <2>1. status[d] = "disputed"  BY <1>5
  <2>2. PICK c \in ClaimIds : challenged[c] = d /\ status[c] = "vote"
    BY <2>1 DEF IInv, Lore!DisputedHasOpenChallenge
  <2>3. c \notin rejected  BY <1>4, <2>2, PollConstants
  <2>. QED  BY <1>1, <1>5, <2>2, <2>3
<1>11. OneEach'  BY <1>1 DEF IInv, OneEach
<1>12. PollClaimsChallengeNone'
  BY <1>1, <1>4, <1>5 DEF IInv, PollClaimsChallengeNone
<1>. QED  BY <1>7, <1>8, <1>9, <1>10, <1>11, <1>12 DEF IInv

\* The claim that is rewritten challenges nothing, whatever has become of it.
LEMMA RewriteKeeps == ASSUME IInv, NEW k \in Closers, CommitRewrite(k) PROVE IInv'
<1>. DEFINE p == req[k].poll
            c == req[k].claim
            w == req[k].winner
<1>1. /\ req[k] \in CloseReqs /\ p \in Polls /\ c \in ClaimIds /\ Finish(k) /\ TypeOK
      /\ w \in Options /\ UNCHANGED <<challenged, sourcePoll>>
      /\ ResolvePoll(p, w, "resolved")
  BY InFlight DEF CommitRewrite, IInv, CloseReqs, ReadIsPolls, ReadOK
<1>3. /\ poll' \in [Polls -> [status : {"absent", "open", "closed"},
                             winner : Options \cup {None}]]
      /\ instigation' \in [Polls -> {"absent", "polling", "resolved", "skipped"}]
      /\ UNCHANGED <<pollVotes, due>>
  BY <1>1, ResolvedPoll
<1>4. sourcePoll[c] # None /\ challenged[c] = None /\ status[c] # "absent"
  BY <1>1 DEF IInv, ReadIsPolls, ReadOK, PollClaimsChallengeNone, CommitRewrite
<1>5. /\ status' = [status EXCEPT ![c] = "canon"]
      /\ statement' = [statement EXCEPT ![c] = w]
      /\ trail' = [trail EXCEPT ![c] = IF req[k].was # "canon" THEN "canon" ELSE @]
  BY DEF CommitRewrite
<1>6. /\ status' \in [ClaimIds -> Lore!Statuses] /\ trail' \in [ClaimIds -> Lore!Statuses]
      /\ statement' \in [ClaimIds -> Options \cup {"claim"}]
  BY <1>1, <1>5 DEF TypeOK, Lore!TypeOK, Lore!Statuses
<1>7. /\ ReadIsPolls'
      /\ req' \in [Requests \cup Closers -> {Idle} \cup SeedReqs \cup CastReqs \cup CloseReqs]
  BY <1>1, FinishReads
<1>8. TypeOK'
  BY <1>1, <1>3, <1>6, <1>7 DEF TypeOK, Lore!TypeOK, SeedReqs, CastReqs, CloseReqs, Lore!Statuses
<1>. HIDE DEF c
<1>9. Lore!ChallengedIsSettled'
  BY <1>1, <1>5 DEF IInv, TypeOK, Lore!TypeOK, Lore!ChallengedIsSettled
<1>10. Lore!DisputedHasOpenChallenge'
  <2>. SUFFICES ASSUME NEW d \in ClaimIds, status'[d] = "disputed"
                PROVE  \E b \in ClaimIds : challenged'[b] = d /\ status'[b] = "vote"
    BY DEF Lore!DisputedHasOpenChallenge
  <2>1. status[d] = "disputed"  BY <1>1, <1>5 DEF TypeOK, Lore!TypeOK
  <2>2. PICK b \in ClaimIds : challenged[b] = d /\ status[b] = "vote"
    BY <2>1 DEF IInv, Lore!DisputedHasOpenChallenge
  <2>3. b # c  BY <1>4, <2>2, PollConstants
  <2>. QED  BY <1>1, <1>5, <2>2, <2>3 DEF TypeOK, Lore!TypeOK
<1>11. OneEach'  BY <1>1 DEF IInv, OneEach
<1>12. PollClaimsChallengeNone'
  BY <1>1, <1>4, <1>5 DEF IInv, PollClaimsChallengeNone, TypeOK, Lore!TypeOK
<1>. QED  BY <1>7, <1>8, <1>9, <1>10, <1>11, <1>12 DEF IInv

LEMMA InsertCommitKeeps == ASSUME IInv, NEW k \in Closers, CommitInsert(k) PROVE IInv'
<1>. DEFINE p == req[k].poll
            w == req[k].winner
<1>1. /\ req[k] \in CloseReqs /\ p \in Polls /\ Finish(k) /\ TypeOK /\ w \in Options
      /\ ResolvePoll(p, w, "resolved")
  BY InFlight DEF CommitInsert, IInv, CloseReqs, ReadIsPolls, ReadOK
<1>2. /\ poll' \in [Polls -> [status : {"absent", "open", "closed"},
                             winner : Options \cup {None}]]
      /\ instigation' \in [Polls -> {"absent", "polling", "resolved", "skipped"}]
      /\ UNCHANGED <<pollVotes, due>>
  BY <1>1, ResolvedPoll
<1>3. CASE Unclaimed(p)
  <2>1. PICK c \in ClaimIds : InsertClaim(c, p, "canon", w)  BY <1>3 DEF CommitInsert
  <2>. QED  BY <1>1, <1>2, <1>3, <2>1, InsertKeeps
<1>4. CASE UNCHANGED claimVars
  <2>1. /\ ReadIsPolls'
        /\ req' \in [Requests \cup Closers -> {Idle} \cup SeedReqs \cup CastReqs \cup CloseReqs]
    BY <1>1, <1>4, FinishReads DEF claimVars
  <2>2. TypeOK'
    BY <1>1, <1>2, <1>4, <2>1 DEF TypeOK, claimVars, Lore!TypeOK, SeedReqs, CastReqs, CloseReqs,
                                  Lore!Statuses
  <2>. QED  BY <1>4, <2>1, <2>2, ClaimsAlone
<1>. QED  BY <1>3, <1>4 DEF CommitInsert

LEMMA AbortKeeps ==
  ASSUME IInv, NEW r \in Requests \cup Closers, Abort(r) PROVE IInv'
<1>1. UNCHANGED <<claimVars, pollVars>> /\ Finish(r)  BY DEF Abort
<1>2. /\ ReadIsPolls'
      /\ req' \in [Requests \cup Closers -> {Idle} \cup SeedReqs \cup CastReqs \cup CloseReqs]
  BY <1>1, FinishReads DEF claimVars
<1>3. TypeOK'
  BY <1>1, <1>2 DEF IInv, TypeOK, claimVars, pollVars, Lore!TypeOK, SeedReqs, CastReqs,
                    CloseReqs, Lore!Statuses
<1>. QED  BY <1>1, <1>2, <1>3, ClaimsAlone

LEMMA QuietKeeps ==
  ASSUME IInv, UNCHANGED <<claimVars, poll, instigation, pollVotes, req>>,
         due' \subseteq Polls
  PROVE  IInv'
<1>1. TypeOK'
  BY DEF IInv, TypeOK, claimVars, Lore!TypeOK, SeedReqs, CastReqs, CloseReqs, Lore!Statuses
<1>2. ReadIsPolls'  BY DEF IInv, ReadIsPolls, ReadOK, claimVars
<1>. QED  BY <1>1, <1>2, ClaimsAlone

LEMMA InitHolds == Init => IInv
<1>. SUFFICES ASSUME Init PROVE IInv  OBVIOUS
<1>1. TypeOK
  BY DEF Init, TypeOK, Lore!Init, Lore!TypeOK, Lore!Statuses, NoPoll
<1>2. Lore!ChallengedIsSettled /\ Lore!DisputedHasOpenChallenge
  BY DEF Init, Lore!Init, Lore!ChallengedIsSettled, Lore!DisputedHasOpenChallenge
<1>3. OneEach /\ PollClaimsChallengeNone /\ ReadIsPolls
  BY DEF Init, Lore!Init, OneEach, PollClaimsChallengeNone, ReadIsPolls, Idle
<1>. QED  BY <1>1, <1>2, <1>3 DEF IInv

LEMMA NextKeeps == IInv /\ [Next]_vars => IInv'
<1>. SUFFICES ASSUME IInv, [Next]_vars PROVE IInv'  OBVIOUS
<1>1. CASE LoreStep  BY <1>1, LoreStepKeeps
<1>2. ASSUME NEW p \in Polls, Expire(p) PROVE IInv'
  BY <1>2, QuietKeeps DEF Expire, IInv, TypeOK
<1>3. ASSUME NEW r \in Requests, \E p \in Polls : SeedPoll(r, p) \/ BeginCast(r, p)
      PROVE  IInv'
  BY <1>3, SeedKeeps, CastKeeps
<1>4. ASSUME NEW r \in Requests, EnsureClaim(r) \/ CommitCast(r) \/ Abort(r) PROVE IInv'
  BY <1>4, SeedKeeps, CastKeeps, AbortKeeps
<1>5. ASSUME NEW k \in Closers,
             (\E p \in Polls : BeginClose(k, p)) \/ ReadVotes(k) \/ ReadClaim(k)
      PROVE  IInv'
  BY <1>5, ReadsKeep
<1>6. ASSUME NEW k \in Closers,
             CommitSkip(k) \/ CommitRewrite(k) \/ CommitInsert(k) \/ Abort(k)
      PROVE  IInv'
  BY <1>6, SkipKeeps, RewriteKeeps, InsertCommitKeeps, AbortKeeps
<1>7. CASE UNCHANGED vars
  BY <1>7, QuietKeeps DEF vars, pollVars, IInv, TypeOK
<1>. QED  BY <1>1, <1>2, <1>3, <1>4, <1>5, <1>6, <1>7 DEF Next

LEMMA PollInvariant == Spec => []IInv
  BY InitHolds, NextKeeps, PTL DEF Spec

-----------------------------------------------------------------------------
(* Theorems *)

\* Seeds, their retries and the close open one claim for a poll between them
\* (ensurePollLoreClaim and the close's insert, both ON CONFLICT DO NOTHING).
THEOREM PollHasOneClaim == Spec => []OneClaimPerPoll
<1>1. IInv => OneClaimPerPoll
  <2>. SUFFICES ASSUME IInv, NEW p \in Polls PROVE Cardinality(ClaimsOf(p)) <= 1
    BY DEF OneClaimPerPoll
  <2>1. CASE ClaimsOf(p) = {}
    BY <2>1, FS_EmptySet
  <2>2. CASE ClaimsOf(p) # {}
    <3>1. PICK c : ClaimsOf(p) = {c}
      BY <2>2, PollConstants DEF ClaimsOf, IInv, OneEach
    <3>2. Cardinality({c}) = 1  BY FS_Singleton
    <3>. QED  BY <3>1, <3>2
  <2>. QED  BY <2>1, <2>2
<1>. QED  BY <1>1, PollInvariant, PTL

\* The instigator's own writes, based on stale reads or not, leave a disputed claim its
\* open challenge, and a challenged claim settled (closePoll, ensurePollLoreClaim).
THEOREM DisputesResolvable == Spec => []DisputesStayResolvable
<1>1. IInv => DisputesStayResolvable  BY DEF IInv, DisputesStayResolvable
<1>. QED  BY <1>1, PollInvariant, PTL

\* A close at work is the only one of its poll, which is open.
OneCloseEach ==
  \A k \in Closers : req[k].op = "close" =>
    /\ poll[req[k].poll].status = "open"
    /\ \A j \in Closers : req[j].op = "close" /\ req[j].poll = req[k].poll => j = k

\* What any step does to the polls and the closes of them.
LEMMA StepOfPolls ==
  ASSUME IInv, OneCloseEach, [Next]_vars
  PROVE  /\ OneCloseEach'
         /\ \A p \in Polls : poll[p].status = "closed" => poll'[p] = poll[p]
<1>. DEFINE Goal == /\ OneCloseEach'
                    /\ \A p \in Polls : poll[p].status = "closed" => poll'[p] = poll[p]
<1>0. TypeOK /\ \A k \in Closers : req[k].op = "close" => req[k] \in CloseReqs
  BY InFlight DEF IInv
<1>1. ASSUME UNCHANGED poll, \A k \in Closers : req'[k] = req[k] \/ req'[k].op # "close"
      PROVE  Goal
  BY <1>1 DEF OneCloseEach
<1>2. ASSUME NEW r \in Requests, NEW p \in Polls, SeedPoll(r, p) PROVE Goal
  <2>1. \A k \in Closers : req'[k] = req[k]
    BY <1>0, <1>2, PollConstants DEF SeedPoll, Start, TypeOK
  <2>2. \A q \in Polls : poll[q].status # "absent" => poll'[q] = poll[q]
    BY <1>0, <1>2 DEF SeedPoll, TypeOK
  <2>. QED  BY <1>0, <2>1, <2>2 DEF OneCloseEach, CloseReqs
<1>3. ASSUME NEW k \in Closers, NEW p \in Polls, BeginClose(k, p) PROVE Goal
  <2>. DEFINE new == [op |-> "close", poll |-> p, pc |-> "votes", winner |-> None,
                      claim |-> None, was |-> None]
  <2>1. /\ req' = [req EXCEPT ![k] = new] /\ poll' = poll /\ poll[p].status = "open"
        /\ \A j \in Closers : req[j].op = "close" => req[j].poll # p
    BY <1>3, Zenon DEF BeginClose, Start, Closable, pollVars
  <2>2. new.op = "close" /\ new.poll = p  OBVIOUS
  <2>. HIDE DEF new
  <2>3. req'[k] = new /\ \A j \in Closers : j # k => req'[j] = req[j]
    BY <1>0, <2>1 DEF TypeOK
  <2>. QED  BY <2>1, <2>2, <2>3 DEF OneCloseEach
<1>4. ASSUME NEW k \in Closers, ReadVotes(k) \/ ReadClaim(k) PROVE Goal
  <2>0. poll' = poll /\ req[k].op = "close" /\ req[k] \in CloseReqs
    BY <1>0, <1>4 DEF ReadVotes, ReadClaim, pollVars
  <2>. DEFINE Further(n) == n.op = "close" /\ n.poll = req[k].poll
  <2>1. \E n : req' = [req EXCEPT ![k] = n] /\ Further(n)
    <3>1. CASE ReadVotes(k)
      <4>1. CASE req' = [req EXCEPT ![k].pc = "skip"]
        <5>. DEFINE n == [req[k] EXCEPT !.pc = "skip"]
        <5>1. Further(n)  BY <2>0 DEF CloseReqs
        <5>2. req' = [req EXCEPT ![k] = n]  BY <4>1
        <5>. HIDE DEF n, Further
        <5>. QED  BY <5>1, <5>2
      <4>2. ASSUME NEW o \in Winners(req[k].poll),
                   req' = [req EXCEPT ![k].pc = "claim", ![k].winner = o]
            PROVE  \E n : req' = [req EXCEPT ![k] = n] /\ Further(n)
        <5>. DEFINE n == [req[k] EXCEPT !.pc = "claim", !.winner = o]
        <5>1. Further(n)  BY <2>0 DEF CloseReqs
        <5>2. req' = [req EXCEPT ![k] = n]  BY <1>0, <4>2 DEF TypeOK
        <5>. HIDE DEF n, Further
        <5>. QED  BY <5>1, <5>2
      <4>. QED  BY <3>1, <4>1, <4>2 DEF ReadVotes
    <3>2. CASE ReadClaim(k)
      <4>1. CASE req' = [req EXCEPT ![k].pc = "commit"]
        <5>. DEFINE n == [req[k] EXCEPT !.pc = "commit"]
        <5>1. Further(n)  BY <2>0 DEF CloseReqs
        <5>2. req' = [req EXCEPT ![k] = n]  BY <4>1
        <5>. HIDE DEF n, Further
        <5>. QED  BY <5>1, <5>2
      <4>2. ASSUME NEW c \in ClaimsOf(req[k].poll),
                   req' = [req EXCEPT ![k].pc = "commit", ![k].claim = c, ![k].was = status[c]]
            PROVE  \E n : req' = [req EXCEPT ![k] = n] /\ Further(n)
        <5>. DEFINE n == [req[k] EXCEPT !.pc = "commit", !.claim = c, !.was = status[c]]
        <5>1. Further(n)  BY <2>0 DEF CloseReqs
        <5>2. req' = [req EXCEPT ![k] = n]  BY <1>0, <4>2 DEF TypeOK
        <5>. HIDE DEF n, Further
        <5>. QED  BY <5>1, <5>2
      <4>. QED  BY <3>2, <4>1, <4>2 DEF ReadClaim
    <3>. QED  BY <1>4, <3>1, <3>2
  <2>2. PICK n : req' = [req EXCEPT ![k] = n] /\ Further(n)  BY <2>1
  <2>3. req'[k] = n /\ \A j \in Closers : j # k => req'[j] = req[j]
    BY <1>0, <2>2 DEF TypeOK
  <2>. QED  BY <2>0, <2>2, <2>3 DEF OneCloseEach
<1>5. ASSUME NEW k \in Closers, CommitSkip(k) \/ CommitRewrite(k) \/ CommitInsert(k)
      PROVE  Goal
  <2>1. /\ req[k].op = "close" /\ req[k] \in CloseReqs /\ Finish(k)
        /\ \A q \in Polls : q # req[k].poll => poll'[q] = poll[q]
    BY <1>0, <1>5 DEF CommitSkip, CommitRewrite, CommitInsert, ResolvePoll, TypeOK
  <2>2. req'[k] = Idle /\ \A j \in Closers : j # k => req'[j] = req[j]
    BY <1>0, <2>1 DEF Finish, TypeOK
  <2>. QED  BY <1>0, <2>1, <2>2 DEF OneCloseEach, CloseReqs, Idle
<1>6. ASSUME NEW r \in Requests, (\E p \in Polls : BeginCast(r, p)) \/ EnsureClaim(r)
                                    \/ CommitCast(r)
      PROVE  Goal
  <2>1. poll' = poll /\ \A k \in Closers : req'[k] = req[k]
    BY <1>0, <1>6, PollConstants
       DEF BeginCast, EnsureClaim, CommitCast, Start, Finish, pollVars, TypeOK
  <2>. QED  BY <1>1, <2>1
<1>7. ASSUME NEW r \in Requests \cup Closers, Abort(r) PROVE Goal
  <2>1. poll' = poll /\ \A k \in Closers : req'[k] = req[k] \/ req'[k].op # "close"
    BY <1>0, <1>7 DEF Abort, Finish, pollVars, TypeOK, Idle
  <2>. QED  BY <1>1, <2>1
<1>8. CASE LoreStep \/ (\E p \in Polls : Expire(p)) \/ UNCHANGED vars
  BY <1>1, <1>8 DEF LoreStep, Expire, vars, pollVars
<1>. QED  BY <1>2, <1>3, <1>4, <1>5, <1>6, <1>7, <1>8 DEF Next

\* A closed poll keeps its status and its winner: no later vote and no retry of the close
\* counts it again (the early return of closePoll).
THEOREM PollResultIsFinal == Spec => ResultIsFinal
<1>1. Init => OneCloseEach  BY DEF Init, OneCloseEach, Idle
<1>2. IInv /\ OneCloseEach /\ [Next]_vars => OneCloseEach'  BY StepOfPolls
<1>3. Spec => [](IInv /\ OneCloseEach)  BY <1>1, <1>2, PollInvariant, PTL DEF Spec
<1>4. IInv /\ OneCloseEach /\ [Next]_vars
        => [\A p \in Polls : poll[p].status = "closed" => poll'[p] = poll[p]]_vars
  BY StepOfPolls
<1>. QED  BY <1>3, <1>4, PTL DEF Spec, ResultIsFinal
=============================================================================
