----------------------------- MODULE LoreClaims -----------------------------
(***************************************************************************)
(* The league-lore claim engine (src/lore/engine.ts), the route that       *)
(* submits claims and the job that closes votes.                           *)
(*                                                                         *)
(* Every operation is one READ COMMITTED transaction: it reads rows, checks *)
(* them, and later writes.  A request therefore takes several steps, other *)
(* requests commit between them, and only the WHERE clause of the final    *)
(* UPDATE is evaluated atomically with its write.  The writes of one       *)
(* transaction commit together, so they are one action.                    *)
(***************************************************************************)
EXTENDS Integers, Sequences, FiniteSets

CONSTANTS
  MaxClaims,      \* bound: rows of lore_claims
  Members,        \* the league's members
  Choices,        \* inputs: the vote choices members use (affirm, reject, abstain)
  Submissions,    \* inputs: outcome of the verification, relation, and submitter
  StewardActions, \* inputs: tiebreak (ratify or reject), override, extend, veto
  InngestMock,    \* env.jobs.inngest.mode = "mock": the route sends no event
  None,           \* SQL NULL
  Requests,       \* bound: API requests in flight at once
  Workers,        \* bound: runs of the vote-close job in flight at once
  VoteWindow,     \* DEFAULT_VOTE_DAYS, in clock ticks
  Skew,           \* ticks between capturing `timestamp` and the first read
  MaxTime,        \* bound: the last instant of the clock
  MaxAttempts     \* attempts the job runner makes for one event

ClaimIds == 1..MaxClaims
Times == 0..MaxTime

VARIABLES
  now,            \* the clock
  status,         \* lore_claims.status, "absent" while the row does not exist
  relation,       \* lore_claims.relation
  branchOf,       \* lore_claims.branch_of
  closesAt,       \* lore_claims.vote_closes_at
  ratifiedBy,     \* lore_claims.ratified_by
  votes,          \* lore_votes: votes[c][m] is m's choice on c, or None
  events,         \* lore_events of each claim, without the "voted" rows: the table
                  \* keeps no order of theirs, see Record
  job,            \* the lore.vote.close event of each claim
  req             \* what each transaction in flight has read

claimVars == <<status, relation, branchOf, closesAt, ratifiedBy>>
vars == <<now, claimVars, votes, events, job, req>>

Statuses == {"absent", "vote", "canon", "disputed", "rejected", "superseded"}
Standing == {"canon", "disputed"}
\* "response" stands for response and addendum, "dispute" for dispute and relitigation.
Relations == {"root", "response", "dispute"}
Decisions == {"canon", "rejected"}

ASSUME BoundsAssumption ==
  /\ MaxClaims \in Nat /\ MaxTime \in Nat /\ Skew \in Nat /\ MaxAttempts \in Nat
  /\ VoteWindow \in Nat \ {0}
  /\ None \notin ClaimIds /\ None \notin Statuses
  /\ None \notin {"affirm", "reject", "abstain", "steward", "verified"}
  /\ Requests \cap Workers = {}
  /\ IsFiniteSet(Members)
  /\ Choices \subseteq {"affirm", "reject", "abstain"}
  /\ Submissions \subseteq [outcome : {"vote"} \cup Decisions, relation : Relations,
                             viaRoute : BOOLEAN]
  /\ \A s \in Submissions : s.viaRoute \/ s.relation = "root"  \* record hooks submit roots
  /\ StewardActions \subseteq {"tiebreak", "override", "extend", "veto"}
  /\ InngestMock \in BOOLEAN

L == INSTANCE ClaimLifecycle WITH
       challenged <- [c \in ClaimIds |->
                        IF relation[c] = "dispute" THEN branchOf[c] ELSE None]

\* The claim whose status the verdict on c settles, if c is a challenge.
Challenged(c) == IF relation[c] = "dispute" THEN branchOf[c] ELSE None

-----------------------------------------------------------------------------
(* Tallies *)

Count(c, choice) == Cardinality({m \in Members : votes[c][m] = choice})

\* buildTally: max(3, ceil(activeMembers * 0.34)).
Quorum ==
  LET third == (Cardinality(Members) * 34 + 99) \div 100
  IN  IF third > 3 THEN third ELSE 3

\* A faulty tally that forgets the quorum.
CanonizeByMajority(c) == Count(c, "affirm") > Count(c, "reject")

ShouldCanonize(c) ==
  /\ Count(c, "affirm") > Count(c, "reject")
  /\ Count(c, "affirm") >= Quorum

\* stewardTiebreakReason is not null.
TiebreakEligible(c, expired) ==
  \/ expired
  \/ Count(c, "affirm") > 0 /\ Count(c, "affirm") = Count(c, "reject")
  \/ Count(c, "affirm") > Count(c, "reject") /\ Count(c, "affirm") < Quorum

-----------------------------------------------------------------------------
(* Requests in flight *)

Idle == [op |-> "idle"]

SubmitReqs ==
  [op : {"submit"}, outcome : {"vote"} \cup Decisions, relation : Relations,
   branchOf : ClaimIds \cup {None}, closesAt : Times \cup {None},
   viaRoute : BOOLEAN, parentWas : Statuses \cup {None}]
CastReqs == [op : {"cast"}, claim : ClaimIds, voter : Members, choice : Choices]
DecideReqs ==
  [op : {"close", "tiebreak", "override"}, pc : {"tally", "commit"},
   claim : ClaimIds, expired : BOOLEAN, next : Decisions \cup {None},
   parentWas : Statuses \cup {None}]
ExtendReqs == [op : {"extend"}, claim : ClaimIds, until : Times]
VetoReqs == [op : {"veto"}, claim : ClaimIds]

ReqStates == {Idle} \cup SubmitReqs \cup CastReqs \cup DecideReqs \cup ExtendReqs \cup VetoReqs

\* A timestamp is captured before the transaction takes its connection.
Captured == {t \in Times : t <= now /\ now - t <= Skew}

Start(r, q) == req[r] = Idle /\ req' = [req EXCEPT ![r] = q]
Finish(r) == req' = [req EXCEPT ![r] = Idle]

Event(kind, reason, before, after) ==
  [kind |-> kind, reason |-> reason, before |-> before, after |-> after]

\* A faulty trail that forgets the claim on the other side of a challenge.
RecordOwnOnly(c, own, p, other) == events' = [events EXCEPT ![c] = @ \o own]

\* lore_events inserted by one transaction: `own` for c, `other` for p.  Appending lists
\* them in the order of the commits, which the table does not keep: created_at is the
\* start of the transaction and the id is random.  So nothing below reads a position, only
\* which rows there are and how many.
Record(c, own, p, other) ==
  events' = [k \in ClaimIds |->
               IF k = c THEN events[k] \o own
               ELSE IF k = p THEN events[k] \o other ELSE events[k]]

Extended(c) ==
  \E i \in DOMAIN events[c] : events[c][i].reason = "steward:extend"

NoJob == [state |-> "none", at |-> 0, failures |-> 0]

-----------------------------------------------------------------------------
(* submitLoreClaim: the reads, and assertBranchRelation *)

BeginSubmit(r) ==
  \E s \in Submissions, p \in ClaimIds \cup {None}, t \in Captured :
    /\ p = None <=> s.relation = "root"
    /\ p # None => status[p] # "absent"
    /\ s.relation = "dispute" => status[p] = "canon"
    /\ t + VoteWindow <= MaxTime
    /\ Start(r, [op |-> "submit", outcome |-> s.outcome, relation |-> s.relation,
                 branchOf |-> p, viaRoute |-> s.viaRoute, parentWas |-> None,
                 closesAt |-> IF s.outcome = "vote" THEN t + VoteWindow ELSE None])
    /\ UNCHANGED <<now, claimVars, votes, events, job>>

\* The row a committing submit inserts takes the next free identifier.
NextId(c) == status[c] = "absent" /\ \A d \in 1..(c - 1) : status[d] # "absent"

InsertClaim(c, q, by) ==
  /\ NextId(c)
  /\ relation' = [relation EXCEPT ![c] = q.relation]
  /\ branchOf' = [branchOf EXCEPT ![c] = q.branchOf]
  /\ closesAt' = [closesAt EXCEPT ![c] = q.closesAt]
  /\ ratifiedBy' = [ratifiedBy EXCEPT ![c] = by]

\* The conditional UPDATE of markChallengeOpenedInTx; else LORE_DISPUTE_OPEN_FAILED.
OpensDispute(p) == p # None => status[p] = "canon"

\* createVotingClaimInTx and markChallengeOpenedInTx.
CommitVotingClaim(r, c) ==
  LET q == req[r]
      p == IF q.relation = "dispute" THEN q.branchOf ELSE None
  IN
    /\ q.op = "submit" /\ q.outcome = "vote"
    /\ OpensDispute(p)
    /\ InsertClaim(c, q, None)
    /\ status' = [L!UpdateStatus(status, p, {"canon"}, "disputed") EXCEPT ![c] = "vote"]
    /\ Record(c, <<Event("created", "claim_opened", None, "vote"),
                   Event("vote_opened", "claim_opened", None, "vote")>>,
              p, <<Event("disputed", "dispute_opened", "canon", "disputed")>>)
    /\ job' = [job EXCEPT ![c] =
                 [state |-> IF q.viaRoute /\ ~InngestMock THEN "unsent" ELSE "none",
                  at |-> q.closesAt, failures |-> 0]]
    /\ Finish(r)
    /\ UNCHANGED <<now, votes>>

\* resolveChallengeInTx reads the challenged claim before it updates it.
ReadChallenged(r) ==
  LET q == req[r]
      p == IF q.op = "submit"
           THEN IF q.relation = "dispute" THEN q.branchOf ELSE None
           ELSE Challenged(q.claim)
  IN
    /\ \/ q.op = "submit" /\ q.outcome \in Decisions
       \/ q.op \in {"close", "tiebreak", "override"} /\ q.pc = "commit"
    /\ p # None /\ q.parentWas = None
    /\ req' = [req EXCEPT ![r].parentWas = status[p]]
    /\ UNCHANGED <<now, claimVars, votes, events, job>>

\* The status update, the event rows and resolveChallengeInTx of a verdict.
ApplyVerdict(c, p, next, seen, own, reason) ==
  /\ p # None => seen # None
  /\ status' = L!AfterVerdict(status, c, p, next)
  /\ Record(c, own, p,
            IF p = None \/ status[p] \notin L!Unsettled(next) THEN <<>>
            ELSE <<Event(IF next = "canon" THEN "superseded" ELSE "disputed",
                         reason, seen, L!Outcome(next))>>)

VerdictKind(next) == IF next = "canon" THEN "ratified" ELSE "rejected"

\* createResolvedDataClaimInTx: `match` canonizes, `contradiction` rejects.
CommitDataClaim(r, c) ==
  LET q == req[r]
      p == IF q.relation = "dispute" THEN q.branchOf ELSE None
  IN
    /\ q.op = "submit" /\ q.outcome \in Decisions
    /\ InsertClaim(c, q, IF q.outcome = "canon" THEN "verified" ELSE None)
    /\ ApplyVerdict(c, p, q.outcome, q.parentWas,
                    <<Event("created", "claim_submitted", None, q.outcome),
                      Event(VerdictKind(q.outcome), "verification", None, q.outcome)>>,
                    "verification")
    /\ Finish(r)
    /\ UNCHANGED <<now, votes, job>>

-----------------------------------------------------------------------------
(* castLoreVote *)

BeginCast(r) ==
  \E c \in ClaimIds, m \in Members, choice \in Choices, t \in Captured :
    /\ status[c] = "vote"                 \* else LORE_CLAIM_NOT_OPEN
    /\ t <= closesAt[c]                   \* else LORE_VOTE_CLOSED
    /\ Start(r, [op |-> "cast", claim |-> c, voter |-> m, choice |-> choice])
    /\ UNCHANGED <<now, claimVars, votes, events, job>>

\* The upsert of the vote checks nothing of the claim's row.
CommitCast(r) ==
  /\ req[r].op = "cast"
  /\ votes' = [votes EXCEPT ![req[r].claim][req[r].voter] = req[r].choice]
  /\ Finish(r)
  /\ UNCHANGED <<now, claimVars, events, job>>

-----------------------------------------------------------------------------
(* stewardLoreClaim *)

\* ratify, reject and override read the claim; the tally is a later read.
BeginDecision(r) ==
  \E c \in ClaimIds, op \in StewardActions \cap {"tiebreak", "override"}, next \in Decisions, t \in Captured :
    /\ status[c] = "vote"                 \* else LORE_CLAIM_NOT_STEWARDABLE
    /\ Start(r, [op |-> op, pc |-> "tally", claim |-> c, next |-> next,
                 expired |-> t >= closesAt[c], parentWas |-> None])
    /\ UNCHANGED <<now, claimVars, votes, events, job>>

\* A steward brings the decision, the closing job takes it from the tally.
Decision(q) ==
  IF q.op # "close" THEN q.next
  ELSE IF ShouldCanonize(q.claim) THEN "canon" ELSE "rejected"

\* loadLoreVoteTally, and the decision taken from it.
ReadTally(r) ==
  LET q == req[r] IN
    /\ q.op \in {"close", "tiebreak", "override"} /\ q.pc = "tally"
    /\ q.op = "tiebreak" => TiebreakEligible(q.claim, q.expired)  \* else LORE_TIEBREAK_NOT_ELIGIBLE
    /\ req' = [req EXCEPT ![r] = [q EXCEPT !.pc = "commit", !.next = Decision(q)]]
    /\ UNCHANGED <<now, claimVars, votes, events, job>>

\* A faulty UPDATE without its condition on the status.
AlwaysOpen(c) == TRUE

\* WHERE status = 'vote' of the UPDATE that ends, or extends, an open vote.
StillOpen(c) == status[c] = "vote"

StewardReason(op) == IF op = "override" THEN "steward:override" ELSE "steward:tiebreak"

\* The conditional UPDATE of a steward's decision; else LORE_STEWARD_ACTION_FAILED.
CommitDecision(r) ==
  LET q == req[r] IN
    /\ q.op \in {"tiebreak", "override"} /\ q.pc = "commit"
    /\ StillOpen(q.claim)
    /\ ApplyVerdict(q.claim, Challenged(q.claim), q.next, q.parentWas,
                    <<Event("steward_action", StewardReason(q.op), "vote", q.next),
                      Event(VerdictKind(q.next), StewardReason(q.op), "vote", q.next)>>,
                    StewardReason(q.op))
    /\ ratifiedBy' = [ratifiedBy EXCEPT ![q.claim] = IF q.next = "canon" THEN "steward" ELSE None]
    /\ Finish(r)
    /\ UNCHANGED <<now, relation, branchOf, closesAt, votes, job>>

\* extend: the claim is open, no extension is on record, the new end is in the future.
BeginExtend(r) ==
  /\ "extend" \in StewardActions
  /\ \E c \in ClaimIds, until \in Times, t \in Captured :
      /\ status[c] = "vote"
      /\ ~Extended(c)                       \* else LORE_VOTE_ALREADY_EXTENDED
      /\ until > t                          \* else LORE_EXTENSION_INVALID
      /\ Start(r, [op |-> "extend", claim |-> c, until |-> until])
      /\ UNCHANGED <<now, claimVars, votes, events, job>>

CommitExtend(r) ==
  LET q == req[r] IN
    /\ q.op = "extend"
    /\ StillOpen(q.claim)                 \* else LORE_EXTENSION_FAILED
    /\ closesAt' = [closesAt EXCEPT ![q.claim] = q.until]
    /\ Record(q.claim, <<Event("steward_action", "steward:extend", "vote", "vote")>>, None, <<>>)
    /\ Finish(r)
    /\ UNCHANGED <<now, status, relation, branchOf, ratifiedBy, votes, job>>

BeginVeto(r) ==
  /\ "veto" \in StewardActions
  /\ \E c \in ClaimIds :
      /\ status[c] = "canon"                \* else LORE_CLAIM_NOT_VETOABLE
      /\ Start(r, [op |-> "veto", claim |-> c])
      /\ UNCHANGED <<now, claimVars, votes, events, job>>

\* A faulty veto that keeps the provenance of the canon it removes.
CommitVetoKeepingRatifier(r) ==
  LET q == req[r] IN
    /\ q.op = "veto"
    /\ status[q.claim] = "canon"
    /\ status' = [status EXCEPT ![q.claim] = "rejected"]
    /\ Record(q.claim, <<Event("rejected", "steward:veto", "canon", "rejected")>>, None, <<>>)
    /\ Finish(r)
    /\ UNCHANGED <<now, relation, branchOf, closesAt, ratifiedBy, votes, job>>

CommitVeto(r) ==
  LET q == req[r] IN
    /\ q.op = "veto"
    /\ status[q.claim] = "canon"
    /\ status' = [status EXCEPT ![q.claim] = "rejected"]
    /\ ratifiedBy' = [ratifiedBy EXCEPT ![q.claim] = None]
    /\ Record(q.claim, <<Event("steward_action", "steward:veto", "canon", "rejected"),
                         Event("rejected", "steward:veto", "canon", "rejected")>>, None, <<>>)
    /\ Finish(r)
    /\ UNCHANGED <<now, relation, branchOf, closesAt, votes, job>>

-----------------------------------------------------------------------------
(* The vote-close job *)

\* scheduleLoreVoteClose, after the submit has committed: one event, due at the
\* deadline the claim was opened with.
ScheduleClose(c) ==
  /\ job[c].state = "unsent"
  /\ job' = [job EXCEPT ![c].state = "scheduled"]
  /\ UNCHANGED <<now, claimVars, votes, events, req>>

\* The route dies, or inngest.send fails, between the commit and the event.
LoseClose(c) ==
  /\ job[c].state = "unsent"
  /\ job' = [job EXCEPT ![c].state = "none"]
  /\ UNCHANGED <<now, claimVars, votes, events, req>>

\* The event is due and its attempts are not used up.
Due(c) ==
  job[c].state = "scheduled" /\ now >= job[c].at /\ job[c].failures < MaxAttempts

\* A faulty job that reports a failed attempt as done.
JobSwallowsFailure(c) == job' = [job EXCEPT ![c].state = "finished"]

JobFails(c) == job' = [job EXCEPT ![c].failures = IF @ < MaxAttempts THEN @ + 1 ELSE @]
JobSucceeds(c) == job' = [job EXCEPT ![c].state = "finished"]

\* The instants at which an attempt for c can have captured its timestamp.
AttemptTimes(c) == {t \in Captured : t >= job[c].at}

\* closeLoreVote reads a claim whose window has closed.
BeginClose(w, c) ==
  /\ Due(c)
  /\ status[c] = "vote"
  /\ \E t \in AttemptTimes(c) : t >= closesAt[c]
  /\ Start(w, [op |-> "close", pc |-> "tally", claim |-> c, next |-> None,
               expired |-> TRUE, parentWas |-> None])
  /\ UNCHANGED <<now, claimVars, votes, events, job>>

\* closeLoreVote reads a settled claim and returns the earlier verdict as reused.
ReuseClose(c) ==
  /\ Due(c)
  /\ status[c] \in {"canon", "rejected"}
  /\ JobSucceeds(c)
  /\ UNCHANGED <<now, claimVars, votes, events, req>>

\* LORE_VOTE_STILL_OPEN or LORE_CLAIM_NOT_CLOSABLE: the attempt throws.
RefuseClose(c) ==
  /\ Due(c)
  /\ \/ status[c] = "vote" /\ \E t \in AttemptTimes(c) : t < closesAt[c]
     \/ status[c] \in {"disputed", "superseded"}
  /\ JobFails(c)
  /\ UNCHANGED <<now, claimVars, votes, events, req>>

\* The conditional UPDATE of closeLoreVote; else LORE_CLAIM_CLOSE_FAILED.  The job
\* runner may not learn that the step succeeded, and then runs it again.
CommitClose(w) ==
  LET q == req[w] IN
    /\ q.op = "close" /\ q.pc = "commit"
    /\ StillOpen(q.claim)
    /\ ApplyVerdict(q.claim, Challenged(q.claim), q.next, q.parentWas,
                    <<Event(VerdictKind(q.next), "vote_threshold", "vote", q.next)>>,
                    "vote_threshold")
    /\ ratifiedBy' = [ratifiedBy EXCEPT ![q.claim] = IF q.next = "canon" THEN "vote" ELSE None]
    /\ JobSucceeds(q.claim) \/ JobFails(q.claim)
    /\ Finish(w)
    /\ UNCHANGED <<now, relation, branchOf, closesAt, votes>>

-----------------------------------------------------------------------------

\* A failed check after the reads, an error or a crash rolls the transaction back.
Abort(r) ==
  /\ req[r] # Idle
  /\ IF req[r].op = "close" THEN JobFails(req[r].claim) ELSE UNCHANGED job
  /\ Finish(r)
  /\ UNCHANGED <<now, claimVars, votes, events>>

Tick ==
  /\ now < MaxTime
  /\ now' = now + 1
  /\ UNCHANGED <<claimVars, votes, events, job, req>>

Init ==
  /\ now = 0
  /\ status = [c \in ClaimIds |-> "absent"]
  /\ relation = [c \in ClaimIds |-> "root"]
  /\ branchOf = [c \in ClaimIds |-> None]
  /\ closesAt = [c \in ClaimIds |-> None]
  /\ ratifiedBy = [c \in ClaimIds |-> None]
  /\ votes = [c \in ClaimIds |-> [m \in Members |-> None]]
  /\ events = [c \in ClaimIds |-> <<>>]
  /\ job = [c \in ClaimIds |-> NoJob]
  /\ req = [r \in Requests \cup Workers |-> Idle]

\* What one API request may do next.
RequestStep(r) ==
  \/ BeginSubmit(r) \/ BeginCast(r) \/ BeginDecision(r) \/ BeginExtend(r) \/ BeginVeto(r)
  \/ \E c \in ClaimIds : CommitVotingClaim(r, c) \/ CommitDataClaim(r, c)
  \/ CommitCast(r) \/ CommitDecision(r) \/ CommitExtend(r) \/ CommitVeto(r)

\* What one run of the job may do after it has read the claim.
WorkerStep(w) == ReadTally(w) \/ ReadChallenged(w) \/ CommitClose(w) \/ Abort(w)

Next ==
  \/ Tick
  \/ \E r \in Requests : RequestStep(r) \/ ReadTally(r) \/ ReadChallenged(r) \/ Abort(r)
  \/ \E w \in Workers : WorkerStep(w) \/ \E c \in ClaimIds : BeginClose(w, c)
  \/ \E c \in ClaimIds : ScheduleClose(c) \/ LoseClose(c) \/ ReuseClose(c) \/ RefuseClose(c)

Spec == Init /\ [][Next]_vars

\* Time passes, the job runner delivers a due event, and a run of the job ends.
Fairness ==
  /\ WF_vars(Tick)
  /\ \A w \in Workers : WF_vars(WorkerStep(w))
  /\ \A c \in ClaimIds :
       WF_vars(RefuseClose(c) \/ ReuseClose(c) \/ \E w \in Workers : BeginClose(w, c))

FairSpec == Spec /\ Fairness

-----------------------------------------------------------------------------
(* Properties *)

EventKinds == {"created", "vote_opened", "ratified", "rejected", "disputed",
               "superseded", "steward_action"}
Reasons == {"claim_opened", "claim_submitted", "dispute_opened", "verification",
            "vote_threshold", "steward:tiebreak", "steward:override",
            "steward:extend", "steward:veto"}
EventRecs == [kind : EventKinds, reason : Reasons,
              before : Statuses \cup {None}, after : Statuses]
Jobs == [state : {"none", "unsent", "scheduled", "finished"},
         at : Times, failures : 0..MaxAttempts]

\* Every variable has its type.
TypeOK ==
  /\ now \in Times
  /\ status \in [ClaimIds -> Statuses]
  /\ relation \in [ClaimIds -> Relations]
  /\ branchOf \in [ClaimIds -> ClaimIds \cup {None}]
  /\ closesAt \in [ClaimIds -> Times \cup {None}]
  /\ ratifiedBy \in [ClaimIds -> {None, "vote", "steward", "verified"}]
  /\ votes \in [ClaimIds -> [Members -> Choices \cup {None}]]
  /\ events \in [ClaimIds -> Seq(EventRecs)]
  /\ job \in [ClaimIds -> Jobs]
  /\ req \in [Requests \cup Workers -> ReqStates]

Verdicts(c) == {i \in DOMAIN events[c] :
                  /\ events[c][i].kind \in {"ratified", "rejected"}
                  /\ events[c][i].reason # "steward:veto"}

\* A claim is settled at most once, whichever of the closing job, its retries and
\* the stewards get there first, and an open vote has no verdict on record: the
\* conditional UPDATEs of closeLoreVote and stewardLoreClaim exclude each other.
DecidedOnce ==
  \A c \in ClaimIds :
    Cardinality(Verdicts(c)) = IF status[c] \in {"absent", "vote"} THEN 0 ELSE 1

Into(c, s) == {i \in DOMAIN events[c] : events[c][i].after = s}
Upheld(c) == {i \in Into(c, "canon") : events[c][i].kind = "disputed"}

\* The status that the rows tell, in whatever order they are read: a claim is rejected or
\* superseded for good, and disputed once more than it was upheld.
Told(c) ==
  IF Into(c, "superseded") # {} THEN "superseded"
  ELSE IF Into(c, "rejected") # {} THEN "rejected"
  ELSE IF Cardinality(Into(c, "disputed")) > Cardinality(Upheld(c)) THEN "disputed"
  ELSE IF Into(c, "canon") # {} THEN "canon" ELSE "vote"

\* The audit trail of a claim tells its status without the row of the claim, however the
\* transactions that changed it interleaved: each change leaves its rows, a transaction that
\* changed nothing leaves none, and no claim is disputed twice or upheld twice.  The order of
\* the rows is not needed, and the table could not give it.
TrailTellsStatus ==
  \A c \in ClaimIds : status[c] # "absent" => status[c] = Told(c)

\* A claim and the challenge that beat it are never both held true: no two
\* contradictory claims of a challenge reach the AI's canon or disputed facts.
NeverBothStanding ==
  \A c \in ClaimIds : Challenged(c) # None /\ status[c] \in Standing
                        => status[Challenged(c)] \notin Standing

\* A disputed claim always has a challenge whose vote is open, so the dispute
\* can end: no path settles or drops the last challenge and leaves the mark.
DisputedHasOpenChallenge ==
  \A p \in ClaimIds : status[p] = "disputed" =>
    \E c \in ClaimIds : Challenged(c) = p /\ status[c] = "vote"

\* A claim carries who ratified it exactly while it is, or once was, canon: the
\* provenance the AI's read contract tags canon with is never missing or left over.
ProvenanceKept ==
  \A c \in ClaimIds :
    ratifiedBy[c] # None <=> status[c] \in Standing \cup {"superseded"}

\* A claim ratified by vote has a quorum of recorded voters, late votes included.
VoteCanonHasQuorum ==
  \A c \in ClaimIds : ratifiedBy[c] = "vote" =>
    Cardinality({m \in Members : votes[c][m] # None}) >= Quorum

\* Rejected and superseded claims stay what they are.
SettledForGood ==
  [][\A c \in ClaimIds :
       status[c] \in {"rejected", "superseded"} => status'[c] = status[c]]_vars

\* Interleaved transactions only ever do what atomic ones could.
Lifecycle == L!Spec

\* The vote of a claim whose close event was sent leaves `vote`, unless a steward
\* moved the deadline or every attempt of the job failed.
ScheduledVoteCloses ==
  \A c \in ClaimIds :
    (status[c] = "vote" /\ job[c].state = "scheduled")
      ~> (status[c] # "vote" \/ Extended(c) \/ job[c].failures = MaxAttempts)

(* Statements of the documents and of the code's messages that do not hold. *)

\* "Lore vote window can only be extended once" (engine.ts, LORE_VOTE_ALREADY_EXTENDED).
ExtendedAtMostOnce ==
  \A c \in ClaimIds :
    Cardinality({i \in DOMAIN events[c] : events[c][i].reason = "steward:extend"}) <= 1

\* "extend the window": an extension moves the deadline later.
ExtensionLengthens ==
  [][\A c \in ClaimIds :
       status[c] = "vote" => closesAt'[c] >= closesAt[c]]_vars

\* "a member may change their vote until the window closes".
VotesFrozenByVerdict ==
  [][\A c \in ClaimIds :
       status[c] \notin {"absent", "vote"} => votes'[c] = votes[c]]_vars

\* disputed[] is "canon currently under challenge".
ChallengedIsDisputed ==
  \A c \in ClaimIds : Challenged(c) # None /\ status[c] = "vote" =>
    status[Challenged(c)] = "disputed"

\* "scheduled at vote_closes_at (and a periodic sweep as backstop)".
ExtendedVoteCloses ==
  \A c \in ClaimIds : (status[c] = "vote" /\ Extended(c)) ~> status[c] # "vote"
=============================================================================
