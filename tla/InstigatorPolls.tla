--------------------------- MODULE InstigatorPolls ---------------------------
(***************************************************************************)
(* The AI instigator's settle-it polls (src/instigator/engine.ts) and the  *)
(* lore claims they open and canonize, beside the lore engine itself.      *)
(*                                                                         *)
(* What the engine does to claims is ClaimLifecycle, which LoreClaims      *)
(* implements.  The instigator writes the same rows with transactions of   *)
(* its own, each READ COMMITTED: what it read may be stale when it writes. *)
(***************************************************************************)
EXTENDS Integers, FiniteSets

CONSTANTS
  ClaimIds,       \* rows of lore_claims
  Polls,          \* dedup keys: an instigation and its poll
  Options,        \* the options of a poll
  Members,        \* the league's members
  Requests,       \* bound: seed jobs and vote requests in flight at once
  Closers,        \* bound: poll-close jobs in flight at once
  None            \* SQL NULL

ASSUME PollAssumption ==
  /\ None \notin ClaimIds \cup Options \cup Polls
  /\ "claim" \notin Options
  /\ IsFiniteSet(Members)
  /\ Requests \cap Closers = {}

VARIABLES
  status,         \* lore_claims.status
  challenged,     \* the claim a challenge disputes
  sourcePoll,     \* lore_claims.source_poll_id
  statement,      \* lore_claims.statement: as submitted ("claim"), or a poll's winner
  trail,          \* the status each claim had in the last change lore_events records of it
  poll,           \* polls: status and winning_option_idx
  instigation,    \* instigations.status
  pollVotes,      \* poll_votes: pollVotes[p][m] is m's option, or None
  due,            \* the polls whose closes_at has passed
  req             \* what each job or request in flight has read

claimVars == <<status, challenged, sourcePoll, statement, trail>>
pollVars == <<poll, instigation, pollVotes, due>>
vars == <<claimVars, pollVars, req>>

Lore == INSTANCE ClaimLifecycle

Idle == [op |-> "idle"]
NoPoll == [status |-> "absent", winner |-> None]

Start(r, q) == req[r] = Idle /\ req' = [req EXCEPT ![r] = q]
Finish(r) == req' = [req EXCEPT ![r] = Idle]

ClaimsOf(p) == {c \in ClaimIds : sourcePoll[c] = p}

-----------------------------------------------------------------------------
(* The lore engine on any claim, a poll's included *)

LoreStep ==
  /\ Lore!Next
  /\ trail' = [c \in ClaimIds |-> IF status'[c] # status[c] THEN status'[c] ELSE trail[c]]
  /\ UNCHANGED <<sourcePoll, statement, pollVars, req>>

-----------------------------------------------------------------------------
(* seedInstigation *)

\* The status of an instigation that is seeded with a poll.
Seeded == "polling"

\* Its first transaction inserts the instigation and its poll, or finds them.
SeedPoll(r, p) ==
  /\ Start(r, [op |-> "seed", poll |-> p])
  /\ IF poll[p].status = "absent"
     THEN /\ poll' = [poll EXCEPT ![p].status = "open"]
          /\ instigation' = [instigation EXCEPT ![p] = Seeded]
     ELSE UNCHANGED <<poll, instigation>>
  /\ UNCHANGED <<claimVars, pollVotes, due>>

InsertClaim(c, p, st, text) ==
  /\ status[c] = "absent"
  /\ status' = [status EXCEPT ![c] = st]
  /\ sourcePoll' = [sourcePoll EXCEPT ![c] = p]
  /\ statement' = [statement EXCEPT ![c] = text]
  /\ trail' = [trail EXCEPT ![c] = st]
  /\ UNCHANGED challenged

\* Faulty inserts that ignore the unique index on the poll.
AlwaysUnclaimed(p) == TRUE

\* ON CONFLICT (league_id, source_poll_id) DO NOTHING.
Unclaimed(p) == ClaimsOf(p) = {}

\* ensurePollLoreClaim, a transaction of its own, opens the poll's claim unless
\* the poll has one.
EnsureClaim(r) ==
  LET p == req[r].poll IN
    /\ req[r].op = "seed"
    /\ IF Unclaimed(p)
       THEN \E c \in ClaimIds : InsertClaim(c, p, "vote", "claim")
       ELSE UNCHANGED claimVars
    /\ Finish(r)
    /\ UNCHANGED pollVars

-----------------------------------------------------------------------------
(* castPollVote *)

BeginCast(r, p) ==
  /\ poll[p].status = "open" /\ p \notin due     \* else POLL_CLOSED
  /\ \E m \in Members, o \in Options :
       Start(r, [op |-> "cast", poll |-> p, member |-> m, option |-> o])
  /\ UNCHANGED <<claimVars, pollVars>>

\* The upsert checks nothing of the poll's row.
CommitCast(r) ==
  LET q == req[r] IN
    /\ q.op = "cast"
    /\ pollVotes' = [pollVotes EXCEPT ![q.poll][q.member] = q.option]
    /\ Finish(r)
    /\ UNCHANGED <<claimVars, poll, instigation, due>>

-----------------------------------------------------------------------------
(* closePoll *)

Count(p, o) == Cardinality({m \in Members : pollVotes[p][m] = o})

\* tallyVotes: the option with more votes than any other, if votes were cast.
Winners(p) ==
  {o \in Options : /\ Count(p, o) > 0
                   /\ \A other \in Options \ {o} : Count(p, other) < Count(p, o)}

\* A faulty close that counts a closed poll again.
Recountable(p) == poll[p].status # "absent"

\* A closed poll is not counted again: the earlier result is returned.
Closable(p) == poll[p].status = "open"

\* The poll is read, whatever closes_at says; the votes are a later read.  The job's
\* idempotency key is the poll: no other run of the poll's close is in flight.
BeginClose(k, p) ==
  /\ Closable(p)
  /\ \A j \in Closers : req[j].op = "close" => req[j].poll # p
  /\ Start(k, [op |-> "close", poll |-> p, pc |-> "votes", winner |-> None,
               claim |-> None, was |-> None])
  /\ UNCHANGED <<claimVars, pollVars>>

ReadVotes(k) ==
  LET q == req[k] IN
    /\ q.op = "close" /\ q.pc = "votes"
    /\ \/ /\ Winners(q.poll) = {}
          /\ req' = [req EXCEPT ![k].pc = "skip"]
       \/ \E o \in Winners(q.poll) :
            req' = [req EXCEPT ![k].pc = "claim", ![k].winner = o]
    /\ UNCHANGED <<claimVars, pollVars>>

ReadClaim(k) ==
  LET q == req[k] IN
    /\ q.op = "close" /\ q.pc = "claim"
    /\ \/ /\ ClaimsOf(q.poll) = {}
          /\ req' = [req EXCEPT ![k].pc = "commit"]
       \/ \E c \in ClaimsOf(q.poll) :
            req' = [req EXCEPT ![k].pc = "commit", ![k].claim = c, ![k].was = status[c]]
    /\ UNCHANGED <<claimVars, pollVars>>

ResolvePoll(p, winner, outcome) ==
  /\ poll' = [poll EXCEPT ![p] = [status |-> "closed", winner |-> winner]]
  /\ instigation' = [instigation EXCEPT ![p] = outcome]
  /\ UNCHANGED <<pollVotes, due>>

\* A faulty skip that also rejects the open challenges of the poll's claim.
RejectThread(p) ==
  {c \in ClaimIds : status[c] = "vote" /\ (sourcePoll[c] = p \/ challenged[c] \in ClaimsOf(p))}

\* WHERE status = 'vote' of the UPDATE that rejects the claim of a skipped poll.
Rejectable(p) == {c \in ClaimsOf(p) : status[c] = "vote"}

\* No votes, or a tie: the poll is skipped and an open claim rejected.
CommitSkip(k) ==
  LET q == req[k]
      rejected == Rejectable(q.poll)
  IN
    /\ q.op = "close" /\ q.pc = "skip"
    /\ ResolvePoll(q.poll, poll[q.poll].winner, "skipped")
    /\ status' = [c \in ClaimIds |-> IF c \in rejected THEN "rejected" ELSE status[c]]
    /\ trail' = [c \in ClaimIds |-> IF c \in rejected THEN "rejected" ELSE trail[c]]
    /\ Finish(k)
    /\ UNCHANGED <<challenged, sourcePoll, statement>>

\* The claim that was read is rewritten and made canon, whatever its status is
\* now; the event is written unless it was canon when it was read.
CommitRewrite(k) ==
  LET q == req[k] IN
    /\ q.op = "close" /\ q.pc = "commit" /\ q.claim # None
    /\ status' = [status EXCEPT ![q.claim] = "canon"]
    /\ statement' = [statement EXCEPT ![q.claim] = q.winner]
    /\ trail' = [trail EXCEPT ![q.claim] = IF q.was # "canon" THEN "canon" ELSE @]
    /\ ResolvePoll(q.poll, q.winner, "resolved")
    /\ Finish(k)
    /\ UNCHANGED <<challenged, sourcePoll>>

\* No claim was read: one is inserted, unless one has appeared since, which is
\* then left as it is.
CommitInsert(k) ==
  LET q == req[k] IN
    /\ q.op = "close" /\ q.pc = "commit" /\ q.claim = None
    /\ IF Unclaimed(q.poll)
       THEN \E c \in ClaimIds : InsertClaim(c, q.poll, "canon", q.winner)
       ELSE UNCHANGED claimVars
    /\ ResolvePoll(q.poll, q.winner, "resolved")
    /\ Finish(k)

-----------------------------------------------------------------------------

\* A failed check, an error or a crash: the open transaction is rolled back, and a
\* seed job may stop between its two transactions.  The job runner tries again.
Abort(r) ==
  /\ req[r] # Idle
  /\ Finish(r)
  /\ UNCHANGED <<claimVars, pollVars>>

\* closes_at passes.
Expire(p) ==
  /\ poll[p].status # "absent" /\ p \notin due
  /\ due' = due \cup {p}
  /\ UNCHANGED <<claimVars, poll, instigation, pollVotes, req>>

Init ==
  /\ Lore!Init
  /\ sourcePoll = [c \in ClaimIds |-> None]
  /\ statement = [c \in ClaimIds |-> "claim"]
  /\ trail = [c \in ClaimIds |-> "absent"]
  /\ poll = [p \in Polls |-> NoPoll]
  /\ instigation = [p \in Polls |-> "absent"]
  /\ pollVotes = [p \in Polls |-> [m \in Members |-> None]]
  /\ due = {}
  /\ req = [r \in Requests \cup Closers |-> Idle]

Next ==
  \/ LoreStep
  \/ \E p \in Polls : Expire(p)
  \/ \E r \in Requests :
       \/ \E p \in Polls : SeedPoll(r, p) \/ BeginCast(r, p)
       \/ EnsureClaim(r) \/ CommitCast(r) \/ Abort(r)
  \/ \E k \in Closers :
       \/ \E p \in Polls : BeginClose(k, p)
       \/ ReadVotes(k) \/ ReadClaim(k)
       \/ CommitSkip(k) \/ CommitRewrite(k) \/ CommitInsert(k) \/ Abort(k)

Spec == Init /\ [][Next]_vars

-----------------------------------------------------------------------------
(* Properties *)

SeedReqs == [op : {"seed"}, poll : Polls]
CastReqs == [op : {"cast"}, poll : Polls, member : Members, option : Options]
CloseReqs ==
  [op : {"close"}, poll : Polls, pc : {"votes", "claim", "skip", "commit"},
   winner : Options \cup {None}, claim : ClaimIds \cup {None},
   was : Lore!Statuses \cup {None}]

\* Every variable has its type.
TypeOK ==
  /\ Lore!TypeOK
  /\ sourcePoll \in [ClaimIds -> Polls \cup {None}]
  /\ statement \in [ClaimIds -> Options \cup {"claim"}]
  /\ trail \in [ClaimIds -> Lore!Statuses]
  /\ poll \in [Polls -> [status : {"absent", "open", "closed"}, winner : Options \cup {None}]]
  /\ instigation \in [Polls -> {"absent", "polling", "resolved", "skipped"}]
  /\ pollVotes \in [Polls -> [Members -> Options \cup {None}]]
  /\ due \subseteq Polls
  /\ req \in [Requests \cup Closers -> {Idle} \cup SeedReqs \cup CastReqs \cup CloseReqs]

\* However seeds, their retries and the close interleave, a poll has one claim.
OneClaimPerPoll == \A p \in Polls : Cardinality(ClaimsOf(p)) <= 1

\* The result of a closed poll never changes: neither a vote stored after the
\* close nor a retry of the job counts it again.
ResultIsFinal ==
  [][\A p \in Polls : poll[p].status = "closed" => poll'[p] = poll[p]]_vars

\* What the instigator writes never breaks what the lore engine relies on to end
\* a dispute: the disputed claim has an open challenge, the challenged one is settled.
DisputesStayResolvable == Lore!ChallengedIsSettled /\ Lore!DisputedHasOpenChallenge

(* Statements of the documents that do not hold. *)

\* "dispute succeeds -> original moves to superseded and the disputing claim
\* becomes the new canon": the two are never held true together.
NeverBothStanding == Lore!NeverBothStanding

\* "Canon is never edited in place".
CanonNotEdited ==
  [][\A c \in ClaimIds : status[c] = "canon" => statement'[c] = statement[c]]_vars

\* "Every state transition writes a lore_event".
TransitionsRecorded == \A c \in ClaimIds : trail[c] = status[c]

\* "Closes an instigator poll, canonizes the winning claim".
WinnerIsCanonized ==
  [][\A p \in Polls : poll[p].winner = None /\ poll'[p].winner # None =>
       \E c \in ClaimIds : sourcePoll'[c] = p /\ status'[c] = "canon"]_vars

\* "Idempotent: a claim transitions out of `vote` at most once": a rejected claim
\* is not ratified later.
RejectedStaysRejected ==
  [][\A c \in ClaimIds : status[c] = "rejected" => status'[c] = "rejected"]_vars
=============================================================================
