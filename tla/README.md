# Rumbledore in TLA+

Rumbledore is a league companion for fantasy football: it imports a league's history from a provider,
follows its live scores, computes its records, keeps its lore (claims the members vote on), publishes
AI-written posts and polls, and runs a pick'em game on real odds.  This directory models the parts of it
whose correctness depends on how transactions, jobs, retries and external calls interleave, checks them
with TLC, and proves what matters most with TLAPS.  Paths below are relative to the application's source,
`src/src/`, unless they start with `specs/` (documents, in `src/specs/`).

What is here:

| module | kind | models |
| --- | --- | --- |
| `ClaimLifecycle` | abstract specification | the status of lore claims, every transaction atomic |
| `LoreClaims` | detailed specification, implements `ClaimLifecycle` | `lore/engine.ts`, the submit and steward routes, the vote-close job |
| `InstigatorPolls` | composition | `instigator/engine.ts` writing the same claims beside `ClaimLifecycle` |
| `PickSubmission` | specification | `betting/pickem.ts`: weeks, submissions, the client's keys and retries |
| `PickGrading` | specification | the event poll, the resolution of games, grading, the board, announcements |
| `ContentHistory` | abstract specification | the life of a published post: published, superseded, retracted |
| `Editorial` | detailed specification, implements `ContentHistory` | generation runs, the failure queue, regenerations, corrections, retractions |
| `SpendGuard` | specification | `core/spend-guard.ts`: one metered provider, Redis, the fallback of each job |
| `ShadowImport` | specification | import requests, the import job, verdict and review, up to a live league |
| `LeagueMembers` | specification | roles, handoffs, stewards, invitations and identity claims |
| `LiveIngestion` | specification | the live ingest of matchups, manual corrections, statistics, `game.final` |
| `HistoricalImport` | specification | `ingestion/historical-import.ts`: the seasons of a league, imported and checkpointed one by one |
| `ClaimLifecycleProofs`, `LoreClaimsProofs`, `InstigatorPollsProofs`, `SpendGuardProofs`, `EditorialProofs` | proofs | theorems about the module each is named after |
| `PickemProofs`, `IngestionProofs`, `OnboardingProofs` | proofs | theorems about `PickSubmission` and `PickGrading`; `LiveIngestion` and `HistoricalImport`; `LeagueMembers` and `ShadowImport` |
| `MC...` | instances for TLC | symmetry sets and the inputs of the runs |

To check a run: `tlc -config MCLoreVotes.cfg MCLoreClaims`.  To check the proofs of a module:
`tlapm LoreClaimsProofs.tla`.  `PROJECT.json` names, for every definition, the lines it was translated
from, and for every property a mutation of the code's model that it catches.

One fact underlies every module.  The application runs on Postgres under READ COMMITTED (`db/rls.ts`,
`withLeagueContext`): a transaction's reads see whatever has committed when each of them runs, nothing a
transaction read is protected until it writes, and only a unique index or the WHERE clause of an UPDATE is
evaluated together with the write.  So an operation is modelled as the sequence of its reads, each a step
that stores what was seen in a record of the request (`req`, `run`, `calls`, `request`, `importing`,
`work`), and one last step that holds all its writes, which commit together.  Between two such steps
anything else may commit, and the transaction may be rolled back.  Row locks are implied by that: two
UPDATEs of one row are ordered, and the second sees the first's committed row.  Reads that nothing the
property speaks of can come between are one step.  An await of a model, a provider, a mail or a queue always
separates steps.

## The system and its parts

### Modelled

**Lore claim engine** (`lore/engine.ts`; `app/api/leagues/[leagueId]/lore/claims/**`;
`jobs/functions/lore-vote-close.ts`).
State: claims (status, relation, `branch_of`, deadline, ratifier), votes, the append-only events, the
scheduled close event.  Operations: submit a claim (opened for a vote, or settled at once by the
statistics), cast or change a vote, close a vote, and the steward's ratify, reject, override, extend and
veto; a claim may dispute another, and its verdict settles both.  Callers: the members' routes, the
record hooks of the statistics (`stats/record-hooks.ts`), the closing job with its retries, and the
instigator.  Hard: each operation reads, checks and later writes; the tally is read before the UPDATE it
justifies; the close is one event whose loss nobody notices.  Correct when: a claim is decided once;
contradictory claims never both stand; a disputed claim can still be settled; settled claims stay
settled; the audit trail tells where the claim is; canon carries who ratified it; a vote that was
scheduled to close does.

**Instigator and league polls** (`instigator/engine.ts`, `jobs/functions/poll-close.ts`).
State: instigations, polls, poll votes, and the lore claim of a poll.  Operations: seed an instigation
with its poll and claim (two transactions), cast a poll vote, close the poll and canonize or reject its
claim.  Interacts with the lore engine only through the rows of `lore_claims`.  Hard: it rewrites the
claim from an earlier read, without a condition on the status it has by then.  Correct when: a poll has
one claim; a result is final; the lore engine's disputes stay resolvable.

**Pick submission** (`betting/pickem.ts`, `app/leagues/[leagueId]/bet/league-pickem-view.tsx`).
State: the pick week and its allowance, picks, the idempotency key of each staged pick.  Operations:
open a week, submit a pick.  Hard: a client that timed out sends the same key again, perhaps while the
first attempt still runs; two windows submit two sides of a market.  Correct when: one intent gives one
pick, a market gives one pick, an answer is true, and the allowance holds.

**Pick grading** (`betting/event-results.ts`, `event-resolution.ts`, `pickem-grading.ts`, `grading.ts`,
`arena.ts`, `ingestion.ts`; `jobs/functions/betting-event-poll.ts`, `betting-grade-game-final.ts`).
State: events and markets, the results provider's answers, picks, the grading jobs with their memoized
steps, the arena board, announcements.  Operations: the poll that queues a job for each league with
pending picks, resolve an event, grade each league in a transaction of its own, rebuild the board,
announce; the odds refresh of a rescheduled game.  Hard: jobs of two leagues grade the same picks from
answers fetched at different times; steps are retried; the job runner deduplicates events for a day; the
central reads run outside a league, where row-level security hides the picks; the mock answers when the
provider does not.  Correct when: a grade is final, the board and the news are true, what was graded is
announced, every pending pick of a game that ended is graded (which the required database role prevents).

**Posts and their generation** (`ai/pipeline.ts`, `ai/generation-failure-queue.ts`,
`content/lifecycle.ts`, `content/editorial.ts`, `jobs/functions/content-generate.ts`).
State: content items (status, the post they supersede, the deduplication key), generation runs by
trigger key, editorial actions.  Operations: the cadence's generations; an editor's regeneration,
correction and retraction; the failure queue's retries of skipped, failed and stale runs.  Hard: a model
call of minutes lies between reading the original and retiring it; runs are shared by whoever has the
trigger key; a retry resets a run on the word of an earlier transaction.  Correct when: a story is
published once; what a post was replaced by is up or was taken down on purpose; a retraction is not
undone by a generation under way; a post's history only goes forward.

**Spend guard** (`core/spend-guard.ts`).
State: a counter in Redis with a time to live, and in each job a guard that may have fallen back to its
memory.  Operations: check, call the provider, record with INCRBY and, when the key is new, EXPIRE.
Hard: check and record are separate; commands fail, are applied unheard, and the two commands are not
one; the fallback is for good.  Correct when: a window costs the cap and a known excess; a denial ends
with its window.

**Import requests and the import job** (`onboarding/provider-service.ts`, `onboarding/deps.ts`,
`jobs/functions/import-requested.ts`, the review in `onboarding/provider-service.ts`).
State: each owner's discovery row with its attempt number and its credential, the league row and its
integrity checks, memberships, queued jobs and the idempotency keys the queue has seen.  Operations: claim,
sync, mark, enqueue, roll back, clean up; the job's run, promotion, quarantine and failure handler; the
owner's review; a sign-in to the provider, which rewrites the credential of the row.  Hard: the queue may
take an event and the request not hear of it; claims go stale and are taken again while an old job is still
retried; the cleanup of one owner's failure deletes a league another owner is importing; the job and its
failure handler look for the row by a credential that may have been replaced.  Correct when: a live league
exists and stays live; a verdict belongs to the claim it was reached for; a job that ends leaves no claim of
its own waiting.

**Members of a league** (`onboarding/invites.ts`, `stats/commissioner.ts`, `onboarding/stewards.ts`).
State: roles, identity claims, invites with their tokens.  Operations: go live, hand off, appoint a
steward, write and deliver an invite, accept one.  Hard: each reads in one statement and writes in
another without a condition; delivery is awaited between.  Correct when: a user is one team and a team
one user; whoever claimed belongs; an invite names who accepted it; nobody's role changes by the way.

**Live ingestion of matchups** (`jobs/functions/ingestion-live.ts`, `ingestion/current-league.ts`,
`stats/engine.ts` for when statistics are read and replaced, `stats/curation.ts` for corrections of
matchups).
State: what the provider says, the stored credential and its status, the rows of `fantasy_matchups` with
their content hash, the ledger of manual edits, the season's statistics, the `game.final` events sent.
Operations: the tick, an ingest with its fetch, its reads, its conditional upsert, its statistics and
its send steps; a steward's correction; sign-in.  Hard: ingests of one league overlap with each other and
with corrections; answers arrive late and waver; a try that died after its upsert finds nothing changed
when it is repeated; a refused ingest names the credential's row and not the credential.  Correct when:
the statistics count final games only and follow them; what a game is final with is announced; values
set by hand outlive the ingests that could know of them.

**Historical import** (`ingestion/historical-import.ts`, run by `jobs/functions/import-requested.ts`;
requested by onboarding and by the season rollover of `jobs/functions/ingestion-live.ts`).
State: the rows of each season, and one checkpoint for a league, with its status, its newest season, the
list of completed ones and the season the provider had nothing of.  Operations: open a checkpoint anew or
again, fetch, store and mark one season after the other, stop at an empty or refused one.  Hard: each
import writes the whole checkpoint from its own memory; requests have different depths, and different
newest seasons when a user brings the league live from a row of last season while the rollover asks for
the season that has ended; a job that is to bring a league live starts anew, its retry perhaps does not;
store and mark are separate transactions.
Correct when: what is declared imported is stored; nothing marked is imported again without a reason.

### Not modelled yet

What each keeps and what would make it correct; hazards are listed in `PROJECT.json` at their lines.

| component | state and operations | correct when |
| --- | --- | --- |
| Curation (`stats/curation.ts`, `curated-state.ts`) beyond matchups | append-only ledger of edits, groupings, checkpoints and restore | the ledger explains the data; confirmed groupings do not overlap |
| Rate limiter (`core/rate-limit.ts`), the odds provider's guard | fixed-window counters | as the spend guard |
| Pick'em scoring, slate, ranks (`betting/pickem-scoring.ts`, `league-pickem.ts`, `arena.ts`) | pure | agrees with a reference definition |
| Live ingestion of other data classes | rosters, players, transactions, coverage | as matchups; they have no corrections with a computation of their own, except weekly statistics |

### Left out

The aggregations of the statistics engine and the canon catalog (`stats/engine.ts`,
`records-catalog.ts`): relational data compared with fixtures by their tests; a model would restate them.
Webhooks (`webhooks/service.ts`): deliveries are recorded after they are made, at least once as its
documentation says, and no state of a league depends on them.  Realtime, push and email: best-effort
notifications after a commit.  Entitlements, cast, consent: single rows.  News, provider adapters and
the sports calendar: I/O and text.  Authentication: a library's sessions and role lookups.  Pages and
read models change no state; they are the greater part of the repository's lines, which is why the
definitions here cover a small share of it.  The database schema appears as the unique indexes and
policies of the modules.

## The modules and the code

### ClaimLifecycle

What the lore engine promises, with every transaction one step: `Open` (a vote; a challenge takes the
canon claim it disputes to `disputed`), `Verify` (the statistics settle the claim on submission),
`Settle` (the vote or a steward), `Veto`.  A verdict on a challenge also moves the challenged claim:
`Unsettled(next)` and `Outcome(next)` are the statuses `resolveChallengeInTx` selects in its WHERE clause
and the one it writes.  The operators `UpdateStatus` and `AfterVerdict` are shared by the two modules
that build on it.

### LoreClaims

Rows are `status`, `relation`, `branchOf`, `closesAt`, `ratifiedBy`, `votes`, `events`; `job[c]` is the
`lore.vote.close` event of claim `c`, `req[r]` the transaction of a request or of a run of the job.

| code | actions |
| --- | --- |
| `submitLoreClaim` | `BeginSubmit`, then `CommitVotingClaim`, or `ReadChallenged` and `CommitDataClaim` |
| `castLoreVote` | `BeginCast`, `CommitCast` |
| `stewardLoreClaim` ratify, reject, override | `BeginDecision`, `ReadTally`, `ReadChallenged`, `CommitDecision` |
| `stewardLoreClaim` extend, veto | `BeginExtend`, `CommitExtend`; `BeginVeto`, `CommitVeto` |
| `closeLoreVote` from the job | `BeginClose`, `ReadTally`, `ReadChallenged`, `CommitClose`; `ReuseClose`, `RefuseClose` |
| `scheduleLoreVoteClose` in the route | `ScheduleClose`, and `LoseClose` for a crash or a failed send |
| rollback | `Abort` |

A clock (`now`) gives deadlines a meaning; `Captured` is the set of timestamps an operation can have
taken before its transaction got a connection.  Abstracted: the comparison of an assertion with the
statistics is the nondeterministic outcome of a submission; `response` stands for response and addendum,
`dispute` for dispute and relitigation, `tiebreak` for the steward's ratify and reject, which share their
checks; subjects, verification rows, thread roots and notifications carry no property.  `events` leaves
out the "voted" rows.  It lists the rows of a claim in the order of commits, which the table does not
keep: `lore_events` has a random id and `created_at`, the start of the transaction (`db/schema.ts:4455`).
So no property asks for the order of a trail: `DecidedOnce` counts verdicts, and `TrailTellsStatus` reads
the status off the set of rows (`Told`).

### InstigatorPolls

`LoreStep` is any step of `ClaimLifecycle` on any claim, a poll's included; that this stands for the real
engine is what the theorem `Implements` shows.  `seedInstigation` is `SeedPoll` and `EnsureClaim`, two
transactions; `castPollVote` is `BeginCast` and `CommitCast`; `closePoll` is `BeginClose`, `ReadVotes`,
`ReadClaim` and one of `CommitSkip`, `CommitRewrite`, `CommitInsert`. `trail` is the status a claim had in
the last change that a lore event records.  Nothing in the source emits `poll.close` on its own, so a close
may come at any time and, as in the code, asks nothing of `closes_at`.

### PickSubmission

`OpenPickWeek`, and `submitPick` as `BeginSubmit` (clock, then the lookup of the key), `ReadWeek` (week
and allowance), `ReadMarket`, and `Insert`, whose `Conflict` and `Taken` are the two unique indexes of
`picks`.  `InsertUnanswered` commits without its answer reaching the client.  `Stage` is the client
minting a key (`league-pickem-view.tsx`), `Withdraw` a game starting or a market closing.

### PickGrading

The clock of an event has three values because only two comparisons matter: has the game started, and
is it 3.5 hours past its start (`findFinishedEvents`).  Actions of the outside world: `Submit`, `Pass`,
`EndGame`, `CorrectScore`, `Reschedule` (the provider's new date together with the odds refresh that
stores it).  `Poll` finds events and sends in one action, since a queued job may start any time later;
`seen` and `Forget` are the job runner's deduplication window of 24 hours.  `FetchMock` is
`betting/dependencies.ts` answering with the mock provider's score when the real one is down or over its
cap: `GradedByTheGame` says the score should be the game's.  A job is `Fetch`, `Resolve`,
`ListLeagues`, `ReadPending` and `WriteGrade` for each league, `FinishGrading` (end of the memoized step),
`ReadMetrics` for each league, `WriteBoard`, `Announce`; `Fail` may strike between any two.  `memo` are
the leagues in the facts that tries of the first step have returned.
Abstracted: one member for each league; a moneyline outcome stands for the arithmetic of spreads and
totals; the arena season exists; ranks are computed from what `board` counts.

### ContentHistory and Editorial

`ContentHistory` says what `content/lifecycle.ts` promises of a post: published once, alone or as a
replacement; superseded, when something replaces it; retracted; never back.  In `Editorial`, `posts` holds
for each post its status, what it replaces and the random part of its deduplication key, `runs` the row
of `ai_generation_run` of each trigger key, `actions` the editor's log.

| code | actions |
| --- | --- |
| a cadence job, an editor's click, a retry from the queue | `AskColumn`; `AskEditorial`; `BeginRetry`, `Reset`, `Age` |
| `regenerateContentItem`, `correctContentItem` | `ReadOriginal`, the generation, `CommitReplacement` |
| `runGeneration` | `PrepareGeneration`, `BlockByEntitlement`, `MarkSkipped`, `PublishDraft`, `GenerationFails`, `MarkRunFailed` |
| `retractContentItem` | `Retract` |
| a process that dies | `Lose` |

`Stored` is the unique index of the deduplication key.  Abstracted: one league, persona and content type;
drafts, judges and prompts are the awaited call, which may come back with a draft, a duplicate, a block
or an error; the score that a correction quotes.

### SpendGuard

`value` and `ttl` are the Redis key of the window, `job[j]` a job with its guard: where it is in a call,
whether it has fallen back, and its memory's counter.  `Check`, `RealCall` (or `Unbilled`, a call that
cost nothing), `Record` (INCRBY), `Expire`; each of the three commands may fail in its action, and an
INCRBY may be applied though it failed.  `Start` and `End` are jobs coming and going, `Die` a job that
dies, `WindowEnds` the expiry of the key.  `billed` is what the provider counts between two expiries.

### ShadowImport

`discovery[u]` is the row of an owner, `importing[u]` his import request, `jobs` the `import.requested`
jobs not at their end, `keys` the idempotency keys the queue has seen.

| code | actions |
| --- | --- |
| `importDiscoveredLeague` | `ClaimDiscovered`, `SyncLeague`, `MarkImported`, `Enqueue`; `EnqueueUnheard` when the queue takes the event and the request gets an error |
| its failure | `RequestFails`, `Rollback`, `DeleteOrphan`; `RequestDies` for a process that ends; `GrowStale` for the time limit of a claim |
| the job | `JobRuns` (import and integrity suite), `Promote`, `Quarantine`, `TryFails`, `QuarantineExhausted` (the failure handler) |
| `persistConnectedCredential` | `SignIn` |
| the owner's review | `ReviewCheck`, `CommitReview`, `ReviewDies` |

`account[u]` is the credential of the row.  A sign-in with another account replaces it, with
`onConflictDoUpdate` and no look at the claim that runs; from then on `loadImportAuthorization` and
`quarantineExhaustedShadowImport`, which have the credential of the event in their WHERE clause, find no
row, while `promoteShadowImport` and `quarantineShadowImport`, which go by the row's id, still do
(`Shadow`, `QuarantineExhausted`; `StillShadow`).  `DeleteOrphan` decides on what its NOT EXISTS sees and
deletes later: marks that commit while the DELETE waits for their locks lose their reference to the league,
as the foreign key sets it to null.

Abstracted: which checks fail is none, some in the window of a hundred rows that a review reads
(`listed`) or some beyond it (`hidden`); keys do not expire after 24 hours; the announcement
`league.connected`, which is lost when the step's result is lost after the promotion
(`import-requested.ts:854`), is left out.

### LeagueMembers

A request is read and written in different steps: `ReadHandoff`, `CommitHandoff` (`commissioner.ts`);
`ReadAppointment`, `CommitAppointment` (`stewards.ts`); `ReadTarget`, `SaveInvite`, `MarkSent` or `GiveUp`
for an invite whose delivery is awaited; `OpenLink` or `OpenRosterLink`, `CheckClaims`, `CommitAccept` for
an acceptance, whose insert is guarded by the two unique indexes of identity claims (`Conflicts`).
`GoLive` is an import that makes its owner commissioner.  A token is the number of the request that minted
it; expiry dates of invites are left out.

### LiveIngestion

`truth` is what the provider says, `stored` and `accepted` the credential saved and the one that works,
`row` the table with its content hash, `edited` the ledger of stewards' corrections, `facts` the content
the season's statistics count each matchup with, `work[w]` what an ingest or a steward's request has read.
Two history variables hold what may be lost: `unheard` (changes whose announcement died with its ingest)
and `behind` (matchups whose statistics an older computation wrote, or whose computation died).

| code | actions |
| --- | --- |
| `runIngestionTick`, `loadCredentialsForLeagueIngest` | `Start` |
| the provider's answer, or its refusal and `markCredentialInvalid` | `Fetch`; `Refused` |
| `preserveStickyMatchupEdits`, `finalizedMatchupRegressionNotes` | `Read` |
| `upsertMatchups` with its conditional update | `Upsert` |
| `loadChangedFinalMatchups` | `Load` |
| `recomputeChangedMatchupStatistics` | `ReadFacts`, `WriteFacts` |
| the send steps | `Announce` |
| `applyLeagueDataEdit` of a matchup | `Edit`, then `ReadFacts`, `WriteFacts` of the same request |
| sign-in | `Reconnect` |
| a try that dies | `Fail` |

The ingests are those that sync matchups alone (`dataClasses` given), which hold no row lock before they
read the edits; full syncs are ordered by the team and member rows they lock first, so what they do is
among what these do.  `Fields` are the scores: `winner` can be corrected too, but the statistics do not
count it.  Left out: the other tables, coverage, Yahoo's silent refresh, hooks of broken records,
transaction and correction events (sent or lost with `game.final`), corrections of other targets.  A
unique violation of two overlapping computations is one of the ways to `Fail`.

### HistoricalImport

`exposed` are the seasons the provider answers for, with gaps or without; `imported` the seasons in the
database, `checkpoint` the row, `import[i]` a job: what it was asked, how far its try is, its set of
completed seasons (`done`).  Two of them are no state of the code.  `missed[i]` are the seasons other imports
have listed since `i` last read or wrote the checkpoint.  `mixed` marks a checkpoint that was written in part
over the row of an import with another newest season, and whoever took his seasons from such a one:
`markCheckpointExhausted` leaves `start_season` as it finds it, and `markCheckpointRangeRunning` the last
completed season.

| code | actions |
| --- | --- |
| the job's authorization, which decides `forceReimport` | `Begin` |
| `selectCheckpoint`, `completedSeasonsFor`, `isCompleteForRequest` | `ReadCheckpoint` |
| `upsertCheckpoint`, `markCheckpointRangeRunning` | `Open` |
| `getHistory`; `persistBundle`; `markCheckpointProgress` | `FetchSeason`; `Persist`; `MarkProgress` |
| `markCheckpointExhausted`, `markCheckpointFailed`, the answer | `MarkExhausted`, `MarkFailed`, `Finish` |
| the runner; a process that dies | `GiveUp`, `Begin` again; `Die` |

`force` is chosen anew in each try: a discovery row that is settled between two tries no longer asks for
it.  The second call after a refreshed session is one more try.  Left out: identities and statistics, which
the job computes again for the whole league in each of its runs; progress events; counts.

### Faulty variants

Next to some definitions stands another with the same parameters whose comment begins "A faulty ...".
No specification uses these.  They are plausible bugs of the definition that follows (a WHERE clause
dropped, a quorum forgotten, an index missing), and `PROJECT.json` pairs each with a property that stops
holding when it takes the definition's place, so that every property is known to depend on the code.

## What the runs check

| run | cfg | checks |
| --- | --- | --- |
| `lore_votes` | `MCLoreVotes` | Votes, tiebreaks, overrides, extensions, vetoes and the closing job race over a claim: decided once (`DecidedOnce`), canon by vote has a quorum (`VoteCanonHasQuorum`), and a vote whose close event was sent ends unless a steward moved the deadline or every attempt failed (`ScheduledVoteCloses`).  691 000 states. |
| `lore_challenges` | `MCLoreChallenges` | Two interleaved transactions submit, challenge, override and veto up to three claims.  They implement `ClaimLifecycle` (`Lifecycle`); `NeverBothStanding`, `DisputedHasOpenChallenge`, `TrailTellsStatus`, `ProvenanceKept`.  222 000 states. |
| `polls` | `MCPolls` | Seeds, poll votes, a close and the lore engine on a poll's claim and a challenge of it: `OneClaimPerPoll`, `ResultIsFinal`, `DisputesStayResolvable`.  43 000 states. |
| `pick_submission` | `MCPickSubmission` | `OnePickPerIntent`, `OnePickPerMarket`, and the bound of the excess over the allowance, `OvershootBounded`.  44 000 states. |
| `grade_safety` | `MCGradeSafety` | Jobs of two leagues grade the picks of both, with corrections, a postponement, the mock's answers and a failure anywhere: `GradedOnce`, `NothingInvented`, `MemoIsAnnounced`.  1 044 000 states. |
| `grade_blind` | `MCGradeBlind` | A violation: under the database role production requires, no pick is graded (`PendingIsGraded`, see below). |
| `editorial` | `MCEditorial` | A cadence, three clicks of editors, retractions and retries, two calls at once, over four posts: `OriginalRetires`, `RetractionHolds`, `StoryNeverLost`, `PublishedOnce`, and the refinement of `ContentHistory` (`Lifecycle`).  173 000 states. |
| `spend_guard` | `MCSpendGuard` | Three jobs against a cap of two units: what the counter (`CounterBounded`) and the bill (`SpendBounded`) can exceed it by, whatever fails; a denial ends with its window unless the EXPIRE of the counter was lost (`DenialEnds`).  353 000 states. |
| `shadow_import` | `MCShadowImport` | Two owners of a league, their requests, jobs and reviews, and a sign-in: `SettledLeagueExists`, `LiveIsFinal`, `VerdictOfOwnAttempt`, `JobSettlesItsClaim`.  1 553 000 states. |
| `league_members` | `MCLeagueMembers` | Three requests at once, of three users and two teams: `ClaimsOneToOne`, `AcceptedNamesClaimant`, `RolesChangeByAuthority`, `HandoffKeepsALeader`.  142 000 states. |
| `live_ingestion` | `MCLiveIngestion` | Two overlapping ingests and a steward, with two changes of the provider's answer, an expired credential and a death: `FactsAreFinal`, `FactsFollow`, `FinalIsAnnounced`, `EditsOutliveReads`.  1 993 000 states. |
| `historical_import` | `MCHistoricalImport` | Three imports, two at once, with requests from two newest seasons, resumed or anew, refusals, deaths and a provider with gaps: `UnmixedIsThere`, `ProgressKept`.  1 808 000 states. |

Not every statement of the documents and comments is kept by the code.  The one that matters most to
users is a run of its own, `grade_blind`, with an expected violation and a finding: the poller "will re-see
an event until its picks are graded" (`jobs/functions/betting-event-poll.ts:71`), but its query for pending
picks runs outside a league (`betting/event-results.ts:122`), and `picks` has row-level security that binds
the table's owner too.  Production requires a role that is neither superuser nor exempt
(`core/health.ts:76`), and under such a role (`CentralReadSees = FALSE`) the query finds no picks and nothing
is ever graded.  With `CentralReadSees = TRUE` the same run has no violation (4 300 states), so nothing else
in its bounds strands a pick.  `grade_safety` has `CentralReadSees = TRUE`, since under the other value no
job would ever start.

These statements are defined with the modules' properties and are no runs.  To see one fail, put it in the
place of the properties of a cfg:

| definition | cfg | with |
| --- | --- | --- |
| `VotesFrozenByVerdict` (a vote lands after the close), `ExtensionLengthens` (an extension shortens the window), `ExtendedVoteCloses` (nothing sweeps, and the event stays at the first deadline: `specs/13-league-lore.md:164`) | `MCLoreVotes` | |
| `ExtendedAtMostOnce` (two concurrent extensions) | `MCLoreVotes` | `Requests = {r1, r2}`, `Workers = {}`, `Members = {}` |
| `ChallengedIsDisputed` (a challenge refuted by the statistics clears the mark of another) | `MCLoreChallenges` | |
| `NeverBothStanding` (a poll's close makes a superseded claim canon), `CanonNotEdited`, `TransitionsRecorded`, `WinnerIsCanonized`, `RejectedStaysRejected` | `MCPolls` | |
| `AllowanceKept` ("the allowance check and the insert cannot race", `betting/pickem.ts:106`) | `MCPickSubmission` | |
| `GradedIsAnnounced` (a failure between the grades' commit and the end of the step) | `MCGradeBlind` | `CentralReadSees = TRUE`, `Answers = {"home"}` |
| `GradedByTheGame` (the mock's score grades a real pick; `specs/08-betting.md:39`) | `MCGradeBlind` | `CentralReadSees = TRUE` |
| `BoardIsCurrent` (two rebuilds commit in the opposite order of their reads) | `MCGradeBlind` | `CentralReadSees = TRUE`, `Answers = {"home"}`, `Events = {e1, e2}`, `Failures = 0` |
| `RescheduledIsGraded` (a postponed game's picks were voided) | `MCGradeBlind` | `CentralReadSees = TRUE`, `Answers = {"home", "postponed"}`, `Failures = 0` |
| `PendingIsGraded` (the first step fails for good after the event became final) | `MCGradeBlind` | `CentralReadSees = TRUE`, `Failures = 2` |
| `NoFork` ("a double-click can't fork", `specs/45-editorial-control-plane.md:51`: a post whose replacement is gone is replaced under each click's own key), `QueueHoldsNoLivePost` (a near duplicate or a failed retry overwrites the status of a published run) | `MCEditorial` | `MaxTrouble = 0` for `NoFork` |
| `RetractionReachesAll` (a replacement replaced before its call came back is not withdrawn) | `MCEditorial` | `MaxTrouble = 1` |
| `HardBounded` ("hard-bounded", `specs/25-real-integrations-cost.md:121`: each job that loses Redis counts from nothing) | `MCSpendGuard` | `Jobs = {j1}` |
| `DenialAlwaysEnds` (a lost EXPIRE leaves a counter that never ends) | `MCSpendGuard` | |
| `LiveAfterFullRun` (`specs/47-ingestion-bulletproofing.md:123`: a review promotes a row whose job never ran) | `MCShadowImport` | `Owners = {u1}`, `MaxAttempts`, `MaxClaims`, `MaxLeagues` 1, `MaxTrouble = 2` |
| `JobAlwaysSettles` (after a sign-in with another account neither the job nor its failure handler finds the row, and the claim waits for the stale limit: `jobs/functions/import-requested.ts:592`) | `MCShadowImport` | |
| `LiveHasNoOpenFailure` (the review reads a hundred rows), `EveryClaimHasAJob` (two owners' claims share a key) | `MCShadowImport` | |
| `StaysLed` (`onboarding/stewards.ts:76`), `OneCommissioner` (`specs/38-commissioner-edit-ledger.md:18`), `AcceptedStaysOff` (`specs/16-onboarding-completeness.md`) | `MCLeagueMembers` | |
| `EditsAreSticky` (`specs/36-data-curation-foundation.md:80`: a correction between an ingest's read and its upsert is overwritten), `FactsAreCurrent` (an older computation writes last), `PausedIsExpired` (`specs/19-live-ingestion.md:143`), `FinalIsHeard` (`specs/19-live-ingestion.md:128`: a retry finds nothing changed) | `MCLiveIngestion` | |
| `RunningIsAtWork` (`specs/03-ingestion-providers.md:99`, "a completed import is detectable": a request whose seasons another import has just marked, or one for fewer seasons than a failed one, leaves the checkpoint running) | `MCHistoricalImport` | |
| `HistoryIsThere` (two imports whose newest seasons differ overlap: `markCheckpointExhausted` keeps the newest season of the other, and the next request from that season takes the checkpoint for its own and is answered at once) | `MCHistoricalImport` | |
| `RefusalIsNoted` (`specs/19-live-ingestion.md:131`: the matchup became final after the notes were read) | `MCLiveIngestion` | `Failures = 0` |

Type invariants are proved, each with its module; so are all invariants and action properties of the
runs (see below).  The inductive invariants were model-checked before they were proved, on the instances of
the runs, `HistoricalImport`'s without symmetry.

## Bounds, and why they are enough

Deadlock is not checked: every system here may come to rest, since claims, polls, picks, requests and
failures are finite in number and nobody has to act.

- `LoreClaims`.  Two transactions in flight exhibit every race of a pair, and the third party of a
  longer one is always a committed row.  `lore_votes` has one claim, three members (`Quorum` is 3, the
  least there is; with fewer nobody could be canonized by vote), one request and one run of the job,
  `Skew` 1 so that a timestamp may be older than the clock, `VoteWindow` 1, `MaxTime` 2, enough for a
  window to close and be extended, and `MaxAttempts` 2: the last attempt and one that is not.
  `lore_challenges` has three claims, a canon one and two challenges of it, or a challenge of a challenge;
  the vote's content does not matter there, as an override may settle a claim either way, so it has no
  members.  Tried besides: two runs of the job at once, with two choices (916 000 states).
- `InstigatorPolls`.  A poll's claim and a challenge of it, two options and two members (a winner, a tie,
  no votes), two requests, one closer because a poll has one run of the closing job at a time
  (its idempotency key).
- `PickSubmission`.  One user, as no row of another is read; three keys and markets against allowances of
  1 and 2 so that one more than the allowance can be tried; two submissions in flight.
- `PickGrading`.  One game and two leagues, hence two jobs that each grade both; `Attempts` 2;
  `Failures` 1 leaves every step a successful retry, 2 would let a step fail for good.  `grade_blind`
  has one league, since a job of its own is what would grade it, and the failure bound of a run in which
  nothing but the role is wrong.
- `Editorial`.  Four posts are a story, its replacement, a fork and a replacement of a replacement; two
  calls at once, four in all; two troubles let a run fail and its retry fail, or get stale.
- `SpendGuard`.  Three jobs, so that one falls back, one is denied and one is at work; a cap of 2 with
  calls of up to 2 units; `MaxFaults` 2 loses an INCRBY and an EXPIRE.  `MaxBilled` is above what a
  window can cost, so it cuts nothing off.
- `ShadowImport`.  Two owners share the league; two attempts of a row let a stale job meet a new claim,
  two tries of a step a failure and its retry, two league rows a deletion and a new sync.  One sign-in
  with one other account separates a job from its row; one trouble is a failure at any point.
- `LeagueMembers`.  Three requests at once, four in all: two handoffs and an appointment, or two
  invites of a team and two acceptances.  Tried besides: five requests (1.27 million states).
- `LiveIngestion`.  Two ingests and one steward make every pair of writers, one matchup is enough as no
  row of another decides anything but whether the statistics are computed.  Two changes let an answer
  waver (final, open or corrected); a correction by hand, two credentials, one death.

- `HistoricalImport`.  Three seasons let an import be ahead of another by one and have one left; two
  imports at once make every pair of writers, three in all a deep one that fails, a shallow one and a deep
  one again, or two of different newest seasons and one more that reads what they mixed; two tries and two
  troubles, a refusal and a death.  Requests start at the second or the third season and leave none out, as
  the code's two requesters count down (`RangesAssumption`).  Tried besides: `{2}`, `{1, 2}`, `{3}` and
  `{2, 3}` (2 996 000 states).

## Fairness

`LoreClaims!Fairness`: time passes; a due event is delivered to an attempt (the job runner's promise);
a run of the job that started ends, by committing or failing.  Nothing is assumed of members, stewards
or of the route that should send the event: `ScheduleClose` is not fair, as the process can die first,
so `ScheduledVoteCloses` speaks of events that were sent.

`PickGrading!Fairness` (for `grade_blind`: the violation is not that somebody stops): time passes, games
end, the cron of the poll runs, the deduplication window runs out, and the runner works off its queue.
Failures are not fair and are bounded by `Failures`.

`SpendGuard!Fairness`: a key with a time to live expires, and a job that is about to send EXPIRE sends it.
Jobs need not call.

`ShadowImport` needs none: its tries are bounded, so a job that goes on ends, and `JobSettlesItsClaim` says
what its end leaves.  That the runner does go on is its promise, as elsewhere.

`LiveIngestion!FairSpec`: the cron ticks and each ingest gets on.  Under it `RowFollowsProvider` (what the
provider says reaches the table, late answers notwithstanding) holds, checked with
`MaxPlays = 1, MaxEdits = 1, MaxKeys = 1, Failures = 0` and with `MaxPlays = 2, MaxEdits = 0, Failures = 0`,
without symmetry; with the run's bounds its behaviour graph is out of reach.

## What is proved

Every invariant and every action property of the runs is a theorem, and so are the two refinements.  They
hold for every value of the constants.  The assumptions (`BoundsAssumption`, `PollAssumption`,
`SubmissionAssumption`, `GradingAssumption`, `SpendAssumption`, `MembersAssumption`, `LiveAssumption`,
`EditorialAssumption`, `SeasonsAssumption`, `RangesAssumption`, `NoCheckpointAssumption`) say no more than
that bounds are numbers, that what is counted is finite, that NULL is no identifier and no row, that a
poll's option is not the statement a claim was submitted with, and that an import is asked for a range of
seasons without gaps (`RangesAssumption`), from whatever newest season.

**ClaimLifecycle.**  `Safety`: `Spec => []Inv`.  `NeverBothStanding` alone is not inductive: a verdict
on a challenge moves the challenged claim, and that could be an open vote unless challenged claims are
known to be settled; and a claim could be both challenged and disputed with nobody left to end it.  `Inv`
is `TypeOK`, `ChallengedIsSettled`, `NeverBothStanding` and `DisputedHasOpenChallenge`, with one lemma
for each kind of step (`OpenKeepsInv`, `VerdictKeepsInv` for `Verify` and `Settle`, `VetoKeepsInv`).
`Resolvable`, which is `Inv` without `NeverBothStanding`, is inductive by itself, for the polls below.

**LoreClaims.**  The inductive invariant `IInv` is `TypeOK`, `ReqInv` and `RowInv`: what a transaction
remembers still holds when it commits, whatever committed in between.  Its heart is that settled claims
never return to `absent` or `vote`, so that a challenge checked against a canon claim is still against a
settled one when it is inserted.  `InductiveInvariant` and `TypeCorrect` follow.  Each commit is shown to
be a step of `ClaimLifecycle` and each read a stutter (`Implements`: `Spec => L!Spec`), and the abstract
`Safety` then gives `NeverBoth` and `DisputeCanEnd` for the interleaved engine without another
induction.  `SettledStays` is an action property read off the abstract steps.

What a claim's row and its events say together is a second induction, `TrailInv`: a trail without a verdict
is that of an open vote, one with a verdict that of a settled claim, and there is one verdict at most
(`RowOK`, from which the cardinality in `DecidedOnce` follows); the row has the status the set of events
tells, since each commit that disputes, upholds, supersedes or settles a claim adds the event that says so
and one that found the status changed adds none; and a job about to canonize has seen a quorum
(`QuorumRead`), which later votes only add to.  Each commit adds to one trail or to two, so the lemmas are
about a trail with rows appended (`VerdictsOfLonger`).  `SettledOnce`, `TrailTells`, `ProvenanceIsKept`,
`CanonByVoteHasQuorum`.

**InstigatorPolls.**  A poll's close can reopen and rewrite a claim the engine has settled, so
`NeverBothStanding` is false here, and what ends a dispute cannot rest on it: the engine's steps are shown to
keep `Resolvable` alone.  The instigator's writes keep it because a poll's claim challenges nothing
(`PollClaimsChallengeNone`), a close writes a poll's claim only (`ReadIsPolls`), and what it writes is a
settled status.  `DisputesResolvable`; `PollHasOneClaim`, from `OneEach` and the two transactions of the
seed; `PollResultIsFinal`, which needs that two closes of a poll do not overlap: the idempotency
key of the job is the poll.

**PickSubmission.**  `SubmitInv` adds to the types and the three properties that only staged keys are
submitted and that a key found by the lookup has a pick (`Staged`).  `OneIntentOnePick`,
`OneMarketOnePick`, `AnswersAreTrue`.  The bound of the overshoot needs an account: a user's rows and the
submissions past the check of the allowance that will insert (`Admitted`) stay together below the allowance
and the number of requests (`Within`).  A check passes only below the allowance, and then there is room for
every other request; an insert turns an admitted submission into a row (`OvershootIsBounded`).

**PickGrading.**  `IInv` is `TypeOK`, `NothingInvented` and `RunsInv`: what a job may rely on after an await
(the picks it read exist, the leagues it calls affected are graded, the picks it counted are correct).  Most
steps touch no pick; for those, and for the two that do, `PicksKept` is what every other job needs.
`GradingTypes`, `BoardAndNewsAreTrue`, `GradesAreFinal`, `MemoizedIsAnnounced` (what a job was told by its
first step stays with it until it announces).  Under whatever the central reads see and however many
failures there are.

**SpendGuard.**  `CounterBounded` is not inductive: the counter must leave room for what the calls at
work still have to record.  `IInv` is `TypeOK`, `ExpireAlone` and `Room`, which says that the value and
`MaxUnits` for each of those calls stay within the bound; it rests on the cardinality of the set of these
calls.  `Overshoots` is the theorem.  `Accounts` is the same idea for the bill: each unit billed is in the
counter, owed to it by a call at work, in the memory of a job that fell back (each of which a failed command
explains), or went with a job that died or a guard that was dropped.  `SpendIsBounded` adds these up.

**LeagueMembers.**  `MembersInv` adds to the types and the three invariants what a request remembers:
`HeldIsClaimed` (an acceptance that found the identity already its own still has it when it commits)
and `HandoffToAnother`.
`OneIdentity`, `ClaimantsAreMembers`, `InvitesTellTheTruth`; `RolesAreKept` and `HandoffsKeepALeader` are
action properties read off it.

**LiveIngestion.**  A worker that has stored a change owes the league the statistics and, if the matchup
is final, the announcement.  `IInv` says who owes what: `FactsAhead` and `AnnouncedOrHeard` until it is
paid, with `ComputedFinal` (what a computation has read is still final when it writes), `NewsOfChanged`,
and `EditedIsStored` and `KeptIsRead`, which make the kept columns of an upsert a row.  `FactsFollow`
itself is not inductive: any worker that read the content satisfies it, but only the death of one that
changed the matchup is counted.  Most steps of a worker change nothing but what it knows: `WorkerAlone` is
their lemma.  `StatisticsCountFinals`, `StatisticsFollow`, `FinalsAreAnnounced`, and
`EditsReplacedByLateReads` read off the actions.

**HistoricalImport.**  Why is a season that is declared imported there, when every import writes the list
from its own memory?  Since an import works from the newest season down and stores a season before it marks
it, every list has no gap above its last member (`Deep`, relative to the newest season of the checkpoint or
the request), and a season the provider had nothing of ends the history (`CoveredBy`): the union of two
imports' work from one newest season is again such a list.  `HistoryInv` says that of the checkpoint and of
each import's memory (`CheckpointTrue`, `ImportTrue`).  Work from two newest seasons does not add up that
way, and the code does not keep it apart, so both are said only of what is not `mixed`; the proof shows that
a write over another newest season's row is the one way to break it.  `UnmixedHistory`.  `ProgressIsKept`
rests on `ResumeInv`: an import that resumed has in mind what the checkpoint lists of its seasons, save what
it has missed.

**ShadowImport.**  `ShadowInv` is the types and `Sound`: a row that names a league names the one that exists,
so the cleanup, which deletes a league no row names, never takes it from a settled one (`RowSound`); what a
request would put back was no live row, and names the league the claimed row still names (`RequestSound`);
a job's event names a league (`JobsSound`).  One lemma covers every step that writes a single owner's row
(`OwnerKeeps`).  `SettledRowHasItsLeague`; `LiveStaysLive` and `VerdictIsOfTheClaim` are read off the
conditions of the writes (`HoldsClaim`, `Settles`), and `JobSettles` off the ways a job can end.

**Editorial.**  None of the four invariants is inductive.  That a story is told by a descendant which is
live or was retracted on purpose needs a reason for every retraction: a version was retracted by the
commissioner, or withdrawn because the post above it was (`RetractedForCause`), so that above any
withdrawn version there is one retracted on purpose (`RetractedOnPurpose`).  That a superseded post has a
descendant at all needs its note in the log (`SupersededIsNoted`); that no version is its own descendant
(`NoCycle`) needs the parent to be stored first (`ParentIsStored`).  `PublishedOnce` comes from the unique
key (`OneForEachKey`) and from what a key with a random part means (`SecondAfterGone`).  `RunsFit` and
`CallsFit` are what a call may rely on after an await: the run it works for still replaces the same post,
the post it wrote is still a replacement of it, the replacement it found gone does not come back.
`Descendants` is the least set closed under `Children`, so facts about chains of any length are proved by
giving a closed set (`Line`, `Above`).  `OriginalAlwaysRetires`, `RetractionAlwaysHolds`,
`StoryIsNeverLost`, `StoryIsPublishedOnce`; each step is a step of `ContentHistory` or a stutter
(`PostsHaveALifecycle`), and what a reader relies on there holds (`HistoryIsConsistent`).

Only model-checked: the liveness properties `ScheduledVoteCloses` and `DenialEnds`, and that `PendingIsGraded`
is violated, as fairness and ENABLED are beyond the proof system.  So is induction
over data; no module here uses a recursive operator, and the one sum (`ClaimsMade`) is a bound of the model
which no proof depends on.

## Plan

Done, in this order: the lore engine and its abstract lifecycle, the instigator's polls, pick submission,
grading; posts and their generation, the spend guard,
import requests, members, live ingestion, the historical import.  Next, by weight:

1. `CurationLedger` (`stats/curation.ts`, `curated-state.ts`): the ledger explains the data, restore
   returns to a checkpoint, groupings do not overlap.
2. The rate limiter and the odds provider's guard as further stores of `SpendGuard`.
3. Operators for `betting/pickem-scoring.ts`, the ranking of `betting/arena.ts` and
   `ingestion/poll-policy.ts`, checked against reference definitions over bounded inputs.

Theorems to add: that the interleaved imports of a league from one newest season keep what one import at a
time would (an abstract history with a single writer, refined by `HistoricalImport` while nothing is mixed);
the same for the roles of `LeagueMembers`; and the safety part of the liveness arguments, such as that a vote
whose close event was sent has a job in the queue until it is settled.
