----------------------------- MODULE PickGrading -----------------------------
(***************************************************************************)
(* Grading Pick 'em picks: the poll that finds finished games, the job it  *)
(* queues for each league with pending picks (resolve the event, grade the *)
(* picks, rebuild the arena board, announce), and the picks themselves.    *)
(* Sources: src/betting/event-results.ts, event-resolution.ts,             *)
(* pickem-grading.ts, grading.ts, arena.ts, ingestion.ts and               *)
(* src/jobs/functions/betting-event-poll.ts, betting-grade-game-final.ts.  *)
(***************************************************************************)
EXTENDS Naturals, FiniteSets

CONSTANTS
  Events,           \* real games
  Leagues,          \* each with one member, who may pick a side of each game
  Answers,          \* how a game may end, as the results provider tells it
  CentralReadSees,  \* whether a query outside a league context sees picks:
                    \* FALSE for a role that row-level security binds
  Attempts,         \* attempts the job runner gives a step
  Failures,         \* bound: failed attempts in a behaviour
  None

Sides == {"home", "away"}
Statuses == {"pending", "correct", "incorrect", "void"}   \* pick_status
Jobs == Leagues \X Events   \* idempotency: leagueId + ':' + bettingEventId

ASSUME GradingAssumption ==
  /\ Answers \subseteq Sides \cup {"push", "postponed", "canceled"}
  /\ CentralReadSees \in BOOLEAN
  /\ Attempts \in Nat \ {0} /\ Failures \in Nat
  /\ None \notin [side : Sides, status : Statuses]

VARIABLES
  clock,      \* the event's recorded start: ahead, passed, or 3.5 hours ago
  status,     \* betting_event.status
  market,     \* the status of the event's markets
  answer,     \* what the results provider says of the game now
  pick,       \* the league's pick on the event, None or its side and status
  run,        \* the grading job of a league and event
  memo,       \* the leagues in the facts the runner has memoized for the job
  seen,       \* the jobs the runner's deduplication window remembers
  board,      \* the correct picks arena_standings counts
  announced,  \* the (league, event) pairs picks.graded was sent for
  failures    \* failed attempts and mocked fetches so far

vars == <<clock, status, market, answer, pick, run, memo, seen, board, announced, failures>>
catalog == <<clock, status, market>>

NoRun == [pc |-> "idle"]
Queued == [pc |-> "fetch", tries |-> 0]

Pending(l, e) == pick[<<l, e>>] # None /\ pick[<<l, e>>].status = "pending"

\* The leagues a query outside any league context finds with pending picks on e.
PendingLeagues(e) == IF CentralReadSees THEN {l \in Leagues : Pending(l, e)} ELSE {}

-----------------------------------------------------------------------------
(* The world outside: games, the odds provider, the clock, the members *)

\* submitPick (see PickSubmission): an open market, before the game starts.
Submit(l, e, side) ==
  /\ pick[<<l, e>>] = None
  /\ market[e] = "open" /\ clock[e] = "ahead"
  /\ pick' = [pick EXCEPT ![<<l, e>>] = [side |-> side, status |-> "pending"]]
  /\ UNCHANGED <<catalog, answer, run, memo, seen, board, announced, failures>>

Pass(e) ==
  /\ clock[e] # "overdue"
  /\ clock' = [clock EXCEPT ![e] = IF @ = "ahead" THEN "passed" ELSE "overdue"]
  /\ UNCHANGED <<status, market, answer, pick, run, memo, seen, board, announced, failures>>

\* The game is decided, postponed or canceled.  It may go on beyond 3.5 hours.
EndGame(e, a) ==
  /\ answer[e] \in {"unplayed", "rescheduled"}
  /\ a \in {"postponed", "canceled"} \/ clock[e] # "ahead"
  /\ answer[e] = "rescheduled" => a # "postponed"
  /\ answer' = [answer EXCEPT ![e] = a]
  /\ UNCHANGED <<catalog, pick, run, memo, seen, board, announced, failures>>

\* The provider corrects the box score of a game that was played.
CorrectScore(e, a) ==
  /\ answer[e] \in Sides \cup {"push"} /\ a \in Sides \cup {"push"}
  /\ answer' = [answer EXCEPT ![e] = a]
  /\ UNCHANGED <<catalog, pick, run, memo, seen, board, announced, failures>>

\* A postponed game gets a new date, and the odds refresh records it: the event's
\* content hash changed, so its row is overwritten with the provider's, where every
\* event is "scheduled".  The hash of a market did not: it stays open or void.
Reschedule(e) ==
  /\ answer[e] = "postponed"
  /\ answer' = [answer EXCEPT ![e] = "rescheduled"]
  /\ clock' = [clock EXCEPT ![e] = "ahead"]
  /\ status' = [status EXCEPT ![e] = "scheduled"]
  /\ UNCHANGED <<market, pick, run, memo, seen, board, announced, failures>>

-----------------------------------------------------------------------------
(* betting-event-poll *)

\* Not in the states that findFinishedEvents says can never yield a result.
Candidate(e) == clock[e] = "overdue" /\ status[e] \notin {"final", "canceled"}

\* One event for each league with pending picks; the runner drops those whose id
\* or key it has seen.
Poll(e) ==
  LET queued == {j \in PendingLeagues(e) \X {e} : j \notin seen /\ run[j] = NoRun} IN
    /\ Candidate(e) /\ queued # {}
    /\ run' = [j \in Jobs |-> IF j \in queued THEN Queued ELSE run[j]]
    /\ seen' = seen \cup queued
    /\ UNCHANGED <<catalog, answer, pick, memo, board, announced, failures>>

\* The deduplication window of a job that ended runs out.
Forget(j) ==
  /\ j \in seen /\ run[j].pc \in {"done", "dead"}
  /\ seen' = seen \ {j}
  /\ run' = [run EXCEPT ![j] = NoRun]
  /\ memo' = [memo EXCEPT ![j] = {}]
  /\ UNCHANGED <<catalog, answer, pick, board, announced, failures>>

-----------------------------------------------------------------------------
(* Step 1 of the job: gradeGameFinalFacts *)

Resolvable(a) == a \in Sides \cup {"push", "postponed", "canceled"}

\* The status the provider's answer gives the event.
FinalStatus(a) == IF a \in {"postponed", "canceled"} THEN a ELSE "final"

\* gradeSelection and toPickOutcome, for a moneyline pick.
Outcome(side, a) ==
  IF a \notin Sides THEN "void" ELSE IF side = a THEN "correct" ELSE "incorrect"

\* The provider is asked; an unfinished game ends the job with nothing done.
Fetch(j) ==
  LET a == answer[j[2]] IN
    /\ run[j].pc = "fetch"
    /\ run' = [run EXCEPT ![j] =
         IF Resolvable(a) THEN [pc |-> "resolve", tries |-> @.tries, answer |-> a]
                          ELSE [pc |-> "done"]]
    /\ UNCHANGED <<catalog, answer, pick, memo, seen, board, announced, failures>>

\* The provider is down or its cap is spent, and the mock answers in its place: 23 to
\* 20 for the home team, of every game the mock has no fixture of, played or not.
FetchMock(j) ==
  /\ run[j].pc = "fetch"
  /\ "home" \in Answers
  /\ failures < Failures
  /\ failures' = failures + 1
  /\ run' = [run EXCEPT ![j] = [pc |-> "resolve", tries |-> @.tries, answer |-> "home"]]
  /\ UNCHANGED <<catalog, answer, pick, memo, seen, board, announced>>

\* One transaction, under a lock that does not cover the fetch.
Resolve(j) ==
  LET e == j[2] a == run[j].answer IN
    /\ run[j].pc = "resolve"
    /\ status' = [status EXCEPT ![e] = FinalStatus(a)]
    /\ market' = [market EXCEPT ![e] = IF FinalStatus(a) = "final" THEN "settled" ELSE "void"]
    /\ run' = [run EXCEPT ![j].pc = "list"]
    /\ UNCHANGED <<clock, answer, pick, memo, seen, board, announced, failures>>

\* Every league with pending picks on the event, not only the job's own.
ListLeagues(j) ==
  /\ run[j].pc = "list"
  /\ run' = [run EXCEPT ![j] = [pc |-> "grade", tries |-> @.tries, answer |-> @.answer,
                                todo |-> PendingLeagues(j[2]), affected |-> {}]]
  /\ UNCHANGED <<catalog, answer, pick, memo, seen, board, announced, failures>>

\* In the league's context: its pending picks are read and graded in memory.
ReadPending(j, l) ==
  LET q == run[j] e == j[2] IN
    /\ q.pc = "grade" /\ l \in q.todo
    /\ run' = [run EXCEPT ![j] =
         IF Pending(l, e)
         THEN [pc |-> "write", tries |-> q.tries, answer |-> q.answer,
               todo |-> q.todo \ {l}, affected |-> q.affected, league |-> l,
               outcome |-> Outcome(pick[<<l, e>>].side, q.answer)]
         ELSE [q EXCEPT !.todo = @ \ {l}]]
    /\ UNCHANGED <<catalog, answer, pick, memo, seen, board, announced, failures>>

\* A faulty update without the re-check of the status.
StillPendingWhenRead(l, e) == TRUE

\* The WHERE clause of the update.
StillPending(l, e) == Pending(l, e)

\* The update and its commit.  The counts are of the picks read, updated or not.
WriteGrade(j) ==
  LET q == run[j] k == <<q.league, j[2]>> IN
    /\ q.pc = "write"
    /\ pick' = IF StillPending(q.league, j[2])
               THEN [pick EXCEPT ![k].status = q.outcome] ELSE pick
    /\ run' = [run EXCEPT ![j] =
         [pc |-> "grade", tries |-> q.tries, answer |-> q.answer, todo |-> q.todo,
          affected |-> q.affected \cup {q.league}]]
    /\ UNCHANGED <<catalog, answer, memo, seen, board, announced, failures>>

\* The facts of the step are memoized.
FinishGrading(j) ==
  LET q == run[j] IN
    /\ q.pc = "grade" /\ q.todo = {}
    /\ run' = [run EXCEPT ![j] =
         IF q.affected = {} THEN [pc |-> "done"]
         ELSE [pc |-> "rebuild", tries |-> 0, affected |-> q.affected,
               left |-> Leagues, counted |-> {}]]
    /\ memo' = [memo EXCEPT ![j] = @ \cup q.affected]
    /\ UNCHANGED <<catalog, answer, pick, seen, board, announced, failures>>

-----------------------------------------------------------------------------
(* Step 2, publishGameFinalEffects, and the send of picks.graded *)

\* A faulty count that takes every pick that was not wrong for a right one.
NotIncorrect(j) == pick[j] # None /\ pick[j].status # "incorrect"

Correct(j) == pick[j] # None /\ pick[j].status = "correct"

\* loadPickMetrics: a transaction for each league.
ReadMetrics(j, l) ==
  /\ run[j].pc = "rebuild" /\ l \in run[j].left
  /\ run' = [run EXCEPT ![j].left = @ \ {l},
                        ![j].counted = @ \cup {k \in {l} \X Events : Correct(k)}]
  /\ UNCHANGED <<catalog, answer, pick, memo, seen, board, announced, failures>>

\* The season's standings are deleted and inserted, from what was read before.
WriteBoard(j) ==
  /\ run[j].pc = "rebuild" /\ run[j].left = {}
  /\ board' = run[j].counted
  /\ run' = [run EXCEPT ![j] = [pc |-> "announce", tries |-> 0, affected |-> @.affected]]
  /\ UNCHANGED <<catalog, answer, pick, memo, seen, announced, failures>>

Announce(j) ==
  /\ run[j].pc = "announce"
  /\ announced' = announced \cup (run[j].affected \X {j[2]})
  /\ run' = [run EXCEPT ![j] = [pc |-> "done"]]
  /\ UNCHANGED <<catalog, answer, pick, memo, seen, board, failures>>

-----------------------------------------------------------------------------
(* Failures *)

\* A faulty job of one step: a failure anywhere starts it again from the fetch.
RestartJob(q) == [pc |-> "fetch", tries |-> q.tries + 1]

\* The first step starts again, or the one that failed with the memoized facts.
Restart(q) ==
  CASE q.pc = "rebuild" ->
         [pc |-> "rebuild", tries |-> q.tries + 1, affected |-> q.affected,
          left |-> Leagues, counted |-> {}]
    [] q.pc = "announce" -> [q EXCEPT !.tries = @ + 1]
    [] OTHER -> [pc |-> "fetch", tries |-> q.tries + 1]

\* An exception or a crash at any point: what was committed stays.
Fail(j) ==
  LET q == run[j] IN
    /\ q.pc \notin {"idle", "done", "dead"}
    /\ failures < Failures
    /\ failures' = failures + 1
    /\ run' = [run EXCEPT ![j] = IF q.tries + 1 < Attempts THEN Restart(q) ELSE [pc |-> "dead"]]
    /\ UNCHANGED <<catalog, answer, pick, memo, seen, board, announced>>

-----------------------------------------------------------------------------

Init ==
  /\ clock = [e \in Events |-> "ahead"]
  /\ status = [e \in Events |-> "scheduled"]
  /\ market = [e \in Events |-> "open"]
  /\ answer = [e \in Events |-> "unplayed"]
  /\ pick = [j \in Jobs |-> None]
  /\ run = [j \in Jobs |-> NoRun]
  /\ memo = [j \in Jobs |-> {}]
  /\ seen = {} /\ board = {} /\ announced = {}
  /\ failures = 0

Work(j) ==
  \/ Fetch(j) \/ Resolve(j) \/ ListLeagues(j)
  \/ \E l \in Leagues : ReadPending(j, l)
  \/ WriteGrade(j) \/ FinishGrading(j)
  \/ \E l \in Leagues : ReadMetrics(j, l)
  \/ WriteBoard(j) \/ Announce(j)

World(e) ==
  \/ \E l \in Leagues, s \in Sides : Submit(l, e, s)
  \/ Pass(e)
  \/ \E a \in Answers : EndGame(e, a) \/ CorrectScore(e, a)
  \/ Reschedule(e)

Next ==
  \/ \E e \in Events : World(e) \/ Poll(e)
  \/ \E j \in Jobs : Forget(j) \/ Work(j) \/ FetchMock(j) \/ Fail(j)

Spec == Init /\ [][Next]_vars

\* Time passes, games end, the poll has its cron and the runner works off its queue.
Fairness ==
  /\ \A e \in Events :
       WF_vars(Pass(e)) /\ WF_vars(\E a \in Answers : EndGame(e, a)) /\ WF_vars(Poll(e))
  /\ \A j \in Jobs : WF_vars(Forget(j)) /\ WF_vars(Work(j))

FairSpec == Spec /\ Fairness

-----------------------------------------------------------------------------
(* Properties *)

\* What a job knows at each of its steps.
Runs ==
  {NoRun, [pc |-> "done"], [pc |-> "dead"]}
    \cup [pc : {"fetch"}, tries : Nat]
    \cup [pc : {"resolve", "list"}, tries : Nat, answer : Answers]
    \cup [pc : {"grade"}, tries : Nat, answer : Answers, todo : SUBSET Leagues,
          affected : SUBSET Leagues]
    \cup [pc : {"write"}, tries : Nat, answer : Answers, todo : SUBSET Leagues,
          affected : SUBSET Leagues, league : Leagues, outcome : Statuses \ {"pending"}]
    \cup [pc : {"rebuild"}, tries : Nat, affected : SUBSET Leagues,
          left : SUBSET Leagues, counted : SUBSET Jobs]
    \cup [pc : {"announce"}, tries : Nat, affected : SUBSET Leagues]

\* Every variable has its type.
TypeOK ==
  /\ clock \in [Events -> {"ahead", "passed", "overdue"}]
  /\ status \in [Events -> {"scheduled", "final", "postponed", "canceled"}]
  /\ market \in [Events -> {"open", "settled", "void"}]
  /\ answer \in [Events -> Answers \cup {"unplayed", "rescheduled"}]
  /\ pick \in [Jobs -> [side : Sides, status : Statuses] \cup {None}]
  /\ run \in [Jobs -> Runs]
  /\ memo \in [Jobs -> SUBSET Leagues]
  /\ seen \subseteq Jobs /\ board \subseteq Jobs /\ announced \subseteq Jobs
  /\ failures \in 0..Failures

\* A pick that has an outcome keeps it, though every job of an event grades every
\* league's picks, two of them at once, and the provider may have corrected the
\* score between the two reads.
GradedOnce ==
  [][\A j \in Jobs : pick[j] # None /\ ~Pending(j[1], j[2]) => pick'[j] = pick[j]]_vars

\* The board never counts a pick that is not correct, and no league hears of picks
\* graded while its own are pending, whatever was rebuilt, retried or announced late.
NothingInvented ==
  /\ \A j \in board : pick[j] # None /\ pick[j].status = "correct"
  /\ \A j \in announced : pick[j] # None /\ ~Pending(j[1], j[2])

\* A job that ends well has announced every league in the facts its first step ever
\* returned: a failure after the grading step retries only what is left, as a job that
\* graded again would find nothing pending and announce nobody.
MemoIsAnnounced ==
  \A j \in Jobs : run[j].pc = "done" => memo[j] \X {j[2]} \subseteq announced

(* Statements of the documents and comments that do not hold. *)

\* An event over whose picks are pending is polled until they are graded
\* (betting-event-poll.ts: the poller "will re-see an event until its picks are
\* graded").  So it is if the poll's query sees picks, and no job fails for good.
PendingIsGraded ==
  \A j \in Jobs :
    (Pending(j[1], j[2]) /\ answer[j[2]] \in Answers) ~> ~Pending(j[1], j[2])

\* Every league whose picks were graded hears of it (publishGameFinalEffects: a
\* dropped notification "is a user who never learns their picks were graded").
GradedIsAnnounced ==
  \A j \in Jobs : (pick[j] # None /\ ~Pending(j[1], j[2])) ~> j \in announced

\* Once every job has ended well, the board shows the picks that are correct
\* (publishArenaRealtimeSignals: the job "already wrote the truth").
BoardIsCurrent ==
  (\A j \in Jobs : run[j].pc \in {"idle", "done"} /\ j \in announced)
    => board = {j \in Jobs : pick[j].status = "correct"}

\* A postponed game that is played after all has its picks graded by its score
\* (findFinishedEvents: "a rescheduled game ... should be graded then").
RescheduledIsGraded ==
  \A j \in Jobs :
    answer[j[2]] \in Sides /\ pick[j] # None => pick[j].status # "void"

\* Picks are graded by what became of the game: the results provider is "the
\* authoritative source for scores" (specs/08-betting.md:39), and a game has a score
\* when it has been played.
GradedByTheGame ==
  \A j \in Jobs :
    pick[j] # None /\ pick[j].status \in {"correct", "incorrect"}
      => answer[j[2]] \in Sides \cup {"push"}
=============================================================================
