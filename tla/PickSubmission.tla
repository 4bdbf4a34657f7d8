--------------------------- MODULE PickSubmission ---------------------------
(***************************************************************************)
(* Submitting Pick 'em picks (src/betting/pickem.ts), for one league and   *)
(* one pick week.  A submission is one READ COMMITTED transaction of       *)
(* several reads and an insert; a client that times out sends it again     *)
(* under the same key, and a user may submit from two windows at once.     *)
(***************************************************************************)
EXTENDS Integers, FiniteSets

CONSTANTS
  Users,
  Markets,
  Keys,           \* idempotency keys: one for each pick a client stages
  Allowances,     \* values of pick_weeks.max_picks_per_user
  Requests,       \* bound: submissions in flight at once
  Null

ASSUME SubmissionAssumption ==
  /\ Allowances \subseteq Nat \ {0}
  /\ IsFiniteSet(Keys) /\ IsFiniteSet(Users) /\ IsFiniteSet(Requests)
  /\ Null \notin Allowances \cup Markets \cup Users

VARIABLES
  weekMax,        \* the week's allowance, Null before the week's row exists
  phase,          \* where the clock is in the week's window
  offered,        \* markets that are open on an event that has not started
  picks,          \* picks[k]: how many rows of picks have key k
  owner,          \* the user and market a client minted a key for
  req,            \* what each submission in flight has read
  reply           \* the keys whose client was told the pick is in

submitVars == <<weekMax, phase, offered, picks, owner, req, reply>>

Idle == [pc |-> "idle"]
Unstaged == [user |-> Null, market |-> Null]

Finish(r) == req' = [req EXCEPT ![r] = Idle]

\* The rows of u's picks in the week, and how many they are.
PickRows(u) == UNION {{k} \X (1..picks[k]) : k \in {k \in Keys : owner[k].user = u}}
UsedPicks(u) == Cardinality(PickRows(u))

-----------------------------------------------------------------------------
(* openPickWeek, and the world outside *)

\* An insert that leaves an existing week as it was opened.
OpenPickWeek(n) ==
  /\ weekMax' = IF weekMax = Null THEN n ELSE weekMax
  /\ UNCHANGED <<phase, offered, picks, owner, req, reply>>

\* The week's window opens and closes.
PassWindow ==
  /\ phase # "closed"
  /\ phase' = IF phase = "before" THEN "open" ELSE "closed"
  /\ UNCHANGED <<weekMax, offered, picks, owner, req, reply>>

\* A game starts, or its market closes.
Withdraw(m) ==
  /\ m \in offered
  /\ offered' = offered \ {m}
  /\ UNCHANGED <<weekMax, phase, picks, owner, req, reply>>

\* A client stages a market and mints the key all its submissions of it carry.
Stage(u, k, m) ==
  /\ owner[k] = Unstaged
  /\ owner' = [owner EXCEPT ![k] = [user |-> u, market |-> m]]
  /\ UNCHANGED <<weekMax, phase, offered, picks, req, reply>>

-----------------------------------------------------------------------------
(* submitPick *)

\* The clock is read before anything else, the key is looked up first.
BeginSubmit(r, k) ==
  LET o == owner[k] IN
    /\ req[r] = Idle /\ o # Unstaged
    /\ req' = [req EXCEPT ![r] = [pc |-> "week", user |-> o.user, key |-> k,
                                  market |-> o.market, at |-> phase,
                                  known |-> picks[k] > 0]]
    /\ UNCHANGED <<weekMax, phase, offered, picks, owner, reply>>

\* A faulty allowance check, off by one.
HasAllowanceInclusive(u) == UsedPicks(u) <= weekMax

HasAllowance(u) == UsedPicks(u) < weekMax

\* The week and the user's picks are read.  A key that was found is answered with
\* its pick, whatever the week; else PICK_WEEK_NOT_OPEN, PICK_WEEK_CLOSED and
\* PICK_ALLOWANCE_EXHAUSTED refuse.
ReadWeek(r) ==
  LET q == req[r] IN
    /\ q.pc = "week" /\ weekMax # Null
    /\ \/ /\ q.known
          /\ reply' = reply \cup {q.key}
          /\ Finish(r)
       \/ /\ ~q.known /\ q.at = "open" /\ HasAllowance(q.user)
          /\ req' = [req EXCEPT ![r].pc = "market"]
          /\ UNCHANGED reply
    /\ UNCHANGED <<weekMax, phase, offered, picks, owner>>

\* The snapshot, its market and its event are read in one join.
ReadMarket(r) ==
  LET q == req[r] IN
    /\ q.pc = "market" /\ q.market \in offered
    /\ req' = [req EXCEPT ![r].pc = "insert"]
    /\ UNCHANGED <<weekMax, phase, offered, picks, owner, reply>>

\* A faulty schema without the unique index on the market.
NeverTaken(q) == FALSE

\* picks_idempotency_unique, the target of ON CONFLICT DO NOTHING.
Conflict(q) == picks[q.key] > 0

\* picks_user_market_unique, which fails the insert.
Taken(q) == \E k \in Keys : owner[k] = owner[q.key] /\ picks[k] > 0

\* A faulty insert that trusts the lookup of the key at the start.
FreshWhenRead(q) == ~q.known

Fresh(q) == ~Conflict(q) /\ ~Taken(q)

\* A submission that lost the race to a replay of its key answers with the winner.
Insert(r) ==
  LET q == req[r] IN
    /\ q.pc = "insert"
    /\ \/ /\ Conflict(q)
          /\ UNCHANGED picks
       \/ /\ Fresh(q)
          /\ picks' = [picks EXCEPT ![q.key] = @ + 1]
    /\ reply' = reply \cup {q.key}
    /\ Finish(r)
    /\ UNCHANGED <<weekMax, phase, offered, owner>>

\* A check that fails, an error or a lost answer: the transaction is rolled back.
Abort(r) ==
  /\ req[r] # Idle
  /\ Finish(r)
  /\ UNCHANGED <<weekMax, phase, offered, picks, owner, reply>>

\* The transaction commits, and the answer never reaches the client.
InsertUnanswered(r) ==
  LET q == req[r] IN
    /\ q.pc = "insert" /\ Fresh(q)
    /\ picks' = [picks EXCEPT ![q.key] = @ + 1]
    /\ Finish(r)
    /\ UNCHANGED <<weekMax, phase, offered, owner, reply>>

-----------------------------------------------------------------------------

SubmitInit ==
  /\ weekMax = Null
  /\ phase = "before"
  /\ offered = Markets
  /\ picks = [k \in Keys |-> 0]
  /\ owner = [k \in Keys |-> Unstaged]
  /\ req = [r \in Requests |-> Idle]
  /\ reply = {}

SubmitNext ==
  \/ \E n \in Allowances : OpenPickWeek(n)
  \/ PassWindow
  \/ \E m \in Markets : Withdraw(m)
  \/ \E u \in Users, k \in Keys, m \in Markets : Stage(u, k, m)
  \/ \E r \in Requests :
       \/ \E k \in Keys : BeginSubmit(r, k)
       \/ ReadWeek(r) \/ ReadMarket(r) \/ Insert(r)
       \/ InsertUnanswered(r) \/ Abort(r)

SubmitSpec == SubmitInit /\ [][SubmitNext]_submitVars

-----------------------------------------------------------------------------
(* Properties *)

Submissions ==
  [pc : {"week", "market", "insert"}, user : Users, key : Keys, market : Markets,
   at : {"before", "open", "closed"}, known : BOOLEAN]

\* Every variable has its type.
SubmitTypeOK ==
  /\ weekMax \in Allowances \cup {Null}
  /\ phase \in {"before", "open", "closed"}
  /\ offered \subseteq Markets
  /\ picks \in [Keys -> Nat]
  /\ owner \in [Keys -> [user : Users, market : Markets] \cup {Unstaged}]
  /\ req \in [Requests -> Submissions \cup {Idle}]
  /\ reply \subseteq Keys

\* However often a submission times out and is sent again, concurrently or after
\* its first attempt committed, one user intent produces at most one pick.
OnePickPerIntent == \A k \in Keys : picks[k] <= 1

\* A user takes one side of a market, even when two windows submit it under keys
\* of their own.
OnePickPerMarket ==
  \A j, k \in Keys : j # k /\ owner[j] = owner[k] => picks[j] = 0 \/ picks[k] = 0

\* A client that was told its pick is in has a pick.
AnsweredIsStored == \A k \in reply : picks[k] > 0

\* Concurrent submissions can outrun the allowance check, but only by those in
\* flight with the one that was entitled: the excess never accumulates.
OvershootBounded ==
  weekMax # Null =>
    \A u \in Users : UsedPicks(u) < weekMax + Cardinality(Requests)

\* What the doc comment of submitPick says: "the allowance check and the insert
\* cannot race".  They do, under READ COMMITTED.
AllowanceKept == weekMax # Null => \A u \in Users : UsedPicks(u) <= weekMax
=============================================================================
