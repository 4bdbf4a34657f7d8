---------------------------- MODULE PickemProofs ----------------------------
(***************************************************************************)
(* Proofs about Pick 'em.  Submission: a pick, its retries and its rivals  *)
(* leave one row per intent and per market, and the races of an allowance  *)
(* do not add up, for every number of users, markets, keys and requests.   *)
(* Grading: any number of leagues and games, any set of answers and any    *)
(* number of failures, whether or not a query outside a league context     *)
(* sees picks.                                                             *)
(***************************************************************************)
EXTENDS PickSubmission, PickGrading, FiniteSetTheorems, TLAPS

(* Part I: submission *)

\* Only a staged key is submitted or has a pick, and a key that was found has one.
Staged ==
  /\ \A k \in Keys : picks[k] > 0 => owner[k] # Unstaged
  /\ \A r \in Requests : req[r] # Idle =>
       /\ owner[req[r].key] # Unstaged
       /\ req[r].known => picks[req[r].key] > 0

SubmitInv ==
  /\ SubmitTypeOK
  /\ OnePickPerIntent
  /\ OnePickPerMarket
  /\ AnsweredIsStored
  /\ Staged

\* A submission in flight has all the fields of one.
LEMMA InFlight ==
  ASSUME SubmitTypeOK, NEW r \in Requests, req[r] # Idle
  PROVE  /\ req[r] \in Submissions
         /\ req[r].key \in Keys
  BY DEF SubmitTypeOK, Submissions

\* An idle request has no step in hand.
LEMMA PcInFlight ==
  ASSUME SubmitTypeOK, NEW r \in Requests, req[r].pc \in {"week", "market", "insert"}
  PROVE  req[r] # Idle
  BY DEF SubmitTypeOK, Idle

LEMMA InitInv == SubmitInit => SubmitInv
  BY SubmissionAssumption
  DEF SubmitInit, SubmitInv, SubmitTypeOK, OnePickPerIntent, OnePickPerMarket, AnsweredIsStored, Staged,
      Idle, Unstaged

\* The step that inserts a row: the key has none and the market is not taken.
LEMMA InsertRow ==
  ASSUME SubmitInv, NEW r \in Requests, req[r].pc = "insert",
         Fresh(req[r]),
         picks' = [picks EXCEPT ![req[r].key] = @ + 1],
         reply' \in {reply, reply \cup {req[r].key}},
         Finish(r), UNCHANGED <<weekMax, phase, offered, owner>>
  PROVE  SubmitInv'
<1> USE DEF SubmitInv
<1>1. req[r] # Idle /\ req[r] \in Submissions /\ req[r].key \in Keys
  BY InFlight, PcInFlight
<1>2. picks[req[r].key] = 0
  BY <1>1 DEF Fresh, Conflict, SubmitTypeOK
<1>3. picks' \in [Keys -> Nat] /\ picks'[req[r].key] = 1
      /\ \A k \in Keys \ {req[r].key} : picks'[k] = picks[k]
  BY <1>1, <1>2 DEF SubmitTypeOK
<1>4. SubmitTypeOK'
  BY <1>1, <1>3 DEF SubmitTypeOK, Finish
<1>5. OnePickPerIntent'
  BY <1>3 DEF OnePickPerIntent
<1>6. OnePickPerMarket'
  BY <1>1, <1>3 DEF OnePickPerMarket, Fresh, Taken, SubmitTypeOK
<1>7. AnsweredIsStored'
  BY <1>1, <1>3 DEF AnsweredIsStored, SubmitTypeOK
<1>8. Staged'
  <2>1. ASSUME NEW k \in Keys, picks'[k] > 0
        PROVE  owner'[k] # Unstaged
    BY <2>1, <1>1, <1>3 DEF Staged
  <2>2. ASSUME NEW q \in Requests, req'[q] # Idle
        PROVE  /\ owner'[req'[q].key] # Unstaged
               /\ req'[q].known => picks'[req'[q].key] > 0
    <3>1. req'[q] = req[q] /\ req[q] # Idle
      BY <2>2 DEF SubmitTypeOK, Finish
    <3>2. req[q].key \in Keys
      BY <3>1, InFlight
    <3>. QED BY <3>1, <3>2, <1>3 DEF Staged
  <2>. QED BY <2>1, <2>2, Zenon DEF Staged
<1>. QED BY <1>4, <1>5, <1>6, <1>7, <1>8

\* Every step keeps the invariant.
LEMMA NextInv == SubmitInv /\ [SubmitNext]_submitVars => SubmitInv'
<1> SUFFICES ASSUME SubmitInv, [SubmitNext]_submitVars PROVE SubmitInv'
  OBVIOUS
<1> USE DEF SubmitInv
<1>1. ASSUME NEW n \in Allowances, OpenPickWeek(n) PROVE SubmitInv'
  BY <1>1 DEF OpenPickWeek, SubmitTypeOK, OnePickPerIntent, OnePickPerMarket, AnsweredIsStored, Staged
<1>2. CASE PassWindow
  BY <1>2 DEF PassWindow, SubmitTypeOK, OnePickPerIntent, OnePickPerMarket, AnsweredIsStored, Staged
<1>3. ASSUME NEW m \in Markets, Withdraw(m) PROVE SubmitInv'
  BY <1>3 DEF Withdraw, SubmitTypeOK, OnePickPerIntent, OnePickPerMarket, AnsweredIsStored, Staged
<1>4. ASSUME NEW u \in Users, NEW k \in Keys, NEW m \in Markets, Stage(u, k, m) PROVE SubmitInv'
  <2>1. owner[k] = Unstaged /\ picks[k] = 0
    BY <1>4 DEF Stage, Staged, SubmitTypeOK
  <2>2. owner' = [owner EXCEPT ![k] = [user |-> u, market |-> m]]
        /\ UNCHANGED <<weekMax, phase, offered, picks, req, reply>>
    BY <1>4 DEF Stage
  <2>3. [user |-> u, market |-> m] # Unstaged
    BY SubmissionAssumption DEF Unstaged
  <2>4. SubmitTypeOK'
    BY <2>2 DEF SubmitTypeOK
  <2>5. OnePickPerIntent' /\ AnsweredIsStored'
    BY <2>2 DEF OnePickPerIntent, AnsweredIsStored
  <2>6. OnePickPerMarket'
    BY <2>1, <2>2 DEF OnePickPerMarket, SubmitTypeOK
  <2>7. Staged'
    <3>1. \A j \in Keys : owner[j] # Unstaged => owner'[j] # Unstaged
      BY <2>2, <2>3 DEF SubmitTypeOK
    <3>2. ASSUME NEW q \in Requests, req[q] # Idle PROVE req[q].key \in Keys
      BY <3>2, InFlight
    <3>. QED BY <2>2, <3>1, <3>2 DEF Staged
  <2>. QED BY <2>4, <2>5, <2>6, <2>7
<1>5. ASSUME NEW r \in Requests, NEW k \in Keys, BeginSubmit(r, k) PROVE SubmitInv'
  <2> DEFINE new == [pc |-> "week", user |-> owner[k].user, key |-> k,
                     market |-> owner[k].market, at |-> phase, known |-> picks[k] > 0]
  <2>1. owner[k] # Unstaged /\ req' = [req EXCEPT ![r] = new]
        /\ UNCHANGED <<weekMax, phase, offered, picks, owner, reply>>
    BY <1>5, Zenon DEF BeginSubmit
  <2>2. new \in Submissions
    BY <2>1 DEF SubmitTypeOK, Submissions
  <2>3. SubmitTypeOK'
    BY <2>1, <2>2 DEF SubmitTypeOK
  <2>4. OnePickPerIntent' /\ OnePickPerMarket' /\ AnsweredIsStored'
    BY <2>1 DEF OnePickPerIntent, OnePickPerMarket, AnsweredIsStored
  <2>5. Staged'
    <3>1. \A q \in Requests : req'[q] = IF q = r THEN new ELSE req[q]
      BY <2>1 DEF SubmitTypeOK
    <3>2. new.key = k /\ (new.known => picks[k] > 0)
      OBVIOUS
    <3>3. ASSUME NEW q \in Requests, req'[q] # Idle
          PROVE  /\ owner'[req'[q].key] # Unstaged
                 /\ req'[q].known => picks'[req'[q].key] > 0
      <4>. HIDE DEF new
      <4>1. CASE q = r
        BY <4>1, <2>1, <3>1, <3>2
      <4>2. CASE q # r
        BY <4>2, <3>3, <2>1, <3>1 DEF Staged
      <4>. QED BY <4>1, <4>2
    <3>. QED BY <2>1, <3>3 DEF Staged
  <2>. QED BY <2>3, <2>4, <2>5
<1>6. ASSUME NEW r \in Requests, ReadWeek(r) PROVE SubmitInv'
  <2>1. req[r] # Idle /\ req[r] \in Submissions /\ req[r].key \in Keys
    BY <1>6, InFlight, PcInFlight DEF ReadWeek
  <2>2. CASE req[r].known /\ reply' = reply \cup {req[r].key} /\ Finish(r)
    BY <1>6, <2>1, <2>2
    DEF ReadWeek, Finish, SubmitTypeOK, OnePickPerIntent, OnePickPerMarket, AnsweredIsStored, Staged
  <2>3. CASE req' = [req EXCEPT ![r].pc = "market"] /\ UNCHANGED reply
    <3>1. [req[r] EXCEPT !.pc = "market"] \in Submissions
          /\ [req[r] EXCEPT !.pc = "market"].key = req[r].key
          /\ [req[r] EXCEPT !.pc = "market"].known = req[r].known
      BY <2>1 DEF Submissions
    <3>. QED BY <1>6, <2>1, <2>3, <3>1
             DEF ReadWeek, SubmitTypeOK, OnePickPerIntent, OnePickPerMarket, AnsweredIsStored, Staged
  <2>. QED BY <1>6, <2>2, <2>3 DEF ReadWeek
<1>7. ASSUME NEW r \in Requests, ReadMarket(r) PROVE SubmitInv'
  <2>1. req[r] # Idle /\ req[r] \in Submissions
    BY <1>7, InFlight, PcInFlight DEF ReadMarket
  <2>2. [req[r] EXCEPT !.pc = "insert"] \in Submissions
        /\ [req[r] EXCEPT !.pc = "insert"].key = req[r].key
        /\ [req[r] EXCEPT !.pc = "insert"].known = req[r].known
    BY <2>1 DEF Submissions
  <2>. QED BY <1>7, <2>1, <2>2
           DEF ReadMarket, SubmitTypeOK, OnePickPerIntent, OnePickPerMarket, AnsweredIsStored, Staged
<1>8. ASSUME NEW r \in Requests, Insert(r) PROVE SubmitInv'
  <2>1. CASE Conflict(req[r]) /\ UNCHANGED picks
    <3>1. req[r].key \in Keys
      BY <1>8, InFlight, PcInFlight DEF Insert
    <3>. QED BY <1>8, <2>1, <3>1
             DEF Insert, Conflict, Finish, SubmitTypeOK, OnePickPerIntent, OnePickPerMarket,
                 AnsweredIsStored, Staged
  <2>2. CASE Fresh(req[r]) /\ picks' = [picks EXCEPT ![req[r].key] = @ + 1]
    BY <1>8, <2>2, InsertRow DEF Insert
  <2>. QED BY <1>8, <2>1, <2>2 DEF Insert
<1>9. ASSUME NEW r \in Requests, InsertUnanswered(r) PROVE SubmitInv'
  BY <1>9, InsertRow DEF InsertUnanswered
<1>10. ASSUME NEW r \in Requests, Abort(r) PROVE SubmitInv'
  BY <1>10
  DEF Abort, Finish, SubmitTypeOK, OnePickPerIntent, OnePickPerMarket, AnsweredIsStored, Staged
<1>11. CASE UNCHANGED submitVars
  BY <1>11 DEF submitVars, SubmitTypeOK, OnePickPerIntent, OnePickPerMarket, AnsweredIsStored, Staged
<1>. QED BY <1>1, <1>2, <1>3, <1>4, <1>5, <1>6, <1>7, <1>8, <1>9, <1>10, <1>11 DEF SubmitNext

\* The inductive invariant of pick submission.
LEMMA Inductive == SubmitSpec => []SubmitInv
  BY InitInv, NextInv, PTL DEF SubmitSpec

\* The variables of submitPick's transactions keep their types.
THEOREM SubmissionTypes == SubmitSpec => []SubmitTypeOK
  BY Inductive, PTL DEF SubmitInv

\* One user intent produces at most one pick, for any number of retries.
THEOREM OneIntentOnePick == SubmitSpec => []OnePickPerIntent
  BY Inductive, PTL DEF SubmitInv

\* A user never has two picks on one market, under any number of keys.
THEOREM OneMarketOnePick == SubmitSpec => []OnePickPerMarket
  BY Inductive, PTL DEF SubmitInv

\* A client that was told its pick is in has a pick.
THEOREM AnswersAreTrue == SubmitSpec => []AnsweredIsStored
  BY Inductive, PTL DEF SubmitInv

-----------------------------------------------------------------------------
(* The allowance *)

\* The submissions of u whose allowance check has passed.
Admitted(u) ==
  {r \in Requests : req[r].pc \in {"market", "insert"} /\ req[r].user = u}

\* A submission is its key owner's.
OwnKeys == \A r \in Requests : req[r] # Idle => req[r].user = owner[req[r].key].user

\* Nothing is picked, and no check has passed, before the week's row exists.
NothingBefore ==
  weekMax = Null =>
    /\ \A k \in Keys : picks[k] = 0
    /\ \A r \in Requests : req[r].pc \notin {"market", "insert"}

\* The picks a user has and those on their way stay below the allowance and the number
\* of requests together: a check passes below the allowance only.
Within ==
  weekMax # Null => \A u \in Users :
    UsedPicks(u) + Cardinality(Admitted(u)) < weekMax + Cardinality(Requests)

Allowed == OwnKeys /\ NothingBefore /\ Within

\* Rows and submissions can be counted.
LEMMA Countable ==
  ASSUME SubmitInv, NEW u
  PROVE  /\ IsFiniteSet(PickRows(u)) /\ UsedPicks(u) \in Nat
         /\ IsFiniteSet(Admitted(u)) /\ Cardinality(Admitted(u)) \in Nat
         /\ Cardinality(Requests) \in Nat /\ Cardinality(Admitted(u)) <= Cardinality(Requests)
<1>1. PickRows(u) \subseteq Keys \X {1}
  <2>1. ASSUME NEW k \in Keys, NEW i \in 1..picks[k] PROVE i = 1
    BY DEF SubmitInv, SubmitTypeOK, OnePickPerIntent
  <2>. QED  BY <2>1 DEF PickRows
<1>2. IsFiniteSet(Keys \X {1})  BY SubmissionAssumption, FS_Product, FS_Singleton
<1>3. IsFiniteSet(PickRows(u))  BY <1>1, <1>2, FS_Subset
<1>4. Admitted(u) \subseteq Requests  BY DEF Admitted
<1>. QED  BY <1>3, <1>4, FS_Subset, FS_CardinalityType, SubmissionAssumption DEF UsedPicks

\* A step that adds no row and passes no check stays within.
LEMMA StaysWithin ==
  ASSUME SubmitInv, SubmitInv', Within, weekMax' = weekMax,
         \A u \in Users : PickRows(u)' = PickRows(u) /\ Admitted(u)' \subseteq Admitted(u)
  PROVE  Within'
<1>. SUFFICES ASSUME weekMax # Null, NEW u \in Users
              PROVE  UsedPicks(u)' + Cardinality(Admitted(u)') < weekMax + Cardinality(Requests)
  BY DEF Within
<1>1. UsedPicks(u)' = UsedPicks(u)  BY DEF UsedPicks
<1>2. Cardinality(Admitted(u)') \in Nat /\ Cardinality(Admitted(u)') <= Cardinality(Admitted(u))
  BY Countable, FS_Subset, FS_CardinalityType
<1>3. weekMax \in Nat  BY SubmissionAssumption DEF SubmitInv, SubmitTypeOK
<1>. QED  BY <1>1, <1>2, <1>3, Countable DEF Within

\* The step that inserts a row ends the submission that was admitted for it.
LEMMA InsertAllowed ==
  ASSUME SubmitInv, SubmitInv', Allowed, NEW r \in Requests, req[r].pc = "insert",
         Fresh(req[r]), picks' = [picks EXCEPT ![req[r].key] = @ + 1],
         Finish(r), UNCHANGED <<weekMax, owner>>
  PROVE  Allowed'
<1>. DEFINE key == req[r].key
            user == req[r].user
<1>1. /\ req[r] # Idle /\ req[r] \in Submissions /\ key \in Keys
      /\ req \in [Requests -> Submissions \cup {Idle}] /\ picks \in [Keys -> Nat]
  BY InFlight, PcInFlight DEF SubmitInv, SubmitTypeOK
<1>2. picks[key] = 0 /\ owner[key].user = user
  BY <1>1 DEF Fresh, Conflict, Allowed, OwnKeys
<1>3. picks'[key] = 1 /\ \A k \in Keys : k # key => picks'[k] = picks[k]
  BY <1>1, <1>2
<1>4. req'[r] = Idle /\ \A q \in Requests : q # r => req'[q] = req[q]
  BY <1>1 DEF Finish
<1>5. OwnKeys'  BY <1>1, <1>4 DEF Allowed, OwnKeys
<1>6. weekMax # Null  BY <1>1 DEF Allowed, NothingBefore
<1>7. NothingBefore'  BY <1>6 DEF NothingBefore
<1>8. Within'
  <2>. SUFFICES ASSUME NEW u \in Users
                PROVE  UsedPicks(u)' + Cardinality(Admitted(u)')
                         < weekMax + Cardinality(Requests)
    BY DEF Within
  <2>1. UsedPicks(u) + Cardinality(Admitted(u)) < weekMax + Cardinality(Requests)
    BY <1>6 DEF Allowed, Within
  <2>2. CASE u = user
    <3>1. PickRows(u)' = PickRows(u) \cup {<<key, 1>>} /\ <<key, 1>> \notin PickRows(u)
      <4>1. <<key, 1>> \notin PickRows(u)  BY <1>1, <1>2 DEF PickRows
      <4>2. ASSUME NEW p \in PickRows(u)' PROVE p \in PickRows(u) \cup {<<key, 1>>}
        BY <1>1, <1>3, <4>2 DEF PickRows
      <4>3. ASSUME NEW p \in PickRows(u) PROVE p \in PickRows(u)'
        BY <1>1, <1>2, <1>3, <4>3 DEF PickRows
      <4>4. <<key, 1>> \in PickRows(u)'  BY <1>1, <1>2, <1>3, <2>2 DEF PickRows
      <4>. QED  BY <4>1, <4>2, <4>3, <4>4
    <3>2. UsedPicks(u)' = UsedPicks(u) + 1
      BY <3>1, Countable, FS_AddElement DEF UsedPicks
    <3>3. Admitted(u)' = Admitted(u) \ {r} /\ r \in Admitted(u)
      BY <1>4, <2>2 DEF Admitted, Idle
    <3>4. Cardinality(Admitted(u)') = Cardinality(Admitted(u)) - 1
      BY <3>3, Countable, FS_RemoveElement
    <3>. QED  BY <2>1, <3>2, <3>4, Countable
  <2>3. CASE u # user
    <3>1. PickRows(u)' = PickRows(u)
      <4>1. ASSUME NEW p \in PickRows(u)' PROVE p \in PickRows(u)
        BY <1>1, <1>2, <1>3, <2>3, <4>1 DEF PickRows
      <4>2. ASSUME NEW p \in PickRows(u) PROVE p \in PickRows(u)'
        BY <1>1, <1>2, <1>3, <2>3, <4>2 DEF PickRows
      <4>. QED  BY <4>1, <4>2
    <3>2. Admitted(u)' = Admitted(u)  BY <1>4, <2>3 DEF Admitted, Idle
    <3>. QED  BY <2>1, <3>1, <3>2 DEF UsedPicks
  <2>. QED  BY <2>2, <2>3
<1>. QED  BY <1>5, <1>7, <1>8 DEF Allowed

\* A check passes below the allowance, and then there is room for every request.
LEMMA CheckAllowed ==
  ASSUME SubmitInv, SubmitInv', Allowed, NEW r \in Requests, ReadWeek(r)
  PROVE  Allowed'
<1>1. /\ req[r] # Idle /\ req[r] \in Submissions /\ weekMax # Null
      /\ UNCHANGED <<weekMax, picks, owner>>
      /\ req \in [Requests -> Submissions \cup {Idle}]
  BY InFlight, PcInFlight DEF SubmitInv, SubmitTypeOK, ReadWeek
<1>2. NothingBefore'  BY <1>1 DEF NothingBefore
<1>3. \A u \in Users : PickRows(u)' = PickRows(u)  BY <1>1 DEF PickRows
<1>4. CASE Finish(r)
  <2>1. req'[r] = Idle /\ \A q \in Requests : q # r => req'[q] = req[q]
    BY <1>1, <1>4 DEF Finish
  <2>2. OwnKeys'  BY <1>1, <2>1 DEF Allowed, OwnKeys
  <2>3. \A u \in Users : Admitted(u)' \subseteq Admitted(u)
    BY <2>1 DEF Admitted, Idle
  <2>4. Within'  BY <1>1, <1>3, <2>3, StaysWithin DEF Allowed
  <2>. QED  BY <1>2, <2>2, <2>4 DEF Allowed
<1>5. CASE HasAllowance(req[r].user) /\ req' = [req EXCEPT ![r].pc = "market"]
  <2>1. /\ req'[r].user = req[r].user /\ req'[r].key = req[r].key
        /\ \A q \in Requests : q # r => req'[q] = req[q]
    BY <1>1, <1>5 DEF Submissions
  <2>2. OwnKeys'  BY <1>1, <2>1 DEF Allowed, OwnKeys
  <2>3. Within'
    <3>. SUFFICES ASSUME NEW u \in Users
                  PROVE  UsedPicks(u)' + Cardinality(Admitted(u)')
                           < weekMax + Cardinality(Requests)
      BY <1>1 DEF Within
    <3>1. UsedPicks(u)' = UsedPicks(u)  BY <1>3 DEF UsedPicks
    <3>2. weekMax \in Nat  BY <1>1, SubmissionAssumption DEF SubmitInv, SubmitTypeOK
    <3>3. CASE u = req[r].user
      <4>1. UsedPicks(u) < weekMax  BY <1>5, <3>3 DEF HasAllowance
      <4>2. Admitted(u)' \subseteq Requests  BY DEF Admitted
      <4>3. /\ Cardinality(Admitted(u)') \in Nat
            /\ Cardinality(Admitted(u)') <= Cardinality(Requests)
        BY <4>2, SubmissionAssumption, FS_Subset, FS_CardinalityType
      <4>. QED  BY <3>1, <3>2, <4>1, <4>3, Countable
    <3>4. CASE u # req[r].user
      <4>1. Admitted(u)' = Admitted(u)  BY <2>1, <3>4 DEF Admitted
      <4>. QED  BY <1>1, <3>1, <4>1 DEF Allowed, Within
    <3>. QED  BY <3>3, <3>4
  <2>. QED  BY <1>2, <2>2, <2>3 DEF Allowed
<1>. QED  BY <1>4, <1>5 DEF ReadWeek

\* A submission that ends without a row.
LEMMA EndAllowed ==
  ASSUME SubmitInv, SubmitInv', Allowed, NEW r \in Requests, Finish(r),
         UNCHANGED <<weekMax, picks, owner>>
  PROVE  Allowed'
<1>1. req \in [Requests -> Submissions \cup {Idle}]  BY DEF SubmitInv, SubmitTypeOK
<1>2. req'[r] = Idle /\ \A q \in Requests : q # r => req'[q] = req[q]
  BY <1>1 DEF Finish
<1>3. OwnKeys'  BY <1>2 DEF Allowed, OwnKeys
<1>4. NothingBefore'  BY <1>2 DEF Allowed, NothingBefore, Idle
<1>5. \A u \in Users : PickRows(u)' = PickRows(u) /\ Admitted(u)' \subseteq Admitted(u)
  BY <1>2 DEF PickRows, Admitted, Idle
<1>6. Within'  BY <1>5, StaysWithin DEF Allowed
<1>. QED  BY <1>3, <1>4, <1>6 DEF Allowed

\* The week opens with its allowance, and nobody has used any of it.
LEMMA OpenAllowed ==
  ASSUME SubmitInv, SubmitInv', Allowed, NEW n \in Allowances, OpenPickWeek(n)
  PROVE  Allowed'
<1>1. UNCHANGED <<picks, owner, req>> /\ weekMax' = IF weekMax = Null THEN n ELSE weekMax
  BY DEF OpenPickWeek
<1>2. n # Null /\ n \in Nat /\ 0 < n  BY SubmissionAssumption
<1>3. OwnKeys' /\ NothingBefore'
  BY <1>1, <1>2 DEF Allowed, OwnKeys, NothingBefore
<1>4. \A u \in Users : PickRows(u)' = PickRows(u) /\ Admitted(u)' = Admitted(u)
  BY <1>1 DEF PickRows, Admitted
<1>5. CASE weekMax = Null
  <2>1. ASSUME NEW u \in Users PROVE UsedPicks(u)' = 0 /\ Cardinality(Admitted(u)') = 0
    <3>1. PickRows(u) = {}
      BY <1>5, SubmissionAssumption DEF Allowed, NothingBefore, PickRows
    <3>2. Admitted(u) = {}  BY <1>5 DEF Allowed, NothingBefore, Admitted
    <3>. QED  BY <1>4, <3>1, <3>2, FS_EmptySet DEF UsedPicks
  <2>2. Cardinality(Requests) \in Nat  BY SubmissionAssumption, FS_CardinalityType
  <2>. QED  BY <1>1, <1>2, <1>3, <1>5, <2>1, <2>2 DEF Allowed, Within
<1>6. CASE weekMax # Null
  <2>1. weekMax' = weekMax  BY <1>1, <1>6
  <2>. QED  BY <1>3, <1>4, <2>1, StaysWithin DEF Allowed
<1>. QED  BY <1>5, <1>6

\* A key that is staged has no row yet.
LEMMA StageAllowed ==
  ASSUME SubmitInv, SubmitInv', Allowed, NEW u \in Users, NEW k \in Keys, NEW m \in Markets,
         Stage(u, k, m)
  PROVE  Allowed'
<1>1. /\ owner[k] = Unstaged /\ picks[k] = 0 /\ UNCHANGED <<weekMax, picks, req>>
      /\ \A j \in Keys : j # k => owner'[j] = owner[j]
  BY DEF Stage, SubmitInv, Staged, SubmitTypeOK
<1>2. OwnKeys'
  <2>1. \A r \in Requests : req[r] # Idle => req[r].key \in Keys /\ req[r].key # k
    BY <1>1, InFlight DEF SubmitInv, Staged
  <2>. QED  BY <1>1, <2>1 DEF Allowed, OwnKeys
<1>3. NothingBefore'  BY <1>1 DEF Allowed, NothingBefore
<1>4. ASSUME NEW v \in Users PROVE PickRows(v)' = PickRows(v)
  <2>1. ASSUME NEW p \in PickRows(v)' PROVE p \in PickRows(v)
    BY <1>1, <2>1 DEF PickRows
  <2>2. ASSUME NEW p \in PickRows(v) PROVE p \in PickRows(v)'
    BY <1>1, <2>2 DEF PickRows
  <2>. QED  BY <2>1, <2>2
<1>5. \A v \in Users : Admitted(v)' = Admitted(v)  BY <1>1 DEF Admitted
<1>6. Within'  BY <1>1, <1>4, <1>5, StaysWithin DEF Allowed
<1>. QED  BY <1>2, <1>3, <1>6 DEF Allowed

LEMMA BeginAllowed ==
  ASSUME SubmitInv, SubmitInv', Allowed, NEW r \in Requests, NEW k \in Keys, BeginSubmit(r, k)
  PROVE  Allowed'
<1>. DEFINE new == [pc |-> "week", user |-> owner[k].user, key |-> k,
                    market |-> owner[k].market, at |-> phase, known |-> picks[k] > 0]
<1>1. req' = [req EXCEPT ![r] = new] /\ UNCHANGED <<weekMax, picks, owner>>
  BY Zenon DEF BeginSubmit
<1>2. req'[r] = new /\ \A q \in Requests : q # r => req'[q] = req[q]
  BY <1>1 DEF SubmitInv, SubmitTypeOK
<1>3. new.pc = "week" /\ new.user = owner[k].user /\ new.key = k  OBVIOUS
<1>. HIDE DEF new
<1>4. OwnKeys'  BY <1>1, <1>2, <1>3 DEF Allowed, OwnKeys
<1>5. NothingBefore'  BY <1>1, <1>2, <1>3 DEF Allowed, NothingBefore
<1>6. \A u \in Users : PickRows(u)' = PickRows(u) /\ Admitted(u)' \subseteq Admitted(u)
  BY <1>1, <1>2, <1>3 DEF PickRows, Admitted
<1>7. Within'  BY <1>1, <1>6, StaysWithin DEF Allowed
<1>. QED  BY <1>4, <1>5, <1>7 DEF Allowed

LEMMA MarketAllowed ==
  ASSUME SubmitInv, SubmitInv', Allowed, NEW r \in Requests, ReadMarket(r)
  PROVE  Allowed'
<1>1. /\ req[r] \in Submissions /\ req[r] # Idle /\ req[r].pc = "market"
      /\ UNCHANGED <<weekMax, picks, owner>>
      /\ req' = [req EXCEPT ![r].pc = "insert"]
  BY InFlight, PcInFlight DEF ReadMarket, SubmitInv
<1>2. /\ req'[r].user = req[r].user /\ req'[r].key = req[r].key /\ req'[r].pc = "insert"
      /\ \A q \in Requests : q # r => req'[q] = req[q]
  BY <1>1 DEF Submissions, SubmitInv, SubmitTypeOK
<1>3. OwnKeys'  BY <1>1, <1>2 DEF Allowed, OwnKeys
<1>4. weekMax # Null  BY <1>1 DEF Allowed, NothingBefore
<1>5. NothingBefore'  BY <1>1, <1>4 DEF NothingBefore
<1>6. \A u \in Users : PickRows(u)' = PickRows(u) /\ Admitted(u)' \subseteq Admitted(u)
  BY <1>1, <1>2 DEF PickRows, Admitted
<1>7. Within'  BY <1>1, <1>6, StaysWithin DEF Allowed
<1>. QED  BY <1>3, <1>5, <1>7 DEF Allowed

LEMMA NothingChanges ==
  ASSUME SubmitInv, SubmitInv', Allowed, UNCHANGED <<weekMax, picks, owner, req>>
  PROVE  Allowed'
<1>1. OwnKeys' /\ NothingBefore'  BY DEF Allowed, OwnKeys, NothingBefore
<1>2. \A u \in Users : PickRows(u)' = PickRows(u) /\ Admitted(u)' = Admitted(u)
  BY DEF PickRows, Admitted
<1>. QED  BY <1>1, <1>2, StaysWithin DEF Allowed

LEMMA NextAllowed == SubmitInv /\ SubmitInv' /\ Allowed /\ [SubmitNext]_submitVars => Allowed'
<1>. SUFFICES ASSUME SubmitInv, SubmitInv', Allowed, [SubmitNext]_submitVars PROVE Allowed'  OBVIOUS
<1>1. CASE \E n \in Allowances : OpenPickWeek(n)  BY <1>1, OpenAllowed
<1>2. CASE PassWindow \/ (\E m \in Markets : Withdraw(m)) \/ UNCHANGED submitVars
  <2>1. UNCHANGED <<weekMax, picks, owner, req>>  BY <1>2 DEF PassWindow, Withdraw, submitVars
  <2>. QED  BY <2>1, NothingChanges
<1>3. CASE \E u \in Users, k \in Keys, m \in Markets : Stage(u, k, m)
  BY <1>3, StageAllowed
<1>4. ASSUME NEW r \in Requests,
             \/ \E k \in Keys : BeginSubmit(r, k)
             \/ ReadWeek(r) \/ ReadMarket(r) \/ Insert(r)
             \/ InsertUnanswered(r) \/ Abort(r)
      PROVE  Allowed'
  <2>1. CASE \E k \in Keys : BeginSubmit(r, k)  BY <2>1, BeginAllowed
  <2>2. CASE ReadWeek(r)  BY <2>2, CheckAllowed
  <2>3. CASE ReadMarket(r)  BY <2>3, MarketAllowed
  <2>4. CASE Insert(r)
    <3>1. CASE UNCHANGED picks  BY <2>4, <3>1, EndAllowed DEF Insert
    <3>2. CASE Fresh(req[r]) /\ picks' = [picks EXCEPT ![req[r].key] = @ + 1]
      BY <2>4, <3>2, InsertAllowed DEF Insert
    <3>. QED  BY <2>4, <3>1, <3>2 DEF Insert
  <2>5. CASE InsertUnanswered(r)  BY <2>5, InsertAllowed DEF InsertUnanswered
  <2>6. CASE Abort(r)  BY <2>6, EndAllowed DEF Abort
  <2>. QED  BY <1>4, <2>1, <2>2, <2>3, <2>4, <2>5, <2>6
<1>. QED  BY <1>1, <1>2, <1>3, <1>4 DEF SubmitNext

LEMMA AllowedInvariant == SubmitSpec => [](SubmitInv /\ Allowed)
<1>1. SubmitInit => SubmitInv /\ Allowed
  BY InitInv DEF SubmitInit, Allowed, OwnKeys, NothingBefore, Within, Idle
<1>2. SubmitInv /\ Allowed /\ [SubmitNext]_submitVars => (SubmitInv /\ Allowed)'
  BY NextInv, NextAllowed
<1>. QED  BY <1>1, <1>2, PTL DEF SubmitSpec

\* However many submissions read the user's picks before any of them inserts, a user gets
\* fewer than the allowance and the requests in flight together: the excess of a race
\* does not add up with that of the next (the count and the insert of submitPick).
THEOREM OvershootIsBounded == SubmitSpec => []OvershootBounded
<1>1. SubmitInv /\ Allowed => OvershootBounded
  <2>. SUFFICES ASSUME SubmitInv, Allowed, weekMax # Null, NEW u \in Users
                PROVE  UsedPicks(u) < weekMax + Cardinality(Requests)
    BY DEF OvershootBounded
  <2>1. UsedPicks(u) + Cardinality(Admitted(u)) < weekMax + Cardinality(Requests)
    BY DEF Allowed, Within
  <2>2. weekMax \in Nat  BY SubmissionAssumption DEF SubmitInv, SubmitTypeOK
  <2>. QED  BY <2>1, <2>2, Countable
<1>. QED  BY <1>1, AllowedInvariant, PTL

-----------------------------------------------------------------------------
(* Part II: grading *)

Graded(k) == pick[k] # None /\ pick[k].status # "pending"

\* What a job may rely on after an await: a pick it read is still there, the leagues
\* it counted as affected are graded, the picks it counted for the board correct.
RunInv(j) ==
  LET q == run[j] IN
    /\ q.pc = "write" => pick[<<q.league, j[2]>>] # None
    /\ q.pc \in {"grade", "write", "rebuild", "announce"} =>
         \A l \in q.affected : Graded(<<l, j[2]>>)
    /\ q.pc = "rebuild" => \A k \in q.counted : pick[k] # None /\ pick[k].status = "correct"

RunsInv == \A j \in Jobs : RunInv(j)

IInv == TypeOK /\ RunsInv /\ NothingInvented

\* Everything a job relies on is kept by a step that keeps picks and grades.
PicksKept ==
  \A k \in Jobs : /\ pick[k] # None => pick'[k] # None
                  /\ Graded(k) => pick'[k] = pick[k]

-----------------------------------------------------------------------------

LEMMA InitTypes == ASSUME GradingAssumption PROVE Init => TypeOK
BY DEF Init, TypeOK, GradingAssumption, Runs, NoRun, Jobs

LEMMA WorldTypes ==
  ASSUME GradingAssumption, TypeOK, NEW e \in Events, World(e)
  PROVE  TypeOK'
<1>1. ASSUME NEW l \in Leagues, NEW s \in Sides, Submit(l, e, s) PROVE TypeOK'
  <2>1. [side |-> s, status |-> "pending"] \in [side : Sides, status : Statuses]
    BY DEF Statuses
  <2>2. pick' \in [Jobs -> [side : Sides, status : Statuses] \cup {None}]
    BY <1>1, <2>1 DEF Submit, TypeOK
  <2>. QED  BY <1>1, <2>2 DEF Submit, TypeOK, catalog
<1>2. CASE Pass(e)
  BY <1>2 DEF Pass, TypeOK
<1>3. ASSUME NEW a \in Answers, EndGame(e, a) PROVE TypeOK'
  BY <1>3 DEF EndGame, TypeOK, catalog
<1>4. ASSUME NEW a \in Answers, CorrectScore(e, a) PROVE TypeOK'
  BY <1>4 DEF CorrectScore, TypeOK, catalog
<1>5. CASE Reschedule(e)
  BY <1>5 DEF Reschedule, TypeOK
<1>. QED  BY <1>1, <1>2, <1>3, <1>4, <1>5 DEF World

\* A step of a job that moves only its own run.
LEMMA MoveTypes ==
  ASSUME TypeOK, NEW j \in Jobs, NEW q \in Runs,
         run' = [run EXCEPT ![j] = q],
         UNCHANGED <<catalog, answer, pick, memo, seen, board, announced, failures>>
  PROVE  TypeOK'
BY DEF TypeOK, catalog

LEMMA WorkTypes ==
  ASSUME GradingAssumption, TypeOK, NEW j \in Jobs, Work(j)
  PROVE  TypeOK'
<1>. DEFINE q == run[j]
<1>j. j[1] \in Leagues /\ j[2] \in Events /\ q \in Runs
  BY DEF TypeOK, Jobs
<1>1. CASE Fetch(j)
  <2>1. answer[j[2]] \in Answers \/ ~Resolvable(answer[j[2]])
    BY <1>j DEF TypeOK, Resolvable, Sides
  <2>2. q.pc = "fetch" /\ q \in [pc : {"fetch"}, tries : Nat]
    BY <1>1, <1>j DEF Fetch, Runs, NoRun
  <2>3. CASE Resolvable(answer[j[2]])
    <3>. DEFINE r == [pc |-> "resolve", tries |-> q.tries, answer |-> answer[j[2]]]
    <3>1. r \in [pc : {"resolve", "list"}, tries : Nat, answer : Answers]
      BY <2>1, <2>2, <2>3
    <3>2. r \in Runs  BY <3>1 DEF Runs
    <3>3. run' = [run EXCEPT ![j] = r]  BY <1>1, <2>3 DEF Fetch
    <3>. QED  BY <1>1, <3>2, <3>3, MoveTypes DEF Fetch
  <2>4. CASE ~Resolvable(answer[j[2]])
    <3>1. [pc |-> "done"] \in Runs  BY DEF Runs
    <3>2. run' = [run EXCEPT ![j] = [pc |-> "done"]]  BY <1>1, <2>4 DEF Fetch
    <3>. QED  BY <1>1, <3>1, <3>2, MoveTypes DEF Fetch
  <2>. QED  BY <2>3, <2>4
<1>2. CASE Resolve(j)
  <2>1. q.pc = "resolve" /\ q \in [pc : {"resolve", "list"}, tries : Nat, answer : Answers]
    BY <1>2, <1>j DEF Resolve, Runs, NoRun
  <2>2. [q EXCEPT !.pc = "list"] \in [pc : {"resolve", "list"}, tries : Nat, answer : Answers]
    BY <2>1
  <2>3. [q EXCEPT !.pc = "list"] \in Runs  BY <2>2 DEF Runs
  <2>4. run' \in [Jobs -> Runs]
    BY <1>2, <2>3 DEF Resolve, TypeOK
  <2>5. FinalStatus(q.answer) \in {"final", "postponed", "canceled"}
    BY DEF FinalStatus
  <2>. QED  BY <1>2, <1>j, <2>4, <2>5 DEF Resolve, TypeOK
<1>3. CASE ListLeagues(j)
  <2>. DEFINE r == [pc |-> "grade", tries |-> q.tries, answer |-> q.answer,
                    todo |-> PendingLeagues(j[2]), affected |-> {}]
  <2>1. q.pc = "list" /\ q \in [pc : {"resolve", "list"}, tries : Nat, answer : Answers]
    BY <1>3, <1>j DEF ListLeagues, Runs, NoRun
  <2>2. PendingLeagues(j[2]) \subseteq Leagues  BY DEF PendingLeagues
  <2>3. r \in Runs  BY <2>1, <2>2 DEF Runs
  <2>4. run' = [run EXCEPT ![j] = r]  BY <1>3 DEF ListLeagues
  <2>. QED  BY <1>3, <2>3, <2>4, MoveTypes DEF ListLeagues
<1>4. ASSUME NEW l \in Leagues, ReadPending(j, l) PROVE TypeOK'
  <2>1. q.pc = "grade" /\ q \in [pc : {"grade"}, tries : Nat, answer : Answers,
                                 todo : SUBSET Leagues, affected : SUBSET Leagues]
    BY <1>4, <1>j DEF ReadPending, Runs, NoRun
  <2>2. CASE Pending(l, j[2])
    <3>. DEFINE o == Outcome(pick[<<l, j[2]>>].side, q.answer)
                r == [pc |-> "write", tries |-> q.tries, answer |-> q.answer,
                      todo |-> q.todo \ {l}, affected |-> q.affected, league |-> l,
                      outcome |-> o]
    <3>1. o \in Statuses \ {"pending"}  BY DEF Outcome, Statuses
    <3>2. r \in Runs  BY <2>1, <3>1 DEF Runs
    <3>3. run' = [run EXCEPT ![j] = r]  BY <1>4, <2>2 DEF ReadPending
    <3>. QED  BY <1>4, <3>2, <3>3, MoveTypes DEF ReadPending
  <2>3. CASE ~Pending(l, j[2])
    <3>. DEFINE r == [q EXCEPT !.todo = @ \ {l}]
    <3>1. r \in [pc : {"grade"}, tries : Nat, answer : Answers,
                 todo : SUBSET Leagues, affected : SUBSET Leagues]
      BY <2>1
    <3>2. r \in Runs  BY <3>1 DEF Runs
    <3>3. run' = [run EXCEPT ![j] = r]  BY <1>4, <2>3 DEF ReadPending
    <3>. QED  BY <1>4, <3>2, <3>3, MoveTypes DEF ReadPending
  <2>. QED  BY <2>2, <2>3
<1>5. CASE WriteGrade(j)
  <2>. DEFINE k == <<q.league, j[2]>>
              r == [pc |-> "grade", tries |-> q.tries, answer |-> q.answer,
                    todo |-> q.todo, affected |-> q.affected \cup {q.league}]
  <2>1. q.pc = "write" /\ q \in [pc : {"write"}, tries : Nat, answer : Answers,
           todo : SUBSET Leagues, affected : SUBSET Leagues, league : Leagues,
           outcome : Statuses \ {"pending"}]
    BY <1>5, <1>j DEF WriteGrade, Runs, NoRun
  <2>2. r \in Runs  BY <2>1 DEF Runs
  <2>3. run' \in [Jobs -> Runs]  BY <1>5, <2>2 DEF WriteGrade, TypeOK
  <2>4. pick' \in [Jobs -> [side : Sides, status : Statuses] \cup {None}]
    <3>1. CASE StillPending(q.league, j[2])
      <4>1. pick' = [pick EXCEPT ![k].status = q.outcome]
        BY <1>5, <3>1 DEF WriteGrade
      <4>2. pick[k] # None /\ k \in Jobs
        BY <2>1, <1>j, <3>1 DEF StillPending, Pending, Jobs
      <4>3. pick[k] \in [side : Sides, status : Statuses]
        BY <4>2 DEF TypeOK
      <4>4. [pick[k] EXCEPT !.status = q.outcome] \in [side : Sides, status : Statuses]
        BY <4>3, <2>1
      <4>. QED  BY <4>1, <4>2, <4>4 DEF TypeOK
    <3>2. CASE ~StillPending(q.league, j[2])
      BY <1>5, <3>2 DEF WriteGrade, TypeOK
    <3>. QED  BY <3>1, <3>2
  <2>. QED  BY <1>5, <2>3, <2>4 DEF WriteGrade, TypeOK, catalog
<1>6. CASE FinishGrading(j)
  <2>. DEFINE r == [pc |-> "rebuild", tries |-> 0, affected |-> q.affected,
                    left |-> Leagues, counted |-> {}]
  <2>1. q.pc = "grade" /\ q \in [pc : {"grade"}, tries : Nat, answer : Answers,
                                 todo : SUBSET Leagues, affected : SUBSET Leagues]
    BY <1>6, <1>j DEF FinishGrading, Runs, NoRun
  <2>2. r \in Runs /\ [pc |-> "done"] \in Runs  BY <2>1 DEF Runs
  <2>3. run' = [run EXCEPT ![j] = IF q.affected = {} THEN [pc |-> "done"] ELSE r]
    BY <1>6 DEF FinishGrading
  <2>4. run' \in [Jobs -> Runs]  BY <2>2, <2>3 DEF TypeOK
  <2>5. q.affected \subseteq Leagues  BY <2>1
  <2>6. memo' \in [Jobs -> SUBSET Leagues]  BY <1>6, <2>5 DEF FinishGrading, TypeOK
  <2>. QED  BY <1>6, <2>4, <2>6 DEF FinishGrading, TypeOK, catalog
<1>7. ASSUME NEW l \in Leagues, ReadMetrics(j, l) PROVE TypeOK'
  <2>. DEFINE c == {k \in {l} \X Events : Correct(k)}
              r == [q EXCEPT !.left = @ \ {l}, !.counted = @ \cup c]
  <2>1. q.pc = "rebuild" /\ q \in [pc : {"rebuild"}, tries : Nat, affected : SUBSET Leagues,
                                   left : SUBSET Leagues, counted : SUBSET Jobs]
    BY <1>7, <1>j DEF ReadMetrics, Runs, NoRun
  <2>2. c \subseteq Jobs  BY DEF Jobs
  <2>3. r \in [pc : {"rebuild"}, tries : Nat, affected : SUBSET Leagues,
               left : SUBSET Leagues, counted : SUBSET Jobs]
    BY <2>1, <2>2
  <2>4. r \in Runs  BY <2>3 DEF Runs
  <2>5. run' = [run EXCEPT ![j] = r]  BY <1>7 DEF ReadMetrics
  <2>. QED  BY <1>7, <2>4, <2>5, MoveTypes DEF ReadMetrics
<1>8. CASE WriteBoard(j)
  <2>1. q.pc = "rebuild" /\ q \in [pc : {"rebuild"}, tries : Nat, affected : SUBSET Leagues,
                                   left : SUBSET Leagues, counted : SUBSET Jobs]
    BY <1>8, <1>j DEF WriteBoard, Runs, NoRun
  <2>2. [pc |-> "announce", tries |-> 0, affected |-> q.affected] \in Runs
    BY <2>1 DEF Runs
  <2>3. run' \in [Jobs -> Runs]  BY <1>8, <2>2 DEF WriteBoard, TypeOK
  <2>. QED  BY <1>8, <2>1, <2>3 DEF WriteBoard, TypeOK, catalog
<1>9. CASE Announce(j)
  <2>1. q.pc = "announce" /\ q \in [pc : {"announce"}, tries : Nat, affected : SUBSET Leagues]
    BY <1>9, <1>j DEF Announce, Runs, NoRun
  <2>2. [pc |-> "done"] \in Runs  BY DEF Runs
  <2>3. run' \in [Jobs -> Runs]  BY <1>9, <2>2 DEF Announce, TypeOK
  <2>4. announced' \subseteq Jobs
    BY <1>9, <1>j, <2>1 DEF Announce, TypeOK, Jobs
  <2>. QED  BY <1>9, <2>3, <2>4 DEF Announce, TypeOK, catalog
<1>. QED  BY <1>1, <1>2, <1>3, <1>4, <1>5, <1>6, <1>7, <1>8, <1>9 DEF Work

LEMMA FailTypes ==
  ASSUME GradingAssumption, TypeOK, NEW j \in Jobs, Fail(j)
  PROVE  TypeOK'
<1>. DEFINE q == run[j]
<1>1. q \in Runs /\ q.pc \notin {"idle", "done", "dead"}
  BY DEF Fail, TypeOK
<1>2. Restart(q) \in Runs
  <2>1. CASE q.pc = "rebuild"
    <3>1. q \in [pc : {"rebuild"}, tries : Nat, affected : SUBSET Leagues,
                 left : SUBSET Leagues, counted : SUBSET Jobs]
      BY <1>1, <2>1 DEF Runs, NoRun
    <3>2. Restart(q) = [pc |-> "rebuild", tries |-> q.tries + 1, affected |-> q.affected,
                        left |-> Leagues, counted |-> {}]
      BY <2>1 DEF Restart
    <3>. QED  BY <3>1, <3>2 DEF Runs
  <2>2. CASE q.pc = "announce"
    <3>1. q \in [pc : {"announce"}, tries : Nat, affected : SUBSET Leagues]
      BY <1>1, <2>2 DEF Runs, NoRun
    <3>2. Restart(q) = [q EXCEPT !.tries = @ + 1]
      BY <2>2 DEF Restart
    <3>3. Restart(q) \in [pc : {"announce"}, tries : Nat, affected : SUBSET Leagues]
      BY <3>1, <3>2
    <3>. QED  BY <3>3 DEF Runs
  <2>3. CASE q.pc \notin {"rebuild", "announce"}
    <3>1. q.tries \in Nat
      BY <1>1, <2>3 DEF Runs, NoRun
    <3>2. Restart(q) = [pc |-> "fetch", tries |-> q.tries + 1]
      BY <2>3 DEF Restart
    <3>. QED  BY <3>1, <3>2 DEF Runs
  <2>. QED  BY <2>1, <2>2, <2>3
<1>3. [pc |-> "dead"] \in Runs  BY DEF Runs
<1>4. run' \in [Jobs -> Runs]
  BY <1>2, <1>3 DEF Fail, TypeOK
<1>5. failures' \in 0..Failures
  BY DEF Fail, TypeOK, GradingAssumption
<1>. QED  BY <1>4, <1>5 DEF Fail, TypeOK, catalog

LEMMA FetchMockTypes ==
  ASSUME GradingAssumption, TypeOK, NEW j \in Jobs, FetchMock(j)
  PROVE  TypeOK'
<1>. DEFINE q == run[j]
            r == [pc |-> "resolve", tries |-> q.tries, answer |-> "home"]
<1>1. q \in [pc : {"fetch"}, tries : Nat]
  BY DEF FetchMock, TypeOK, Runs, NoRun
<1>2. r \in [pc : {"resolve", "list"}, tries : Nat, answer : Answers]
  BY <1>1 DEF FetchMock
<1>3. r \in Runs  BY <1>2 DEF Runs
<1>4. run' = [run EXCEPT ![j] = r]  BY DEF FetchMock
<1>5. run' \in [Jobs -> Runs]  BY <1>3, <1>4 DEF TypeOK
<1>6. failures' \in 0..Failures
  BY DEF FetchMock, TypeOK, GradingAssumption
<1>. QED  BY <1>5, <1>6 DEF FetchMock, TypeOK, catalog

LEMMA TypeStep ==
  ASSUME GradingAssumption, TypeOK, [Next]_vars
  PROVE  TypeOK'
<1>1. ASSUME NEW e \in Events, Poll(e) PROVE TypeOK'
  <2>1. Queued \in Runs  BY DEF Queued, Runs
  <2>2. PendingLeagues(e) \X {e} \subseteq Jobs  BY DEF PendingLeagues, Jobs
  <2>3. run' \in [Jobs -> Runs] /\ seen' \subseteq Jobs
    BY <1>1, <2>1, <2>2 DEF Poll, TypeOK
  <2>. QED  BY <1>1, <2>3 DEF Poll, TypeOK, catalog
<1>2. ASSUME NEW j \in Jobs, Forget(j) PROVE TypeOK'
  <2>1. NoRun \in Runs  BY DEF Runs
  <2>. QED  BY <1>2, <2>1 DEF Forget, TypeOK, catalog
<1>3. CASE UNCHANGED vars
  BY <1>3 DEF vars, catalog, TypeOK
<1>. QED  BY <1>1, <1>2, <1>3, WorldTypes, WorkTypes, FetchMockTypes, FailTypes
     DEF Next

-----------------------------------------------------------------------------
(* Grades are final *)

\* The two places that write picks: an insert where there was none, and an update of
\* one that is pending.
LEMMA PicksAreKept ==
  ASSUME GradingAssumption, TypeOK, [Next]_vars
  PROVE  PicksKept
<1>1. ASSUME NEW e \in Events, NEW l \in Leagues, NEW s \in Sides, Submit(l, e, s)
      PROVE  PicksKept
  <2>1. pick[<<l, e>>] = None  BY <1>1 DEF Submit
  <2>2. ASSUME NEW k \in Jobs, pick[k] # None PROVE pick'[k] = pick[k]
    BY <1>1, <2>1, <2>2 DEF Submit, TypeOK
  <2>. QED  BY <2>2 DEF PicksKept, Graded
<1>2. ASSUME NEW j \in Jobs, WriteGrade(j) PROVE PicksKept
  <2>. DEFINE c == <<run[j].league, j[2]>>
  <2>1. CASE StillPending(run[j].league, j[2])
    <3>1. ASSUME NEW k \in Jobs, k # c PROVE pick'[k] = pick[k]
      BY <1>2, <2>1, <3>1 DEF WriteGrade, TypeOK
    <3>2. pick[c] # None /\ ~Graded(c)
      BY <2>1 DEF StillPending, Pending, Graded
    <3>3. c \in Jobs => pick[c] \in [side : Sides, status : Statuses]
      BY <3>2 DEF TypeOK
    <3>4. c \in Jobs => pick'[c] = [pick[c] EXCEPT !.status = run[j].outcome]
      BY <1>2, <2>1 DEF WriteGrade, TypeOK
    <3>5. c \in Jobs => run[j].outcome \in Statuses
      <4>1. run[j] \in Runs /\ run[j].pc = "write"
        BY <1>2 DEF WriteGrade, TypeOK
      <4>2. run[j].outcome \in Statuses \ {"pending"}
        BY <4>1 DEF Runs, NoRun
      <4>. QED  BY <4>2
    <3>6. c \in Jobs => pick'[c] \in [side : Sides, status : Statuses]
      BY <3>3, <3>4, <3>5
    <3>7. c \in Jobs => pick'[c] # None
      BY <3>6 DEF GradingAssumption
    <3>. QED  BY <3>1, <3>2, <3>7 DEF PicksKept, Graded
  <2>2. CASE ~StillPending(run[j].league, j[2])
    BY <1>2, <2>2 DEF WriteGrade, PicksKept
  <2>. QED  BY <2>1, <2>2
<1>3. CASE UNCHANGED pick
  BY <1>3 DEF PicksKept
<1>4. ASSUME NEW e \in Events, World(e) PROVE PicksKept
  <2>1. ASSUME NEW l \in Leagues, NEW s \in Sides, Submit(l, e, s) PROVE PicksKept
    BY <2>1, <1>1
  <2>2. CASE Pass(e)  BY <2>2, <1>3 DEF Pass
  <2>3. ASSUME NEW a \in Answers, EndGame(e, a) \/ CorrectScore(e, a) PROVE PicksKept
    BY <2>3, <1>3 DEF EndGame, CorrectScore
  <2>4. CASE Reschedule(e)  BY <2>4, <1>3 DEF Reschedule
  <2>. QED  BY <1>4, <2>1, <2>2, <2>3, <2>4 DEF World
<1>5. ASSUME NEW j \in Jobs, Work(j) PROVE PicksKept
  <2>1. ASSUME NEW l \in Leagues, ReadPending(j, l) \/ ReadMetrics(j, l) PROVE PicksKept
    BY <2>1, <1>3 DEF ReadPending, ReadMetrics
  <2>2. CASE WriteGrade(j)  BY <2>2, <1>2
  <2>3. CASE Fetch(j) \/ Resolve(j) \/ ListLeagues(j) \/ FinishGrading(j)
    BY <2>3, <1>3 DEF Fetch, Resolve, ListLeagues, FinishGrading
  <2>4. CASE WriteBoard(j) \/ Announce(j)
    BY <2>4, <1>3 DEF WriteBoard, Announce
  <2>. QED  BY <1>5, <2>1, <2>2, <2>3, <2>4 DEF Work
<1>6. ASSUME NEW e \in Events, Poll(e) PROVE PicksKept
  BY <1>6, <1>3 DEF Poll
<1>7. ASSUME NEW j \in Jobs, Forget(j) \/ FetchMock(j) \/ Fail(j) PROVE PicksKept
  BY <1>7, <1>3 DEF Forget, FetchMock, Fail
<1>8. CASE UNCHANGED vars  BY <1>8, <1>3 DEF vars
<1>. QED  BY <1>4, <1>5, <1>6, <1>7, <1>8 DEF Next

-----------------------------------------------------------------------------
(* What jobs remember stays true *)

\* The picks and leagues a run speaks of are picks and leagues.
LEMMA RunShape ==
  ASSUME TypeOK, NEW j \in Jobs
  PROVE  /\ run[j].pc = "write" => <<run[j].league, j[2]>> \in Jobs
         /\ run[j].pc \in {"grade", "write", "rebuild", "announce"} =>
              \A l \in run[j].affected : <<l, j[2]>> \in Jobs
         /\ run[j].pc = "rebuild" => run[j].counted \subseteq Jobs
<1>1. j[2] \in Events /\ run[j] \in Runs  BY DEF Jobs, TypeOK
<1>2. run[j].pc = "write" => run[j].league \in Leagues
  BY <1>1 DEF Runs, NoRun
<1>3. run[j].pc \in {"grade", "write"} => run[j].affected \subseteq Leagues
  BY <1>1 DEF Runs, NoRun
<1>4. run[j].pc \in {"rebuild", "announce"} => run[j].affected \subseteq Leagues
  BY <1>1 DEF Runs, NoRun
<1>5. run[j].pc = "rebuild" => run[j].counted \subseteq Jobs
  BY <1>1 DEF Runs, NoRun
<1>. QED  BY <1>1, <1>2, <1>3, <1>4, <1>5 DEF Jobs

\* A run that does not move keeps its invariant under a step that keeps picks.
LEMMA RunKept ==
  ASSUME TypeOK, PicksKept, NEW j \in Jobs, RunInv(j), run'[j] = run[j]
  PROVE  RunInv(j)'
<1>1. run[j].pc = "write" => pick'[<<run[j].league, j[2]>>] # None
  BY RunShape DEF RunInv, PicksKept
<1>2. run[j].pc \in {"grade", "write", "rebuild", "announce"} =>
        \A l \in run[j].affected : Graded(<<l, j[2]>>)'
  BY RunShape DEF RunInv, PicksKept, Graded
<1>3. run[j].pc = "rebuild" =>
        \A k \in run[j].counted : pick'[k] # None /\ pick'[k].status = "correct"
  <2>. SUFFICES ASSUME run[j].pc = "rebuild", NEW k \in run[j].counted
                PROVE  pick'[k] # None /\ pick'[k].status = "correct"
    OBVIOUS
  <2>1. k \in Jobs /\ pick[k] # None /\ pick[k].status = "correct"
    BY RunShape DEF RunInv
  <2>. QED  BY <2>1 DEF PicksKept, Graded
<1>. QED  BY <1>1, <1>2, <1>3 DEF RunInv

\* A run at a step where it remembers nothing.
LEMMA FreshRun ==
  ASSUME NEW j \in Jobs,
         run'[j].pc \in {"idle", "done", "dead", "fetch", "resolve", "list"}
  PROVE  RunInv(j)'
BY DEF RunInv

\* After an update that found its pick pending, or not, the pick is graded.
LEMMA WrittenIsGraded ==
  ASSUME GradingAssumption, TypeOK, NEW j \in Jobs, RunInv(j), WriteGrade(j)
  PROVE  /\ pick'[<<run[j].league, j[2]>>] # None
         /\ pick'[<<run[j].league, j[2]>>].status # "pending"
<1>. DEFINE q == run[j]
            k == <<q.league, j[2]>>
<1>1. q.pc = "write" /\ k \in Jobs /\ pick[k] # None
  BY RunShape DEF WriteGrade, RunInv
<1>2. q \in Runs  BY DEF TypeOK
<1>3. q.outcome \in Statuses \ {"pending"}  BY <1>1, <1>2 DEF Runs, NoRun
<1>4. CASE StillPending(q.league, j[2])
  <2>1. pick' = [pick EXCEPT ![k].status = q.outcome]  BY <1>4 DEF WriteGrade
  <2>2. pick[k] \in [side : Sides, status : Statuses]  BY <1>1 DEF TypeOK
  <2>3. pick'[k] = [pick[k] EXCEPT !.status = q.outcome]  BY <1>1, <2>1 DEF TypeOK
  <2>4. pick'[k] \in [side : Sides, status : Statuses] /\ pick'[k].status = q.outcome
    BY <1>3, <2>2, <2>3
  <2>5. pick'[k] # None  BY <2>4 DEF GradingAssumption
  <2>. QED  BY <1>3, <2>4, <2>5
<1>5. CASE ~StillPending(q.league, j[2])
  BY <1>1, <1>5 DEF WriteGrade, StillPending, Pending, Graded
<1>. QED  BY <1>4, <1>5

LEMMA WorkRuns ==
  ASSUME GradingAssumption, IInv, PicksKept, NEW j \in Jobs, Work(j)
  PROVE  RunInv(j)'
<1>. DEFINE q == run[j]
<1>. USE DEF IInv, RunsInv
<1>0. TypeOK /\ RunInv(j) /\ j \in DOMAIN run  BY DEF TypeOK
<1>1. CASE Fetch(j)
  <2>1. run'[j].pc \in {"resolve", "done"}  BY <1>0, <1>1 DEF Fetch
  <2>. QED  BY <2>1, FreshRun
<1>2. CASE Resolve(j)
  <2>1. q \in [pc : {"resolve", "list"}, tries : Nat, answer : Answers]
    BY <1>2 DEF Resolve, TypeOK, Runs, NoRun
  <2>2. run'[j] = [q EXCEPT !.pc = "list"]  BY <1>0, <1>2 DEF Resolve
  <2>3. run'[j].pc = "list"  BY <2>1, <2>2
  <2>. QED  BY <2>3, FreshRun
<1>3. CASE ListLeagues(j)
  <2>1. run'[j].pc = "grade" /\ run'[j].affected = {}  BY <1>0, <1>3 DEF ListLeagues
  <2>. QED  BY <2>1 DEF RunInv
<1>4. ASSUME NEW l \in Leagues, ReadPending(j, l) PROVE RunInv(j)'
  <2>1. q.pc = "grade" /\ q \in [pc : {"grade"}, tries : Nat, answer : Answers,
                                 todo : SUBSET Leagues, affected : SUBSET Leagues]
    BY <1>4 DEF ReadPending, TypeOK, Runs, NoRun
  <2>2. \A m \in q.affected : Graded(<<m, j[2]>>)'
    BY <1>0, <2>1, RunShape DEF RunInv, PicksKept, Graded
  <2>3. CASE Pending(l, j[2])
    <3>1. run'[j].pc = "write" /\ run'[j].affected = q.affected /\ run'[j].league = l
      BY <1>0, <1>4, <2>3 DEF ReadPending
    <3>2. pick'[<<l, j[2]>>] # None
      BY <1>4, <2>3 DEF ReadPending, Pending
    <3>. QED  BY <2>2, <3>1, <3>2 DEF RunInv
  <2>4. CASE ~Pending(l, j[2])
    <3>1. run'[j] = [q EXCEPT !.todo = @ \ {l}]
      BY <1>0, <1>4, <2>4 DEF ReadPending
    <3>2. run'[j].pc = "grade" /\ run'[j].affected = q.affected
      BY <2>1, <3>1
    <3>. QED  BY <2>2, <3>2 DEF RunInv
  <2>. QED  BY <2>3, <2>4
<1>5. CASE WriteGrade(j)
  <2>1. q.pc = "write"  BY <1>5 DEF WriteGrade
  <2>2. \A m \in q.affected : Graded(<<m, j[2]>>)'
    BY <1>0, <2>1, RunShape DEF RunInv, PicksKept, Graded
  <2>3. pick'[<<q.league, j[2]>>] # None /\ pick'[<<q.league, j[2]>>].status # "pending"
    BY <1>0, <1>5, WrittenIsGraded
  <2>4. run'[j].pc = "grade" /\ run'[j].affected = q.affected \cup {q.league}
    BY <1>0, <1>5 DEF WriteGrade
  <2>. QED  BY <2>2, <2>3, <2>4 DEF RunInv, Graded
<1>6. CASE FinishGrading(j)
  <2>1. q.pc = "grade"  BY <1>6 DEF FinishGrading
  <2>2. \A m \in q.affected : Graded(<<m, j[2]>>)'
    BY <1>0, <2>1, RunShape DEF RunInv, PicksKept, Graded
  <2>3. \/ run'[j].pc = "done"
        \/ run'[j].pc = "rebuild" /\ run'[j].affected = q.affected /\ run'[j].counted = {}
    BY <1>0, <1>6 DEF FinishGrading
  <2>. QED  BY <2>2, <2>3 DEF RunInv
<1>7. ASSUME NEW l \in Leagues, ReadMetrics(j, l) PROVE RunInv(j)'
  <2>. DEFINE c == {k \in {l} \X Events : Correct(k)}
  <2>1. q.pc = "rebuild" /\ q \in [pc : {"rebuild"}, tries : Nat, affected : SUBSET Leagues,
                                   left : SUBSET Leagues, counted : SUBSET Jobs]
    BY <1>7 DEF ReadMetrics, TypeOK, Runs, NoRun
  <2>2. \A m \in q.affected : Graded(<<m, j[2]>>)'
    BY <1>0, <2>1, RunShape DEF RunInv, PicksKept, Graded
  <2>3. run'[j] = [q EXCEPT !.left = @ \ {l}, !.counted = @ \cup c]
    BY <1>0, <1>7 DEF ReadMetrics
  <2>4. run'[j].pc = "rebuild" /\ run'[j].affected = q.affected
          /\ run'[j].counted = q.counted \cup c
    BY <2>1, <2>3
  <2>5. \A k \in q.counted \cup c : pick'[k] # None /\ pick'[k].status = "correct"
    BY <1>0, <1>7, <2>1 DEF ReadMetrics, RunInv, Correct
  <2>. QED  BY <2>2, <2>4, <2>5 DEF RunInv
<1>8. CASE WriteBoard(j)
  <2>1. q.pc = "rebuild"  BY <1>8 DEF WriteBoard
  <2>2. \A m \in q.affected : Graded(<<m, j[2]>>)'
    BY <1>0, <2>1, RunShape DEF RunInv, PicksKept, Graded
  <2>3. run'[j].pc = "announce" /\ run'[j].affected = q.affected
    BY <1>0, <1>8 DEF WriteBoard
  <2>. QED  BY <2>2, <2>3 DEF RunInv
<1>9. CASE Announce(j)
  <2>1. run'[j].pc = "done"  BY <1>0, <1>9 DEF Announce
  <2>. QED  BY <2>1, FreshRun
<1>. QED  BY <1>1, <1>2, <1>3, <1>4, <1>5, <1>6, <1>7, <1>8, <1>9 DEF Work

\* A retry forgets what its step read, or keeps the step's memoized facts.
LEMMA FailRuns ==
  ASSUME IInv, PicksKept, NEW j \in Jobs, Fail(j)
  PROVE  RunInv(j)'
<1>. DEFINE q == run[j]
<1>. USE DEF IInv, RunsInv
<1>1. TypeOK /\ RunInv(j) /\ j \in DOMAIN run /\ q \in Runs  BY DEF TypeOK
<1>2. run'[j] = Restart(q) \/ run'[j] = [pc |-> "dead"]
  BY <1>1 DEF Fail
<1>3. CASE q.pc \in {"rebuild", "announce"}
  <2>1. \A m \in q.affected : Graded(<<m, j[2]>>)'
    BY <1>1, <1>3, RunShape DEF RunInv, PicksKept, Graded
  <2>2. q.pc = "announce" => q \in [pc : {"announce"}, tries : Nat, affected : SUBSET Leagues]
    BY <1>1, <1>3 DEF Runs, NoRun
  <2>3. q.pc = "rebuild" => Restart(q).pc = "rebuild" /\ Restart(q).counted = {}
                              /\ Restart(q).affected = q.affected
    BY DEF Restart
  <2>4. q.pc = "announce" => Restart(q) = [q EXCEPT !.tries = @ + 1]
    BY DEF Restart
  <2>5. q.pc = "announce" => Restart(q).pc = "announce" /\ Restart(q).affected = q.affected
    BY <2>2, <2>4
  <2>. QED  BY <1>2, <1>3, <2>1, <2>3, <2>5 DEF RunInv
<1>4. CASE q.pc \notin {"rebuild", "announce"}
  <2>1. Restart(q).pc = "fetch"  BY <1>4 DEF Restart
  <2>2. run'[j].pc \in {"fetch", "dead"}  BY <1>2, <2>1
  <2>. QED  BY <2>2, FreshRun
<1>. QED  BY <1>3, <1>4

LEMMA FetchMockRuns ==
  ASSUME TypeOK, NEW j \in Jobs, FetchMock(j)
  PROVE  RunInv(j)'
<1>1. run'[j].pc = "resolve"  BY DEF FetchMock, TypeOK
<1>. QED  BY <1>1, FreshRun

LEMMA RunsStep ==
  ASSUME GradingAssumption, IInv, [Next]_vars
  PROVE  RunsInv'
<1>1. PicksKept  BY PicksAreKept DEF IInv
<1>2. SUFFICES ASSUME NEW k \in Jobs PROVE RunInv(k)'
  BY DEF RunsInv
<1>3. RunInv(k) /\ TypeOK /\ DOMAIN run = Jobs  BY DEF IInv, RunsInv, TypeOK
<1>4. CASE run'[k] = run[k]  BY <1>1, <1>3, <1>4, RunKept
<1>5. ASSUME NEW j \in Jobs, Work(j) \/ FetchMock(j) \/ Fail(j) PROVE RunInv(k)'
  <2>1. RunInv(j)'  BY <1>1, <1>3, <1>5, WorkRuns, FetchMockRuns, FailRuns
  <2>2. k # j => run'[k] = run[k]
    BY <1>3, <1>5 DEF Work, FetchMock, Fail, Fetch, Resolve, ListLeagues, ReadPending, WriteGrade,
       FinishGrading, ReadMetrics, WriteBoard, Announce
  <2>. QED  BY <1>4, <2>1, <2>2
<1>6. ASSUME NEW e \in Events, World(e) PROVE RunInv(k)'
  BY <1>4, <1>6 DEF World, Submit, Pass, EndGame, CorrectScore, Reschedule
<1>7. ASSUME NEW e \in Events, Poll(e) PROVE RunInv(k)'
  <2>1. run'[k] = run[k] \/ run'[k] = Queued  BY <1>7 DEF Poll
  <2>2. Queued.pc = "fetch"  BY DEF Queued
  <2>. QED  BY <1>4, <2>1, <2>2, FreshRun
<1>8. ASSUME NEW j \in Jobs, Forget(j) PROVE RunInv(k)'
  <2>1. run'[k] = run[k] \/ run'[k] = NoRun  BY <1>3, <1>8 DEF Forget
  <2>2. NoRun.pc = "idle"  BY DEF NoRun
  <2>. QED  BY <1>4, <2>1, <2>2, FreshRun
<1>9. CASE UNCHANGED vars  BY <1>4, <1>9 DEF vars
<1>. QED  BY <1>5, <1>6, <1>7, <1>8, <1>9 DEF Next

-----------------------------------------------------------------------------
(* The board and the announcements *)

LEMMA NothingInventedStep ==
  ASSUME GradingAssumption, IInv, [Next]_vars
  PROVE  NothingInvented'
<1>1. PicksKept /\ TypeOK /\ NothingInvented  BY PicksAreKept DEF IInv
<1>2. \A k \in board : pick'[k] # None /\ pick'[k].status = "correct"
  <2>. SUFFICES ASSUME NEW k \in board
                PROVE  pick'[k] # None /\ pick'[k].status = "correct"
    OBVIOUS
  <2>1. k \in Jobs /\ pick[k] # None /\ pick[k].status = "correct"
    BY <1>1 DEF NothingInvented, TypeOK
  <2>. QED  BY <1>1, <2>1 DEF PicksKept, Graded
<1>3. \A k \in announced : Graded(k)'
  <2>. SUFFICES ASSUME NEW k \in announced PROVE Graded(k)'
    OBVIOUS
  <2>1. k \in Jobs /\ k = <<k[1], k[2]>>  BY <1>1 DEF TypeOK, Jobs
  <2>2. Graded(k)  BY <1>1, <2>1 DEF NothingInvented, Pending, Graded
  <2>. QED  BY <1>1, <2>1, <2>2 DEF PicksKept, Graded
<1>4. ASSUME NEW j \in Jobs, WriteBoard(j) PROVE NothingInvented'
  <2>1. RunInv(j)  BY DEF IInv, RunsInv
  <2>2. \A k \in board' : pick'[k] # None /\ pick'[k].status = "correct"
    BY <1>4, <2>1 DEF WriteBoard, RunInv
  <2>3. announced' = announced  BY <1>4 DEF WriteBoard
  <2>4. announced \subseteq Jobs /\ \A k \in Jobs : k = <<k[1], k[2]>>
    BY <1>1 DEF TypeOK, Jobs
  <2>. QED  BY <1>3, <2>2, <2>3, <2>4 DEF NothingInvented, Graded, Pending
<1>5. ASSUME NEW j \in Jobs, Announce(j) PROVE NothingInvented'
  <2>1. RunInv(j) /\ run[j].pc = "announce"  BY <1>5 DEF IInv, RunsInv, Announce
  <2>2. \A l \in run[j].affected : Graded(<<l, j[2]>>)
    BY <2>1 DEF RunInv
  <2>3. \A l \in run[j].affected : Graded(<<l, j[2]>>)'
    BY <1>5, <2>2 DEF Announce, Graded
  <2>4. \A k \in announced' : Graded(k)'
    BY <1>3, <1>5, <2>3 DEF Announce
  <2>5. board' = board  BY <1>5 DEF Announce
  <2>6. announced' \subseteq Jobs /\ \A k \in Jobs : k = <<k[1], k[2]>>
    BY TypeStep DEF IInv, TypeOK, Jobs
  <2>. QED  BY <1>2, <2>4, <2>5, <2>6 DEF NothingInvented, Graded, Pending
<1>6. CASE UNCHANGED <<board, announced>>
  <2>1. announced \subseteq Jobs /\ \A k \in Jobs : k = <<k[1], k[2]>>
    BY <1>1 DEF TypeOK, Jobs
  <2>. QED  BY <1>2, <1>3, <1>6, <2>1 DEF NothingInvented, Graded, Pending
<1>7. ASSUME NEW j \in Jobs, Work(j) \/ FetchMock(j) \/ Fail(j) \/ Forget(j)
      PROVE  NothingInvented'
  <2>1. CASE FetchMock(j) \/ Fail(j) \/ Forget(j)
    BY <1>6, <2>1 DEF FetchMock, Fail, Forget
  <2>2. CASE Fetch(j) \/ Resolve(j) \/ ListLeagues(j) \/ WriteGrade(j) \/ FinishGrading(j)
    BY <1>6, <2>2 DEF Fetch, Resolve, ListLeagues, WriteGrade, FinishGrading
  <2>3. ASSUME NEW l \in Leagues, ReadPending(j, l) \/ ReadMetrics(j, l)
        PROVE  NothingInvented'
    BY <1>6, <2>3 DEF ReadPending, ReadMetrics
  <2>. QED  BY <1>4, <1>5, <1>7, <2>1, <2>2, <2>3 DEF Work
<1>8. ASSUME NEW e \in Events, World(e) \/ Poll(e) PROVE NothingInvented'
  BY <1>6, <1>8 DEF World, Submit, Pass, EndGame, CorrectScore, Reschedule, Poll
<1>9. CASE UNCHANGED vars  BY <1>6, <1>9 DEF vars
<1>. QED  BY <1>7, <1>8, <1>9 DEF Next

-----------------------------------------------------------------------------
(* What the runner has memoized *)

\* A job has no facts before its first step has ended, carries them until it announces
\* them, and ends well when it has.
MemoInv(j) ==
  LET q == run[j] IN
    /\ q.pc \in {"idle", "fetch", "resolve", "list", "grade", "write"} => memo[j] = {}
    /\ q.pc \in {"rebuild", "announce"} => memo[j] \subseteq q.affected
    /\ q.pc = "done" => \A l \in memo[j] : <<l, j[2]>> \in announced

MemosInv == \A j \in Jobs : MemoInv(j)

\* A job keeps its facts while it goes on, as long as it has none or carries them.
LEMMA MemoKept ==
  ASSUME NEW k \in Jobs, MemoInv(k), memo'[k] = memo[k], announced \subseteq announced',
         \/ run'[k] = run[k]
         \/ run'[k].pc = "dead"
         \/ /\ run[k].pc \in {"idle", "fetch", "resolve", "list", "grade", "write"}
            /\ run'[k].pc \in {"fetch", "resolve", "list", "grade", "write", "done"}
         \/ /\ run[k].pc \in {"rebuild", "announce"}
            /\ run'[k].pc \in {"rebuild", "announce"}
            /\ run'[k].affected = run[k].affected
  PROVE  MemoInv(k)'
BY DEF MemoInv

LEMMA WorkMemo ==
  ASSUME TypeOK, MemosInv, NEW j \in Jobs, Work(j)
  PROVE  MemoInv(j)'
<1>. DEFINE q == run[j]
<1>0. /\ MemoInv(j) /\ j \in DOMAIN run /\ j \in DOMAIN memo
      /\ q \in Runs
  BY DEF TypeOK, MemosInv
<1>1. CASE Fetch(j)
  <2>1. q.pc = "fetch" /\ run'[j].pc \in {"resolve", "done"}
    BY <1>0, <1>1 DEF Fetch
  <2>. QED  BY <1>0, <1>1, <2>1, MemoKept DEF Fetch
<1>2. CASE Resolve(j) \/ ListLeagues(j) \/ WriteGrade(j)
  <2>1. q.pc \in {"resolve", "list", "write"} /\ run'[j].pc \in {"list", "grade"}
    BY <1>0, <1>2 DEF Resolve, ListLeagues, WriteGrade, Runs, NoRun
  <2>. QED  BY <1>0, <1>2, <2>1, MemoKept DEF Resolve, ListLeagues, WriteGrade
<1>3. ASSUME NEW l \in Leagues, ReadPending(j, l) PROVE MemoInv(j)'
  <2>1. q.pc = "grade" /\ run'[j].pc \in {"write", "grade"}
    BY <1>0, <1>3 DEF ReadPending, Runs, NoRun
  <2>. QED  BY <1>0, <1>3, <2>1, MemoKept DEF ReadPending
<1>4. CASE FinishGrading(j)
  <2>1. q.pc = "grade" /\ memo[j] = {}  BY <1>0, <1>4 DEF FinishGrading, MemoInv
  <2>2. memo'[j] = q.affected  BY <1>0, <1>4, <2>1 DEF FinishGrading
  <2>3. \/ run'[j].pc = "done" /\ q.affected = {}
        \/ run'[j].pc = "rebuild" /\ run'[j].affected = q.affected
    BY <1>0, <1>4 DEF FinishGrading
  <2>. QED  BY <2>2, <2>3 DEF MemoInv
<1>5. ASSUME NEW l \in Leagues, ReadMetrics(j, l) PROVE MemoInv(j)'
  <2>0. q.pc = "rebuild"  BY <1>5 DEF ReadMetrics
  <2>1. q \in [pc : {"rebuild"}, tries : Nat, affected : SUBSET Leagues,
               left : SUBSET Leagues, counted : SUBSET Jobs]
    BY <1>0, <2>0 DEF Runs, NoRun
  <2>2. run'[j] = [q EXCEPT !.left = @ \ {l},
                            !.counted = @ \cup {k \in {l} \X Events : Correct(k)}]
    BY <1>0, <1>5 DEF ReadMetrics
  <2>3. q.pc = "rebuild" /\ run'[j].pc = "rebuild" /\ run'[j].affected = q.affected
    BY <2>1, <2>2
  <2>. QED  BY <1>0, <1>5, <2>3, MemoKept DEF ReadMetrics
<1>6. CASE WriteBoard(j)
  <2>1. q.pc = "rebuild" /\ run'[j].pc = "announce" /\ run'[j].affected = q.affected
    BY <1>0, <1>6 DEF WriteBoard
  <2>. QED  BY <1>0, <1>6, <2>1, MemoKept DEF WriteBoard
<1>7. CASE Announce(j)
  <2>1. q.pc = "announce" /\ run'[j].pc = "done" /\ memo' = memo
    BY <1>0, <1>7 DEF Announce
  <2>2. memo[j] \subseteq q.affected  BY <1>0, <2>1 DEF MemoInv
  <2>3. \A l \in memo[j] : <<l, j[2]>> \in announced'  BY <1>7, <2>2 DEF Announce
  <2>. QED  BY <2>1, <2>3 DEF MemoInv
<1>. QED  BY <1>1, <1>2, <1>3, <1>4, <1>5, <1>6, <1>7 DEF Work

LEMMA FailMemo ==
  ASSUME TypeOK, MemosInv, NEW j \in Jobs, Fail(j)
  PROVE  MemoInv(j)'
<1>. DEFINE q == run[j]
<1>0. MemoInv(j) /\ j \in DOMAIN run /\ q \in Runs  BY DEF TypeOK, MemosInv
<1>1. /\ memo'[j] = memo[j] /\ announced \subseteq announced'
      /\ q.pc \notin {"idle", "done", "dead"}
  BY DEF Fail
<1>2. run'[j] = Restart(q) \/ run'[j].pc = "dead"  BY <1>0 DEF Fail
<1>3. CASE q.pc = "rebuild"
  <2>1. Restart(q).pc = "rebuild" /\ Restart(q).affected = q.affected
    BY <1>3 DEF Restart
  <2>. QED  BY <1>0, <1>1, <1>2, <1>3, <2>1, MemoKept
<1>4. CASE q.pc = "announce"
  <2>1. q \in [pc : {"announce"}, tries : Nat, affected : SUBSET Leagues]
    BY <1>0, <1>4 DEF Runs, NoRun
  <2>2. Restart(q) = [q EXCEPT !.tries = @ + 1]  BY <1>4 DEF Restart
  <2>3. Restart(q).pc = "announce" /\ Restart(q).affected = q.affected
    BY <2>1, <2>2
  <2>. QED  BY <1>0, <1>1, <1>2, <1>4, <2>3, MemoKept
<1>5. CASE q.pc \notin {"rebuild", "announce"}
  <2>1. Restart(q).pc = "fetch"  BY <1>5 DEF Restart
  <2>2. q.pc \in {"fetch", "resolve", "list", "grade", "write"}
    BY <1>0, <1>1, <1>5 DEF Runs, NoRun
  <2>. QED  BY <1>0, <1>1, <1>2, <2>1, <2>2, MemoKept
<1>. QED  BY <1>3, <1>4, <1>5

LEMMA MemoStep ==
  ASSUME TypeOK, MemosInv, [Next]_vars
  PROVE  MemosInv'
<1>1. SUFFICES ASSUME NEW k \in Jobs PROVE MemoInv(k)'
  BY DEF MemosInv
<1>2. MemoInv(k) /\ DOMAIN run = Jobs /\ DOMAIN memo = Jobs  BY DEF MemosInv, TypeOK
<1>3. CASE UNCHANGED <<run, memo>> /\ announced \subseteq announced'
  BY <1>2, <1>3, MemoKept
<1>4. ASSUME NEW j \in Jobs, Work(j) \/ FetchMock(j) \/ Fail(j) PROVE MemoInv(k)'
  <2>1. CASE FetchMock(j)
    <3>1. run[j].pc = "fetch" /\ run'[j].pc = "resolve" /\ UNCHANGED <<memo, announced>>
      BY <1>2, <2>1 DEF FetchMock
    <3>2. k # j => run'[k] = run[k]  BY <1>2, <2>1 DEF FetchMock
    <3>. QED  BY <1>2, <3>1, <3>2, MemoKept
  <2>2. CASE Work(j) \/ Fail(j)
    <3>1. MemoInv(j)'  BY <2>2, WorkMemo, FailMemo
    <3>2. k # j => /\ run'[k] = run[k] /\ memo'[k] = memo[k]
                   /\ announced \subseteq announced'
      BY <1>2, <2>2 DEF Work, Fail, Fetch, Resolve, ListLeagues, ReadPending, WriteGrade,
         FinishGrading, ReadMetrics, WriteBoard, Announce
    <3>. QED  BY <1>2, <3>1, <3>2, MemoKept
  <2>. QED  BY <1>4, <2>1, <2>2
<1>5. ASSUME NEW e \in Events, World(e) PROVE MemoInv(k)'
  BY <1>3, <1>5 DEF World, Submit, Pass, EndGame, CorrectScore, Reschedule
<1>6. ASSUME NEW e \in Events, Poll(e) PROVE MemoInv(k)'
  <2>1. /\ UNCHANGED <<memo, announced>>
        /\ run'[k] = run[k] \/ (run[k] = NoRun /\ run'[k] = Queued)
    <3>. DEFINE queued == {i \in PendingLeagues(e) \X {e} : i \notin seen /\ run[i] = NoRun}
    <3>1. run'[k] = IF k \in queued THEN Queued ELSE run[k]  BY <1>6 DEF Poll
    <3>. QED  BY <1>6, <3>1 DEF Poll
  <2>2. Queued.pc = "fetch" /\ NoRun.pc = "idle"  BY DEF Queued, NoRun
  <2>. QED  BY <1>2, <2>1, <2>2, MemoKept
<1>7. ASSUME NEW j \in Jobs, Forget(j) PROVE MemoInv(k)'
  <2>1. /\ announced' = announced
        /\ \/ run'[k] = run[k] /\ memo'[k] = memo[k]
           \/ run'[k] = NoRun /\ memo'[k] = {}
    BY <1>2, <1>7 DEF Forget
  <2>2. NoRun.pc = "idle"  BY DEF NoRun
  <2>3. CASE run'[k] = NoRun /\ memo'[k] = {}
    BY <2>2, <2>3 DEF MemoInv
  <2>. QED  BY <1>2, <2>1, <2>3, MemoKept
<1>8. CASE UNCHANGED vars  BY <1>3, <1>8 DEF vars
<1>. QED  BY <1>4, <1>5, <1>6, <1>7, <1>8 DEF Next

-----------------------------------------------------------------------------
(* Theorems *)

\* The inductive invariant of grading: what a job has read stays true until it acts on it.
THEOREM InductiveInvariant == ASSUME GradingAssumption PROVE Spec => []IInv
<1>1. Init => IInv
  BY InitTypes DEF Init, IInv, RunsInv, RunInv, NothingInvented, NoRun
<1>2. IInv /\ [Next]_vars => IInv'
  BY TypeStep, RunsStep, NothingInventedStep DEF IInv
<1>. QED  BY <1>1, <1>2, PTL DEF Spec

\* Every variable, and every job at each of its steps, has its type.
THEOREM GradingTypes == ASSUME GradingAssumption PROVE Spec => []TypeOK
<1>1. IInv => TypeOK  BY DEF IInv
<1>. QED  BY <1>1, InductiveInvariant, PTL

\* The board counts only correct picks and only graded picks are announced, however
\* rebuilds, retries and corrections of the score interleave.
THEOREM BoardAndNewsAreTrue == ASSUME GradingAssumption PROVE Spec => []NothingInvented
<1>1. IInv => NothingInvented  BY DEF IInv
<1>. QED  BY <1>1, InductiveInvariant, PTL

\* No step changes a grade: the re-check in the update is enough, whatever number of
\* jobs grade the same picks from different answers of the provider.
THEOREM GradesAreFinal == ASSUME GradingAssumption PROVE Spec => GradedOnce
<1>1. TypeOK /\ [Next]_vars =>
        [\A j \in Jobs : pick[j] # None /\ ~Pending(j[1], j[2]) => pick'[j] = pick[j]]_vars
  <2>. SUFFICES ASSUME TypeOK, [Next]_vars, NEW j \in Jobs,
                       pick[j] # None, ~Pending(j[1], j[2])
                PROVE  pick'[j] = pick[j]
    OBVIOUS
  <2>1. j = <<j[1], j[2]>>  BY DEF Jobs
  <2>2. Graded(j)  BY <2>1 DEF Graded, Pending
  <2>. QED  BY <2>2, PicksAreKept DEF PicksKept
<1>. QED  BY <1>1, GradingTypes, PTL DEF Spec, GradedOnce

\* A job that ended well has announced every league whose picks its memoized facts say
\* were graded, however often its later steps failed (the steps of gradeGameFinal).
THEOREM MemoizedIsAnnounced == ASSUME GradingAssumption PROVE Spec => []MemoIsAnnounced
<1>1. Init => MemosInv
  BY DEF Init, MemosInv, MemoInv, NoRun
<1>2. TypeOK /\ MemosInv /\ [Next]_vars => MemosInv'
  BY MemoStep
<1>3. MemosInv => MemoIsAnnounced
  <2>. SUFFICES ASSUME MemosInv, NEW j \in Jobs, run[j].pc = "done"
                PROVE  memo[j] \X {j[2]} \subseteq announced
    BY DEF MemoIsAnnounced
  <2>1. \A l \in memo[j] : <<l, j[2]>> \in announced  BY DEF MemosInv, MemoInv
  <2>. QED  BY <2>1
<1>. QED  BY <1>1, <1>2, <1>3, GradingTypes, PTL DEF Spec
=============================================================================
