---------------------------- MODULE ShadowImport ----------------------------
(***************************************************************************)
(* Bringing one provider league live.  Each user who discovered the league *)
(* owns a discovery row; a request claims the row, syncs the league and    *)
(* queues an import job; the job imports the history, runs the integrity   *)
(* suite and either promotes the row, which makes the user a member, or    *)
(* quarantines it.  A quarantined row leaves by a new claim or by the      *)
(* owner's review of the failing checks.  Several users may discover the   *)
(* same league: they share the league row and its checks.  A user who      *)
(* signs in to the provider with another account discovers the league anew *)
(* under another credential, and the row takes it while a claim runs.      *)
(*                                                                         *)
(* A league that is deleted and synced again has a new identity, so a      *)
(* league is a number and 0 is "none".                                     *)
(***************************************************************************)
EXTENDS FiniteSets, FiniteSetsExt, Integers

CONSTANTS
  Owners,         \* owners of a discovery row of the league
  MaxAttempts,    \* bound on the claims of one row
  MaxClaims,      \* bound on the claims of all rows
  MaxTries,       \* the attempts of the job's step
  MaxLeagues,     \* bound on the identities of the league
  Accounts,       \* how many credentials a user has for the provider
  MaxSignIns,     \* bound on the sign-ins with another one
  MaxTrouble      \* bound on failures: of requests, of the queue, of a try

ASSUME BoundsAssumption ==
  /\ MaxAttempts \in Nat \ {0} /\ MaxClaims \in Nat \ {0}
  /\ MaxTries \in Nat \ {0} /\ MaxLeagues \in Nat \ {0} /\ MaxTrouble \in Nat
  /\ Accounts \in Nat \ {0} /\ MaxSignIns \in Nat

VARIABLES
  league,      \* the league row, 0 when there is none
  made,        \* how many league rows have been made
  members,     \* the users with a membership of the league
  discovery,   \* each user's discovery row, without its credential
  account,     \* the credential_id of each user's discovery row
  signIns,     \* how many sign-ins have replaced one
  failures,    \* the league's failing checks: "none", some "listed", all "hidden"
  importing,   \* each user's import request
  review,      \* the users whose review found nothing left to review
  jobs,        \* the import jobs that have not ended
  keys,        \* the idempotency keys the queue has seen
  complete,    \* the users whose current claim has had its full run
  trouble

shadowVars ==
  <<league, made, members, discovery, account, signIns, failures, importing, review,
    jobs, keys, complete, trouble>>

dataVars == <<league, made, failures>>
signVars == <<account, signIns>>

Leagues  == 0..MaxLeagues
Attempts == 0..MaxAttempts
Credentials == 1..Accounts

Row ==
  [state    : {"none", "shadow_running", "quarantined", "live"},
   attempts : Attempts,
   imported : Leagues,
   stale    : BOOLEAN]

Unclaimed == [state |-> "none", attempts |-> 0, imported |-> 0, stale |-> FALSE]

NoRequest ==
  [at |-> "idle", attempt |-> 0, previous |-> Unclaimed,
   existed |-> FALSE, league |-> 0, credential |-> 0]

ShadowInit ==
  /\ league = 0 /\ made = 0
  /\ members = {}
  /\ discovery = [u \in Owners |-> Unclaimed]
  /\ account = [u \in Owners |-> 1] /\ signIns = 0
  /\ failures = "none"
  /\ importing = [u \in Owners |-> NoRequest]
  /\ review = {}
  /\ jobs = {} /\ keys = {}
  /\ complete = {}
  /\ trouble = 0

Running(u) == discovery[u].state = "shadow_running"

\* A faulty condition that a row which has been settled still meets.
HoldsAttempt(u, n) == discovery[u].attempts = n

\* The condition of the writes that belong to one attempt.
HoldsClaim(u, n) == Running(u) /\ discovery[u].attempts = n

\* A faulty condition that any attempt's job meets.
SettlesAny(e, states) ==
  /\ discovery[e.user].state \in states
  /\ discovery[e.user].imported = e.league

\* The rows a job with event e may settle, whatever their credential.
Settles(e, states) ==
  /\ discovery[e.user].state \in states
  /\ discovery[e.user].attempts = e.attempt
  /\ discovery[e.user].imported = e.league

\* A review reads the league's latest hundred checks, and a suite over many
\* seasons writes more than that: failures may be hidden behind other rows.
Failures == {"none", "listed", "hidden"}

RunSuite == failures' \in Failures

Fault == trouble < MaxTrouble /\ trouble' = trouble + 1

MoveRequest(u, at) == importing' = [importing EXCEPT ![u].at = at]

EndRequest(u) == importing' = [importing EXCEPT ![u] = NoRequest]

(***************************************************************************)
(* The import request (importDiscoveredLeague).                            *)
(***************************************************************************)
\* What the bound on the claims of all rows counts.
ClaimsMade == MapThenSumSet(LAMBDA v : discovery[v].attempts, Owners)

\* claimDiscoveredLeagueImport, and the look at the league before the sync.  The row and
\* its credential are read some time before the claim, which does not look at the
\* credential: a sign-in in between is the same as one right after the claim.
ClaimDiscovered(u) ==
  LET row == discovery[u] IN
  /\ importing[u].at = "idle"
  /\ row.state # "live"
  /\ Running(u) => row.stale
  /\ row.attempts < MaxAttempts
  /\ ClaimsMade < MaxClaims
  /\ discovery' = [discovery EXCEPT
       ![u] = [row EXCEPT !.state = "shadow_running", !.attempts = @ + 1,
                          !.stale = FALSE]]
  /\ importing' = [importing EXCEPT
       ![u] = [NoRequest EXCEPT !.at = "claimed", !.attempt = row.attempts + 1,
                                !.previous = row, !.existed = league # 0,
                                !.credential = account[u]]]
  /\ complete' = complete \ {u}
  /\ UNCHANGED <<signVars, dataVars, members, review, jobs, keys, trouble>>

\* The sync inserts the league or updates it; the statistics that follow run
\* the integrity suite on what was synced.
SyncLeague(u) ==
  /\ importing[u].at = "claimed"
  /\ IF league = 0
     THEN made < MaxLeagues /\ made' = made + 1 /\ league' = made'
     ELSE UNCHANGED <<league, made>>
  /\ RunSuite
  /\ importing' = [importing EXCEPT ![u].at = "synced", ![u].league = league']
  /\ UNCHANGED <<signVars, members, discovery, review, jobs, keys, complete, trouble>>

\* A league that has been deleted since cannot be referenced.
Marks(u) ==
  /\ importing[u].at = "synced"
  /\ importing[u].league = league /\ HoldsClaim(u, importing[u].attempt)

MarkImported(u) ==
  /\ importing[u].at = "synced"
  /\ IF Marks(u)
     THEN /\ discovery' = [discovery EXCEPT ![u].imported = league]
          /\ MoveRequest(u, "marked")
     ELSE /\ MoveRequest(u, "undo")
          /\ UNCHANGED discovery
  /\ UNCHANGED <<signVars, dataVars, members, review, jobs, keys, complete, trouble>>

\* The event's id and the function's idempotency key hold the league and the
\* attempt and no user: the queue drops an event whose key it has seen.
EventKey(u) == <<importing[u].league, importing[u].attempt>>

Accept(u) ==
  /\ keys' = keys \cup {EventKey(u)}
  /\ jobs' = IF EventKey(u) \in keys THEN jobs
             ELSE jobs \cup {[user |-> u, league |-> importing[u].league,
                              attempt |-> importing[u].attempt,
                              credential |-> importing[u].credential,
                              at |-> "queued", try |-> 1]}

Enqueue(u) ==
  /\ importing[u].at = "marked"
  /\ Accept(u)
  /\ EndRequest(u)
  /\ UNCHANGED <<signVars, dataVars, members, discovery, review, complete, trouble>>

\* The queue took the event and the request did not learn of it.
EnqueueUnheard(u) ==
  /\ importing[u].at = "marked"
  /\ Fault
  /\ Accept(u)
  /\ MoveRequest(u, "undo")
  /\ UNCHANGED <<signVars, dataVars, members, discovery, review, complete>>

RequestFails(u) ==
  /\ importing[u].at \in {"claimed", "synced", "marked"}
  /\ Fault
  /\ MoveRequest(u, "undo")
  /\ UNCHANGED <<signVars, dataVars, members, discovery, review, jobs, keys, complete>>

\* rollbackDiscoveredLeagueImport puts the row back as the claim found it.
Rollback(u) ==
  LET req == importing[u] IN
  /\ req.at = "undo"
  /\ IF HoldsClaim(u, req.attempt)
     THEN /\ discovery' = [discovery EXCEPT ![u] = req.previous]
          /\ IF req.existed THEN EndRequest(u) ELSE MoveRequest(u, "orphan")
     ELSE /\ EndRequest(u)
          /\ UNCHANGED discovery
  /\ UNCHANGED <<signVars, dataVars, members, review, jobs, keys, complete, trouble>>

\* A faulty cleanup that looks at memberships only.
Memberless == members = {}

Unreferenced == members = {} /\ \A u \in Owners : discovery[u].imported # league

\* deleteUnreferencedPreLiveLeague; the league's checks go with it.  Marks may commit while
\* the DELETE waits for their locks: it does not look again, and the foreign key sets null
\* what they have marked.
DeleteOrphan(u) ==
  /\ importing[u].at = "orphan"
  /\ IF Unreferenced
     THEN \E marks \in SUBSET {v \in Owners : Marks(v)} :
            /\ league' = 0 /\ failures' = "none"
            /\ discovery' = [v \in Owners |->
                 IF v \in marks THEN [discovery[v] EXCEPT !.imported = 0] ELSE discovery[v]]
            /\ importing' = [v \in Owners |->
                 IF v = u THEN NoRequest
                 ELSE IF v \in marks THEN [importing[v] EXCEPT !.at = "marked"]
                 ELSE importing[v]]
     ELSE /\ EndRequest(u)
          /\ UNCHANGED <<league, failures, discovery>>
  /\ UNCHANGED <<made, members, signVars, review, jobs, keys, complete, trouble>>

\* The process dies in the middle of the request, the cleanup included.
RequestDies(u) ==
  /\ importing[u].at # "idle"
  /\ Fault
  /\ EndRequest(u)
  /\ UNCHANGED <<signVars, dataVars, members, discovery, review, jobs, keys, complete>>

\* SHADOW_IMPORT_STALE_AFTER_MS have passed since the claim.
GrowStale(u) ==
  /\ Running(u) /\ importing[u].at = "idle" /\ ~discovery[u].stale
  /\ discovery' = [discovery EXCEPT ![u].stale = TRUE]
  /\ UNCHANGED <<signVars, dataVars, members, importing, review, jobs, keys,
                 complete, trouble>>

\* persistConnectedCredential: a sign-in with another account of the user that sees the
\* league rewrites the credential of the discovery row and nothing else of the claim.
SignIn(u) ==
  /\ signIns < MaxSignIns /\ signIns' = signIns + 1
  /\ \E c \in Credentials \ {account[u]} : account' = [account EXCEPT ![u] = c]
  /\ UNCHANGED <<dataVars, members, discovery, importing, review, jobs, keys,
                 complete, trouble>>

(***************************************************************************)
(* The import job.                                                         *)
(***************************************************************************)
MoveJob(e, f) == jobs' = (jobs \ {e}) \cup {f}

\* loadImportAuthorization finds the row by the credential of the event.
Shadow(e) ==
  /\ account[e.user] = e.credential
  /\ Settles(e, {"shadow_running", "quarantined"})

\* promoteShadowImport and quarantineShadowImport find it by its id.
StillShadow(e) == Settles(e, {"shadow_running", "quarantined"})

Again(e) ==
  IF e.try < MaxTries
  THEN [e EXCEPT !.at = "queued", !.try = @ + 1]
  ELSE [e EXCEPT !.at = "failed"]

\* loadImportAuthorization, the import, the statistics, the suite and the reading
\* of its failures.  A member may import without a claim; anybody else's run is
\* refused for good.  A suite whose failures are all hidden is an error.
JobRuns(e) ==
  /\ e.at = "queued"
  /\ IF Shadow(e) /\ league = e.league
     THEN /\ RunSuite
          /\ MoveJob(e, CASE failures' = "none"   -> [e EXCEPT !.at = "clean"]
                           [] failures' = "listed" -> [e EXCEPT !.at = "flagged"]
                           [] failures' = "hidden" -> Again(e))
          /\ complete' = complete \cup {e.user}
     ELSE /\ UNCHANGED complete
          /\ IF e.user \in members /\ league = e.league
             THEN RunSuite /\ jobs' = jobs \ {e}
             ELSE MoveJob(e, [e EXCEPT !.at = "failed"]) /\ UNCHANGED failures
  /\ UNCHANGED <<signVars, league, made, members, discovery, importing, review, keys,
                 trouble>>

\* The job ends, or its result is lost and the step is tried again.
Finish(e) ==
  \/ jobs' = jobs \ {e} /\ UNCHANGED trouble
  \/ Fault /\ MoveJob(e, Again(e))

Promote(e) ==
  /\ e.at = "clean"
  /\ IF StillShadow(e)
     THEN /\ discovery' = [discovery EXCEPT ![e.user].state = "live"]
          /\ members' = members \cup {e.user}
     ELSE UNCHANGED <<discovery, members>>
  /\ Finish(e)
  /\ UNCHANGED <<signVars, dataVars, importing, review, keys, complete>>

Quarantine(e) ==
  /\ e.at = "flagged"
  /\ IF StillShadow(e)
     THEN /\ discovery' = [discovery EXCEPT ![e.user].state = "quarantined"]
          /\ Finish(e)
     ELSE /\ MoveJob(e, [e EXCEPT !.at = "failed"])
          /\ UNCHANGED <<discovery, trouble>>
  /\ UNCHANGED <<signVars, dataVars, members, importing, review, keys, complete>>

\* A try throws, or its process dies; an error of the credential ends the job at once.
TryFails(e) ==
  /\ e.at \in {"queued", "clean", "flagged"}
  /\ Fault
  /\ \/ MoveJob(e, Again(e))
     \/ e.at = "queued" /\ MoveJob(e, [e EXCEPT !.at = "failed"])
  /\ UNCHANGED <<signVars, dataVars, members, discovery, importing, review, keys,
                 complete>>

\* A faulty onFailure that leaves the row to the stale limit.
Forget(e) ==
  /\ e.at = "failed"
  /\ jobs' = jobs \ {e}
  /\ UNCHANGED <<signVars, dataVars, members, discovery, importing, review, keys,
                 complete, trouble>>

\* onFailure: quarantineExhaustedShadowImport.  After a new sign-in it finds no row.
QuarantineExhausted(e) ==
  /\ e.at = "failed"
  /\ discovery' = IF account[e.user] = e.credential /\ Settles(e, {"shadow_running"})
                  THEN [discovery EXCEPT ![e.user].state = "quarantined"]
                  ELSE discovery
  /\ jobs' = jobs \ {e}
  /\ UNCHANGED <<signVars, dataVars, members, importing, review, keys, complete,
                 trouble>>

(***************************************************************************)
(* The owner's review of a failing check (reviewQuarantinedIntegrityCheck):*)
(* the check is marked, the listed checks are read, and a later            *)
(* transaction promotes the row.                                           *)
(***************************************************************************)
ReviewCheck(u) ==
  /\ discovery[u].state = "quarantined" /\ discovery[u].imported = league
  /\ u \notin review
  /\ failures = "listed"
  /\ failures' \in Failures
  /\ review' = IF failures' # "listed" THEN review \cup {u} ELSE review
  /\ UNCHANGED <<signVars, league, made, members, discovery, importing, jobs, keys,
                 complete, trouble>>

CommitReview(u) ==
  /\ u \in review
  /\ review' = review \ {u}
  /\ IF discovery[u].state = "quarantined"
     THEN /\ discovery' = [discovery EXCEPT ![u].state = "live"]
          /\ members' = members \cup {u}
     ELSE UNCHANGED <<discovery, members>>
  /\ UNCHANGED <<signVars, dataVars, importing, jobs, keys, complete, trouble>>

ReviewDies(u) ==
  /\ u \in review
  /\ Fault
  /\ review' = review \ {u}
  /\ UNCHANGED <<signVars, dataVars, members, discovery, importing, jobs, keys,
                 complete>>

JobStep(e) ==
  \/ JobRuns(e) \/ Promote(e) \/ Quarantine(e) \/ QuarantineExhausted(e)

RequestStep(u) ==
  \/ SyncLeague(u) \/ MarkImported(u) \/ Enqueue(u)
  \/ Rollback(u) \/ DeleteOrphan(u)

ShadowNext ==
  \/ \E u \in Owners :
       \/ ClaimDiscovered(u) \/ RequestStep(u) \/ EnqueueUnheard(u) \/ RequestFails(u)
       \/ RequestDies(u) \/ GrowStale(u)
       \/ SignIn(u)
       \/ ReviewCheck(u) \/ CommitReview(u) \/ ReviewDies(u)
  \/ \E e \in jobs : JobStep(e) \/ TryFails(e)

ShadowSpec == ShadowInit /\ [][ShadowNext]_shadowVars

-----------------------------------------------------------------------------
Importing ==
  [at       : {"idle", "claimed", "synced", "marked", "undo", "orphan"},
   attempt  : Attempts,
   previous : Row,
   existed  : BOOLEAN,
   league   : Leagues,
   credential : {0} \cup Credentials]

ImportJob ==
  [user    : Owners,
   league  : Leagues,
   attempt : Attempts,
   credential : {0} \cup Credentials,
   at      : {"queued", "clean", "flagged", "failed"},
   try     : 1..MaxTries]

\* Types.
ShadowTypeOK ==
  /\ made \in Leagues /\ league \in {0, made}
  /\ members \subseteq Owners /\ review \subseteq Owners /\ complete \subseteq Owners
  /\ discovery \in [Owners -> Row]
  /\ account \in [Owners -> Credentials] /\ signIns \in 0..MaxSignIns
  /\ failures \in Failures
  /\ importing \in [Owners -> Importing]
  /\ jobs \subseteq ImportJob
  /\ keys \subseteq Leagues \X Attempts
  /\ trouble \in 0..MaxTrouble

\* A row that is live or quarantined names the league that exists, and the
\* owner of a live row is a member of it: the cleanup of a failed import
\* never deletes a league another import has reached.
SettledLeagueExists ==
  \A u \in Owners :
    /\ discovery[u].state \in {"quarantined", "live"} =>
         league # 0 /\ discovery[u].imported = league
    /\ discovery[u].state = "live" => u \in members

\* A live league stays live: neither the rollback of a request whose event was
\* accepted unheard, nor the end of an old job, nor a new claim takes it back.
LiveIsFinal ==
  [][\A u \in Owners : discovery[u].state = "live" => discovery'[u].state = "live"]_shadowVars

\* The verdict on a running claim comes from a job of that very attempt and
\* never from an older one that is still being retried.  A rollback, which is a
\* step of the request, may restore an older verdict.
VerdictOfOwnAttempt ==
  [][\A u \in Owners :
       /\ Running(u) /\ UNCHANGED importing
       /\ discovery'[u].state \in {"quarantined", "live"}
       => \E e \in jobs : e.user = u /\ e.attempt = discovery[u].attempts]_shadowVars

\* No try of e, or of its claim, comes after this step.
Ends(e) ==
  ~ \E f \in jobs' : f.user = e.user /\ f.attempt = e.attempt /\ f.league = e.league

\* The claim e was queued for runs, and still names the league that e is to import.
WaitsFor(e) == HoldsClaim(e.user, e.attempt) /\ discovery[e.user].imported = e.league

\* A claim whose job the queue took does not wait for the stale limit: the job has settled
\* it when it ends, whichever of its tries failed, the last one included.  Only the
\* credential of the row may not have been replaced by then.
JobSettlesItsClaim ==
  [][\A e \in jobs :
       Ends(e) /\ WaitsFor(e) /\ account[e.user] = e.credential
       => ~HoldsClaim(e.user, e.attempt)']_shadowVars

(***************************************************************************)
(* Statements the code does not keep.                                      *)
(***************************************************************************)
\* The job settles every claim that waits for it.  After a sign-in with another account
\* neither the job nor its failure handler finds the row: the claim is left to the stale
\* limit.
JobAlwaysSettles ==
  [][\A e \in jobs :
       Ends(e) /\ WaitsFor(e) => ~HoldsClaim(e.user, e.attempt)']_shadowVars

\* A league goes live only after the full import and the suite of its claim
\* have completed.  The review of a check of the first sync promotes a row
\* whose job never ran.
LiveAfterFullRun ==
  [][\A u \in Owners :
       /\ discovery[u].state # "live" /\ discovery'[u].state = "live"
       => u \in complete]_shadowVars

\* A league goes live only with every failure of its suite reviewed.  A review
\* reads the latest rows only, and shares them with every other import.
LiveHasNoOpenFailure ==
  [][\A u \in Owners :
       /\ discovery[u].state # "live" /\ discovery'[u].state = "live"
       => failures = "none"]_shadowVars

\* A claim whose request ended well has a job.  Two users' claims of one
\* league with the same attempt number have one key between them.
EveryClaimHasAJob ==
  [][\A u \in Owners :
       /\ importing[u].at = "marked" /\ importing'[u].at = "idle" /\ trouble' = trouble
       => \E e \in jobs' : e.user = u /\ e.attempt = importing[u].attempt]_shadowVars
=============================================================================
