---------------------------- MODULE LiveIngestion ----------------------------
(***************************************************************************)
(* The live ingest of one connected league: what the provider says of its  *)
(* matchups reaches fantasy_matchups, the statistics computed from them    *)
(* and the announcements of final games.  A tick starts an ingest while    *)
(* the credential is connected; ingests of one league may overlap, and the *)
(* data stewards correct matchups by hand meanwhile.                       *)
(*                                                                         *)
(* A step is one statement, or one transaction whose reads nothing can     *)
(* come between.  The content hash is the row's content.  A retried        *)
(* attempt loads the credential and fetches again, as a new tick would:    *)
(* a failed ingest goes back to "idle".                                    *)
(***************************************************************************)
EXTENDS Integers, FiniteSets

CONSTANTS
  Matchups,     \* fantasy_matchups the provider reports
  Fields,       \* the columns a steward can correct and the statistics count: scores
  Values,       \* what such a column may hold
  Corrections,  \* the values stewards set
  Ingests,      \* runs of league-ingest that may overlap
  Stewards,     \* requests of data stewards
  MaxPlays,     \* bound: how often what the provider says changes
  MaxEdits,     \* bound: corrections by hand
  MaxKeys,      \* bound: credentials the user connects
  Failures,     \* bound: attempts that die
  None

Contents == [status : {"open", "final"}, value : [Fields -> Values]]
Row == [status : {"open", "final"}, value : [Fields -> Values], hash : Contents]

ASSUME LiveAssumption ==
  /\ {MaxPlays, MaxEdits, Failures} \subseteq Nat /\ MaxKeys \in Nat \ {0}
  /\ Ingests \cap Stewards = {}
  /\ None \notin Values \cup [Fields -> Values] \cup Row /\ Corrections \subseteq Values
  /\ IsFiniteSet(Matchups)

VARIABLES
  truth,        \* truth[m]: what the provider says of m
  accepted,     \* the credential the provider accepts, or None
  stored,       \* provider_credentials.encryptedPayload: the credential stored
  connected,    \* provider_credentials.status is "connected"
  row,          \* row[m]: m's row of fantasy_matchups, or None
  edited,       \* edited[m][f]: the last correction of f by hand, or None
  notes,        \* what data_integrity_checks says of provider answers not followed
  facts,        \* facts[m]: the content the statistics count m with, or None
  announced,    \* the game.final events sent: matchup and content
  work,         \* work[w]: what an ingest, or a steward's request, knows
  plays, edits, failed,   \* counted up to their bounds
  unheard,      \* matchups with a change whose announcement died with its ingest
  behind        \* matchups whose statistics an older computation wrote, or none did

provider == <<truth, accepted, plays>>
credential == <<stored, connected>>
rows == <<row, edited, notes, edits>>
vars == <<provider, credential, rows, facts, announced, work, failed, unheard, behind>>

Idle == [pc |-> "idle"]
Workers == Ingests \cup Stewards

\* loadFinalMatchups: the content of final matchups, which the statistics count.
FinalContent ==
  [m \in Matchups |-> IF row[m] # None /\ row[m].status = "final" THEN row[m].value ELSE None]

-----------------------------------------------------------------------------
(* The provider and the user *)

\* A game is played, its score is corrected, or an answer takes a final game back.
Play(m) ==
  /\ plays < MaxPlays
  /\ plays' = plays + 1
  /\ \E c \in Contents \ {truth[m]} : truth' = [truth EXCEPT ![m] = c]
  /\ UNCHANGED <<accepted, credential, rows, facts, announced, work, failed, unheard, behind>>

\* The provider stops accepting the credential.
Expire ==
  /\ accepted # None
  /\ accepted' = None
  /\ UNCHANGED <<truth, plays, credential, rows, facts, announced, work, failed, unheard, behind>>

\* persistConnectedCredential: the user signs in again.
Reconnect ==
  /\ stored < MaxKeys
  /\ accepted # stored
  /\ stored' = stored + 1
  /\ accepted' = stored'
  /\ connected' = TRUE
  /\ UNCHANGED <<truth, plays, rows, facts, announced, work, failed, unheard, behind>>

-----------------------------------------------------------------------------
(* The ingest: syncCurrentLeague within the step "sync-current-league" *)

\* runIngestionTick: the league is due again whenever its credential is connected.
Planned == connected

\* The attempt loads the credential, and stops if it is not connected any more.
Start(j) ==
  /\ work[j] = Idle
  /\ Planned
  /\ work' = [work EXCEPT ![j] = [pc |-> "fetch", key |-> stored]]
  /\ UNCHANGED <<provider, credential, rows, facts, announced, failed, unheard, behind>>

\* markCredentialInvalid: the update names the row, not the credential that failed.
Refused(j) ==
  /\ work[j].pc = "fetch"
  /\ work[j].key # accepted
  /\ connected' = FALSE
  /\ work' = [work EXCEPT ![j] = Idle]
  /\ UNCHANGED <<provider, stored, rows, facts, announced, failed, unheard, behind>>

Fetch(j) ==
  /\ work[j].pc = "fetch"
  /\ work[j].key = accepted
  /\ work' = [work EXCEPT ![j] = [pc |-> "read", answer |-> truth]]
  /\ UNCHANGED <<provider, credential, rows, facts, announced, failed, unheard, behind>>

\* preserveStickyMatchupEdits reads which columns were corrected by hand and the rows
\* they are of, finalizedMatchupRegressionNotes the matchups that are final.
Sticky(m) == {f \in Fields : edited[m][f] # None}

Read(j) ==
  /\ work[j].pc = "read"
  /\ work' = [work EXCEPT ![j] =
       [pc |-> "upsert", answer |-> @.answer,
        sticky |-> [m \in Matchups |-> Sticky(m)],
        existing |-> [m \in Matchups |-> IF Sticky(m) = {} THEN None ELSE row[m].value],
        finals |-> {m \in Matchups : FinalContent[m] # None}]]
  /\ UNCHANGED <<provider, credential, rows, facts, announced, failed, unheard, behind>>

\* The row an ingest writes: the provider's answer, but for the columns it keeps.
\* Faulty variant: the provider has the last word on a final game.
IncomingFinal(j, m) ==
  [status |-> work[j].answer[m].status,
   value |-> [f \in Fields |->
     IF f \in work[j].sticky[m] /\ work[j].answer[m].status # "final"
     THEN work[j].existing[m][f] ELSE work[j].answer[m].value[f]]]
Incoming(j, m) ==
  [status |-> work[j].answer[m].status,
   value |-> [f \in Fields |->
     IF f \in work[j].sticky[m] THEN work[j].existing[m][f] ELSE work[j].answer[m].value[f]]]

\* The WHERE of the upsert: the content differs, and a final row stays final.  Faulty
\* variant: any other content is written.
ChangesAny(j) ==
  {m \in Matchups : row[m] = None \/ row[m].hash # Incoming(j, m)}
Changes(j) ==
  {m \in Matchups :
     \/ row[m] = None
     \/ /\ row[m].hash # Incoming(j, m)
        /\ ~(row[m].status = "final" /\ Incoming(j, m).status # "final")}

\* recordFinalizedStateRegressionNotes, recordStickyEditConflicts.
Noted(j) ==
  {<<"regression", m>> : m \in {n \in work[j].finals : Incoming(j, n).status # "final"}}
    \cup {<<"conflict", m>> :
            m \in {n \in Matchups : Incoming(j, n).value # work[j].answer[n].value}}

\* upsertMatchups, in the transaction of persistNormalizedLeagueRows.
Upsert(j) ==
  LET changed == Changes(j)
  IN /\ work[j].pc = "upsert"
     /\ row' = [m \in Matchups |->
          IF m \in changed
          THEN [status |-> Incoming(j, m).status, value |-> Incoming(j, m).value,
                hash |-> Incoming(j, m)]
          ELSE row[m]]
     /\ notes' = notes \cup Noted(j)
     /\ work' = [work EXCEPT ![j] =
          IF changed = {} THEN Idle ELSE [pc |-> "load", changed |-> changed]]
     /\ unheard' = unheard \ changed
     /\ behind' = behind \ changed
     /\ UNCHANGED <<provider, credential, edited, edits, facts, announced, failed>>

\* loadChangedFinalMatchups, after the rows are committed.  The corrections of posts,
\* broken records and transactions of the same ingest are sent, or lost, with these.
\* Faulty variant: a game is announced once.
LoadFirst(j) ==
  /\ work[j].pc = "load"
  /\ work' = [work EXCEPT ![j] =
       [pc |-> "facts", changed |-> @.changed,
        news |-> {<<m, row[m].hash>> : m \in {n \in @.changed :
                    FinalContent[n] # None /\ \A e \in announced : e[1] # n}}]]
  /\ UNCHANGED <<provider, credential, rows, facts, announced, failed, unheard, behind>>
Load(j) ==
  /\ work[j].pc = "load"
  /\ work' = [work EXCEPT ![j] =
       [pc |-> "facts", changed |-> @.changed,
        news |-> {<<m, row[m].hash>> : m \in {n \in @.changed : FinalContent[n] # None}}]]
  /\ UNCHANGED <<provider, credential, rows, facts, announced, failed, unheard, behind>>

-----------------------------------------------------------------------------
(* The statistics: recomputeChangedMatchupStatistics *)

News(w) == IF w \in Ingests THEN work[w].news ELSE {}

\* An ingest's step ends, and its result is sent from; a steward's request answers.
Computed(w) ==
  IF w \in Ingests THEN [pc |-> "send", changed |-> work[w].changed, news |-> News(w)] ELSE Idle

\* The final matchups are read, all of them, if a changed one is final.
ReadFacts(w) ==
  /\ work[w].pc = "facts"
  /\ work' = [work EXCEPT ![w] =
       IF \A m \in @.changed : FinalContent[m] = None THEN Computed(w)
       ELSE [pc |-> "write", changed |-> @.changed, news |-> News(w), computed |-> FinalContent]]
  /\ UNCHANGED <<provider, credential, rows, facts, announced, failed, unheard, behind>>

\* The season's statistics are deleted and inserted from what was read.
WriteFacts(w) ==
  /\ work[w].pc = "write"
  /\ facts' = work[w].computed
  /\ work' = [work EXCEPT ![w] = Computed(w)]
  /\ behind' = {m \in Matchups : facts'[m] # FinalContent[m]}
  /\ UNCHANGED <<provider, credential, rows, announced, failed, unheard>>

\* The send steps of createLeagueIngestFunction, repeated until they succeed or fail
\* for good; a result the runner could not store is lost like one it could not send.
Announce(j) ==
  /\ work[j].pc = "send"
  /\ announced' = announced \cup work[j].news
  /\ work' = [work EXCEPT ![j] = Idle]
  /\ UNCHANGED <<provider, credential, rows, facts, failed, unheard, behind>>

-----------------------------------------------------------------------------
(* The stewards: applyLeagueDataEdit *)

\* A matchup's column is set and the edit is written down; the hash stays.  Faulty
\* variant: no matchup is to be computed again, as after the edit of a result.
EditUncounted(s, m) ==
  /\ edits < MaxEdits
  /\ edits' = edits + 1
  /\ row[m] # None
  /\ \E f \in Fields, v \in Corrections :
       /\ row' = [row EXCEPT ![m].value[f] = v]
       /\ edited' = [edited EXCEPT ![m][f] = v]
  /\ UNCHANGED <<provider, credential, notes, facts, announced, work, failed, unheard, behind>>
Edit(s, m) ==
  /\ work[s] = Idle
  /\ edits < MaxEdits
  /\ edits' = edits + 1
  /\ row[m] # None
  /\ \E f \in Fields, v \in Corrections :
       /\ row' = [row EXCEPT ![m].value[f] = v]
       /\ edited' = [edited EXCEPT ![m][f] = v]
  /\ work' = [work EXCEPT ![s] = [pc |-> "facts", changed |-> {m}]]
  /\ behind' = behind \ {m}
  /\ UNCHANGED <<provider, credential, notes, facts, announced, failed, unheard>>

-----------------------------------------------------------------------------
\* An attempt dies: a crash, a lost database connection, statistics two computations
\* insert at once, a send step out of tries.  What is committed stays.
Fail(w) ==
  /\ work[w] # Idle
  /\ failed < Failures
  /\ failed' = failed + 1
  /\ work' = [work EXCEPT ![w] = Idle]
  /\ unheard' = IF w \in Ingests /\ work[w].pc \in {"load", "facts", "write", "send"}
                THEN unheard \cup work[w].changed ELSE unheard
  /\ behind' = IF work[w].pc \in {"load", "facts", "write"}
               THEN behind \cup work[w].changed ELSE behind
  /\ UNCHANGED <<provider, credential, rows, facts, announced>>

Init ==
  /\ truth \in [Matchups -> {c \in Contents : c.status = "open"}]
  /\ accepted = 1 /\ stored = 1 /\ connected = TRUE
  /\ row = [m \in Matchups |-> None]
  /\ edited = [m \in Matchups |-> [f \in Fields |-> None]]
  /\ notes = {}
  /\ facts = [m \in Matchups |-> None]
  /\ announced = {}
  /\ work = [w \in Workers |-> Idle]
  /\ plays = 0 /\ edits = 0 /\ failed = 0
  /\ unheard = {} /\ behind = {}

Compute(w) == ReadFacts(w) \/ WriteFacts(w)

Ingest(j) ==
  \/ Start(j) \/ Refused(j) \/ Fetch(j) \/ Read(j) \/ Upsert(j) \/ Load(j)
  \/ Compute(j) \/ Announce(j)

Next ==
  \/ Expire \/ Reconnect
  \/ \E m \in Matchups : Play(m)
  \/ \E j \in Ingests : Ingest(j)
  \/ \E s \in Stewards : Compute(s) \/ \E m \in Matchups : Edit(s, m)
  \/ \E w \in Workers : Fail(w)

Spec == Init /\ [][Next]_vars

\* The cron ticks and the queue runs what it holds.
FairSpec == Spec /\ \A j \in Ingests : WF_vars(Ingest(j))

-----------------------------------------------------------------------------
(* Properties *)

\* What an ingest, or a steward's request, knows at each of its steps.
WorkTypes ==
  [pc : {"idle"}]
    \cup [pc : {"fetch"}, key : 1 .. MaxKeys]
    \cup [pc : {"read"}, answer : [Matchups -> Contents]]
    \cup [pc : {"upsert"}, answer : [Matchups -> Contents], sticky : [Matchups -> SUBSET Fields],
          existing : [Matchups -> [Fields -> Values] \cup {None}], finals : SUBSET Matchups]
    \cup [pc : {"load", "facts"}, changed : SUBSET Matchups]
    \cup [pc : {"facts", "send"}, changed : SUBSET Matchups, news : SUBSET (Matchups \X Contents)]
    \cup [pc : {"write"}, changed : SUBSET Matchups, news : SUBSET (Matchups \X Contents),
          computed : [Matchups -> [Fields -> Values] \cup {None}]]

\* Every variable has its type.
TypeOK ==
  /\ truth \in [Matchups -> Contents]
  /\ accepted \in (1 .. MaxKeys) \cup {None} /\ stored \in 1 .. MaxKeys /\ connected \in BOOLEAN
  /\ row \in [Matchups -> Row \cup {None}]
  /\ edited \in [Matchups -> [Fields -> Values \cup {None}]]
  /\ notes \subseteq {"regression", "conflict"} \X Matchups
  /\ facts \in [Matchups -> [Fields -> Values] \cup {None}]
  /\ announced \subseteq Matchups \X Contents
  /\ work \in [Workers -> WorkTypes]
  /\ {plays, edits, failed} \subseteq Nat
  /\ unheard \cup behind \subseteq Matchups

\* The statistics never count a game that is not over: a final matchup that late or
\* wavering answers call open again stays final (WHERE of the upsert).
FactsAreFinal == \A m \in Matchups : facts[m] # None => FinalContent[m] # None

\* A final matchup whose statistics are not its own has a computation ahead that will
\* read it, unless the last one died or was overtaken by an older one.
FactsFollow ==
  \A m \in Matchups \ behind :
    \/ facts[m] = FinalContent[m]
    \/ \E w \in Workers :
         \/ work[w].pc \in {"load", "facts"} /\ m \in work[w].changed
         \/ work[w].pc = "write" /\ work[w].computed[m] = FinalContent[m]

\* The content a matchup is final with was announced, or an ingest is about to, unless
\* the ingest that stored it died: corrections are announced like first results.
FinalIsAnnounced ==
  \A m \in Matchups \ unheard :
    FinalContent[m] # None =>
      \/ <<m, row[m].hash>> \in announced
      \/ \E j \in Ingests :
           \/ work[j].pc = "load" /\ m \in work[j].changed
           \/ work[j].pc \in {"facts", "write", "send"} /\ <<m, row[m].hash>> \in work[j].news

\* An ingest replaces a value set by hand only if it was set after that ingest read
\* which columns to keep.
EditsOutliveReads ==
  [][\A m \in Matchups, f \in Fields :
       (edited[m][f] # None /\ edits' = edits /\ row'[m].value[f] # row[m].value[f])
         => \E j \in Ingests :
              /\ work[j].pc = "upsert"
              /\ f \notin work[j].sticky[m] \/ work[j].existing[m][f] # row[m].value[f]]_vars

\* A matchup follows the provider but for the columns set by hand, and stays final.
Follows(m) ==
  /\ row[m] # None
  /\ \/ truth[m].status # "final" /\ row[m].status = "final"
     \/ /\ row[m].status = truth[m].status
        /\ \A f \in Fields : edited[m][f] = None => row[m].value[f] = truth[m].value[f]

\* What the provider says reaches the table, late answers of overlapping ingests
\* notwithstanding, unless it changes or the credential is found invalid.
RowFollowsProvider ==
  \A m \in Matchups, c \in Contents :
    (truth[m] = c) ~> (truth[m] # c \/ ~connected \/ Follows(m))

-----------------------------------------------------------------------------
(* Statements the code does not keep. *)

\* "A manually corrected field is sticky: a later sync/re-import never silently
\* overwrites it" (specs/36-data-curation-foundation.md:80).
EditsAreSticky ==
  \A m \in Matchups, f \in Fields : edited[m][f] # None => row[m].value[f] = edited[m][f]

\* Corrections "re-emit game.final/changed-matchup so dependents recompute"
\* (specs/19-live-ingestion.md:129): a retry of an ingest that died after its upsert
\* finds nothing changed, and a computation may write what it read before another's.
Quiet == \A w \in Workers : work[w] = Idle
FinalIsHeard ==
  Quiet => \A m \in Matchups : FinalContent[m] # None => <<m, row[m].hash>> \in announced
FactsAreCurrent == Quiet => facts = FinalContent

\* A refused downgrade is noted (specs/19-live-ingestion.md:131).
RefusalIsNoted ==
  [][\A m \in Matchups, j \in Ingests :
       (work[j].pc = "upsert" /\ work'[j].pc # "upsert" /\ failed' = failed
          /\ FinalContent[m] # None /\ work[j].answer[m].status # "final")
       => <<"regression", m>> \in notes']_vars

\* After a reconnect "the next tick resumes the league" (specs/19-live-ingestion.md:145).
PausedIsExpired == ~connected => accepted # stored
=============================================================================
