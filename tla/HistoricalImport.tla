-------------------------- MODULE HistoricalImport --------------------------
(***************************************************************************)
(* Importing the past seasons of one league.  An import asks the provider  *)
(* for one season after the other, newest first, stores each and marks it  *)
(* in the league's only checkpoint, so that a later import can skip it.    *)
(* The season a provider knows nothing of ends the import.                 *)
(*                                                                         *)
(* The runner repeats a try that failed or died; a job that is to bring a  *)
(* discovered league live ignores the checkpoint, any other resumes from   *)
(* it; nothing keeps two imports of one league apart, nor makes them ask   *)
(* from the same season downward: a user may bring the league live from a  *)
(* row discovered last season while the rollover asks for the season that  *)
(* has just ended.                                                         *)
(*                                                                         *)
(* A season is a positive number; 0 is the database's null.                *)
(***************************************************************************)
EXTENDS FiniteSets, FiniteSetsExt, Integers

CONSTANTS
  Imports,      \* the imports that may be at work at once
  Seasons,      \* the seasons there are
  Requests,     \* what an import may be asked for: ranges of seasons
  MaxRequests,  \* bound on the imports requested
  MaxTries,     \* the tries of one job
  MaxTrouble,   \* bound on refused calls of the provider and deaths
  NoCheckpoint

ASSUME SeasonsAssumption ==
  /\ IsFiniteSet(Seasons) /\ Seasons \subseteq Nat \ {0}
  /\ Requests \subseteq (SUBSET Seasons) \ {{}}
ASSUME BoundsAssumption ==
  MaxRequests \in Nat /\ MaxTries \in Nat \ {0} /\ MaxTrouble \in Nat

\* The two requesters count down from a season and leave none out: onboarding from the one
\* its row was discovered in, the rollover from the new one.
ASSUME RangesAssumption ==
  \A seasons \in Requests : \A s, t \in seasons, x \in Seasons :
    s <= x /\ x <= t => x \in seasons

VARIABLES
  exposed,     \* the seasons the provider has an answer for
  imported,      \* the seasons whose rows are in the database
  checkpoint,  \* the league's checkpoint
  import,      \* what each import is doing
  missed,      \* the seasons listed since each import last read or wrote the checkpoint
  requested,
  trouble

historyVars == <<exposed, imported, checkpoint, import, missed, requested, trouble>>

\* mixed is no column: it tells a row that was written in part over a row of another
\* newest season, or from what an import remembers of such a row.
Checkpoint ==
  [status    : {"running", "completed", "failed"},
   mixed     : BOOLEAN,
   start     : Seasons,
   asked     : SUBSET Seasons,
   completed : SUBSET Seasons,
   last      : Seasons \cup {0},
   exhausted : Seasons \cup {0}]

AtWork == {"begun", "opening", "fetching", "bundle", "imported", "empty", "refused"}

ASSUME NoCheckpointAssumption == NoCheckpoint \notin Checkpoint

NoImport ==
  [pc |-> "idle", seasons |-> {}, force |-> FALSE, reuse |-> FALSE,
   done |-> {}, tries |-> 0, mixed |-> FALSE]

HistoryInit ==
  /\ exposed \in SUBSET Seasons
  /\ imported = {} /\ checkpoint = NoCheckpoint
  /\ import = [i \in Imports |-> NoImport]
  /\ missed = [i \in Imports |-> {}]
  /\ requested = 0 /\ trouble = 0

Working(i) == import[i].pc \in AtWork

\* The seasons of a request that a checkpoint says are imported: those it lists,
\* else those down to the last one it names.
CompletedFor(c, seasons) ==
  LET listed == c.completed \cap seasons
      named  == c.last # 0 /\ c.start = Max(seasons)
  IN  CASE c = NoCheckpoint -> {}
        [] c # NoCheckpoint /\ listed # {} -> listed
        [] c # NoCheckpoint /\ listed = {} /\ named /\ c.last \in seasons ->
             {s \in seasons : s >= c.last}
        [] c # NoCheckpoint /\ listed = {} /\ named /\ c.last \notin seasons
             /\ c.status = "completed" /\ c.last <= Min(seasons) -> seasons
        [] OTHER -> {}

\* A faulty condition that any request is covered by a completed checkpoint.
CompleteForAny(c, seasons, completed) == c # NoCheckpoint /\ c.status = "completed"

CompleteFor(c, seasons, completed) ==
  /\ c # NoCheckpoint
  /\ c.status = "completed"
  /\ \A s \in seasons : s \in completed \/ s <= c.exhausted

Reusable(c, i) ==
  ~import[i].force /\ c # NoCheckpoint /\ c.start = Max(import[i].seasons)

Remaining(i) == import[i].seasons \ import[i].done

\* An import that is over: what it was asked for, and how it ended.
Ended(i, pc) ==
  [NoImport EXCEPT !.pc = pc, !.seasons = import[i].seasons, !.mixed = import[i].mixed]

\* A try that is over.
Due(i) == [NoImport EXCEPT !.pc = "due", !.seasons = import[i].seasons,
                           !.tries = import[i].tries]

\* The import i lists some seasons in the checkpoint, which the others at work do not see.
Lists(i, listed) ==
  missed' = [j \in Imports |->
    IF j # i /\ Working(j) /\ import[j].pc # "begun"
    THEN missed[j] \cup ((listed \cap import[j].seasons) \ import[j].done)
    ELSE {}]

Forget(i) == missed' = [missed EXCEPT ![i] = {}]

\* The checkpoint is no longer the one this import would resume from.
Replaced(i) == checkpoint.start # Max(import[i].seasons)

Request(i, seasons) ==
  /\ ~Working(i) /\ import[i].pc # "due"
  /\ requested < MaxRequests
  /\ requested' = requested + 1
  /\ import' = [import EXCEPT ![i] = [NoImport EXCEPT !.pc = "due", !.seasons = seasons]]
  /\ UNCHANGED <<exposed, imported, checkpoint, missed, trouble>>

\* A try of the job, the first or one after a failure: it reads whether the import
\* is to bring a discovered league live.  From here on its writes and those of the
\* other imports at work may interleave.
Begin(i) ==
  /\ import[i].pc = "due" /\ import[i].tries < MaxTries
  /\ \E force \in BOOLEAN :
       import' = [import EXCEPT ![i].pc = "begun", ![i].force = force, ![i].tries = @ + 1]
  /\ UNCHANGED <<exposed, imported, checkpoint, missed, requested, trouble>>

GiveUp(i) ==
  /\ import[i].pc = "due" /\ import[i].tries = MaxTries
  /\ import' = [import EXCEPT ![i] = Ended(i, "gaveup")]
  /\ UNCHANGED <<exposed, imported, checkpoint, missed, requested, trouble>>

\* The checkpoint is read; a request it covers is answered at once.
ReadCheckpoint(i) ==
  LET reuse     == Reusable(checkpoint, i)
      completed == IF reuse THEN CompletedFor(checkpoint, import[i].seasons) ELSE {}
      mixed     == reuse /\ checkpoint.mixed
  IN  /\ import[i].pc = "begun"
      /\ import' = [import EXCEPT ![i] =
           IF reuse /\ CompleteFor(checkpoint, import[i].seasons, completed)
           THEN [Ended(i, "answered") EXCEPT !.mixed = mixed]
           ELSE [import[i] EXCEPT !.pc = "opening", !.reuse = reuse, !.done = completed,
                                  !.mixed = mixed]]
      /\ UNCHANGED <<exposed, imported, checkpoint, missed, requested, trouble>>

\* The checkpoint an import starts from: made anew, or set back to running with the
\* seasons the import had read as completed.  Only the former resets the last one.
Opened(i) ==
  [status |-> "running", start |-> Max(import[i].seasons), asked |-> import[i].seasons,
   completed |-> import[i].done, exhausted |-> 0,
   last |-> IF import[i].reuse THEN checkpoint.last ELSE 0,
   mixed |-> import[i].mixed \/ (import[i].reuse /\ (checkpoint.mixed \/ Replaced(i)))]

Open(i) ==
  /\ import[i].pc = "opening"
  /\ checkpoint' = Opened(i)
  /\ import' = [import EXCEPT ![i].pc = "fetching",
                              ![i].done = CompletedFor(Opened(i), import[i].seasons),
                              ![i].mixed = Opened(i).mixed]
  /\ Lists(i, import[i].done)
  /\ UNCHANGED <<exposed, imported, requested, trouble>>

NewestLeft(i) == Max(Remaining(i))

\* The provider is asked for the newest season that is left.
FetchSeason(i) ==
  /\ import[i].pc = "fetching" /\ Remaining(i) # {}
  /\ \/ /\ import' = [import EXCEPT ![i].pc =
                        IF NewestLeft(i) \in exposed THEN "bundle" ELSE "empty"]
        /\ UNCHANGED trouble
     \/ /\ trouble < MaxTrouble /\ trouble' = trouble + 1
        /\ import' = [import EXCEPT ![i].pc = "refused"]
  /\ UNCHANGED <<exposed, imported, checkpoint, missed, requested>>

Persist(i) ==
  /\ import[i].pc = "bundle"
  /\ imported' = imported \cup {NewestLeft(i)}
  /\ import' = [import EXCEPT ![i].pc = "imported"]
  /\ UNCHANGED <<exposed, checkpoint, missed, requested, trouble>>

\* A faulty mark that lists the season just imported only.
ProgressSeason(i, done) ==
  [status |-> IF import[i].seasons \subseteq done THEN "completed" ELSE "running",
   start |-> Max(import[i].seasons), asked |-> import[i].seasons,
   completed |-> {NewestLeft(i)}, last |-> NewestLeft(i), exhausted |-> 0,
   mixed |-> import[i].mixed]

Progress(i, done) ==
  [status |-> IF import[i].seasons \subseteq done THEN "completed" ELSE "running",
   start |-> Max(import[i].seasons), asked |-> import[i].seasons,
   completed |-> done, last |-> NewestLeft(i), exhausted |-> 0, mixed |-> import[i].mixed]

MarkProgress(i) ==
  LET done == import[i].done \cup {NewestLeft(i)}
  IN  /\ import[i].pc = "imported"
      /\ checkpoint' = Progress(i, done)
      /\ import' = [import EXCEPT ![i].pc = "fetching", ![i].done = done]
      /\ Lists(i, done)
      /\ UNCHANGED <<exposed, imported, requested, trouble>>

\* The provider has nothing of this season: it and the older ones are given up.  The mark
\* leaves the newest season of the checkpoint as it finds it.
MarkExhausted(i) ==
  /\ import[i].pc = "empty"
  /\ checkpoint' = [checkpoint EXCEPT
       !.status = "completed", !.asked = import[i].seasons,
       !.completed = import[i].done, !.exhausted = NewestLeft(i),
       !.last = IF import[i].done = {} THEN 0 ELSE Min(import[i].done),
       !.mixed = import[i].mixed \/ Replaced(i)]
  /\ import' = [import EXCEPT ![i] = Ended(i, "answered")]
  /\ Lists(i, import[i].done)
  /\ UNCHANGED <<exposed, imported, requested, trouble>>

\* The provider refused: the job may be repeated, or not when the refusal is final.
MarkFailed(i) ==
  /\ import[i].pc = "refused"
  /\ checkpoint' = [checkpoint EXCEPT !.status = "failed"]
  /\ Forget(i)
  /\ \E next \in {Due(i), Ended(i, "gaveup")} : import' = [import EXCEPT ![i] = next]
  /\ UNCHANGED <<exposed, imported, requested, trouble>>

Finish(i) ==
  /\ import[i].pc = "fetching" /\ Remaining(i) = {}
  /\ import' = [import EXCEPT ![i] = Ended(i, "answered")]
  /\ Forget(i)
  /\ UNCHANGED <<exposed, imported, checkpoint, requested, trouble>>

\* The try dies between two of its steps.
Die(i) ==
  /\ Working(i)
  /\ trouble < MaxTrouble /\ trouble' = trouble + 1
  /\ import' = [import EXCEPT ![i] = Due(i)]
  /\ Forget(i)
  /\ UNCHANGED <<exposed, imported, checkpoint, requested>>

Step(i) ==
  \/ Begin(i) \/ GiveUp(i) \/ ReadCheckpoint(i) \/ Open(i) \/ FetchSeason(i)
  \/ Persist(i) \/ MarkProgress(i) \/ MarkExhausted(i) \/ MarkFailed(i) \/ Finish(i)

HistoryNext ==
  \E i \in Imports :
    \/ \E seasons \in Requests : Request(i, seasons)
    \/ Step(i)
    \/ Die(i)

HistorySpec == HistoryInit /\ [][HistoryNext]_historyVars

-----------------------------------------------------------------------------
HistoryTypeOK ==
  /\ exposed \subseteq Seasons /\ imported \subseteq exposed
  /\ checkpoint \in Checkpoint \cup {NoCheckpoint}
  /\ import \in [Imports ->
       [pc : AtWork \cup {"idle", "due", "answered", "gaveup"},
        seasons : SUBSET Seasons, force : BOOLEAN, reuse : BOOLEAN,
        done : SUBSET Seasons, tries : 0..MaxTries, mixed : BOOLEAN]]
  /\ missed \in [Imports -> SUBSET Seasons]
  /\ requested \in 0..MaxRequests /\ trouble \in 0..MaxTrouble

\* Every season is in the database, or is no newer than one of them that the provider
\* does not have.
Covered(seasons) ==
  \A s \in seasons : s \in imported \/ \E e \in seasons \ exposed : s <= e

\* Nobody is told of history that is not there: a season the checkpoint lists is
\* imported, and a checkpoint that is completed, or an import that was answered, stands
\* for all its seasons, though imports write the checkpoint from what they read before
\* each other's writes.  Only a checkpoint that mixes two imports of different newest
\* seasons may tell of more, and who takes it for his own.
UnmixedIsThere ==
  /\ checkpoint # NoCheckpoint /\ ~checkpoint.mixed =>
       /\ checkpoint.completed \subseteq imported
       /\ checkpoint.status = "completed" => Covered(checkpoint.asked)
  /\ \A i \in Imports :
       import[i].pc = "answered" /\ ~import[i].mixed => Covered(import[i].seasons)

\* A season is forgotten, and so imported twice, only by an import that does not ask for
\* it, that opens the checkpoint anew, as it was told to or from another newest season, or
\* that had last read or written the checkpoint before another import listed the season:
\* whatever fails or dies, and wherever, the next import resumes.
ProgressKept ==
  [][checkpoint # NoCheckpoint =>
       \A s \in checkpoint.completed \ checkpoint'.completed :
         \E i \in Imports :
           /\ import'[i] # import[i]
           /\ \/ s \notin import[i].seasons
              \/ import[i].pc = "opening" /\ (import[i].force \/ Replaced(i))
              \/ s \in missed[i]]_historyVars

-----------------------------------------------------------------------------
(* Not kept by the code; see the README *)

\* UnmixedIsThere of every checkpoint and every import.  The mark of an import that finds
\* no older season keeps the newest season of another import's checkpoint, and the next
\* one from that season takes the row for its own.
HistoryIsThere ==
  /\ checkpoint # NoCheckpoint =>
       /\ checkpoint.completed \subseteq imported
       /\ checkpoint.status = "completed" => Covered(checkpoint.asked)
  /\ \A i \in Imports : import[i].pc = "answered" => Covered(import[i].seasons)

\* A checkpoint that is running belongs to an import that goes on or has failed.  A
\* request for fewer seasons than one that failed finds nothing left to mark, answers
\* and leaves the checkpoint running.
RunningIsAtWork ==
  checkpoint # NoCheckpoint /\ checkpoint.status = "running" =>
    \E i \in Imports : Working(i) \/ import[i].pc \in {"due", "gaveup"}
=============================================================================
