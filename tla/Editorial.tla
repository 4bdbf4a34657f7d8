------------------------------ MODULE Editorial ------------------------------
(***************************************************************************)
(* League posts and the generation runs that write them, for one league    *)
(* and one persona (src/ai/pipeline.ts, src/ai/generation-failure-queue.ts, *)
(* src/content/editorial.ts, src/content/lifecycle.ts).  A call is a job,   *)
(* a commissioner's request or a retry from the failure queue.  Each is a   *)
(* sequence of transactions with model calls awaited in between, and may    *)
(* die between any two of them.                                             *)
(***************************************************************************)
EXTENDS Integers

CONSTANTS
  Posts,        \* identifiers of content_item rows of kind "blog"
  Column,       \* the trigger key of a column of the cadence
  Clicks,       \* trigger keys an editorial call mints, with a random part
  Calls,        \* bound: calls in flight at once, and calls lost for good
  MaxCalls,     \* bound: calls made
  MaxTrouble,   \* bound: generations that come to nothing, runs that get stale
  None

ASSUME EditorialAssumption ==
  /\ None \notin Posts \cup Clicks \cup {Column} /\ Column \notin Clicks
  /\ {MaxCalls, MaxTrouble} \subseteq Nat

VARIABLES
  posts,        \* posts[p]: status, the post it replaces, its dedup key's nonce
  runs,         \* runs[t]: what trigger t asks for, and its ai_generation_run row
  actions,      \* editorial_action rows: what was done to which post, and why
  calls,        \* calls[c]: where call c is, and what it has read
  made,         \* how many calls were made
  trouble       \* how often a generation came to nothing

vars == <<posts, runs, actions, calls, made, trouble>>

\* What runs are triggered by: the cadence, a commissioner who wants a post written
\* again, a correction of the scores it quotes.
Triggers == Clicks \cup {Column}

Absent == [status |-> "absent", of |-> None, nonce |-> None]
Run(kind, p) == [kind |-> kind, of |-> p, status |-> "none", item |-> None]
Idle == [pc |-> "idle"]

\* Posts replacing p, directly and at any remove.
Children(p) == {q \in Posts : posts[q].of = p}
Descendants(p) ==
  {q \in Posts : \A S \in SUBSET Posts :
     Children(p) \subseteq S /\ (\A r \in S : Children(r) \subseteq S) => q \in S}

\* latestReplacement finds one.
Replaced(p) == \E q \in Descendants(p) : posts[q].status = "published"

\* The post a call is to replace.
Original(call) == runs[call.trigger].of

\* A faulty key: derived from the run and not from the post it replaces.
KeyOfRun(call) ==
  [of |-> Original(call),
   nonce |-> IF call.trigger = Column THEN None ELSE call.trigger]

\* contentDedupKey: a replacement's key is derived from the post it replaces, and
\* from the trigger too when the replacements it had are all gone.
DedupKey(call) ==
  [of |-> Original(call), nonce |-> IF call.dead THEN call.trigger ELSE None]

Stored(key) ==
  {q \in Posts : posts[q].status # "absent"
                 /\ posts[q].of = key.of /\ posts[q].nonce = key.nonce}

Goto(c, pc) == calls' = [calls EXCEPT ![c].pc = pc]
Return(c) == calls' = [calls EXCEPT ![c] = Idle]

\* One of the outcomes the bound counts.
Trouble == trouble < MaxTrouble /\ trouble' = trouble + 1

\* An exception: a retry from the failure queue catches it and marks its run.
Throw(c) == IF calls[c].retry THEN Goto(c, "fail") ELSE Return(c)

-----------------------------------------------------------------------------
(* Jobs, requests and retries *)

Opening(t, retry, pc) ==
  [pc |-> pc, trigger |-> t, retry |-> retry, dead |-> FALSE, item |-> None]

\* generateLeagueBlogPost takes no original; the editorial calls read theirs first.
FirstStep(t) == IF t = Column THEN "prepare" ELSE "read"

Ask(c, t) ==
  /\ calls[c] = Idle
  /\ made < MaxCalls /\ made' = made + 1
  /\ calls' = [calls EXCEPT ![c] = Opening(t, FALSE, FirstStep(t))]
  /\ UNCHANGED <<posts, actions, trouble>>

\* The job runner delivers the column's event, once or again.
AskColumn(c) == Ask(c, Column) /\ UNCHANGED runs

\* A regeneration or a correction of p, under a key of its own.
AskEditorial(c, kind, p) ==
  \E t \in Clicks :
    /\ runs[t].kind = "unused"
    /\ posts[p].status # "absent"
    /\ runs' = [runs EXCEPT ![t] = Run(kind, p)]
    /\ Ask(c, t)

\* Only skipped, failed and stale runs may be retried.
BeginRetry(c, t) ==
  /\ calls[c] = Idle
  /\ made < MaxCalls /\ made' = made + 1
  /\ runs[t].status \in {"skipped", "failed", "stale"}
  /\ calls' = [calls EXCEPT ![c] = Opening(t, TRUE, "reset")]
  /\ UNCHANGED <<posts, runs, actions, trouble>>

\* The reset asks nothing of the status the run was read with.
Reset(c) ==
  /\ calls[c].pc = "reset"
  /\ LET t == calls[c].trigger IN
       /\ runs' = [runs EXCEPT ![t].status = "running", ![t].item = None]
       /\ Goto(c, FirstStep(t))
  /\ UNCHANGED <<posts, actions, made, trouble>>

MarkRunFailed(c) ==
  /\ calls[c].pc = "fail"
  /\ runs' = [runs EXCEPT ![calls[c].trigger].status = "failed"]
  /\ Return(c)
  /\ UNCHANGED <<posts, actions, made, trouble>>

\* Half an hour passes and the run is still running.
Age(t) ==
  /\ Trouble
  /\ runs[t].status = "running"
  /\ runs' = [runs EXCEPT ![t].status = "stale"]
  /\ UNCHANGED <<posts, actions, calls, made>>

-----------------------------------------------------------------------------
(* regenerateEditorialContentItem, correctEditorialContentItem: the original *)

\* The original must be live, or superseded with no replacement left.  A post with a
\* live replacement, or a correction already made, is left as it is; a retracted
\* one is an error to a commissioner and nothing to a correction.
ReadOriginal(c) ==
  LET p == Original(calls[c])
      kind == runs[calls[c].trigger].kind
      corrected == kind = "correct" /\ \E a \in actions : a.kind = kind /\ a.of = p
      dead == posts[p].status = "superseded" /\ ~Replaced(p)
  IN
    /\ calls[c].pc = "read"
    /\ UNCHANGED <<posts, runs, actions, made, trouble>>
    /\ \/ /\ ~corrected
          /\ posts[p].status = "published" \/ dead
          /\ calls' = [calls EXCEPT ![c].pc = "prepare", ![c].dead = dead]
       \/ /\ ~corrected /\ posts[p].status = "retracted" /\ kind = "regenerate"
          /\ Throw(c)
       \/ /\ \/ corrected
             \/ posts[p].status = "superseded" /\ Replaced(p)
             \/ posts[p].status = "retracted" /\ kind = "correct"
          /\ Return(c)

-----------------------------------------------------------------------------
(* generateLeagueBlogPost *)

\* A generation that was not published: a regeneration is noted all the same (the
\* code leaves the row out when it has read one of the post before; here it is the
\* same row, or one more that tells nothing).
Unpublished(c) ==
  IF runs[calls[c].trigger].kind = "regenerate" THEN Goto(c, "note") ELSE Return(c)

Note(c) ==
  /\ calls[c].pc = "note"
  /\ actions' = actions \cup
       {[kind |-> "regenerate", of |-> Original(calls[c]), after |-> None]}
  /\ Return(c)
  /\ UNCHANGED <<posts, runs, made, trouble>>

\* A published generation: an editorial call goes on to retire the original.
Published(c, q) ==
  calls' = [calls EXCEPT ![c] = IF calls[c].trigger = Column THEN Idle
                                ELSE [@ EXCEPT !.pc = "commit", !.item = q]]

\* The league's plan does not allow it.  A run of another outcome is overwritten.
BlockByEntitlement(c) ==
  /\ Trouble
  /\ calls[c].pc = "prepare"
  /\ runs' = [runs EXCEPT ![calls[c].trigger].status = "blocked",
                          ![calls[c].trigger].item = None]
  /\ Unpublished(c)
  /\ UNCHANGED <<posts, actions, made>>

\* A run whose post is live, or that was skipped, is not generated again; any other
\* is taken over, however many calls are at work on it.
PrepareGeneration(c) ==
  LET t == calls[c].trigger
      run == runs[t]
      live == run.status = "published" /\ posts[run.item].status = "published"
  IN
    /\ calls[c].pc = "prepare"
    /\ UNCHANGED <<posts, actions, made, trouble>>
    /\ \/ live /\ Published(c, run.item) /\ UNCHANGED runs
       \/ run.status = "skipped" /\ Unpublished(c) /\ UNCHANGED runs
       \/ /\ ~live /\ run.status # "skipped"
          /\ Goto(c, "write")
          /\ runs' = [runs EXCEPT ![t].status =
                        IF @ \in {"none", "stale"} THEN "running" ELSE @]

\* The persona is off, the draft generic, a near duplicate, or refused by the judge.
MarkSkipped(c) ==
  /\ Trouble
  /\ calls[c].pc = "write"
  /\ runs' = [runs EXCEPT ![calls[c].trigger].status = "skipped"]
  /\ Unpublished(c)
  /\ UNCHANGED <<posts, actions, made>>

RunPublished(call, q) ==
  runs' = [runs EXCEPT ![call.trigger].status = "published", ![call.trigger].item = q]

\* One transaction stores the post, unless its key is taken, and its run.
PublishDraft(c) ==
  LET call == calls[c]
      key == DedupKey(call)
  IN
    /\ call.pc = "write"
    /\ UNCHANGED <<actions, made, trouble>>
    /\ \/ /\ Stored(key) = {}
          /\ \E q \in Posts :
               /\ posts[q].status = "absent"
               /\ posts' = [posts EXCEPT ![q] = [status |-> "published",
                                                 of |-> key.of, nonce |-> key.nonce]]
               /\ RunPublished(call, q)
               /\ Published(c, q)
       \/ \E q \in Stored(key) :
            /\ UNCHANGED posts
            /\ \/ /\ posts[q].status = "published"
                  /\ RunPublished(call, q)
                  /\ Published(c, q)
               \/ /\ posts[q].status # "published"
                  /\ Throw(c)
                  /\ UNCHANGED runs

\* A provider or the database fails: the run keeps the status it has.
GenerationFails(c) ==
  /\ Trouble
  /\ calls[c].pc \in {"prepare", "write"}
  /\ Throw(c)
  /\ UNCHANGED <<posts, runs, actions, made>>

-----------------------------------------------------------------------------
(* Retiring the original, and retractions *)

Action(kind, p, q) == [kind |-> kind, of |-> p, after |-> q]

\* Two faulty conditions of the update: a post that is still live, and any post.
RetiresLive(p) == posts[p].status = "published"
RetiresAny(p) == TRUE

\* A post that is superseded already may be superseded again.
Retires(p) == posts[p].status # "retracted"

\* A faulty commit that writes the audit row and leaves the original up.
LeftUp(p) == posts

Superseded(p) == [posts EXCEPT ![p].status = "superseded"]

\* A faulty commit that keeps the replacement of a post retracted meanwhile.
KeptUp(q) == posts

\* withdrawPublishedReplacementInTx.
Withdrawn(q) ==
  [posts EXCEPT ![q].status = IF @ = "published" THEN "retracted" ELSE @]

\* supersedeContentItemInLeagueTx on the original.  It is not asked whether the
\* replacement is still up, but if the original was retracted meanwhile the
\* replacement is withdrawn.
CommitReplacement(c) ==
  LET call == calls[c]
      p == Original(call)
  IN
    /\ call.pc = "commit"
    /\ UNCHANGED <<runs, made, trouble>>
    /\ \/ /\ Retires(p)
          /\ posts' = Superseded(p)
          /\ actions' = actions \cup {Action(runs[call.trigger].kind, p, call.item)}
          /\ Return(c)
       \/ /\ ~Retires(p)
          /\ posts' = Withdrawn(call.item)
          /\ Throw(c)
          /\ UNCHANGED actions

\* retractEditorialContentItem: of a live or a superseded post, once.
Retract(p) ==
  /\ posts[p].status \in {"published", "superseded"}
  /\ posts' = [posts EXCEPT ![p].status = "retracted"]
  /\ actions' = actions \cup {Action("retract", p, None)}
  /\ UNCHANGED <<runs, calls, made, trouble>>

\* The process dies.  The call is forgotten, unless it had an original to retire: then
\* it is kept, to tell what was left undone.
Lose(c) ==
  /\ Trouble
  /\ calls[c].pc \notin {"idle", "lost"}
  /\ IF calls[c].pc = "commit" THEN Goto(c, "lost") ELSE Return(c)
  /\ UNCHANGED <<posts, runs, actions, made>>

-----------------------------------------------------------------------------
Init ==
  /\ posts = [p \in Posts |-> Absent]
  /\ runs = [t \in Triggers |-> Run(IF t = Column THEN "column" ELSE "unused", None)]
  /\ actions = {}
  /\ calls = [c \in Calls |-> Idle]
  /\ made = 0
  /\ trouble = 0

Next ==
  \/ \E c \in Calls :
       \/ AskColumn(c)
       \/ \E kind \in {"regenerate", "correct"}, p \in Posts : AskEditorial(c, kind, p)
       \/ \E t \in Triggers : BeginRetry(c, t)
       \/ Reset(c)
       \/ MarkRunFailed(c)
       \/ ReadOriginal(c)
       \/ Note(c)
       \/ BlockByEntitlement(c)
       \/ PrepareGeneration(c)
       \/ MarkSkipped(c)
       \/ PublishDraft(c)
       \/ GenerationFails(c)
       \/ CommitReplacement(c)
       \/ Lose(c)
  \/ \E t \in Triggers : Age(t)
  \/ \E p \in Posts : Retract(p)

Spec == Init /\ [][Next]_vars
-----------------------------------------------------------------------------
(* Properties *)

Status(p) == posts[p].status
Live(p) == Status(p) = "published"

\* A call that is about to retire the original of q, or died before it did.
RetiringFor(c, q) == calls[c].pc \in {"commit", "lost"} /\ calls[c].item = q

CallTypes ==
  {Idle}
    \cup [pc : {"reset", "read", "prepare", "write", "note", "fail"}, trigger : Triggers,
          retry : BOOLEAN, dead : BOOLEAN, item : Posts \cup {None}]
    \cup [pc : {"commit", "lost"}, trigger : Clicks,
          retry : BOOLEAN, dead : BOOLEAN, item : Posts]

RunTypes ==
  [kind : {"unused", "column", "regenerate", "correct"}, of : Posts \cup {None},
   status : {"none", "running", "stale", "skipped", "failed", "blocked"},
   item : Posts \cup {None}]
    \cup [kind : {"column", "regenerate", "correct"}, of : Posts \cup {None},
          status : {"published"}, item : Posts]

\* Every variable has its type; a published run, and a call about to retire an
\* original, know their post.
TypeOK ==
  /\ posts \in [Posts -> [status : {"absent", "published", "superseded", "retracted"},
                          of : Posts \cup {None}, nonce : Clicks \cup {None}]]
  /\ runs \in [Triggers -> RunTypes]
  /\ actions \subseteq [kind : {"retract", "regenerate", "correct"}, of : Posts,
                        after : Posts \cup {None}]
  /\ calls \in [Calls -> CallTypes]
  /\ made \in 0..MaxCalls
  /\ trouble \in 0..MaxTrouble

\* A post and a replacement of it are on the fronts together only while the call that
\* wrote the replacement has not come to retire the post, or died before it did; a
\* second call that found the replacement written retires it too (editorial.ts,
\* supersedeContentItemInLeagueTx after an awaited generation).
OriginalRetires ==
  \A p, q \in Posts :
    Live(p) /\ q \in Children(p) /\ Status(q) # "retracted" => \E c \in Calls : RetiringFor(c, q)

\* A post that was retracted before any replacement of it was recorded has no live
\* replacement, though the replacement may have been written while the
\* retraction came in: the call that wrote it withdraws it
\* (withdrawPublishedReplacementInTx), unless it died.
RetractionHolds ==
  \A p, q \in Posts :
    /\ Status(p) = "retracted"
    /\ q \in Children(p)
    /\ Live(q)
    /\ \A a \in actions : ~(a.of = p /\ a.after \in Posts)
    => \E c \in Calls : RetiringFor(c, q)

\* A story does not vanish by being rewritten: a superseded post has a live version, or
\* one that a commissioner retracted.  No interleaving of regenerations,
\* corrections and withdrawals takes the last version away.
StoryNeverLost ==
  \A p \in Posts : Status(p) = "superseded" =>
    \E q \in Descendants(p) :
      Live(q) \/ \E a \in actions : a.kind = "retract" /\ a.of = q

\* However many calls and retries are at work on a trigger, its story is published
\* once ("re-running the same {league_id, persona, trigger_key} job publishes at most
\* one post", specs/07-ai-content.md), and a post has two live replacements only
\* after one that is gone.
PublishedOnce ==
  \A p, q \in Posts :
    p # q /\ Live(p) /\ Live(q) /\ posts[p].of = posts[q].of =>
      /\ posts[p].of # None
      /\ \E r \in Children(posts[p].of) : ~Live(r)

\* The versions of a post go through the lifecycle of ContentHistory.
History == INSTANCE ContentHistory WITH
  status <- [p \in Posts |-> posts[p].status],
  parent <- [p \in Posts |-> posts[p].of]

Lifecycle == History!Spec

-----------------------------------------------------------------------------
(* Not kept by the code; see the README *)

\* A run in the failure queue has no live post: a call judged a near duplicate, or
\* a retry that failed, overwrites the status of a run whose post is up.
QueueHoldsNoLivePost ==
  \A t \in Triggers : runs[t].status \in {"skipped", "failed"} =>
    \A q \in Posts : Live(q) => ~(posts[q].of = runs[t].of /\ posts[q].nonce = None)

\* "A double-click can't fork" a post (specs/45-editorial-control-plane.md, B).  A
\* post whose replacement is gone is replaced under the key of the click, and each
\* click has another.
NoFork ==
  \A p, q \in Posts :
    Live(p) /\ Live(q) /\ posts[p].of # None /\ posts[p].of = posts[q].of => p = q

\* A post retracted before it was replaced has no live version at all: a replacement
\* that was itself replaced before its call came back is not withdrawn.
RetractionReachesAll ==
  \A p \in Posts :
    /\ Status(p) = "retracted"
    /\ \A a \in actions : ~(a.of = p /\ a.after \in Posts)
    => \A q \in Descendants(p) :
         Live(q) => \E c \in Calls, x \in Posts : RetiringFor(c, x)
=============================================================================
