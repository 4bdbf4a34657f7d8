--------------------------- MODULE EditorialProofs ---------------------------
(***************************************************************************)
(* Theorems about Editorial: the detailed specification implements         *)
(* ContentHistory, and its invariants hold for any number of posts, calls  *)
(* and failures.                                                           *)
(***************************************************************************)
EXTENDS Editorial, TLAPS

Exists(p) == Status(p) # "absent"

\* What the table of posts looks like.
AbsentIsBlank == \A p \in Posts : ~Exists(p) => posts[p].of = None
ParentIsStored ==
  \A q \in Posts : posts[q].of # None => Exists(posts[q].of)
NoCycle == \A p \in Posts : p \notin Descendants(p)

\* The unique index of the deduplication key, and what a key of a second try means: a
\* replacement of the same post is gone.
OneForEachKey ==
  \A p, q \in Posts :
    (Exists(p) /\ Exists(q) /\ posts[p].of = posts[q].of /\ posts[p].nonce = posts[q].nonce)
      => p = q
SecondAfterGone ==
  \A q \in Posts : posts[q].nonce # None =>
    posts[q].of # None /\ \E r \in Posts : posts[r].of = posts[q].of /\ ~Live(r)

\* Why a post is not up any more.
SupersededIsNoted ==
  \A p \in Posts : Status(p) = "superseded" =>
    \E a \in actions : a.of = p /\ a.after \in Posts /\ posts[a.after].of = p
RetractedIsNoted(p) == \E a \in actions : a.kind = "retract" /\ a.of = p
RetractedForCause ==
  \A q \in Posts : Status(q) = "retracted" =>
    \/ RetractedIsNoted(q)
    \/ posts[q].of # None /\ Status(posts[q].of) = "retracted"

\* A post that was superseded is told by another, or was ended on purpose.
Told(p) == \E q \in Descendants(p) : Live(q) \/ RetractedIsNoted(q)
StoriesAreTold == \A p \in Posts : Status(p) = "superseded" => Told(p)

\* What a run refers to, and what a call may rely on while others run: operators of the
\* values, not of the state, so that they can be read before and after a step.
RunFits(t, r, ps) ==
  /\ r.kind = "column" <=> t = Column
  /\ r.kind \in {"regenerate", "correct"} => r.of # None
  /\ r.of # None => t # Column /\ ps[r.of].status # "absent"
  /\ r.kind = "unused" => r.status = "none"
  /\ r.status = "published" => ps[r.item].of = r.of /\ ps[r.item].status # "absent"

CallFits(y, rs, ps) ==
  y.pc # "idle" =>
    /\ rs[y.trigger].kind # "unused"
    /\ y.pc \in {"read", "note"} => y.trigger # Column
    /\ y.dead => /\ y.trigger # Column
                 /\ \E r \in Posts : /\ ps[r].of = rs[y.trigger].of
                                     /\ ps[r].status # "published"
    /\ y.pc \in {"commit", "lost"} => ps[y.item].of = rs[y.trigger].of

RunsFit == \A t \in Triggers : RunFits(t, runs[t], posts)
CallsFit == \A c \in Calls : CallFits(calls[c], runs, posts)

Tables ==
  /\ AbsentIsBlank /\ ParentIsStored /\ NoCycle /\ OneForEachKey /\ SecondAfterGone
  /\ SupersededIsNoted /\ RetractedForCause /\ StoriesAreTold

IInv ==
  /\ TypeOK /\ Tables /\ RunsFit /\ CallsFit
  /\ OriginalRetires /\ RetractionHolds

-----------------------------------------------------------------------------
(* Calls and runs *)

Early == {"reset", "read", "prepare", "write", "note", "fail"}

LEMMA CallShape ==
  ASSUME NEW x \in CallTypes
  PROVE  /\ x.pc \in Early \cup {"idle", "commit", "lost"}
         /\ x.pc = "idle" <=> x = Idle
         /\ x.pc # "idle" => /\ x.trigger \in Triggers /\ x.retry \in BOOLEAN
                             /\ x.dead \in BOOLEAN /\ x.item \in Posts \cup {None}
         /\ x.pc \in {"commit", "lost"} => x.trigger \in Clicks /\ x.item \in Posts
BY DEF CallTypes, Early, Idle, Triggers

LEMMA IdleCall == Idle \in CallTypes /\ Idle.pc = "idle"
BY DEF CallTypes, Idle

LEMMA CallGoes ==
  ASSUME NEW x \in CallTypes, x.pc \in Early, NEW pc \in Early
  PROVE  /\ [x EXCEPT !.pc = pc] \in CallTypes
         /\ [x EXCEPT !.pc = pc].pc = pc
         /\ [x EXCEPT !.pc = pc].trigger = x.trigger
         /\ [x EXCEPT !.pc = pc].dead = x.dead
BY DEF CallTypes, Early, Idle

LEMMA RunShape ==
  ASSUME NEW r \in RunTypes
  PROVE  /\ r.kind \in {"unused", "column", "regenerate", "correct"}
         /\ r.of \in Posts \cup {None} /\ r.item \in Posts \cup {None}
         /\ r.status \in {"none", "running", "stale", "skipped", "failed", "blocked",
                          "published"}
         /\ r.status = "published" => r.item \in Posts /\ r.kind # "unused"
BY DEF RunTypes

\* What a run becomes when it is not published.
LEMMA RunGoes ==
  ASSUME NEW r \in RunTypes,
         NEW s \in {"none", "running", "stale", "skipped", "failed", "blocked"}
  PROVE  /\ [r EXCEPT !.status = s] \in RunTypes
         /\ [r EXCEPT !.status = s, !.item = None] \in RunTypes
BY DEF RunTypes

\* A trigger whose run another value takes, of the same kind and for the same post.
LEMMA RunBecomes ==
  ASSUME TypeOK, RunsFit, posts' = posts, NEW t \in Triggers, NEW r \in RunTypes,
         runs' = [runs EXCEPT ![t] = r], r.kind = runs[t].kind, r.of = runs[t].of,
         runs[t].kind # "unused",
         r.status = "published" => posts[r.item].of = r.of /\ posts[r.item].status # "absent"
  PROVE  /\ runs' \in [Triggers -> RunTypes]
         /\ RunsFit'
         /\ \A u \in Triggers : runs'[u].kind = runs[u].kind /\ runs'[u].of = runs[u].of
<1>1. runs' \in [Triggers -> RunTypes] /\ runs'[t] = r
      /\ \A u \in Triggers : u # t => runs'[u] = runs[u]
  BY DEF TypeOK
<1>2. RunFits(t, r, posts)  BY DEF RunsFit, RunFits
<1>3. RunsFit'  BY <1>1, <1>2 DEF RunsFit
<1>. QED  BY <1>1, <1>3

\* A step that leaves the posts alone.
LEMMA Quiet ==
  ASSUME EditorialAssumption, IInv, TypeOK', posts' = posts, RunsFit',
         actions \subseteq actions', \A a \in actions' \ actions : a.after = None,
         \A t \in Triggers : runs[t].kind # "unused" =>
           runs'[t].kind = runs[t].kind /\ runs'[t].of = runs[t].of,
         \A c \in Calls :
           \/ calls'[c] = calls[c]
           \/ /\ CallFits(calls'[c], runs', posts)
              /\ calls[c].pc \in {"commit", "lost"} =>
                   \/ calls'[c].pc = "lost" /\ calls'[c].item = calls[c].item
                   \/ ~Live(calls[c].item) /\ ~Live(posts[calls[c].item].of)
  PROVE  IInv'
<1>1. \A p \in Posts : /\ Children(p)' = Children(p)
                       /\ Descendants(p)' = Descendants(p)
                       /\ Status(p)' = Status(p) /\ Live(p)' = Live(p)
                       /\ Exists(p)' = Exists(p)
                       /\ RetractedIsNoted(p) => RetractedIsNoted(p)'
  BY DEF Children, Descendants, Status, Live, Exists, RetractedIsNoted
<1>2. Tables'
  <2>1. AbsentIsBlank' /\ ParentIsStored'
    BY DEF IInv, Tables, AbsentIsBlank, ParentIsStored, Exists, Status
  <2>2. NoCycle'  BY <1>1 DEF IInv, Tables, NoCycle
  <2>3. OneForEachKey' /\ SecondAfterGone'
    BY DEF IInv, Tables, OneForEachKey, SecondAfterGone, Exists, Status, Live
  <2>4. SupersededIsNoted'  BY DEF IInv, Tables, SupersededIsNoted, Status
  <2>5. RetractedForCause'
    BY DEF IInv, Tables, RetractedForCause, RetractedIsNoted, Status
  <2>6. ASSUME NEW p \in Posts, Told(p) PROVE Told(p)'
    <3>1. PICK q \in Descendants(p) : Live(q) \/ RetractedIsNoted(q)  BY <2>6 DEF Told
    <3>2. q \in Posts  BY <3>1 DEF Descendants
    <3>3. q \in Descendants(p)' /\ (Live(q)' \/ RetractedIsNoted(q)')  BY <1>1, <3>1, <3>2
    <3>. QED  BY <3>3 DEF Told
  <2>7. StoriesAreTold'  BY <1>1, <2>6 DEF IInv, Tables, StoriesAreTold
  <2>. QED  BY <2>1, <2>2, <2>3, <2>4, <2>5, <2>7 DEF Tables
<1>3. CallsFit'
  <2>. SUFFICES ASSUME NEW c \in Calls PROVE CallFits(calls'[c], runs', posts')
    BY DEF CallsFit
  <2>1. CASE calls'[c] = calls[c]
    <3>1. calls[c] \in CallTypes /\ CallFits(calls[c], runs, posts)
      BY DEF IInv, TypeOK, CallsFit
    <3>. QED  BY <2>1, <3>1, CallShape DEF CallFits
  <2>2. CASE calls'[c] # calls[c]  BY <2>2
  <2>. QED  BY <2>1, <2>2
<1>4. \A c \in Calls, q \in Posts :
        RetiringFor(c, q) /\ (Live(q) \/ Live(posts[q].of)) => RetiringFor(c, q)'
  BY DEF RetiringFor
<1>5. OriginalRetires'  BY <1>1, <1>4 DEF IInv, OriginalRetires, Children
<1>6. RetractionHolds'
  BY <1>1, <1>4 DEF IInv, RetractionHolds
<1>. QED  BY <1>2, <1>3, <1>5, <1>6 DEF IInv

\* One call goes on, and no other does.
LEMMA Moving ==
  ASSUME EditorialAssumption, IInv, posts' = posts, RunsFit',
         runs' \in [Triggers -> RunTypes],
         actions' = actions, made' \in 0 .. MaxCalls, trouble' \in 0 .. MaxTrouble,
         \A t \in Triggers : runs[t].kind # "unused" =>
           runs'[t].kind = runs[t].kind /\ runs'[t].of = runs[t].of,
         NEW c \in Calls, NEW y \in CallTypes, calls' = [calls EXCEPT ![c] = y],
         CallFits(y, runs', posts),
         calls[c].pc \in {"commit", "lost"} => y.pc = "lost" /\ y.item = calls[c].item
  PROVE  IInv'
<1>1. /\ calls' \in [Calls -> CallTypes] /\ calls'[c] = y
      /\ \A d \in Calls : d # c => calls'[d] = calls[d]
  BY DEF IInv, TypeOK
<1>2. TypeOK'  BY <1>1 DEF IInv, TypeOK
<1>. QED  BY <1>1, <1>2, Quiet

-----------------------------------------------------------------------------
(* Steps that store no post and retire none *)

LEMMA Asking ==
  ASSUME EditorialAssumption, IInv, NEW c \in Calls,
         \/ AskColumn(c)
         \/ \E kind \in {"regenerate", "correct"}, p \in Posts : AskEditorial(c, kind, p)
         \/ \E t \in Triggers : BeginRetry(c, t)
  PROVE  IInv'
<1>0. /\ TypeOK /\ RunsFit /\ calls[c] = Idle
      /\ posts' = posts /\ actions' = actions
      /\ made' \in 0 .. MaxCalls /\ trouble' \in 0 .. MaxTrouble
  <2>1. /\ calls[c] = Idle /\ made < MaxCalls /\ made' = made + 1
        /\ UNCHANGED <<posts, actions, trouble>>
    BY DEF AskColumn, AskEditorial, BeginRetry, Ask
  <2>. QED  BY <2>1 DEF IInv, TypeOK, EditorialAssumption
<1>1. calls[c].pc = "idle"  BY <1>0, IdleCall
<1>2. ASSUME NEW t \in Triggers, NEW retry \in BOOLEAN, NEW pc \in {"reset", "read", "prepare"}
      PROVE  Opening(t, retry, pc) \in CallTypes
  BY DEF Opening, CallTypes
<1>3. CASE AskColumn(c)
  <2>. DEFINE y == Opening(Column, FALSE, "prepare")
  <2>1. calls' = [calls EXCEPT ![c] = y] /\ runs' = runs
    BY <1>3 DEF AskColumn, Ask, FirstStep
  <2>2. y \in CallTypes /\ y.pc = "prepare" /\ y.trigger = Column /\ ~y.dead
    BY <1>2 DEF Opening, Triggers
  <2>3. runs[Column].kind = "column"  BY <1>0 DEF RunsFit, RunFits, Triggers
  <2>4. CallFits(y, runs', posts)  BY <2>1, <2>2, <2>3 DEF CallFits
  <2>5. RunsFit' /\ runs' \in [Triggers -> RunTypes]  BY <1>0, <2>1 DEF RunsFit, TypeOK
  <2>. HIDE DEF y
  <2>. QED  BY <1>0, <1>1, <2>1, <2>2, <2>4, <2>5, Moving
<1>4. CASE \E kind \in {"regenerate", "correct"}, p \in Posts : AskEditorial(c, kind, p)
  <2>1. PICK kind \in {"regenerate", "correct"}, p \in Posts, t \in Clicks :
          /\ runs[t].kind = "unused" /\ posts[p].status # "absent"
          /\ runs' = [runs EXCEPT ![t] = Run(kind, p)] /\ Ask(c, t)
    BY <1>4 DEF AskEditorial
  <2>. DEFINE y == Opening(t, FALSE, "read")
  <2>2. t \in Triggers /\ t # Column /\ p # None  BY DEF EditorialAssumption, Triggers
  <2>3. calls' = [calls EXCEPT ![c] = y]  BY <2>1, <2>2 DEF Ask, FirstStep
  <2>4. y \in CallTypes /\ y.pc = "read" /\ y.trigger = t /\ ~y.dead
    BY <1>2, <2>2 DEF Opening
  <2>5. Run(kind, p) \in RunTypes  BY DEF Run, RunTypes
  <2>6. /\ runs' \in [Triggers -> RunTypes] /\ runs'[t] = Run(kind, p)
        /\ \A u \in Triggers : u # t => runs'[u] = runs[u]
    BY <1>0, <2>1, <2>2, <2>5 DEF TypeOK
  <2>7. RunFits(t, Run(kind, p), posts)  BY <2>1, <2>2 DEF RunFits, Run
  <2>8. RunsFit'  BY <1>0, <2>6, <2>7 DEF RunsFit
  <2>. HIDE DEF y
  <2>9. CallFits(y, runs', posts)
    <3>1. runs'[t].kind # "unused"  BY <2>6 DEF Run
    <3>. QED  BY <2>2, <2>4, <3>1 DEF CallFits
  <2>10. \A u \in Triggers : runs[u].kind # "unused" => runs'[u] = runs[u]  BY <2>1, <2>6
  <2>. QED  BY <1>0, <1>1, <2>3, <2>4, <2>6, <2>8, <2>9, <2>10, Moving
<1>5. CASE \E t \in Triggers : BeginRetry(c, t)
  <2>1. PICK t \in Triggers : BeginRetry(c, t)  BY <1>5
  <2>. DEFINE y == Opening(t, TRUE, "reset")
  <2>2. calls' = [calls EXCEPT ![c] = y] /\ runs' = runs  BY <2>1 DEF BeginRetry
  <2>3. y \in CallTypes /\ y.pc = "reset" /\ y.trigger = t /\ ~y.dead
    BY <1>2 DEF Opening
  <2>4. runs[t].kind # "unused"  BY <1>0, <2>1 DEF BeginRetry, RunsFit, RunFits
  <2>5. CallFits(y, runs', posts)  BY <2>2, <2>3, <2>4 DEF CallFits
  <2>6. RunsFit' /\ runs' \in [Triggers -> RunTypes]  BY <1>0, <2>2 DEF RunsFit, TypeOK
  <2>. HIDE DEF y
  <2>. QED  BY <1>0, <1>1, <2>2, <2>3, <2>5, <2>6, Moving
<1>. QED  BY <1>3, <1>4, <1>5

\* A call goes on from one of its early steps, with what it has read, or ends; its run
\* takes a status other than "published", or stays what it is.
LEMMA Going ==
  ASSUME EditorialAssumption, IInv, posts' = posts, actions' = actions,
         made' \in 0 .. MaxCalls, trouble' \in 0 .. MaxTrouble,
         NEW c \in Calls, calls[c].pc \in Early,
         \/ runs' = runs
         \/ \E r \in RunTypes :
              /\ runs' = [runs EXCEPT ![calls[c].trigger] = r]
              /\ r.kind = runs[calls[c].trigger].kind /\ r.of = runs[calls[c].trigger].of
              /\ r.status # "published",
         \/ Return(c)
         \/ \E pc \in Early : Goto(c, pc) /\ (pc \in {"read", "note"} => calls[c].trigger # Column)
  PROVE  IInv'
<1>0. /\ TypeOK /\ RunsFit /\ calls[c] \in CallTypes /\ CallFits(calls[c], runs, posts)
      /\ calls[c].pc \notin {"idle", "commit", "lost"}
      /\ calls[c].trigger \in Triggers
      /\ runs[calls[c].trigger].kind # "unused"
  <2>1. calls[c] \in CallTypes /\ CallFits(calls[c], runs, posts)
    BY DEF IInv, TypeOK, CallsFit
  <2>. QED  BY <2>1, CallShape DEF IInv, Early, CallFits
<1>1. /\ RunsFit' /\ runs' \in [Triggers -> RunTypes]
      /\ \A t \in Triggers : runs'[t].kind = runs[t].kind /\ runs'[t].of = runs[t].of
  <2>1. CASE runs' = runs  BY <1>0, <2>1 DEF RunsFit, TypeOK
  <2>2. CASE runs' # runs
    <3>1. PICK r \in RunTypes :
              /\ runs' = [runs EXCEPT ![calls[c].trigger] = r]
              /\ r.kind = runs[calls[c].trigger].kind /\ r.of = runs[calls[c].trigger].of
              /\ r.status # "published"
      BY <2>2
    <3>. QED  BY <1>0, <3>1, RunBecomes
  <2>. QED  BY <2>1, <2>2
<1>2. CASE Return(c)
  <2>1. calls' = [calls EXCEPT ![c] = Idle]  BY <1>2 DEF Return
  <2>2. CallFits(Idle, runs', posts)  BY IdleCall DEF CallFits
  <2>. QED  BY <1>0, <1>1, <2>1, <2>2, IdleCall, Moving
<1>3. CASE \E pc \in Early : Goto(c, pc) /\ (pc \in {"read", "note"} => calls[c].trigger # Column)
  <2>1. PICK pc \in Early : Goto(c, pc) /\ (pc \in {"read", "note"} => calls[c].trigger # Column)
    BY <1>3
  <2>. DEFINE y == [calls[c] EXCEPT !.pc = pc]
  <2>2. calls' = [calls EXCEPT ![c] = y]  BY <2>1 DEF Goto
  <2>3. /\ y \in CallTypes /\ y.pc = pc /\ y.trigger = calls[c].trigger
        /\ y.dead = calls[c].dead
    BY <1>0, CallGoes
  <2>. HIDE DEF y
  <2>4. pc \notin {"idle", "commit", "lost"}  BY DEF Early
  <2>5. CallFits(y, runs', posts)  BY <1>0, <1>1, <2>1, <2>3, <2>4 DEF CallFits
  <2>. QED  BY <1>0, <1>1, <2>2, <2>3, <2>5, Moving
<1>. QED  BY <1>2, <1>3

\* Descendants are the least set that holds the children of p and, with a post, its children.
LEMMA Line ==
  ASSUME NEW p \in Posts
  PROVE  /\ Descendants(p) \subseteq Posts /\ Children(p) \subseteq Descendants(p)
         /\ \A r \in Descendants(p) : Children(r) \subseteq Descendants(p)
         /\ \A r \in Descendants(p) \cup Children(p) : Descendants(r) \subseteq Descendants(p)
         /\ \A S \in SUBSET Posts :
              Children(p) \subseteq S /\ (\A r \in S : Children(r) \subseteq S)
                => Descendants(p) \subseteq S
<1>1. /\ Descendants(p) \subseteq Posts /\ Children(p) \subseteq Descendants(p)
      /\ \A r \in Descendants(p) : Children(r) \subseteq Descendants(p)
      /\ \A S \in SUBSET Posts :
           Children(p) \subseteq S /\ (\A r \in S : Children(r) \subseteq S)
             => Descendants(p) \subseteq S
  BY DEF Descendants, Children
<1>2. \A r \in Descendants(p) \cup Children(p) : Descendants(r) \subseteq Descendants(p)
  BY <1>1 DEF Descendants
<1>. QED  BY <1>1, <1>2

LEMMA EarlyCall ==
  ASSUME IInv, NEW c \in Calls, calls[c].pc \in Early
  PROVE  /\ TypeOK /\ RunsFit /\ Tables
         /\ calls[c] \in CallTypes /\ CallFits(calls[c], runs, posts)
         /\ calls[c].pc # "idle"
         /\ calls[c].trigger \in Triggers
         /\ runs[calls[c].trigger] \in RunTypes
         /\ RunFits(calls[c].trigger, runs[calls[c].trigger], posts)
         /\ runs[calls[c].trigger].kind # "unused"
<1>1. calls[c] \in CallTypes /\ CallFits(calls[c], runs, posts)
  BY DEF IInv, TypeOK, CallsFit
<1>2. calls[c].pc # "idle"  BY DEF Early
<1>. QED  BY <1>1, <1>2, CallShape DEF IInv, TypeOK, RunsFit, CallFits

LEMMA Failing ==
  ASSUME EditorialAssumption, IInv, NEW c \in Calls,
         Reset(c) \/ MarkRunFailed(c) \/ BlockByEntitlement(c) \/ MarkSkipped(c)
           \/ GenerationFails(c)
  PROVE  IInv'
<1>0. calls[c].pc \in Early
  BY DEF Reset, MarkRunFailed, BlockByEntitlement, MarkSkipped, GenerationFails, Early
<1>. DEFINE t == calls[c].trigger
<1>1. /\ TypeOK /\ t \in Triggers /\ runs[t] \in RunTypes /\ RunFits(t, runs[t], posts)
  BY <1>0, EarlyCall
<1>2. /\ posts' = posts /\ actions' = actions
      /\ made' \in 0 .. MaxCalls /\ trouble' \in 0 .. MaxTrouble
  <2>1. /\ UNCHANGED <<posts, actions, made>>
        /\ trouble' = trouble \/ (trouble < MaxTrouble /\ trouble' = trouble + 1)
    BY DEF Reset, MarkRunFailed, BlockByEntitlement, MarkSkipped, GenerationFails, Trouble
  <2>. QED  BY <1>1, <2>1 DEF TypeOK, EditorialAssumption
<1>3. /\ "note" \in Early /\ "fail" \in Early /\ "prepare" \in Early /\ "read" \in Early
      /\ runs[t].kind = "regenerate" => t # Column
  BY <1>1 DEF Early, RunFits
<1>. HIDE DEF t
<1>4. CASE Reset(c)
  <2>1. /\ runs' = [runs EXCEPT ![t] = [runs[t] EXCEPT !.status = "running", !.item = None]]
        /\ Goto(c, FirstStep(t))
    BY <1>1, <1>4 DEF Reset, TypeOK, t
  <2>2. [runs[t] EXCEPT !.status = "running", !.item = None] \in RunTypes  BY <1>1, RunGoes
  <2>3. FirstStep(t) \in Early /\ (FirstStep(t) \in {"read", "note"} => t # Column)
    BY <1>3 DEF FirstStep
  <2>4. \E r \in RunTypes :
          /\ runs' = [runs EXCEPT ![t] = r]
          /\ r.kind = runs[t].kind /\ r.of = runs[t].of /\ r.status # "published"
    BY <1>1, <2>1, <2>2 DEF RunTypes
  <2>. QED  BY <1>0, <1>2, <2>1, <2>3, <2>4, Going DEF t
<1>5. ASSUME NEW s \in {"failed", "skipped"}, runs' = [runs EXCEPT ![t].status = s]
      PROVE  \E r \in RunTypes :
               /\ runs' = [runs EXCEPT ![t] = r]
               /\ r.kind = runs[t].kind /\ r.of = runs[t].of /\ r.status # "published"
  <2>1. [runs[t] EXCEPT !.status = s] \in RunTypes  BY <1>1, RunGoes
  <2>2. runs' = [runs EXCEPT ![t] = [runs[t] EXCEPT !.status = s]]  BY <1>1, <1>5 DEF TypeOK
  <2>. QED  BY <1>1, <2>1, <2>2 DEF RunTypes
<1>6. CASE MarkRunFailed(c)
  <2>1. runs' = [runs EXCEPT ![t].status = "failed"] /\ Return(c)
    BY <1>6 DEF MarkRunFailed, t
  <2>. QED  BY <1>0, <1>2, <1>5, <2>1, Going DEF t
<1>7. ASSUME Unpublished(c)
      PROVE  Return(c) \/ \E pc \in Early : Goto(c, pc) /\ (pc \in {"read", "note"} => t # Column)
  BY <1>3, <1>7 DEF Unpublished, t
<1>8. CASE BlockByEntitlement(c)
  <2>1. /\ runs' = [runs EXCEPT ![t] = [runs[t] EXCEPT !.status = "blocked", !.item = None]]
        /\ Unpublished(c)
    BY <1>1, <1>8 DEF BlockByEntitlement, TypeOK, t
  <2>2. [runs[t] EXCEPT !.status = "blocked", !.item = None] \in RunTypes  BY <1>1, RunGoes
  <2>3. \E r \in RunTypes :
          /\ runs' = [runs EXCEPT ![t] = r]
          /\ r.kind = runs[t].kind /\ r.of = runs[t].of /\ r.status # "published"
    BY <1>1, <2>1, <2>2 DEF RunTypes
  <2>. QED  BY <1>0, <1>2, <1>7, <2>1, <2>3, Going DEF t
<1>9. CASE MarkSkipped(c)
  <2>1. runs' = [runs EXCEPT ![t].status = "skipped"] /\ Unpublished(c)
    BY <1>9 DEF MarkSkipped, t
  <2>. QED  BY <1>0, <1>2, <1>5, <1>7, <2>1, Going DEF t
<1>10. CASE GenerationFails(c)
  <2>1. runs' = runs /\ (Return(c) \/ Goto(c, "fail"))
    BY <1>10 DEF GenerationFails, Throw
  <2>. QED  BY <1>0, <1>2, <1>3, <2>1, Going
<1>. QED  BY <1>4, <1>6, <1>8, <1>9, <1>10

\* Half an hour passes; a call dies, or writes its note.
LEMMA Aging ==
  ASSUME EditorialAssumption, IInv, NEW t \in Triggers, Age(t)
  PROVE  IInv'
<1>1. /\ TypeOK /\ RunsFit /\ runs[t] \in RunTypes /\ runs[t].kind # "unused"
      /\ UNCHANGED <<posts, actions, calls, made>> /\ trouble' \in 0 .. MaxTrouble
      /\ runs' = [runs EXCEPT ![t] = [runs[t] EXCEPT !.status = "stale"]]
  BY DEF IInv, TypeOK, Age, Trouble, RunsFit, RunFits, EditorialAssumption
<1>2. [runs[t] EXCEPT !.status = "stale"] \in RunTypes  BY <1>1, RunGoes
<1>3. /\ RunsFit' /\ runs' \in [Triggers -> RunTypes]
      /\ \A u \in Triggers : runs'[u].kind = runs[u].kind /\ runs'[u].of = runs[u].of
  <2>. DEFINE r == [runs[t] EXCEPT !.status = "stale"]
  <2>1. /\ r \in RunTypes /\ r.kind = runs[t].kind /\ r.of = runs[t].of /\ r.status = "stale"
        /\ runs' = [runs EXCEPT ![t] = r]
    BY <1>1, <1>2 DEF RunTypes
  <2>. HIDE DEF r
  <2>. QED  BY <1>1, <2>1, RunBecomes
<1>4. TypeOK'  BY <1>1, <1>3 DEF TypeOK
<1>. QED  BY <1>1, <1>3, <1>4, Quiet

LEMMA Dying ==
  ASSUME EditorialAssumption, IInv, NEW c \in Calls, Lose(c)
  PROVE  IInv'
<1>1. /\ TypeOK /\ RunsFit /\ calls[c] \in CallTypes /\ CallFits(calls[c], runs, posts)
      /\ UNCHANGED <<posts, runs, actions, made>> /\ trouble' \in 0 .. MaxTrouble
      /\ calls[c].pc \notin {"idle", "lost"}
  BY DEF IInv, TypeOK, CallsFit, Lose, Trouble, EditorialAssumption
<1>2. runs' \in [Triggers -> RunTypes] /\ RunsFit' /\ made' \in 0 .. MaxCalls
  BY <1>1 DEF TypeOK, RunsFit
<1>3. CASE calls[c].pc = "commit"
  <2>. DEFINE y == [calls[c] EXCEPT !.pc = "lost"]
  <2>1. calls' = [calls EXCEPT ![c] = y]  BY <1>3 DEF Lose, Goto
  <2>2. /\ y \in CallTypes /\ y.pc = "lost" /\ y.item = calls[c].item /\ y.dead = calls[c].dead
        /\ y.trigger = calls[c].trigger
    BY <1>1, <1>3 DEF CallTypes, Idle
  <2>. HIDE DEF y
  <2>3. CallFits(y, runs', posts)  BY <1>1, <1>3, <2>2 DEF CallFits
  <2>. QED  BY <1>1, <1>2, <2>1, <2>2, <2>3, Moving
<1>4. CASE calls[c].pc # "commit"
  <2>1. calls' = [calls EXCEPT ![c] = Idle]  BY <1>4 DEF Lose, Return
  <2>2. CallFits(Idle, runs', posts)  BY IdleCall DEF CallFits
  <2>. QED  BY <1>1, <1>2, <1>4, <2>1, <2>2, IdleCall, Moving
<1>. QED  BY <1>3, <1>4

LEMMA Noting ==
  ASSUME EditorialAssumption, IInv, NEW c \in Calls, Note(c)
  PROVE  IInv'
<1>0. calls[c].pc = "note" /\ calls[c].pc \in Early  BY DEF Note, Early
<1>1. /\ TypeOK /\ RunsFit /\ calls[c] \in CallTypes /\ CallFits(calls[c], runs, posts)
      /\ calls[c].trigger # Column /\ calls[c].trigger \in Triggers
      /\ RunFits(calls[c].trigger, runs[calls[c].trigger], posts)
      /\ runs[calls[c].trigger] \in RunTypes
      /\ runs[calls[c].trigger].kind # "unused"
  BY <1>0, EarlyCall DEF CallFits
<1>2. Original(calls[c]) \in Posts  BY <1>1, RunShape DEF Original, RunFits
<1>3. /\ UNCHANGED <<posts, runs, made, trouble>>
      /\ calls' = [calls EXCEPT ![c] = Idle]
      /\ actions' = actions \cup {[kind |-> "regenerate", of |-> Original(calls[c]), after |-> None]}
  BY DEF Note, Return
<1>4. TypeOK'  BY <1>1, <1>2, <1>3, IdleCall DEF TypeOK
<1>5. CallFits(Idle, runs', posts)  BY IdleCall DEF CallFits
<1>6. \A d \in Calls : calls'[d] = IF d = c THEN Idle ELSE calls[d]
  BY <1>1, <1>3 DEF TypeOK
<1>7. RunsFit'  BY <1>1, <1>3 DEF RunsFit
<1>. QED  BY <1>0, <1>3, <1>4, <1>5, <1>6, <1>7, Quiet

\* A call that has come to its commit knows the post it wrote, or found written.
LEMMA Written ==
  ASSUME NEW x \in CallTypes, x.pc \in Early, x.trigger \in Clicks, NEW q \in Posts
  PROVE  /\ [x EXCEPT !.pc = "commit", !.item = q] \in CallTypes
         /\ [x EXCEPT !.pc = "commit", !.item = q].pc = "commit"
         /\ [x EXCEPT !.pc = "commit", !.item = q].item = q
         /\ [x EXCEPT !.pc = "commit", !.item = q].dead = x.dead
         /\ [x EXCEPT !.pc = "commit", !.item = q].trigger = x.trigger
<1>1. x \in [pc : Early, trigger : Triggers, retry : BOOLEAN, dead : BOOLEAN,
             item : Posts \cup {None}]
  BY DEF CallTypes, Early, Idle
<1>. DEFINE y == [x EXCEPT !.pc = "commit", !.item = q]
<1>2. /\ y \in [pc : {"commit"}, trigger : Triggers, retry : BOOLEAN, dead : BOOLEAN,
                item : Posts]
      /\ y.trigger = x.trigger /\ y.dead = x.dead /\ y.item = q
  BY <1>1
<1>3. y \in [pc : {"commit"}, trigger : Clicks, retry : BOOLEAN, dead : BOOLEAN,
             item : Posts]
  BY <1>2
<1>. QED  BY <1>2, <1>3 DEF CallTypes

\* The generation found its post written already.
LEMMA FoundWritten ==
  ASSUME EditorialAssumption, IInv, posts' = posts, actions' = actions,
         made' = made, trouble' = trouble,
         NEW c \in Calls, calls[c].pc \in Early, NEW q \in Posts,
         posts[q].of = Original(calls[c]), posts[q].status # "absent",
         runs' = runs \/ RunPublished(calls[c], q), Published(c, q)
  PROVE  IInv'
<1>. DEFINE t == calls[c].trigger
<1>0. /\ TypeOK /\ RunsFit /\ calls[c] \in CallTypes /\ CallFits(calls[c], runs, posts)
      /\ t \in Triggers /\ runs[t] \in RunTypes
      /\ RunFits(t, runs[t], posts) /\ runs[t].kind # "unused" /\ calls[c].pc # "idle"
  BY EarlyCall
<1>1. /\ RunsFit' /\ runs' \in [Triggers -> RunTypes]
      /\ \A u \in Triggers : runs'[u].kind = runs[u].kind /\ runs'[u].of = runs[u].of
  <2>1. CASE runs' = runs  BY <1>0, <2>1 DEF RunsFit, TypeOK
  <2>2. CASE RunPublished(calls[c], q)
    <3>. DEFINE r == [runs[t] EXCEPT !.status = "published", !.item = q]
    <3>1. runs' = [runs EXCEPT ![t] = r]  BY <1>0, <2>2 DEF RunPublished, TypeOK
    <3>2. /\ r \in RunTypes /\ r.kind = runs[t].kind /\ r.of = runs[t].of /\ r.item = q
      BY <1>0 DEF RunTypes
    <3>. HIDE DEF r
    <3>3. posts[r.item].of = r.of  BY <3>2 DEF Original
    <3>. QED  BY <1>0, <3>1, <3>2, <3>3, RunBecomes
  <2>. QED  BY <2>1, <2>2
<1>2. made' \in 0 .. MaxCalls /\ trouble' \in 0 .. MaxTrouble  BY <1>0 DEF TypeOK
<1>3. CASE t = Column
  <2>1. calls' = [calls EXCEPT ![c] = Idle]  BY <1>3 DEF Published
  <2>2. CallFits(Idle, runs', posts)  BY IdleCall DEF CallFits
  <2>3. calls[c].pc \notin {"commit", "lost"}  BY DEF Early
  <2>. QED  BY <1>1, <1>2, <2>1, <2>2, <2>3, IdleCall, Moving
<1>4. CASE t # Column
  <2>. DEFINE y == [calls[c] EXCEPT !.pc = "commit", !.item = q]
  <2>1. calls' = [calls EXCEPT ![c] = y]  BY <1>4 DEF Published
  <2>2. t \in Clicks  BY <1>0, <1>4 DEF Triggers
  <2>3. /\ y \in CallTypes /\ y.pc = "commit" /\ y.item = q /\ y.trigger = t
        /\ y.dead = calls[c].dead
    BY <1>0, <2>2, Written
  <2>. HIDE DEF y
  <2>4. CallFits(y, runs', posts)  BY <1>0, <1>1, <1>4, <2>3 DEF CallFits, Original
  <2>5. calls[c].pc \notin {"commit", "lost"}  BY DEF Early
  <2>. QED  BY <1>1, <1>2, <2>1, <2>3, <2>4, <2>5, Moving
<1>. QED  BY <1>3, <1>4

LEMMA Preparing ==
  ASSUME EditorialAssumption, IInv, NEW c \in Calls, PrepareGeneration(c)
  PROVE  IInv'
<1>. DEFINE t == calls[c].trigger
            run == runs[t]
            live == run.status = "published" /\ posts[run.item].status = "published"
<1>0. /\ calls[c].pc \in Early /\ UNCHANGED <<posts, actions, made, trouble>>
      /\ {"write", "note"} \subseteq Early
  BY DEF PrepareGeneration, Early
<1>1. /\ TypeOK /\ t \in Triggers /\ run \in RunTypes /\ RunFits(t, run, posts)
      /\ made' \in 0 .. MaxCalls /\ trouble' \in 0 .. MaxTrouble
  BY <1>0, EarlyCall DEF TypeOK
<1>2. CASE live /\ Published(c, run.item) /\ UNCHANGED runs
  <2>1. /\ run.item \in Posts /\ posts[run.item].of = Original(calls[c])
        /\ posts[run.item].status # "absent"
    BY <1>1, <1>2, RunShape DEF RunFits, Original
  <2>. HIDE DEF run
  <2>. QED  BY <1>0, <1>2, <2>1, FoundWritten
<1>3. CASE run.status = "skipped" /\ Unpublished(c) /\ UNCHANGED runs
  <2>1. Return(c) \/ (Goto(c, "note") /\ t # Column)
    BY <1>1, <1>3 DEF Unpublished, RunFits
  <2>. QED  BY <1>0, <1>1, <1>3, <2>1, Going
<1>4. CASE /\ ~live /\ run.status # "skipped"
           /\ Goto(c, "write")
           /\ runs' = [runs EXCEPT ![t].status =
                         IF @ \in {"none", "stale"} THEN "running" ELSE @]
  <2>1. CASE run.status \in {"none", "stale"}
    <3>1. [run EXCEPT !.status = "running"] \in RunTypes  BY <1>1, RunGoes
    <3>2. runs' = [runs EXCEPT ![t] = [run EXCEPT !.status = "running"]]
      BY <1>1, <1>4, <2>1 DEF TypeOK
    <3>3. \E r \in RunTypes :
            /\ runs' = [runs EXCEPT ![t] = r]
            /\ r.kind = runs[t].kind /\ r.of = runs[t].of /\ r.status # "published"
      BY <1>1, <3>1, <3>2 DEF RunTypes
    <3>. QED  BY <1>0, <1>1, <1>4, <3>3, Going
  <2>2. CASE run.status \notin {"none", "stale"}
    <3>1. runs' = [runs EXCEPT ![t].status = run.status]  BY <1>4, <2>2
    <3>2. [run EXCEPT !.status = run.status] = run  BY <1>1 DEF RunTypes
    <3>3. runs' = runs  BY <1>1, <3>1, <3>2 DEF TypeOK
    <3>. QED  BY <1>0, <1>1, <1>4, <3>3, Going
  <2>. QED  BY <2>1, <2>2
<1>. QED  BY <1>2, <1>3, <1>4 DEF PrepareGeneration

LEMMA ReadingOriginal ==
  ASSUME EditorialAssumption, IInv, NEW c \in Calls, ReadOriginal(c)
  PROVE  IInv'
<1>. DEFINE p == Original(calls[c])
            dead == posts[p].status = "superseded" /\ ~Replaced(p)
<1>0. /\ calls[c].pc = "read" /\ calls[c].pc \in Early
      /\ UNCHANGED <<posts, runs, actions, made, trouble>> /\ "fail" \in Early
  BY DEF ReadOriginal, Early
<1>1. /\ TypeOK /\ RunsFit /\ Tables /\ calls[c].trigger \in Triggers
      /\ calls[c] \in CallTypes /\ CallFits(calls[c], runs, posts)
      /\ runs[calls[c].trigger].kind # "unused" /\ calls[c].trigger # Column
      /\ RunFits(calls[c].trigger, runs[calls[c].trigger], posts)
      /\ runs[calls[c].trigger] \in RunTypes
  BY <1>0, EarlyCall DEF CallFits
<1>2. p \in Posts  BY <1>1, RunShape DEF Original, RunFits
<1>3. /\ made' \in 0 .. MaxCalls /\ trouble' \in 0 .. MaxTrouble
      /\ RunsFit' /\ runs' \in [Triggers -> RunTypes]
  BY <1>0, <1>1 DEF TypeOK, RunsFit
<1>4. CASE Return(c) \/ Throw(c)
  BY <1>0, <1>3, <1>4, Going DEF Throw
<1>5. CASE calls' = [calls EXCEPT ![c].pc = "prepare", ![c].dead = dead]
  <2>1. dead => \E r \in Posts : posts[r].of = p /\ posts[r].status # "published"
    <3>. SUFFICES ASSUME dead
                  PROVE \E r \in Posts : posts[r].of = p /\ posts[r].status # "published"
      OBVIOUS
    <3>1. PICK a \in actions : a.of = p /\ a.after \in Posts /\ posts[a.after].of = p
      BY <1>1, <1>2 DEF Tables, SupersededIsNoted, Status
    <3>2. a.after \in Descendants(p)  BY <1>2, <3>1, Line DEF Children
    <3>. QED  BY <3>1, <3>2 DEF Replaced
  <2>. DEFINE y == [calls[c] EXCEPT !.pc = "prepare", !.dead = dead]
  <2>2. calls' = [calls EXCEPT ![c] = y]  BY <1>1, <1>5 DEF TypeOK
  <2>. HIDE DEF p
  <2>3. dead \in BOOLEAN  OBVIOUS
  <2>. HIDE DEF dead
  <2>4. /\ y \in CallTypes /\ y.pc = "prepare" /\ y.trigger = calls[c].trigger
        /\ y.dead = dead
    <3>1. calls[c] \in [pc : Early, trigger : Triggers, retry : BOOLEAN, dead : BOOLEAN,
                        item : Posts \cup {None}]
      BY <1>0, <1>1 DEF CallTypes, Early, Idle
    <3>2. /\ y \in [pc : {"prepare"}, trigger : Triggers, retry : BOOLEAN, dead : BOOLEAN,
                    item : Posts \cup {None}]
          /\ y.trigger = calls[c].trigger /\ y.dead = dead
      BY <2>3, <3>1
    <3>. QED  BY <2>3, <3>1, <3>2 DEF CallTypes
  <2>. HIDE DEF y
  <2>5. CallFits(y, runs', posts)
    BY <1>0, <1>1, <2>1, <2>4 DEF CallFits, p, Original
  <2>. QED  BY <1>0, <1>3, <2>2, <2>4, <2>5, Moving
<1>. QED  BY <1>4, <1>5 DEF ReadOriginal

-----------------------------------------------------------------------------
(* Steps that store a post or retire one *)

PostTypes ==
  [status : {"absent", "published", "superseded", "retracted"},
   of : Posts \cup {None}, nonce : Clicks \cup {None}]

\* What a run refers to and what a call relies on survives any step that keeps the posts
\* there are, and brings none back.
LEMMA FitsStay ==
  ASSUME EditorialAssumption, IInv,
         \A p \in Posts : Exists(p) =>
           /\ posts'[p].of = posts[p].of /\ posts'[p].status # "absent"
           /\ posts[p].status # "published" => posts'[p].status # "published",
         \A t \in Triggers : runs[t].kind # "unused" =>
           runs'[t].kind = runs[t].kind /\ runs'[t].of = runs[t].of
  PROVE  /\ \A t \in Triggers : RunFits(t, runs[t], posts')
         /\ \A c \in Calls : CallFits(calls[c], runs', posts')
<1>0. TypeOK /\ Tables /\ RunsFit /\ CallsFit  BY DEF IInv
<1>1. ASSUME NEW t \in Triggers PROVE RunFits(t, runs[t], posts')
  <2>1. runs[t] \in RunTypes /\ RunFits(t, runs[t], posts)  BY <1>0 DEF TypeOK, RunsFit
  <2>2. runs[t].of # None => runs[t].of \in Posts /\ Exists(runs[t].of)
    BY <2>1, RunShape DEF RunFits, Exists, Status
  <2>3. runs[t].status = "published" => runs[t].item \in Posts /\ Exists(runs[t].item)
    BY <2>1, RunShape DEF RunFits, Exists, Status
  <2>. QED  BY <2>1, <2>2, <2>3 DEF RunFits
<1>2. ASSUME NEW c \in Calls PROVE CallFits(calls[c], runs', posts')
  <2>. DEFINE x == calls[c]
              t == x.trigger
  <2>1. x \in CallTypes /\ CallFits(x, runs, posts)  BY <1>0 DEF TypeOK, CallsFit
  <2>. SUFFICES ASSUME x.pc # "idle" PROVE CallFits(x, runs', posts')
    BY DEF CallFits
  <2>2. /\ t \in Triggers /\ runs[t].kind # "unused" /\ runs[t] \in RunTypes
        /\ RunFits(t, runs[t], posts)
        /\ runs'[t].kind = runs[t].kind /\ runs'[t].of = runs[t].of
    BY <1>0, <2>1, CallShape DEF CallFits, TypeOK, RunsFit
  <2>3. t # Column => runs[t].of # None  BY <2>2, RunShape DEF RunFits
  <2>4. \A r \in Posts : posts[r].of # None => Exists(r)
    BY <1>0 DEF Tables, AbsentIsBlank
  <2>5. x.dead => \E r \in Posts : posts'[r].of = runs[t].of /\ posts'[r].status # "published"
    BY <2>1, <2>3, <2>4 DEF CallFits
  <2>6. x.pc \in {"commit", "lost"} =>
          t # Column /\ x.item \in Posts /\ posts[x.item].of = runs[t].of
    BY <2>1, CallShape DEF CallFits, EditorialAssumption
  <2>7. x.pc \in {"commit", "lost"} => posts'[x.item].of = runs[t].of
    BY <2>3, <2>4, <2>6
  <2>. HIDE DEF x
  <2>. QED  BY <2>1, <2>2, <2>5, <2>7 DEF CallFits
<1>. QED  BY <1>1, <1>2

\* What a change of one post's status leaves as it is.
LEMMA StatusOnly ==
  ASSUME EditorialAssumption, IInv, NEW p \in Posts, Exists(p),
         NEW s \in {"superseded", "retracted"},
         posts' = [posts EXCEPT ![p].status = s], runs' = runs
  PROVE  /\ posts' \in [Posts -> PostTypes]
         /\ posts'[p].status = s
         /\ \A q \in Posts : /\ posts'[q].of = posts[q].of
                             /\ q # p => posts'[q].status = posts[q].status
                             /\ Children(q)' = Children(q)
                             /\ Descendants(q)' = Descendants(q)
         /\ AbsentIsBlank' /\ ParentIsStored' /\ NoCycle' /\ OneForEachKey' /\ SecondAfterGone'
         /\ RunsFit' /\ \A c \in Calls : CallFits(calls[c], runs', posts')
<1>0. TypeOK /\ Tables /\ RunsFit /\ posts \in [Posts -> PostTypes]
  BY DEF IInv, TypeOK, PostTypes
<1>1. /\ posts' \in [Posts -> PostTypes]
      /\ posts'[p].status = s
      /\ \A q \in Posts : /\ posts'[q].of = posts[q].of /\ posts'[q].nonce = posts[q].nonce
                          /\ q # p => posts'[q].status = posts[q].status
  BY <1>0 DEF PostTypes
<1>2. \A q \in Posts : Children(q)' = Children(q)  BY <1>1 DEF Children
<1>3. \A q \in Posts : Descendants(q)' = Descendants(q)
  <2>. TAKE q \in Posts
  <2>1. \A S \in SUBSET Posts : (\A r \in S : Children(r)' \subseteq S)
                                  <=> (\A r \in S : Children(r) \subseteq S)
    BY <1>2
  <2>2. Children(q)' = Children(q)  BY <1>2
  <2>3. Descendants(q)' = {x \in Posts : \A S \in SUBSET Posts :
          Children(q)' \subseteq S /\ (\A r \in S : Children(r)' \subseteq S) => x \in S}
    BY DEF Descendants
  <2>4. \A x \in Posts : x \in Descendants(q)' <=> x \in Descendants(q)
    BY <2>1, <2>2, <2>3 DEF Descendants
  <2>. QED  BY <2>3, <2>4 DEF Descendants
<1>4. \A q \in Posts : /\ Exists(q)' <=> Exists(q)
                       /\ ~Live(q) => ~Live(q)'
  BY <1>0, <1>1 DEF Exists, Status, Live
<1>5. AbsentIsBlank'  BY <1>0, <1>1, <1>4 DEF Tables, AbsentIsBlank
<1>6. ParentIsStored'
  <2>1. \A q \in Posts : posts[q].of # None => posts[q].of \in Posts  BY <1>0 DEF PostTypes
  <2>. QED  BY <1>0, <1>1, <1>4, <2>1 DEF Tables, ParentIsStored
<1>7. NoCycle'  BY <1>0, <1>3 DEF Tables, NoCycle
<1>8. OneForEachKey'  BY <1>0, <1>1, <1>4 DEF Tables, OneForEachKey
<1>9. SecondAfterGone'  BY <1>0, <1>1, <1>4 DEF Tables, SecondAfterGone
<1>10. /\ \A t \in Triggers : RunFits(t, runs[t], posts')
       /\ \A c \in Calls : CallFits(calls[c], runs', posts')
  <2>1. \A q \in Posts : Exists(q) =>
           /\ posts'[q].of = posts[q].of /\ posts'[q].status # "absent"
           /\ posts[q].status # "published" => posts'[q].status # "published"
    BY <1>1 DEF Exists, Status
  <2>. QED  BY <2>1, FitsStay
<1>11. RunsFit'  BY <1>10 DEF RunsFit
<1>. QED  BY <1>1, <1>2, <1>3, <1>5, <1>6, <1>7, <1>8, <1>9, <1>10, <1>11

LEMMA Retracting ==
  ASSUME EditorialAssumption, IInv, NEW p \in Posts, Retract(p)
  PROVE  IInv'
<1>0. TypeOK /\ Tables /\ posts \in [Posts -> PostTypes]
  BY DEF IInv, TypeOK, PostTypes
<1>1. /\ Exists(p) /\ Status(p) \in {"published", "superseded"}
      /\ posts' = [posts EXCEPT ![p].status = "retracted"]
      /\ actions' = actions \cup {Action("retract", p, None)}
      /\ UNCHANGED <<runs, calls, made, trouble>>
  BY DEF Retract, Exists, Status
<1>. DEFINE a0 == Action("retract", p, None)
<1>2. a0.kind = "retract" /\ a0.of = p /\ a0.after = None /\ a0 \in actions'
      /\ actions' = actions \cup {a0}
  BY <1>1 DEF Action
<1>3. a0 \in [kind : {"retract", "regenerate", "correct"}, of : Posts,
              after : Posts \cup {None}]
  BY DEF Action
<1>. HIDE DEF a0
<1>4. /\ posts' \in [Posts -> PostTypes]
      /\ posts'[p].status = "retracted"
      /\ \A q \in Posts : /\ posts'[q].of = posts[q].of
                          /\ q # p => posts'[q].status = posts[q].status
                          /\ Children(q)' = Children(q)
                          /\ Descendants(q)' = Descendants(q)
      /\ AbsentIsBlank' /\ ParentIsStored' /\ NoCycle' /\ OneForEachKey' /\ SecondAfterGone'
      /\ RunsFit' /\ \A c \in Calls : CallFits(calls[c], runs', posts')
  BY <1>1, StatusOnly
<1>5. TypeOK'  BY <1>0, <1>1, <1>2, <1>3, <1>4 DEF TypeOK, PostTypes
<1>6. SupersededIsNoted'
  BY <1>0, <1>2, <1>4 DEF Tables, SupersededIsNoted, Status
<1>7. RetractedForCause'
  <2>. SUFFICES ASSUME NEW q \in Posts, posts'[q].status = "retracted",
                       posts[q].of = None \/ posts'[posts[q].of].status # "retracted"
                PROVE  RetractedIsNoted(q)'
    BY <1>4 DEF RetractedForCause, Status
  <2>1. CASE q = p  BY <1>2, <2>1 DEF RetractedIsNoted
  <2>2. CASE q # p
    <3>1. posts[q].of # None => posts[q].of \in Posts  BY <1>0 DEF PostTypes
    <3>2. RetractedIsNoted(q)
      BY <1>0, <1>4, <2>2, <3>1 DEF Tables, RetractedForCause, Status
    <3>. QED  BY <1>2, <3>2 DEF RetractedIsNoted
  <2>. QED  BY <2>1, <2>2
<1>8. StoriesAreTold'
  <2>. SUFFICES ASSUME NEW q \in Posts, posts'[q].status = "superseded" PROVE Told(q)'
    BY DEF StoriesAreTold, Status
  <2>1. PICK r \in Descendants(q) : Live(r) \/ RetractedIsNoted(r)
    BY <1>0, <1>4 DEF Tables, StoriesAreTold, Told, Status
  <2>2. r \in Posts /\ r \in Descendants(q)'  BY <1>4, <2>1, Line
  <2>3. Live(r)' \/ RetractedIsNoted(r)'
    BY <1>2, <1>4, <2>1, <2>2 DEF Live, Status, RetractedIsNoted
  <2>. QED  BY <2>2, <2>3 DEF Told
<1>9. CallsFit'  BY <1>1, <1>4 DEF CallsFit
<1>10. \A c \in Calls, q \in Posts : RetiringFor(c, q)' <=> RetiringFor(c, q)
  BY <1>1 DEF RetiringFor
<1>11. OriginalRetires'
  BY <1>4, <1>10 DEF IInv, OriginalRetires, Live, Status
<1>12. RetractionHolds'
  <2>. SUFFICES ASSUME NEW o \in Posts, NEW q \in Posts, posts'[o].status = "retracted",
                       q \in Children(o), posts'[q].status = "published",
                       \A a \in actions' : ~(a.of = o /\ a.after \in Posts)
                PROVE  \E c \in Calls : RetiringFor(c, q)
    BY <1>4, <1>10 DEF RetractionHolds, Live, Status
  <2>1. q # p /\ posts[q].status = "published"  BY <1>4
  <2>2. CASE o # p
    BY <1>2, <1>4, <2>1, <2>2 DEF IInv, RetractionHolds, Live, Status
  <2>3. CASE o = p
    <3>1. Status(p) # "superseded"
      BY <1>0, <1>2, <2>3 DEF Tables, SupersededIsNoted
    <3>. QED  BY <1>1, <2>1, <2>3, <3>1 DEF IInv, OriginalRetires, Live, Status
  <2>. QED  BY <2>2, <2>3
<1>. QED  BY <1>4, <1>5, <1>6, <1>7, <1>8, <1>9, <1>11, <1>12 DEF IInv, Tables

\* A call at its commit knows an original, and a replacement of it.
LEMMA AtCommit ==
  ASSUME EditorialAssumption, IInv, NEW c \in Calls, calls[c].pc = "commit"
  PROVE  /\ Original(calls[c]) \in Posts /\ calls[c].item \in Posts
         /\ Exists(Original(calls[c])) /\ Exists(calls[c].item)
         /\ posts[calls[c].item].of = Original(calls[c])
         /\ calls[c].item \in Children(Original(calls[c]))
         /\ calls[c].item \in Descendants(Original(calls[c]))
         /\ calls[c].item # Original(calls[c])
         /\ runs[calls[c].trigger].kind \in {"regenerate", "correct"}
<1>. DEFINE x == calls[c]
            t == x.trigger
<1>1. /\ TypeOK /\ Tables /\ x \in CallTypes /\ CallFits(x, runs, posts)
  BY DEF IInv, TypeOK, CallsFit
<1>2. t \in Clicks /\ t \in Triggers /\ t # Column /\ x.item \in Posts
  BY <1>1, CallShape DEF EditorialAssumption, Triggers
<1>3. /\ runs[t] \in RunTypes /\ RunFits(t, runs[t], posts) /\ runs[t].kind # "unused"
      /\ posts[x.item].of = runs[t].of
  BY <1>1, <1>2 DEF IInv, TypeOK, RunsFit, CallFits
<1>4. /\ runs[t].kind \in {"regenerate", "correct"} /\ runs[t].of \in Posts
      /\ runs[t].of # None /\ Exists(runs[t].of)
  BY <1>2, <1>3, RunShape DEF RunFits, Exists, Status
<1>5. Exists(x.item) /\ x.item \in Children(runs[t].of)
  BY <1>1, <1>2, <1>3, <1>4 DEF Tables, AbsentIsBlank, Children
<1>6. x.item \in Descendants(runs[t].of)  BY <1>4, <1>5, Line
<1>7. x.item # runs[t].of  BY <1>1, <1>4, <1>6 DEF Tables, NoCycle
<1>. QED  BY <1>2, <1>3, <1>4, <1>5, <1>6, <1>7 DEF Original

\* It ends, or its retry is marked as failed.
LEMMA Leaving ==
  ASSUME EditorialAssumption, IInv, NEW c \in Calls, calls[c].pc = "commit",
         Return(c) \/ Goto(c, "fail"), CallFits(calls[c], runs', posts')
  PROVE  /\ calls' \in [Calls -> CallTypes]
         /\ calls'[c].pc \in {"idle", "fail"}
         /\ \A d \in Calls : d # c => calls'[d] = calls[d]
         /\ CallFits(calls'[c], runs', posts')
<1>1. calls \in [Calls -> CallTypes]  BY DEF IInv, TypeOK
<1>2. CASE Return(c)
  <2>1. calls' = [calls EXCEPT ![c] = Idle]  BY <1>2 DEF Return
  <2>2. CallFits(Idle, runs', posts')  BY IdleCall DEF CallFits
  <2>. QED  BY <1>1, <2>1, <2>2, IdleCall
<1>3. CASE Goto(c, "fail")
  <2>. DEFINE y == [calls[c] EXCEPT !.pc = "fail"]
  <2>1. calls' = [calls EXCEPT ![c] = y]  BY <1>3 DEF Goto
  <2>2. /\ y \in CallTypes /\ y.pc = "fail" /\ y.trigger = calls[c].trigger
        /\ y.dead = calls[c].dead
    BY <1>1 DEF CallTypes, Idle, Triggers
  <2>. HIDE DEF y
  <2>3. CallFits(y, runs', posts')  BY <2>2 DEF CallFits
  <2>. QED  BY <1>1, <2>1, <2>2, <2>3
<1>. QED  BY <1>2, <1>3

LEMMA Superseding ==
  ASSUME EditorialAssumption, IInv, NEW c \in Calls, calls[c].pc = "commit",
         Retires(Original(calls[c])),
         posts' = Superseded(Original(calls[c])),
         actions' = actions \cup {Action(runs[calls[c].trigger].kind, Original(calls[c]),
                                         calls[c].item)},
         UNCHANGED <<runs, made, trouble>>, Return(c)
  PROVE  IInv'
<1>. DEFINE p == Original(calls[c])
            i == calls[c].item
            a0 == Action(runs[calls[c].trigger].kind, p, i)
<1>0. /\ TypeOK /\ Tables /\ posts \in [Posts -> PostTypes]
      /\ p \in Posts /\ i \in Posts /\ Exists(p) /\ Exists(i) /\ posts[i].of = p
      /\ i \in Children(p) /\ i \in Descendants(p) /\ i # p
  BY AtCommit DEF IInv, TypeOK, PostTypes
<1>1. Status(p) # "retracted" /\ posts' = [posts EXCEPT ![p].status = "superseded"]
      /\ runs' = runs
  BY DEF Retires, Superseded, Status
<1>2. /\ a0 \in [kind : {"retract", "regenerate", "correct"}, of : Posts,
                 after : Posts \cup {None}]
      /\ a0.of = p /\ a0.after = i /\ a0 \in actions' /\ actions' = actions \cup {a0}
  BY <1>0, AtCommit DEF Action
<1>. HIDE DEF p, i, a0
<1>3. /\ posts' \in [Posts -> PostTypes]
      /\ posts'[p].status = "superseded"
      /\ \A q \in Posts : /\ posts'[q].of = posts[q].of
                          /\ q # p => posts'[q].status = posts[q].status
                          /\ Children(q)' = Children(q)
                          /\ Descendants(q)' = Descendants(q)
      /\ AbsentIsBlank' /\ ParentIsStored' /\ NoCycle' /\ OneForEachKey' /\ SecondAfterGone'
      /\ RunsFit' /\ \A d \in Calls : CallFits(calls[d], runs', posts')
  BY <1>0, <1>1, StatusOnly
<1>4. /\ calls' \in [Calls -> CallTypes]
      /\ calls'[c].pc \in {"idle", "fail"}
      /\ \A d \in Calls : d # c => calls'[d] = calls[d]
      /\ CallFits(calls'[c], runs', posts')
  BY <1>3, Leaving
<1>5. TypeOK'  BY <1>0, <1>2, <1>3, <1>4 DEF TypeOK, PostTypes
<1>6. CallsFit'  BY <1>3, <1>4 DEF CallsFit
<1>7. SupersededIsNoted'
  <2>. SUFFICES ASSUME NEW q \in Posts, posts'[q].status = "superseded"
                PROVE  \E a \in actions' : a.of = q /\ a.after \in Posts /\ posts'[a.after].of = q
    BY DEF SupersededIsNoted, Status
  <2>1. CASE q = p  BY <1>0, <1>2, <1>3, <2>1
  <2>2. CASE q # p
    BY <1>0, <1>2, <1>3, <2>2 DEF Tables, SupersededIsNoted, Status
  <2>. QED  BY <2>1, <2>2
<1>8. \A q \in Posts : RetractedIsNoted(q) => RetractedIsNoted(q)'
  BY <1>2 DEF RetractedIsNoted
<1>9. RetractedForCause'
  <2>. SUFFICES ASSUME NEW q \in Posts, posts'[q].status = "retracted",
                       posts[q].of = None \/ posts'[posts[q].of].status # "retracted"
                PROVE  RetractedIsNoted(q)'
    BY <1>3 DEF RetractedForCause, Status
  <2>1. q # p /\ posts[q].status = "retracted"  BY <1>3
  <2>2. posts[q].of # None => posts[q].of \in Posts  BY <1>0 DEF PostTypes
  <2>3. posts[q].of = None \/ posts[posts[q].of].status # "retracted"
    BY <1>1, <1>3, <2>2 DEF Status
  <2>. QED  BY <1>0, <1>8, <2>1, <2>3 DEF Tables, RetractedForCause, Status
<1>10. StoriesAreTold'
  <2>1. ASSUME NEW q \in Posts, NEW r \in Descendants(q), r # p, Live(r) \/ RetractedIsNoted(r)
        PROVE  Told(q)'
    <3>1. r \in Posts /\ r \in Descendants(q)'  BY <1>3, <2>1, Line
    <3>2. Live(r)' \/ RetractedIsNoted(r)'  BY <1>3, <1>8, <2>1, <3>1 DEF Live, Status
    <3>. QED  BY <3>1, <3>2 DEF Told
  <2>2. PICK r \in Descendants(p) : Live(r) \/ RetractedIsNoted(r)
    <3>1. CASE Live(i)  BY <1>0, <3>1
    <3>2. CASE Status(i) = "superseded"
      <4>1. Told(i)  BY <1>0, <3>2 DEF Tables, StoriesAreTold
      <4>2. Descendants(i) \subseteq Descendants(p)  BY <1>0, Line
      <4>. QED  BY <4>1, <4>2 DEF Told
    <3>3. CASE Status(i) = "retracted"
      BY <1>0, <1>1, <3>3 DEF Tables, RetractedForCause
    <3>4. Status(i) \in {"published", "superseded", "retracted"}
      BY <1>0 DEF Exists, Status, PostTypes
    <3>. QED  BY <3>1, <3>2, <3>3, <3>4 DEF Live
  <2>3. r # p  BY <1>0, <2>2 DEF Tables, NoCycle
  <2>. SUFFICES ASSUME NEW q \in Posts, posts'[q].status = "superseded" PROVE Told(q)'
    BY DEF StoriesAreTold, Status
  <2>4. CASE q = p  BY <2>1, <2>2, <2>3, <2>4
  <2>5. CASE q # p
    <3>1. PICK s \in Descendants(q) : Live(s) \/ RetractedIsNoted(s)
      BY <1>0, <1>3, <2>5 DEF Tables, StoriesAreTold, Told, Status
    <3>2. CASE s # p  BY <2>1, <3>1, <3>2
    <3>3. CASE s = p
      <4>1. r \in Descendants(q)  BY <2>2, <3>1, <3>3, Line
      <4>. QED  BY <2>1, <2>2, <2>3, <4>1
    <3>. QED  BY <3>2, <3>3
  <2>. QED  BY <2>4, <2>5
<1>11. \A d \in Calls, q \in Posts : RetiringFor(d, q) => RetiringFor(d, q)' \/ q = i
  BY <1>4 DEF RetiringFor, i
<1>12. OriginalRetires'
  <2>. SUFFICES ASSUME NEW o \in Posts, NEW q \in Posts, posts'[o].status = "published",
                       q \in Children(o), posts'[q].status # "retracted"
                PROVE  \E d \in Calls : RetiringFor(d, q)'
    BY <1>3 DEF OriginalRetires, Live, Status
  <2>1. o # p /\ posts[o].status = "published" /\ posts[q].of = o  BY <1>3 DEF Children
  <2>2. q # i  BY <1>0, <2>1
  <2>3. posts[q].status # "retracted"  BY <1>1, <1>3 DEF Status
  <2>4. PICK d \in Calls : RetiringFor(d, q)
    BY <2>1, <2>3 DEF IInv, OriginalRetires, Live, Status
  <2>. QED  BY <1>11, <2>2, <2>4
<1>13. RetractionHolds'
  <2>. SUFFICES ASSUME NEW o \in Posts, NEW q \in Posts, posts'[o].status = "retracted",
                       q \in Children(o), posts'[q].status = "published",
                       \A a \in actions' : ~(a.of = o /\ a.after \in Posts)
                PROVE  \E d \in Calls : RetiringFor(d, q)'
    BY <1>3 DEF RetractionHolds, Live, Status
  <2>1. o # p /\ posts[o].status = "retracted" /\ posts[q].of = o  BY <1>3 DEF Children
  <2>2. q # i  BY <1>0, <2>1
  <2>3. posts[q].status = "published"  BY <1>3
  <2>4. PICK d \in Calls : RetiringFor(d, q)
    BY <1>2, <2>1, <2>3 DEF IInv, RetractionHolds, Live, Status
  <2>. QED  BY <1>11, <2>2, <2>4
<1>. QED
  BY <1>3, <1>5, <1>6, <1>7, <1>9, <1>10, <1>12, <1>13 DEF IInv, Tables

\* A retracted version of q has, above it and below q, one that was retracted on purpose.
LEMMA RetractedOnPurpose ==
  ASSUME EditorialAssumption, IInv, NEW q \in Posts, Status(q) = "superseded",
         NEW i \in Descendants(q), Status(i) = "retracted"
  PROVE  \E z \in Descendants(q) : RetractedIsNoted(z)
<1>. SUFFICES ASSUME \A z \in Descendants(q) : ~RetractedIsNoted(z) PROVE FALSE
  OBVIOUS
<1>. DEFINE S == {y \in Descendants(q) : Status(y) # "retracted"}
<1>1. S \subseteq Posts /\ S \subseteq Descendants(q)  BY Line
<1>2. \A y \in Descendants(q) :
        posts[y].of = q \/ posts[y].of \in S => y \in S
  BY <1>1, Line DEF IInv, Tables, RetractedForCause
<1>3. Children(q) \subseteq S  BY <1>2, Line DEF Children
<1>4. \A r \in S : Children(r) \subseteq S
  BY <1>1, <1>2, Line DEF Children
<1>5. Descendants(q) \subseteq S  BY <1>1, <1>3, <1>4, Line
<1>. QED  BY <1>5

\* The post above a descendant of q is q, or a descendant of it.
LEMMA Above ==
  ASSUME NEW q \in Posts, NEW i \in Descendants(q)
  PROVE  posts[i].of = q \/ posts[i].of \in Descendants(q)
<1>. DEFINE S == {y \in Descendants(q) : posts[y].of = q \/ posts[y].of \in Descendants(q)}
<1>1. S \subseteq Posts /\ Children(q) \subseteq S /\ \A r \in S : Children(r) \subseteq S
  BY Line DEF Children
<1>2. Descendants(q) \subseteq S  BY <1>1, Line
<1>. QED  BY <1>2

LEMMA Withdrawing ==
  ASSUME EditorialAssumption, IInv, NEW c \in Calls, calls[c].pc = "commit",
         ~Retires(Original(calls[c])), posts' = Withdrawn(calls[c].item),
         UNCHANGED <<runs, actions, made, trouble>>, Throw(c)
  PROVE  IInv'
<1>. DEFINE p == Original(calls[c])
            i == calls[c].item
<1>0. /\ TypeOK /\ Tables /\ posts \in [Posts -> PostTypes]
      /\ p \in Posts /\ i \in Posts /\ Exists(p) /\ Exists(i) /\ posts[i].of = p
      /\ i \in Children(p) /\ i \in Descendants(p) /\ i # p
  BY AtCommit DEF IInv, TypeOK, PostTypes
<1>1. /\ Status(p) = "retracted" /\ runs' = runs /\ actions' = actions
      /\ made' = made /\ trouble' = trouble /\ p # None
  BY <1>0 DEF Retires, Status, EditorialAssumption
<1>2. Return(c) \/ Goto(c, "fail")  BY DEF Throw
<1>. HIDE DEF p
<1>3. CASE ~Live(i)
  <2>1. posts' = posts
    BY <1>0, <1>3 DEF Withdrawn, Live, Status, PostTypes
  <2>2. RunsFit' /\ CallFits(calls[c], runs', posts')
    BY <1>1, <2>1 DEF IInv, RunsFit, CallsFit
  <2>3. /\ calls' \in [Calls -> CallTypes]
        /\ \A d \in Calls : d # c => calls'[d] = calls[d]
        /\ CallFits(calls'[c], runs', posts')
    BY <1>2, <2>2, Leaving
  <2>4. TypeOK'  BY <1>0, <1>1, <2>1, <2>3 DEF TypeOK
  <2>5. ~Live(posts[i].of)  BY <1>0, <1>1 DEF Live
  <2>. HIDE DEF i
  <2>6. \A d \in Calls :
          \/ calls'[d] = calls[d]
          \/ /\ CallFits(calls'[d], runs', posts)
             /\ ~Live(calls[d].item) /\ ~Live(posts[calls[d].item].of)
    BY <1>3, <2>1, <2>3, <2>5 DEF i
  <2>. QED  BY <1>1, <2>1, <2>2, <2>4, <2>6, Quiet
<1>4. CASE Live(i)
  <2>1. posts' = [posts EXCEPT ![i].status = "retracted"]
    BY <1>0, <1>4 DEF Withdrawn, Live, Status, PostTypes
  <2>. HIDE DEF i
  <2>2. /\ posts' \in [Posts -> PostTypes]
        /\ posts'[i].status = "retracted"
        /\ \A q \in Posts : /\ posts'[q].of = posts[q].of
                            /\ q # i => posts'[q].status = posts[q].status
                            /\ Children(q)' = Children(q)
                            /\ Descendants(q)' = Descendants(q)
        /\ AbsentIsBlank' /\ ParentIsStored' /\ NoCycle' /\ OneForEachKey' /\ SecondAfterGone'
        /\ RunsFit' /\ \A d \in Calls : CallFits(calls[d], runs', posts')
    BY <1>0, <1>1, <2>1, StatusOnly
  <2>3. /\ calls' \in [Calls -> CallTypes]
        /\ \A d \in Calls : d # c => calls'[d] = calls[d]
        /\ CallFits(calls'[c], runs', posts')
    BY <1>2, <2>2, Leaving
  <2>4. TypeOK'  BY <1>0, <1>1, <2>2, <2>3 DEF TypeOK, PostTypes
  <2>5. CallsFit'  BY <2>2, <2>3 DEF CallsFit
  <2>6. SupersededIsNoted'
    BY <1>0, <1>1, <2>2 DEF Tables, SupersededIsNoted, Status
  <2>7. \A q \in Posts : RetractedIsNoted(q)' <=> RetractedIsNoted(q)
    BY <1>1 DEF RetractedIsNoted
  <2>8. RetractedForCause'
    <3>. SUFFICES ASSUME NEW q \in Posts, posts'[q].status = "retracted",
                         posts[q].of = None \/ posts'[posts[q].of].status # "retracted"
                  PROVE  RetractedIsNoted(q)'
      BY <2>2 DEF RetractedForCause, Status
    <3>1. q # i  BY <1>0, <1>1, <2>2 DEF Status
    <3>2. posts[q].of # None => posts[q].of \in Posts  BY <1>0 DEF PostTypes
    <3>3. /\ posts[q].status = "retracted"
          /\ posts[q].of = None \/ posts[posts[q].of].status # "retracted"
      BY <1>0, <2>2, <3>1, <3>2
    <3>. QED  BY <1>0, <2>7, <3>3 DEF Tables, RetractedForCause, Status
  <2>9. StoriesAreTold'
    <3>. SUFFICES ASSUME NEW q \in Posts, posts'[q].status = "superseded" PROVE Told(q)'
      BY DEF StoriesAreTold, Status
    <3>1. Status(q) = "superseded"  BY <1>0, <1>4, <2>2 DEF Status
    <3>2. PICK r \in Descendants(q) : Live(r) \/ RetractedIsNoted(r)
      BY <1>0, <3>1 DEF Tables, StoriesAreTold, Told
    <3>3. r \in Posts /\ Descendants(q) = Descendants(q)'  BY <2>2, <3>2, Line
    <3>4. CASE r # i
      <4>1. Live(r)' \/ RetractedIsNoted(r)'
        BY <2>2, <2>7, <3>2, <3>3, <3>4 DEF Live, Status
      <4>. QED  BY <3>2, <3>3, <4>1 DEF Told
    <3>5. CASE r = i
      <4>1. p \in Descendants(q)  BY <1>0, <1>1, <3>1, <3>2, <3>5, Above
      <4>2. PICK z \in Descendants(q) : RetractedIsNoted(z)
        BY <1>1, <3>1, <4>1, RetractedOnPurpose
      <4>3. z \in Posts /\ RetractedIsNoted(z)'  BY <2>7, <4>2, Line
      <4>. QED  BY <3>3, <4>2, <4>3 DEF Told
    <3>. QED  BY <3>4, <3>5
  <2>10. \A d \in Calls, q \in Posts : RetiringFor(d, q) => RetiringFor(d, q)' \/ q = i
    BY <2>3 DEF RetiringFor, i
  <2>11. OriginalRetires'
    <3>. SUFFICES ASSUME NEW o \in Posts, NEW q \in Posts, posts'[o].status = "published",
                         q \in Children(o), posts'[q].status # "retracted"
                  PROVE  \E d \in Calls : RetiringFor(d, q)'
      BY <2>2 DEF OriginalRetires, Live, Status
    <3>1. o # i /\ q # i /\ posts[o].status = "published" /\ posts[q].status # "retracted"
      BY <2>2
    <3>2. PICK d \in Calls : RetiringFor(d, q)
      BY <3>1 DEF IInv, OriginalRetires, Live, Status
    <3>. QED  BY <2>10, <3>1, <3>2
  <2>12. RetractionHolds'
    <3>. SUFFICES ASSUME NEW o \in Posts, NEW q \in Posts, posts'[o].status = "retracted",
                         q \in Children(o), posts'[q].status = "published",
                         \A a \in actions' : ~(a.of = o /\ a.after \in Posts)
                  PROVE  \E d \in Calls : RetiringFor(d, q)'
      BY <2>2 DEF RetractionHolds, Live, Status
    <3>1. q # i /\ posts[q].status = "published" /\ actions' = actions  BY <1>1, <2>2
    <3>2. PICK d \in Calls : RetiringFor(d, q)
      <4>1. CASE o = i  BY <1>4, <3>1, <4>1 DEF IInv, OriginalRetires, Live, Status
      <4>2. CASE o # i
        BY <2>2, <3>1, <4>2 DEF IInv, RetractionHolds, Live, Status
      <4>. QED  BY <4>1, <4>2
    <3>. QED  BY <2>10, <3>1, <3>2
  <2>. QED
    BY <2>2, <2>4, <2>5, <2>6, <2>8, <2>9, <2>11, <2>12 DEF IInv, Tables
<1>. QED  BY <1>3, <1>4

LEMMA Committing ==
  ASSUME EditorialAssumption, IInv, NEW c \in Calls, CommitReplacement(c)
  PROVE  IInv'
BY Superseding, Withdrawing DEF CommitReplacement

\* A post is stored under a key no other post has.
LEMMA InsertedPost ==
  ASSUME EditorialAssumption, IInv, NEW q \in Posts, ~Exists(q),
         NEW o \in Posts \cup {None}, NEW n \in Clicks \cup {None},
         o # None => Exists(o),
         n # None => o # None /\ \E r \in Posts : posts[r].of = o /\ ~Live(r),
         \A r \in Posts : Exists(r) => posts[r].of # o \/ posts[r].nonce # n,
         posts' = [posts EXCEPT ![q] = [status |-> "published", of |-> o, nonce |-> n]]
  PROVE  /\ posts' \in [Posts -> PostTypes]
         /\ posts'[q] = [status |-> "published", of |-> o, nonce |-> n]
         /\ posts[q].of = None
         /\ \A r \in Posts : r # q => posts'[r] = posts[r]
         /\ \A p \in Posts : posts[p].of # q /\ posts'[p].of # q
         /\ \A p \in Posts : p # q => Descendants(p) \subseteq Descendants(p)'
         /\ AbsentIsBlank' /\ ParentIsStored' /\ NoCycle' /\ OneForEachKey' /\ SecondAfterGone'
<1>0. TypeOK /\ Tables /\ posts \in [Posts -> PostTypes]
  BY DEF IInv, TypeOK, PostTypes
<1>1. /\ posts'[q] = [status |-> "published", of |-> o, nonce |-> n]
      /\ \A r \in Posts : r # q => posts'[r] = posts[r]
  BY <1>0
<1>2. posts' \in [Posts -> PostTypes]  BY <1>0 DEF PostTypes
<1>3. q # None /\ o # q  BY DEF EditorialAssumption
<1>4. posts[q].of = None  BY <1>0 DEF Tables, AbsentIsBlank
<1>5. \A p \in Posts : posts[p].of # q /\ posts'[p].of # q
  <2>. TAKE p \in Posts
  <2>1. posts[p].of # q  BY <1>0, <1>3 DEF Tables, ParentIsStored
  <2>. QED  BY <1>1, <1>3, <2>1
<1>6. /\ Children(q)' = {}
      /\ \A p \in Posts : /\ Children(p) \subseteq Children(p)'
                          /\ Children(p)' \subseteq Children(p) \cup {q}
  <2>1. Children(q)' = {}  BY <1>5 DEF Children
  <2>2. ASSUME NEW p \in Posts
        PROVE  Children(p) \subseteq Children(p)' /\ Children(p)' \subseteq Children(p) \cup {q}
    <3>1. p # None  BY DEF EditorialAssumption
    <3>. QED  BY <1>1, <1>4, <3>1 DEF Children
  <2>. QED  BY <2>1, <2>2
<1>7. \A p \in Posts : Descendants(p) \subseteq Descendants(p)'
  <2>. SUFFICES ASSUME NEW p \in Posts, NEW x \in Descendants(p) PROVE x \in Descendants(p)'
    OBVIOUS
  <2>1. ASSUME NEW S \in SUBSET Posts, Children(p)' \subseteq S,
               \A r \in S : Children(r)' \subseteq S
        PROVE  x \in S
    BY <1>6, <2>1 DEF Descendants
  <2>. QED  BY <2>1 DEF Descendants
<1>8. \A p \in Posts : p # q => Descendants(p)' \subseteq Descendants(p) \cup {q}
  <2>. SUFFICES ASSUME NEW p \in Posts, p # q
                PROVE  Descendants(p)' \subseteq Descendants(p) \cup {q}
    OBVIOUS
  <2>. DEFINE S == Descendants(p) \cup {q}
  <2>1. S \in SUBSET Posts /\ Children(p)' \subseteq S  BY <1>6, Line
  <2>2. \A r \in S : Children(r)' \subseteq S  BY <1>6, Line
  <2>. HIDE DEF S
  <2>3. Descendants(p)' \subseteq S  BY <2>1, <2>2 DEF Descendants
  <2>. QED  BY <2>3 DEF S
<1>9. Descendants(q)' = {}
  <2>1. \A x \in Descendants(q)' : x \in {}
    <3>1. {} \in SUBSET Posts  OBVIOUS
    <3>. QED  BY <1>6, <3>1 DEF Descendants
  <2>. QED  BY <2>1
<1>10. NoCycle'  BY <1>0, <1>8, <1>9 DEF Tables, NoCycle
<1>11. AbsentIsBlank' /\ ParentIsStored'
  <2>1. \A r \in Posts : Exists(r)' <=> (Exists(r) \/ r = q)  BY <1>1 DEF Exists, Status
  <2>2. \A r \in Posts : posts[r].of \in Posts \cup {None}  BY <1>0 DEF PostTypes
  <2>3. AbsentIsBlank'  BY <1>0, <1>1, <2>1 DEF Tables, AbsentIsBlank
  <2>4. ASSUME NEW r \in Posts, posts'[r].of # None
        PROVE  posts'[posts'[r].of].status # "absent"
    <3>1. posts'[r].of \in Posts /\ Exists(posts'[r].of)
      BY <1>0, <1>1, <2>2, <2>4 DEF Tables, ParentIsStored
    <3>. QED  BY <1>1, <3>1 DEF Exists, Status
  <2>5. ParentIsStored'  BY <2>4 DEF ParentIsStored, Exists, Status
  <2>. QED  BY <2>3, <2>5
<1>12. OneForEachKey'
  <2>. SUFFICES ASSUME NEW a \in Posts, NEW b \in Posts, a # b, Exists(a)', Exists(b)',
                       posts'[a].of = posts'[b].of, posts'[a].nonce = posts'[b].nonce
                PROVE  FALSE
    BY DEF OneForEachKey, Exists, Status
  <2>1. CASE a # q /\ b # q
    BY <1>0, <1>1, <2>1 DEF Tables, OneForEachKey, Exists, Status
  <2>2. CASE a = q  BY <1>1, <2>2 DEF Exists, Status
  <2>3. CASE b = q  BY <1>1, <2>3 DEF Exists, Status
  <2>. QED  BY <2>1, <2>2, <2>3
<1>13. SecondAfterGone'
  <2>1. \A x \in Posts, r \in Posts :
          x # None /\ posts[r].of = x /\ ~Live(r) => posts'[r].of = x /\ ~Live(r)'
    BY <1>1, <1>4 DEF Live, Status
  <2>2. ASSUME NEW r \in Posts, posts'[r].nonce # None
        PROVE  /\ posts'[r].of # None
               /\ \E s \in Posts : posts'[s].of = posts'[r].of /\ ~Live(s)'
    <3>1. CASE r = q  BY <1>1, <2>1, <2>2, <3>1
    <3>2. CASE r # q
      <4>1. posts'[r] = posts[r] /\ posts[r].nonce # None  BY <1>1, <2>2, <3>2
      <4>2. posts[r].of # None /\ \E s \in Posts : posts[s].of = posts[r].of /\ ~Live(s)
        BY <1>0, <4>1 DEF Tables, SecondAfterGone
      <4>3. posts[r].of \in Posts  BY <1>0, <4>2 DEF PostTypes
      <4>. QED  BY <2>1, <4>1, <4>2, <4>3
    <3>. QED  BY <3>1, <3>2
  <2>. QED  BY <2>2 DEF SecondAfterGone, Live, Status
<1>. QED  BY <1>1, <1>2, <1>4, <1>5, <1>7, <1>10, <1>11, <1>12, <1>13

\* A draft is published, and its call goes on to retire the original.
LEMMA Inserting ==
  ASSUME EditorialAssumption, IInv, NEW c \in Calls, calls[c].pc = "write",
         NEW q \in Posts, ~Exists(q), Stored(DedupKey(calls[c])) = {},
         posts' = [posts EXCEPT ![q] =
                     [status |-> "published", of |-> DedupKey(calls[c]).of,
                      nonce |-> DedupKey(calls[c]).nonce]],
         RunPublished(calls[c], q), Published(c, q),
         UNCHANGED <<actions, made, trouble>>
  PROVE  IInv'
<1>. DEFINE x == calls[c]
            t == x.trigger
            o == Original(x)
            n == DedupKey(x).nonce
            ran == [runs[t] EXCEPT !.status = "published", !.item = q]
            y == IF t = Column THEN Idle ELSE [x EXCEPT !.pc = "commit", !.item = q]
<1>0. /\ TypeOK /\ Tables /\ x \in CallTypes /\ CallFits(x, runs, posts)
      /\ x.pc \in Early /\ x.pc = "write" /\ t \in Triggers
      /\ runs[t] \in RunTypes /\ RunFits(t, runs[t], posts) /\ runs[t].kind # "unused"
  BY EarlyCall DEF Early
<1>1. /\ o \in Posts \cup {None} /\ (o # None => Exists(o)) /\ (o # None <=> t # Column)
      /\ o = runs[t].of /\ DedupKey(x).of = o
  BY <1>0, RunShape DEF RunFits, Original, Exists, Status, DedupKey
<1>2. /\ n \in Clicks \cup {None}
      /\ n # None => x.dead
  BY <1>0 DEF DedupKey, CallFits, Triggers
<1>3. n # None => o # None /\ \E r \in Posts : posts[r].of = o /\ ~Live(r)
  BY <1>0, <1>1, <1>2 DEF CallFits, Live, Status
<1>4. \A r \in Posts : Exists(r) => posts[r].of # o \/ posts[r].nonce # n
  BY <1>1 DEF Stored, Exists, Status
<1>5. posts' = [posts EXCEPT ![q] = [status |-> "published", of |-> o, nonce |-> n]]
  BY <1>1
<1>6. /\ ran \in RunTypes /\ ran.kind = runs[t].kind /\ ran.of = o
      /\ ran.status = "published" /\ ran.item = q
  BY <1>0, <1>1 DEF RunTypes
<1>7. runs' = [runs EXCEPT ![t] = ran]  BY <1>0 DEF RunPublished, TypeOK
<1>8. calls' = [calls EXCEPT ![c] = y]  BY DEF Published
<1>9. /\ y \in CallTypes
      /\ t # Column => y.pc = "commit" /\ y.item = q /\ y.trigger = t /\ y.dead = x.dead
      /\ t = Column => y = Idle
  <2>1. CASE t = Column  BY <2>1, IdleCall
  <2>2. CASE t # Column
    <3>1. t \in Clicks  BY <1>0, <2>2 DEF Triggers
    <3>. HIDE DEF x
    <3>. QED  BY <1>0, <2>2, <3>1, Written
  <2>. QED  BY <2>1, <2>2
<1>. HIDE DEF o, n, ran, y
<1>10. /\ posts' \in [Posts -> PostTypes]
       /\ posts'[q] = [status |-> "published", of |-> o, nonce |-> n]
       /\ posts[q].of = None
       /\ \A r \in Posts : r # q => posts'[r] = posts[r]
       /\ \A p \in Posts : posts[p].of # q /\ posts'[p].of # q
       /\ \A p \in Posts : p # q => Descendants(p) \subseteq Descendants(p)'
       /\ AbsentIsBlank' /\ ParentIsStored' /\ NoCycle' /\ OneForEachKey' /\ SecondAfterGone'
  <2>. HIDE DEF x, t
  <2>1. o \in Posts \cup {None} /\ n \in Clicks \cup {None} /\ ~Exists(q)
    BY <1>1, <1>2
  <2>2. o # None => Exists(o)  BY <1>1
  <2>. QED  BY <1>3, <1>4, <1>5, <2>1, <2>2, InsertedPost
<1>11. /\ runs' \in [Triggers -> RunTypes] /\ runs'[t] = ran
       /\ \A u \in Triggers : u # t => runs'[u] = runs[u]
       /\ \A u \in Triggers : runs'[u].kind = runs[u].kind /\ runs'[u].of = runs[u].of
  BY <1>0, <1>1, <1>6, <1>7 DEF TypeOK
<1>12. /\ calls' \in [Calls -> CallTypes] /\ calls'[c] = y
       /\ \A d \in Calls : d # c => calls'[d] = calls[d]
  BY <1>0, <1>8, <1>9 DEF TypeOK
<1>13. /\ \A u \in Triggers : RunFits(u, runs[u], posts')
       /\ \A d \in Calls : CallFits(calls[d], runs', posts')
  <2>1. \A p \in Posts : Exists(p) =>
           /\ posts'[p].of = posts[p].of /\ posts'[p].status # "absent"
           /\ posts[p].status # "published" => posts'[p].status # "published"
    BY <1>10 DEF Exists, Status
  <2>. QED  BY <1>11, <2>1, FitsStay
<1>14. RunsFit'
  <2>1. RunFits(t, ran, posts')  BY <1>0, <1>1, <1>6, <1>10, <1>13 DEF RunFits
  <2>. QED  BY <1>11, <1>13, <2>1 DEF RunsFit
<1>15. CallsFit'
  <2>1. CallFits(y, runs', posts')
    <3>1. CASE t = Column  BY <1>9, <3>1, IdleCall DEF CallFits
    <3>2. CASE t # Column
      <4>1. CallFits(x, runs', posts')  BY <1>13
      <4>. QED  BY <1>0, <1>1, <1>9, <1>10, <1>11, <3>2, <4>1 DEF CallFits
    <3>. QED  BY <3>1, <3>2
  <2>. QED  BY <1>12, <1>13, <2>1 DEF CallsFit
<1>16. TypeOK'  BY <1>0, <1>10, <1>11, <1>12 DEF TypeOK, PostTypes
<1>17. \A p \in Posts : /\ RetractedIsNoted(p)' <=> RetractedIsNoted(p)
                        /\ Live(p) => Live(p)'
  BY <1>10 DEF RetractedIsNoted, Live, Status
<1>18. SupersededIsNoted'
  <2>. SUFFICES ASSUME NEW p \in Posts, posts'[p].status = "superseded"
                PROVE  \E a \in actions : a.of = p /\ a.after \in Posts /\ posts'[a.after].of = p
    BY DEF SupersededIsNoted, Status
  <2>1. p # q /\ p # None /\ posts[p].status = "superseded"
    BY <1>10 DEF EditorialAssumption
  <2>2. PICK a \in actions : a.of = p /\ a.after \in Posts /\ posts[a.after].of = p
    BY <1>0, <2>1 DEF Tables, SupersededIsNoted, Status
  <2>3. a.after # q  BY <1>10, <2>1, <2>2
  <2>. QED  BY <1>10, <2>2, <2>3
<1>19. RetractedForCause'
  <2>. SUFFICES ASSUME NEW r \in Posts, posts'[r].status = "retracted",
                       posts'[r].of = None \/ posts'[posts'[r].of].status # "retracted"
                PROVE  RetractedIsNoted(r)
    BY <1>17 DEF RetractedForCause, Status
  <2>1. posts[r].status = "retracted" /\ posts'[r] = posts[r]  BY <1>10
  <2>2. posts[r].of = None \/ (posts[r].of \in Posts /\ posts[r].of # q)
    BY <1>0, <1>10 DEF TypeOK
  <2>. QED  BY <1>0, <1>10, <2>1, <2>2 DEF Tables, RetractedForCause, Status
<1>20. StoriesAreTold'
  <2>. SUFFICES ASSUME NEW p \in Posts, posts'[p].status = "superseded" PROVE Told(p)'
    BY DEF StoriesAreTold, Status
  <2>1. p # q /\ posts[p].status = "superseded"  BY <1>10
  <2>2. PICK r \in Descendants(p) : Live(r) \/ RetractedIsNoted(r)
    BY <1>0, <2>1 DEF Tables, StoriesAreTold, Told, Status
  <2>3. r \in Posts /\ r \in Descendants(p)'  BY <1>10, <2>1, <2>2, Line
  <2>. QED  BY <1>17, <2>2, <2>3 DEF Told
<1>21. /\ \A d \in Calls, p \in Posts : RetiringFor(d, p) => RetiringFor(d, p)'
       /\ t # Column => RetiringFor(c, q)'
  BY <1>0, <1>9, <1>12 DEF RetiringFor
<1>22. OriginalRetires'
  <2>. SUFFICES ASSUME NEW p \in Posts, NEW r \in Posts, posts'[p].status = "published",
                       posts'[r].of = p, posts'[r].status # "retracted"
                PROVE  \E d \in Calls : RetiringFor(d, r)'
    BY DEF OriginalRetires, Children, Live, Status
  <2>1. p # q /\ p # None  BY <1>10 DEF EditorialAssumption
  <2>2. CASE r = q  BY <1>1, <1>10, <1>21, <2>1, <2>2
  <2>3. CASE r # q
    BY <1>10, <1>21, <2>1, <2>3 DEF IInv, OriginalRetires, Children, Live, Status
  <2>. QED  BY <2>2, <2>3
<1>23. RetractionHolds'
  <2>. SUFFICES ASSUME NEW p \in Posts, NEW r \in Posts, posts'[p].status = "retracted",
                       posts'[r].of = p, posts'[r].status = "published",
                       \A a \in actions : ~(a.of = p /\ a.after \in Posts)
                PROVE  \E d \in Calls : RetiringFor(d, r)'
    BY DEF RetractionHolds, Children, Live, Status
  <2>1. p # q /\ p # None  BY <1>10 DEF EditorialAssumption
  <2>2. CASE r = q  BY <1>1, <1>10, <1>21, <2>1, <2>2
  <2>3. CASE r # q
    BY <1>10, <1>21, <2>1, <2>3 DEF IInv, RetractionHolds, Children, Live, Status
  <2>. QED  BY <2>2, <2>3
<1>. QED
  BY <1>10, <1>14, <1>15, <1>16, <1>18, <1>19, <1>20, <1>22, <1>23 DEF IInv, Tables

LEMMA Publishing ==
  ASSUME EditorialAssumption, IInv, NEW c \in Calls, PublishDraft(c)
  PROVE  IInv'
<1>0. calls[c].pc = "write" /\ calls[c].pc \in Early /\ UNCHANGED <<actions, made, trouble>>
  BY DEF PublishDraft, Early
<1>1. CASE /\ Stored(DedupKey(calls[c])) = {}
           /\ \E q \in Posts :
               /\ posts[q].status = "absent"
               /\ posts' = [posts EXCEPT ![q] = [status |-> "published",
                                                 of |-> DedupKey(calls[c]).of,
                                                 nonce |-> DedupKey(calls[c]).nonce]]
               /\ RunPublished(calls[c], q)
               /\ Published(c, q)
  BY <1>0, <1>1, Inserting DEF Exists, Status
<1>2. CASE \E q \in Stored(DedupKey(calls[c])) :
            /\ UNCHANGED posts
            /\ \/ /\ posts[q].status = "published"
                  /\ RunPublished(calls[c], q)
                  /\ Published(c, q)
               \/ /\ posts[q].status # "published"
                  /\ Throw(c)
                  /\ UNCHANGED runs
  <2>1. PICK q \in Stored(DedupKey(calls[c])) :
            /\ UNCHANGED posts
            /\ \/ /\ posts[q].status = "published"
                  /\ RunPublished(calls[c], q)
                  /\ Published(c, q)
               \/ /\ posts[q].status # "published"
                  /\ Throw(c)
                  /\ UNCHANGED runs
    BY <1>2
  <2>2. q \in Posts /\ posts[q].of = Original(calls[c]) /\ posts[q].status # "absent"
    BY <2>1 DEF Stored, DedupKey
  <2>3. CASE RunPublished(calls[c], q) /\ Published(c, q)
    BY <1>0, <2>1, <2>2, <2>3, FoundWritten
  <2>4. CASE Throw(c) /\ UNCHANGED runs
    <3>1. /\ made' \in 0 .. MaxCalls /\ trouble' \in 0 .. MaxTrouble
      BY <1>0 DEF IInv, TypeOK
    <3>2. Return(c) \/ Goto(c, "fail")  BY <2>4 DEF Throw
    <3>3. "fail" \in Early  BY DEF Early
    <3>. QED  BY <1>0, <2>1, <2>4, <3>1, <3>2, <3>3, Going
  <2>. QED  BY <2>1, <2>3, <2>4
<1>. QED  BY <1>1, <1>2 DEF PublishDraft

-----------------------------------------------------------------------------
(* The invariant *)

LEMMA Initially == EditorialAssumption /\ Init => IInv
<1>. SUFFICES ASSUME EditorialAssumption, Init PROVE IInv
  OBVIOUS
<1>1. /\ \A p \in Posts : posts[p] = Absent
      /\ \A t \in Triggers :
           runs[t] = Run(IF t = Column THEN "column" ELSE "unused", None)
      /\ \A c \in Calls : calls[c] = Idle
  BY DEF Init
<1>2. TypeOK
  <2>1. posts \in [Posts -> PostTypes]  BY DEF Init, Absent, PostTypes
  <2>2. \A t \in Triggers :
          Run(IF t = Column THEN "column" ELSE "unused", None) \in RunTypes
    BY DEF Run, RunTypes
  <2>3. runs \in [Triggers -> RunTypes]  BY <2>2 DEF Init
  <2>4. calls \in [Calls -> CallTypes]  BY IdleCall DEF Init
  <2>. QED
    BY <2>1, <2>3, <2>4 DEF Init, TypeOK, PostTypes, EditorialAssumption
<1>3. \A p \in Posts : /\ Status(p) = "absent" /\ posts[p].of = None
                       /\ posts[p].nonce = None /\ p # None
  <2>1. Absent.status = "absent" /\ Absent.of = None /\ Absent.nonce = None  BY DEF Absent
  <2>2. \A p \in Posts : p # None  BY DEF EditorialAssumption
  <2>. QED  BY <1>1, <2>1, <2>2 DEF Status
<1>4. \A p \in Posts : Children(p) = {} /\ Descendants(p) = {}
  <2>. TAKE p \in Posts
  <2>1. Children(p) = {}  BY <1>3 DEF Children
  <2>. QED  BY <2>1, Line
<1>5. Tables
  BY <1>3, <1>4 DEF Tables, AbsentIsBlank, ParentIsStored, NoCycle, OneForEachKey,
       SecondAfterGone, SupersededIsNoted, RetractedForCause, StoriesAreTold, Exists
<1>6. RunsFit
  <2>. SUFFICES ASSUME NEW t \in Triggers PROVE RunFits(t, runs[t], posts)
    BY DEF RunsFit
  <2>1. /\ runs[t].kind = IF t = Column THEN "column" ELSE "unused"
        /\ runs[t].of = None /\ runs[t].status = "none"
    <3>1. \A k, o : /\ Run(k, o).kind = k /\ Run(k, o).of = o
                    /\ Run(k, o).status = "none"
      BY DEF Run
    <3>. QED  BY <1>1, <3>1
  <2>. QED  BY <2>1 DEF RunFits
<1>7. CallsFit  BY <1>1, IdleCall DEF CallsFit, CallFits
<1>8. OriginalRetires /\ RetractionHolds
  BY <1>3 DEF OriginalRetires, RetractionHolds, Live
<1>. QED  BY <1>2, <1>5, <1>6, <1>7, <1>8 DEF IInv

LEMMA Steps == EditorialAssumption /\ IInv /\ [Next]_vars => IInv'
<1>. SUFFICES ASSUME EditorialAssumption, IInv, [Next]_vars PROVE IInv'
  OBVIOUS
<1>1. CASE UNCHANGED vars
  <2>1. /\ posts' = posts /\ runs' = runs /\ actions' = actions /\ calls' = calls
        /\ made' = made /\ trouble' = trouble
    BY <1>1 DEF vars
  <2>2. TypeOK' /\ RunsFit'  BY <2>1 DEF IInv, TypeOK, RunsFit
  <2>. QED  BY <2>1, <2>2, Quiet
<1>2. ASSUME NEW c \in Calls,
             \/ AskColumn(c)
             \/ \E kind \in {"regenerate", "correct"}, p \in Posts : AskEditorial(c, kind, p)
             \/ \E t \in Triggers : BeginRetry(c, t)
      PROVE  IInv'
  BY <1>2, Asking
<1>3. ASSUME NEW c \in Calls,
             Reset(c) \/ MarkRunFailed(c) \/ BlockByEntitlement(c) \/ MarkSkipped(c)
               \/ GenerationFails(c)
      PROVE  IInv'
  BY <1>3, Failing
<1>4. ASSUME NEW c \in Calls, ReadOriginal(c) PROVE IInv'  BY <1>4, ReadingOriginal
<1>5. ASSUME NEW c \in Calls, Note(c) PROVE IInv'  BY <1>5, Noting
<1>6. ASSUME NEW c \in Calls, PrepareGeneration(c) PROVE IInv'  BY <1>6, Preparing
<1>7. ASSUME NEW c \in Calls, PublishDraft(c) PROVE IInv'  BY <1>7, Publishing
<1>8. ASSUME NEW c \in Calls, CommitReplacement(c) PROVE IInv'  BY <1>8, Committing
<1>9. ASSUME NEW c \in Calls, Lose(c) PROVE IInv'  BY <1>9, Dying
<1>10. ASSUME NEW t \in Triggers, Age(t) PROVE IInv'  BY <1>10, Aging
<1>11. ASSUME NEW p \in Posts, Retract(p) PROVE IInv'  BY <1>11, Retracting
<1>. QED
  BY <1>1, <1>2, <1>3, <1>4, <1>5, <1>6, <1>7, <1>8, <1>9, <1>10, <1>11 DEF Next

\* The inductive invariant.
THEOREM InductiveInvariant == Spec => []IInv
<1>1. Init => IInv  BY EditorialAssumption, Initially
<1>2. IInv /\ [Next]_vars => IInv'  BY EditorialAssumption, Steps
<1>. QED  BY <1>1, <1>2, PTL DEF Spec

\* Every variable has its type: a published run and a call at its commit know their post.
THEOREM TypeCorrect == Spec => []TypeOK
<1>1. IInv => TypeOK  BY DEF IInv
<1>. QED  BY <1>1, InductiveInvariant, PTL

\* A post and its replacement are up together only while a call is to retire the post, or
\* when it died before it did, for any number of calls and of posts.
THEOREM OriginalAlwaysRetires == Spec => []OriginalRetires
<1>1. IInv => OriginalRetires  BY DEF IInv
<1>. QED  BY <1>1, InductiveInvariant, PTL

\* A replacement written while its original was retracted does not stay up.
THEOREM RetractionAlwaysHolds == Spec => []RetractionHolds
<1>1. IInv => RetractionHolds  BY DEF IInv
<1>. QED  BY <1>1, InductiveInvariant, PTL

\* The last version of a story goes only by a commissioner's retraction, along chains of
\* replacements of any length.
THEOREM StoryIsNeverLost == Spec => []StoryNeverLost
<1>1. IInv => StoryNeverLost
  BY DEF IInv, Tables, StoriesAreTold, Told, RetractedIsNoted, StoryNeverLost
<1>. QED  BY <1>1, InductiveInvariant, PTL

\* Whatever calls and retries are at work on its trigger, a story is published once.
THEOREM StoryIsPublishedOnce == Spec => []PublishedOnce
<1>1. ASSUME IInv PROVE PublishedOnce
  <2>. SUFFICES ASSUME NEW p \in Posts, NEW q \in Posts, p # q, Live(p), Live(q),
                       posts[p].of = posts[q].of
                PROVE  /\ posts[p].of # None
                       /\ \E r \in Children(posts[p].of) : ~Live(r)
    BY DEF PublishedOnce
  <2>1. Tables /\ Exists(p) /\ Exists(q)  BY <1>1 DEF IInv, Exists, Live
  <2>2. posts[p].nonce # posts[q].nonce  BY <2>1 DEF Tables, OneForEachKey
  <2>3. posts[p].nonce # None \/ posts[q].nonce # None  BY <2>2
  <2>4. posts[p].of # None /\ \E r \in Posts : posts[r].of = posts[p].of /\ ~Live(r)
    BY <2>1, <2>3 DEF Tables, SecondAfterGone
  <2>. QED  BY <2>4 DEF Children
<1>. QED  BY <1>1, InductiveInvariant, PTL

-----------------------------------------------------------------------------
(* The refinement *)

\* A step of one post's status, as ContentHistory sees it.
LEMMA HistoryOfStatus ==
  ASSUME TypeOK, NEW p \in Posts, NEW s \in {"superseded", "retracted"},
         posts' = [posts EXCEPT ![p].status = s]
  PROVE  /\ [r \in Posts |-> posts'[r].status]
              = [[r \in Posts |-> posts[r].status] EXCEPT ![p] = s]
         /\ [r \in Posts |-> posts'[r].of] = [r \in Posts |-> posts[r].of]
<1>1. /\ posts'[p].status = s
      /\ \A r \in Posts : /\ posts'[r].of = posts[r].of
                          /\ r # p => posts'[r].status = posts[r].status
  BY DEF TypeOK
<1>. QED  BY <1>1

LEMMA HistoryStutters == posts' = posts => UNCHANGED History!historyVars
BY DEF History!historyVars

LEMMA HistoryRetracts ==
  ASSUME TypeOK, NEW p \in Posts, Status(p) \in {"published", "superseded"},
         posts' = [posts EXCEPT ![p].status = "retracted"]
  PROVE  History!Next
<1>1. History!Retract(p)  BY HistoryOfStatus DEF History!Retract, Status
<1>. QED  BY <1>1 DEF History!Next

LEMMA HistoryReplaces ==
  ASSUME TypeOK, NEW p \in Posts, Status(p) = "published",
         NEW i \in Posts, Exists(i), posts[i].of = p,
         posts' = [posts EXCEPT ![p].status = "superseded"]
  PROVE  History!Next
<1>1. i \in History!Children(p)  BY DEF History!Children, Exists, Status
<1>2. History!Supersede(p)  BY <1>1, HistoryOfStatus DEF History!Supersede, Status
<1>. QED  BY <1>2 DEF History!Next

LEMMA HistoryInserts ==
  ASSUME TypeOK, NEW q \in Posts, posts[q].status = "absent",
         NEW o \in Posts \cup {None}, o # None => posts[o].status # "absent",
         NEW n, posts' = [posts EXCEPT ![q] = [status |-> "published", of |-> o, nonce |-> n]]
  PROVE  History!Next
<1>1. /\ posts'[q].status = "published" /\ posts'[q].of = o
      /\ \A r \in Posts : r # q =>
           posts'[r].status = posts[r].status /\ posts'[r].of = posts[r].of
  BY DEF TypeOK
<1>2. /\ [r \in Posts |-> posts'[r].status]
           = [[r \in Posts |-> posts[r].status] EXCEPT ![q] = "published"]
      /\ [r \in Posts |-> posts'[r].of] = [[r \in Posts |-> posts[r].of] EXCEPT ![q] = o]
  BY <1>1
<1>3. History!Publish(q, o)
  <2>1. o # None => o \in Posts  OBVIOUS
  <2>. QED  BY <1>2, <2>1 DEF History!Publish
<1>. QED  BY <1>3 DEF History!Next

LEMMA HistorySupersedes ==
  ASSUME EditorialAssumption, IInv, NEW c \in Calls, calls[c].pc = "commit",
         Retires(Original(calls[c])), posts' = Superseded(Original(calls[c]))
  PROVE  History!Next \/ UNCHANGED History!historyVars
<1>. DEFINE p == Original(calls[c])
            i == calls[c].item
<1>0. /\ TypeOK /\ p \in Posts /\ i \in Posts /\ Exists(i) /\ Exists(p) /\ posts[i].of = p
      /\ posts' = [posts EXCEPT ![p].status = "superseded"]
      /\ Status(p) \in {"published", "superseded"}
  <2>1. /\ TypeOK /\ p \in Posts /\ i \in Posts /\ Exists(i) /\ Exists(p) /\ posts[i].of = p
        /\ posts' = [posts EXCEPT ![p].status = "superseded"]
        /\ Status(p) # "retracted"
    BY AtCommit DEF IInv, Retires, Superseded, Status
  <2>. QED  BY <2>1 DEF TypeOK, Exists, Status
<1>. HIDE DEF p, i
<1>1. CASE Status(p) = "published"  BY <1>0, <1>1, HistoryReplaces
<1>2. CASE Status(p) = "superseded"
  <2>1. posts' = posts  BY <1>0, <1>2 DEF TypeOK, Status
  <2>. QED  BY <2>1, HistoryStutters
<1>. QED  BY <1>0, <1>1, <1>2

LEMMA HistoryWithdraws ==
  ASSUME EditorialAssumption, IInv, NEW c \in Calls, calls[c].pc = "commit",
         posts' = Withdrawn(calls[c].item)
  PROVE  History!Next \/ UNCHANGED History!historyVars
<1>. DEFINE i == calls[c].item
<1>0. TypeOK /\ i \in Posts  BY AtCommit DEF IInv
<1>. HIDE DEF i
<1>1. CASE Status(i) = "published"
  <2>1. posts' = [posts EXCEPT ![i].status = "retracted"]
    BY <1>0, <1>1 DEF Withdrawn, Status, TypeOK, i
  <2>. QED  BY <1>0, <1>1, <2>1, HistoryRetracts
<1>2. CASE Status(i) # "published"
  <2>1. posts' = posts  BY <1>0, <1>2 DEF TypeOK, Withdrawn, Status, i
  <2>. QED  BY <2>1, HistoryStutters
<1>. QED  BY <1>1, <1>2

LEMMA HistoryPublishes ==
  ASSUME EditorialAssumption, IInv, NEW c \in Calls, calls[c].pc = "write",
         NEW q \in Posts, posts[q].status = "absent",
         posts' = [posts EXCEPT ![q] =
                     [status |-> "published", of |-> DedupKey(calls[c]).of,
                      nonce |-> DedupKey(calls[c]).nonce]]
  PROVE  History!Next
<1>. DEFINE t == calls[c].trigger
            o == Original(calls[c])
<1>1. /\ TypeOK /\ runs[t] \in RunTypes /\ RunFits(t, runs[t], posts)
  BY EarlyCall DEF Early
<1>2. /\ o \in Posts \cup {None} /\ (o # None => posts[o].status # "absent")
      /\ DedupKey(calls[c]).of = o
  BY <1>1, RunShape DEF RunFits, Original, DedupKey
<1>. HIDE DEF o
<1>3. \E n : posts' = [posts EXCEPT ![q] = [status |-> "published", of |-> o, nonce |-> n]]
  BY <1>2
<1>. QED  BY <1>1, <1>2, <1>3, HistoryInserts

LEMMA HistoryStep ==
  ASSUME EditorialAssumption, IInv, [Next]_vars
  PROVE  History!Next \/ UNCHANGED History!historyVars
<1>1. ASSUME NEW c \in Calls, PublishDraft(c)
      PROVE  History!Next \/ UNCHANGED History!historyVars
  <2>1. \/ posts' = posts
        \/ \E q \in Posts :
             /\ posts[q].status = "absent"
             /\ posts' = [posts EXCEPT ![q] =
                            [status |-> "published", of |-> DedupKey(calls[c]).of,
                             nonce |-> DedupKey(calls[c]).nonce]]
    BY <1>1 DEF PublishDraft
  <2>2. calls[c].pc = "write"  BY <1>1 DEF PublishDraft
  <2>. QED  BY <2>1, <2>2, HistoryPublishes, HistoryStutters
<1>2. ASSUME NEW c \in Calls, CommitReplacement(c)
      PROVE  History!Next \/ UNCHANGED History!historyVars
  BY <1>2, HistorySupersedes, HistoryWithdraws DEF CommitReplacement
<1>3. ASSUME NEW p \in Posts, Retract(p) PROVE History!Next
  BY <1>3, HistoryRetracts DEF IInv, Retract, Status
<1>4. \/ posts' = posts
      \/ \E c \in Calls : PublishDraft(c) \/ CommitReplacement(c)
      \/ \E p \in Posts : Retract(p)
  BY DEF Next, vars, AskColumn, AskEditorial, Ask, BeginRetry, Reset, MarkRunFailed, ReadOriginal,
         Note, BlockByEntitlement, PrepareGeneration, MarkSkipped, GenerationFails, Lose, Age
<1>. QED  BY <1>1, <1>2, <1>3, <1>4, HistoryStutters

\* Every step of the jobs, the requests and the commissioner is a step of the lifecycle of
\* posts, or none: a post is never brought back, rewritten, or superseded by nothing.
THEOREM PostsHaveALifecycle == Spec => Lifecycle
<1>1. Init => History!Init  BY DEF Init, History!Init, Absent
<1>2. IInv /\ [Next]_vars => [History!Next]_(History!historyVars)
  BY EditorialAssumption, HistoryStep
<1>. QED  BY <1>1, <1>2, InductiveInvariant, PTL DEF Spec, Lifecycle, History!Spec

\* A replacement replaces a stored post other than itself, and a superseded post has one.
THEOREM HistoryIsConsistent == Spec => []History!Inv
<1>1. ASSUME IInv PROVE History!Inv
  <2>1. TypeOK /\ Tables  BY <1>1 DEF IInv
  <2>2. History!TypeOK  BY <2>1 DEF TypeOK, History!TypeOK, History!Statuses
  <2>3. ASSUME NEW q \in Posts, posts[q].of # None
        PROVE  /\ posts[q].of \in Posts /\ posts[q].of # q
               /\ posts[q].status # "absent" /\ posts[posts[q].of].status # "absent"
    <3>1. posts[q].of \in Posts  BY <2>1, <2>3 DEF TypeOK
    <3>2. posts[q].of # q
      <4>1. posts[q].of = q => q \in Children(q)  BY DEF Children
      <4>. QED  BY <2>1, <4>1, Line DEF Tables, NoCycle
    <3>. QED
      BY <2>1, <2>3, <3>1, <3>2 DEF Tables, AbsentIsBlank, ParentIsStored, Exists, Status
  <2>4. History!ReplacesAPost  BY <2>3 DEF History!ReplacesAPost
  <2>5. History!SupersededHasReplacement
    <3>. SUFFICES ASSUME NEW p \in Posts, posts[p].status = "superseded"
                  PROVE  History!Children(p) # {}
      BY DEF History!SupersededHasReplacement
    <3>1. PICK q \in Posts : posts[q].of = p
      BY <2>1 DEF Tables, SupersededIsNoted, Status
    <3>2. p # None  BY EditorialAssumption DEF EditorialAssumption
    <3>3. q \in History!Children(p)
      BY <2>3, <3>1, <3>2 DEF History!Children
    <3>. QED  BY <3>3
  <2>. QED  BY <2>2, <2>4, <2>5 DEF History!Inv
<1>. QED  BY <1>1, InductiveInvariant, PTL
=============================================================================
