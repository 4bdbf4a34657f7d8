--------------------------- MODULE ContentHistory ---------------------------
(***************************************************************************)
(* What the lifecycle of published content promises                        *)
(* (src/content/lifecycle.ts): a post is never rewritten or deleted.  It is *)
(* published once, as a new story or as a replacement of a post; it leaves  *)
(* the fronts superseded, when it has a replacement, or retracted; and it   *)
(* never comes back.  Editorial, where generations are awaited between      *)
(* transactions, is shown to implement this.                                *)
(***************************************************************************)
CONSTANTS
  Posts,        \* identifiers of content_item rows of kind "blog"
  None          \* "no post"

VARIABLES
  status,       \* status[p]: content_item.status, "absent" before the insert
  parent        \* parent[p]: content_item.supersedes_content_item_id

historyVars == <<status, parent>>

Statuses == {"absent", "published", "superseded", "retracted"}

Children(p) == {q \in Posts : status[q] # "absent" /\ parent[q] = p}

Init ==
  /\ status = [p \in Posts |-> "absent"]
  /\ parent = [p \in Posts |-> None]

\* A new story, or a replacement of a post whatever has become of it meanwhile.
Publish(q, p) ==
  /\ status[q] = "absent"
  /\ p # None => status[p] # "absent"
  /\ status' = [status EXCEPT ![q] = "published"]
  /\ parent' = [parent EXCEPT ![q] = p]

Supersede(p) ==
  /\ status[p] = "published"
  /\ Children(p) # {}
  /\ status' = [status EXCEPT ![p] = "superseded"]
  /\ UNCHANGED parent

Retract(p) ==
  /\ status[p] \in {"published", "superseded"}
  /\ status' = [status EXCEPT ![p] = "retracted"]
  /\ UNCHANGED parent

Next ==
  \E p \in Posts :
    \/ \E o \in Posts \cup {None} : Publish(p, o)
    \/ Supersede(p)
    \/ Retract(p)

Spec == Init /\ [][Next]_historyVars

-----------------------------------------------------------------------------
(* Properties *)

\* Every variable has its type.
TypeOK ==
  /\ status \in [Posts -> Statuses]
  /\ parent \in [Posts -> Posts \cup {None}]

\* A replacement replaces a post that is in the table, and not itself.
ReplacesAPost ==
  \A q \in Posts : parent[q] # None =>
    parent[q] # q /\ status[q] # "absent" /\ status[parent[q]] # "absent"

\* A reader who follows a link to a superseded post finds a replacement of it.
SupersededHasReplacement ==
  \A p \in Posts : status[p] = "superseded" => Children(p) # {}

\* What a reader of the tables may rely on: supersedeContentItemInDb is only called
\* with a replacement that was inserted before.
Inv ==
  /\ TypeOK
  /\ ReplacesAPost
  /\ SupersededHasReplacement
=============================================================================
