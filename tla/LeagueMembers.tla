--------------------------- MODULE LeagueMembers ----------------------------
(***************************************************************************)
(* Who belongs to a league, as what, and as whom.  An import that goes     *)
(* live makes its owner commissioner; a commissioner hands the league off  *)
(* or appoints data stewards; any member invites; whoever accepts an       *)
(* invite claims a provider identity (a team) and becomes a member.        *)
(*                                                                         *)
(* Requests run at once.  Each reads in one transaction, or in one         *)
(* statement of it, and writes in a later one.                             *)
(***************************************************************************)
EXTENDS Integers, FiniteSets

CONSTANTS
  Users,        \* people with an account
  Teams,        \* provider identities of the league
  Slots,        \* bound: requests in flight
  MaxRequests,  \* bound: requests in all
  Nobody        \* no user

ASSUME MembersAssumption == Nobody \notin Users /\ MaxRequests \in Nat

VARIABLES
  role,     \* each user's role in the league
  claims,   \* the identity claims: who is which team
  invite,   \* each team's targeted invite, of one channel and address
  request,  \* the requests in flight
  asked     \* how many requests have been made

vars == <<role, claims, invite, request, asked>>

Roles == {"none", "member", "data_steward", "commissioner"}
Claim == [user : Users, team : Teams]
Invite ==
  [status : {"none", "pending", "sent", "accepted"},
   by     : Users \cup {Nobody},    \* acceptedUserId
   token  : 0..MaxRequests]         \* the token of its latest link, 0 for none

Idle == [kind |-> "idle"]

Init ==
  /\ role = [u \in Users |-> "none"]
  /\ claims = {}
  /\ invite = [t \in Teams |-> [status |-> "none", by |-> Nobody, token |-> 0]]
  /\ request = [s \in Slots |-> Idle]
  /\ asked = 0

Ask(s, r) ==
  /\ request[s] = Idle
  /\ asked < MaxRequests
  /\ asked' = asked + 1
  /\ request' = [request EXCEPT ![s] = r]

Doing(s, kind) == request[s].kind = kind
Then(s, r) == request' = [request EXCEPT ![s] = r]
Done(s) == Then(s, Idle)

Belongs(u) == role[u] # "none"
Claimed(t) == \E c \in claims : c.team = t

(***************************************************************************)
(* Roles.                                                                  *)
(***************************************************************************)
\* An import of u's goes live: a commissioner, unless already a member.
GoLive(u) ==
  /\ ~Belongs(u)
  /\ role' = [role EXCEPT ![u] = "commissioner"]
  /\ UNCHANGED <<claims, invite, request, asked>>

\* transferCommissionerRole reads both members.
ReadHandoff(s, a, u) ==
  /\ role[a] = "commissioner"
  /\ Belongs(u) /\ u # a /\ role[u] # "commissioner"
  /\ Ask(s, [kind |-> "handoff", actor |-> a, target |-> u])
  /\ UNCHANGED <<role, claims, invite>>

\* A faulty handoff that promotes a plain member only, and demotes in any case.
CommitHandoffToMember(s) ==
  LET r == request[s] IN
  /\ Doing(s, "handoff")
  /\ role' = [role EXCEPT ![r.target] = IF @ = "member" THEN "commissioner" ELSE @,
                          ![r.actor] = "member"]
  /\ Done(s)
  /\ UNCHANGED <<claims, invite, asked>>

CommitHandoff(s) ==
  /\ Doing(s, "handoff")
  /\ role' = [role EXCEPT ![request[s].target] = "commissioner",
                          ![request[s].actor] = "member"]
  /\ Done(s)
  /\ UNCHANGED <<claims, invite, asked>>

\* assignDataSteward reads the target; canBeDesignated refuses a commissioner.
ReadAppointment(s, a, u) ==
  /\ role[a] = "commissioner"
  /\ role[u] = "member"
  /\ Ask(s, [kind |-> "appoint", actor |-> a, target |-> u])
  /\ UNCHANGED <<role, claims, invite>>

CommitAppointment(s) ==
  /\ Doing(s, "appoint")
  /\ role' = [role EXCEPT ![request[s].target] = "data_steward"]
  /\ Done(s)
  /\ UNCHANGED <<claims, invite, asked>>

(***************************************************************************)
(* Invites.                                                                *)
(***************************************************************************)
\* createLeaguemateInvite loads the targets: the teams nobody has claimed.
ReadTarget(s, a, t) ==
  /\ Belongs(a)
  /\ ~Claimed(t)
  /\ Ask(s, [kind |-> "invite", team |-> t, token |-> asked + 1])
  /\ UNCHANGED <<role, claims, invite>>

\* The upsert: a new token and a pending status for the row, whatever it was.
\* A share link is not delivered.
SaveInvite(s) ==
  LET r == request[s] IN
  /\ Doing(s, "invite")
  /\ invite' = [invite EXCEPT ![r.team].status = "pending",
                              ![r.team].token = r.token]
  /\ \/ Done(s)
     \/ Then(s, [r EXCEPT !.kind = "deliver"])
  /\ UNCHANGED <<role, claims, asked>>

MarkSent(s) ==
  /\ Doing(s, "deliver")
  /\ invite' = [invite EXCEPT ![request[s].team].status = "sent"]
  /\ Done(s)
  /\ UNCHANGED <<role, claims, asked>>

\* A process dies, the delivery fails, or a transaction is rolled back.
GiveUp(s) ==
  /\ request[s] # Idle
  /\ Done(s)
  /\ UNCHANGED <<role, claims, invite, asked>>

(***************************************************************************)
(* Acceptance.                                                             *)
(***************************************************************************)
Acceptable(t, token, u) ==
  /\ invite[t].token = token
  /\ invite[t].status = "accepted" => invite[t].by = u

\* resolveInviteAcceptance, for a link to one team.  An expired link is one
\* that nobody uses.
OpenLink(s, u, t) ==
  /\ invite[t].status # "none"
  /\ Acceptable(t, invite[t].token, u)
  /\ Ask(s, [kind |-> "resolved", user |-> u, team |-> t, token |-> invite[t].token])
  /\ UNCHANGED <<role, claims, invite>>

\* For the link to the whole roster, which stays pending: any unclaimed team.
OpenRosterLink(s, u, t) ==
  /\ ~Claimed(t)
  /\ Ask(s, [kind |-> "resolved", user |-> u, team |-> t, token |-> 0])
  /\ UNCHANGED <<role, claims, invite>>

\* The reads of acceptLeagueInvite's transaction.
CheckClaims(s) ==
  LET r == request[s] IN
  /\ Doing(s, "resolved")
  /\ IF /\ r.token # 0 => Acceptable(r.team, r.token, r.user)
        /\ \A c \in claims : (c.user = r.user) <=> (c.team = r.team)
     THEN Then(s, [kind |-> "checked", user |-> r.user, team |-> r.team,
                   held |-> [user |-> r.user, team |-> r.team] \in claims])
     ELSE Done(s)
  /\ UNCHANGED <<role, claims, invite, asked>>

\* A faulty schema that leaves out the index on the user.
ConflictsOnTeam(c) == \E d \in claims : d.team = c.team

\* The two unique indexes: one claim for a user, one for a team.
Conflicts(c) == \E d \in claims : d.user = c.user \/ d.team = c.team

\* A faulty acceptance that makes a member of whoever accepts.
JoinResetting(u) == role' = [role EXCEPT ![u] = "member"]

JoinAsMember(u) == role' = [role EXCEPT ![u] = IF @ = "none" THEN "member" ELSE @]

\* Every invite of the team that exists is switched off, in the name of u.
AcceptInvites(t, u) ==
  invite' = [invite EXCEPT ![t] = IF @.status = "none" THEN @
                                  ELSE [@ EXCEPT !.status = "accepted", !.by = u]]

\* A faulty acceptance that goes on when its claim was not inserted.
CommitRegardless(s) ==
  LET r == request[s]
      claim == [user |-> r.user, team |-> r.team]
  IN
  /\ Doing(s, "checked")
  /\ claims' = IF Conflicts(claim) THEN claims ELSE claims \cup {claim}
  /\ JoinAsMember(r.user)
  /\ AcceptInvites(r.team, r.user)
  /\ Done(s)
  /\ UNCHANGED asked

\* The claim is inserted unless the reads found the user's own there already.
CommitAccept(s) ==
  LET r == request[s]
      claim == [user |-> r.user, team |-> r.team]
  IN
  /\ Doing(s, "checked")
  /\ IF r.held \/ ~Conflicts(claim)
     THEN /\ claims' = claims \cup {claim}
          /\ JoinAsMember(r.user)
          /\ AcceptInvites(r.team, r.user)
     ELSE UNCHANGED <<role, claims, invite>>
  /\ Done(s)
  /\ UNCHANGED asked

Next ==
  \/ \E u \in Users : GoLive(u)
  \/ \E s \in Slots :
       \/ \E a, u \in Users : ReadHandoff(s, a, u) \/ ReadAppointment(s, a, u)
       \/ \E u \in Users, t \in Teams :
            ReadTarget(s, u, t) \/ OpenLink(s, u, t) \/ OpenRosterLink(s, u, t)
       \/ CommitHandoff(s) \/ CommitAppointment(s)
       \/ SaveInvite(s) \/ MarkSent(s)
       \/ CheckClaims(s) \/ CommitAccept(s)
       \/ GiveUp(s)

Spec == Init /\ [][Next]_vars

-----------------------------------------------------------------------------
Request ==
  {Idle}
  \cup [kind : {"handoff", "appoint"}, actor : Users, target : Users]
  \cup [kind : {"invite", "deliver"}, team : Teams, token : 1..MaxRequests]
  \cup [kind : {"resolved"}, user : Users, team : Teams, token : 0..MaxRequests]
  \cup [kind : {"checked"}, user : Users, team : Teams, held : BOOLEAN]

\* Types.
TypeOK ==
  /\ role \in [Users -> Roles]
  /\ claims \subseteq Claim
  /\ invite \in [Teams -> Invite]
  /\ request \in [Slots -> Request]
  /\ asked \in 0..MaxRequests

\* A user is one team and a team is one user, however many links are accepted
\* at once: the reads of an acceptance do not see the claims still to come.
ClaimsOneToOne ==
  \A c, d \in claims : c.user = d.user \/ c.team = d.team => c = d

\* Whoever has claimed a team belongs to the league.
ClaimantBelongs == \A c \in claims : Belongs(c.user)

\* The user an invite names as having accepted it holds the claim of its team,
\* and keeps it when the invite is written again and its link is live once more.
AcceptedNamesClaimant ==
  \A t \in Teams :
    /\ invite[t].status = "accepted" => invite[t].by # Nobody
    /\ invite[t].by # Nobody => [user |-> invite[t].by, team |-> t] \in claims

\* The role of somebody who belongs changes only by the write of a handoff or
\* an appointment: accepting an invite demotes nobody, an import neither.
RolesChangeByAuthority ==
  [][\A u \in Users :
       Belongs(u) /\ role'[u] # role[u] =>
         \E s \in Slots :
           /\ request[s].kind \in {"handoff", "appoint"} /\ request'[s] = Idle
           /\ \/ request[s].target = u
              \/ Doing(s, "handoff") /\ request[s].actor = u]_vars

Led == \E u \in Users : role[u] = "commissioner"

\* A league loses its last commissioner to an appointment only: handoffs leave
\* it one, however many are under way and whatever became of their targets.
HandoffKeepsALeader ==
  [][Led /\ ~Led' => \E s \in Slots : Doing(s, "appoint") /\ request'[s] = Idle]_vars

(***************************************************************************)
(* Statements the code does not keep.                                      *)
(***************************************************************************)
\* A league that has a commissioner keeps one.  An appointment that read its
\* target before a handoff to the same member demotes the new commissioner.
StaysLed == [][Led => Led']_vars

\* A handoff moves the one commissioner's role.  Two handoffs of one
\* commissioner, begun together, make two; so does a second owner's import.
OneCommissioner ==
  \A u, v \in Users : role[u] = "commissioner" /\ role[v] = "commissioner" => u = v

\* An accepted invite stays off.  Its delivery, or an invite whose targets were
\* read before the acceptance, switches the link on again.
AcceptedStaysOff ==
  [][\A t \in Teams :
       invite[t].status = "accepted" => invite'[t].status = "accepted"]_vars
=============================================================================
