-------------------------- MODULE OnboardingProofs --------------------------
(***************************************************************************)
(* Theorems about how people and leagues get in: who belongs to a league   *)
(* (LeagueMembers) and how a league is brought live (ShadowImport).        *)
(***************************************************************************)
EXTENDS LeagueMembers, ShadowImport, TLAPS

(***************************************************************************)
(* LeagueMembers.  What a request read may be stale when it writes; the    *)
(* inductive invariant adds the two things that are not: a claim that the  *)
(* reads of an acceptance found stays, and a handoff is to somebody else.  *)
(***************************************************************************)
HeldIsClaimed ==
  \A s \in Slots :
    request[s].kind = "checked" /\ request[s].held =>
      [user |-> request[s].user, team |-> request[s].team] \in claims

HandoffToAnother ==
  \A s \in Slots : Doing(s, "handoff") => request[s].target # request[s].actor

MembersInv ==
  /\ TypeOK
  /\ ClaimsOneToOne
  /\ ClaimantBelongs
  /\ AcceptedNamesClaimant
  /\ HeldIsClaimed
  /\ HandoffToAnother

-----------------------------------------------------------------------------
(* Requests *)

\* What a request of each kind remembers.
LEMMA RequestShape ==
  ASSUME TypeOK, NEW s \in Slots
  PROVE  /\ request[s].kind \in {"handoff", "appoint"} =>
              request[s].actor \in Users /\ request[s].target \in Users
         /\ request[s].kind \in {"invite", "deliver"} =>
              request[s] \in [kind : {"invite", "deliver"}, team : Teams,
                              token : 1..MaxRequests]
         /\ request[s].kind = "resolved" =>
              /\ request[s].user \in Users /\ request[s].team \in Teams
              /\ request[s].token \in 0..MaxRequests
         /\ request[s].kind = "checked" =>
              /\ request[s].user \in Users /\ request[s].team \in Teams
              /\ request[s].held \in BOOLEAN
<1>. DEFINE r == request[s]
<1>1. r \in Request  BY DEF TypeOK
<1>2. r.kind \in {"handoff", "appoint"} =>
        r \in [kind : {"handoff", "appoint"}, actor : Users, target : Users]
  BY <1>1 DEF Request, Idle
<1>3. r.kind \in {"invite", "deliver"} =>
        r \in [kind : {"invite", "deliver"}, team : Teams, token : 1..MaxRequests]
  BY <1>1 DEF Request, Idle
<1>4. r.kind = "resolved" =>
        r \in [kind : {"resolved"}, user : Users, team : Teams, token : 0..MaxRequests]
  BY <1>1 DEF Request, Idle
<1>5. r.kind = "checked" =>
        r \in [kind : {"checked"}, user : Users, team : Teams, held : BOOLEAN]
  BY <1>1 DEF Request, Idle
<1>. QED  BY <1>2, <1>3, <1>4, <1>5

\* A request that is put in a free slot, or goes on in its own, keeps the types.
LEMMA RequestKept ==
  ASSUME TypeOK, NEW s \in Slots, NEW r \in Request, Then(s, r)
  PROVE  /\ request' \in [Slots -> Request]
         /\ request'[s] = r
         /\ \A q \in Slots : q # s => request'[q] = request[q]
BY DEF TypeOK, Then

\* A step that leaves the data alone, and of the requests changes the one in s, keeps
\* the invariant if the new request does.
LEMMA DataKept ==
  ASSUME MembersInv, UNCHANGED <<role, claims, invite>>, asked' \in 0..MaxRequests,
         NEW s \in Slots, NEW r \in Request, Then(s, r),
         r.kind = "checked" /\ r.held => [user |-> r.user, team |-> r.team] \in claims,
         r.kind = "handoff" => r.target # r.actor
  PROVE  MembersInv'
<1>0. /\ request' \in [Slots -> Request]
      /\ request'[s] = r
      /\ \A q \in Slots : q # s => request'[q] = request[q]
  BY RequestKept DEF MembersInv
<1>1. TypeOK'  BY <1>0 DEF MembersInv, TypeOK
<1>2. ClaimsOneToOne' /\ ClaimantBelongs' /\ AcceptedNamesClaimant'
  BY DEF MembersInv, ClaimsOneToOne, ClaimantBelongs, Belongs, AcceptedNamesClaimant
<1>3. HeldIsClaimed'  BY <1>0 DEF MembersInv, HeldIsClaimed
<1>4. HandoffToAnother'  BY <1>0 DEF MembersInv, HandoffToAnother, Doing
<1>. QED  BY <1>1, <1>2, <1>3, <1>4 DEF MembersInv

\* So does a request that is put in a free slot.
LEMMA AskKept ==
  ASSUME MembersAssumption, MembersInv, UNCHANGED <<role, claims, invite>>,
         NEW s \in Slots, NEW r \in Request, Ask(s, r),
         r.kind # "checked", r.kind = "handoff" => r.target # r.actor
  PROVE  MembersInv'
<1>1. Then(s, r)  BY DEF Ask, Then
<1>2. asked' \in 0..MaxRequests  BY DEF Ask, MembersInv, TypeOK, MembersAssumption
<1>. QED  BY <1>1, <1>2, DataKept

LEMMA IdleIsRequest == Idle \in Request /\ Idle.kind = "idle"
BY DEF Idle, Request

-----------------------------------------------------------------------------
(* Steps *)

\* Steps that read, or give up.
LEMMA ReadsKeep ==
  ASSUME MembersAssumption, MembersInv, NEW s \in Slots,
         \/ \E a, u \in Users : ReadHandoff(s, a, u) \/ ReadAppointment(s, a, u)
         \/ \E u \in Users, t \in Teams :
              ReadTarget(s, u, t) \/ OpenLink(s, u, t) \/ OpenRosterLink(s, u, t)
         \/ CheckClaims(s)
         \/ GiveUp(s)
  PROVE  MembersInv'
<1>0. TypeOK  BY DEF MembersInv
<1>1. ASSUME NEW a \in Users, NEW u \in Users, ReadHandoff(s, a, u) PROVE MembersInv'
  <2>. DEFINE r == [kind |-> "handoff", actor |-> a, target |-> u]
  <2>1. r \in Request  BY DEF Request
  <2>2. Ask(s, r) /\ u # a /\ UNCHANGED <<role, claims, invite>>
    BY <1>1 DEF ReadHandoff
  <2>3. r.kind # "checked" /\ r.target # r.actor  BY <2>2
  <2>. HIDE DEF r
  <2>. QED  BY <2>1, <2>2, <2>3, AskKept
<1>2. ASSUME NEW a \in Users, NEW u \in Users, ReadAppointment(s, a, u) PROVE MembersInv'
  <2>. DEFINE r == [kind |-> "appoint", actor |-> a, target |-> u]
  <2>1. r \in Request  BY DEF Request
  <2>2. Ask(s, r) /\ UNCHANGED <<role, claims, invite>>
    BY <1>2 DEF ReadAppointment
  <2>3. r.kind = "appoint"  OBVIOUS
  <2>. HIDE DEF r
  <2>. QED  BY <2>1, <2>2, <2>3, AskKept
<1>3. ASSUME NEW u \in Users, NEW t \in Teams, ReadTarget(s, u, t) PROVE MembersInv'
  <2>. DEFINE r == [kind |-> "invite", team |-> t, token |-> asked + 1]
  <2>1. Ask(s, r) /\ UNCHANGED <<role, claims, invite>>
    BY <1>3 DEF ReadTarget
  <2>2. asked + 1 \in 1..MaxRequests
    BY <1>0, <2>1 DEF Ask, TypeOK, MembersAssumption
  <2>3. r \in Request  BY <2>2 DEF Request
  <2>4. r.kind = "invite"  OBVIOUS
  <2>. HIDE DEF r
  <2>. QED  BY <2>1, <2>3, <2>4, AskKept
<1>4. ASSUME NEW u \in Users, NEW t \in Teams, OpenLink(s, u, t) PROVE MembersInv'
  <2>. DEFINE r == [kind |-> "resolved", user |-> u, team |-> t, token |-> invite[t].token]
  <2>1. invite[t].token \in 0..MaxRequests  BY <1>0 DEF TypeOK, Invite
  <2>2. r \in Request  BY <2>1 DEF Request
  <2>3. Ask(s, r) /\ UNCHANGED <<role, claims, invite>>
    BY <1>4 DEF OpenLink
  <2>4. r.kind = "resolved"  OBVIOUS
  <2>. HIDE DEF r
  <2>. QED  BY <2>2, <2>3, <2>4, AskKept
<1>5. ASSUME NEW u \in Users, NEW t \in Teams, OpenRosterLink(s, u, t) PROVE MembersInv'
  <2>. DEFINE r == [kind |-> "resolved", user |-> u, team |-> t, token |-> 0]
  <2>1. 0 \in 0..MaxRequests  BY DEF MembersAssumption
  <2>2. r \in Request  BY <2>1 DEF Request
  <2>3. Ask(s, r) /\ UNCHANGED <<role, claims, invite>>
    BY <1>5 DEF OpenRosterLink
  <2>4. r.kind = "resolved"  OBVIOUS
  <2>. HIDE DEF r
  <2>. QED  BY <2>2, <2>3, <2>4, AskKept
<1>6. CASE CheckClaims(s)
  <2>. DEFINE q == request[s]
              c == [user |-> q.user, team |-> q.team]
              r == [kind |-> "checked", user |-> q.user, team |-> q.team,
                    held |-> c \in claims]
  <2>1. q.user \in Users /\ q.team \in Teams
    BY <1>0, <1>6, RequestShape DEF CheckClaims, Doing
  <2>2. r \in Request  BY <2>1 DEF Request
  <2>3. UNCHANGED <<role, claims, invite, asked>> /\ asked' \in 0..MaxRequests
    BY <1>0, <1>6 DEF CheckClaims, TypeOK
  <2>4. CASE Then(s, r)
    <3>1. r.kind = "checked" /\ (r.held => [user |-> r.user, team |-> r.team] \in claims)
      OBVIOUS
    <3>. HIDE DEF r
    <3>. QED  BY <2>2, <2>3, <2>4, <3>1, DataKept
  <2>5. CASE Then(s, Idle)
    BY <2>3, <2>5, DataKept, IdleIsRequest
  <2>. QED  BY <1>6, <2>4, <2>5 DEF CheckClaims, Done
<1>7. CASE GiveUp(s)
  BY <1>0, <1>7, DataKept, IdleIsRequest DEF GiveUp, Done, TypeOK
<1>. QED  BY <1>1, <1>2, <1>3, <1>4, <1>5, <1>6, <1>7

\* Only the roles change, and nobody stops belonging.
LEMMA RolesKept ==
  ASSUME MembersInv, UNCHANGED <<claims, invite, asked>>,
         role' \in [Users -> Roles], \A u \in Users : Belongs(u) => Belongs(u)',
         request' \in [Slots -> Request],
         \A q \in Slots : request'[q] = request[q] \/ request'[q] = Idle
  PROVE  MembersInv'
<1>0. TypeOK  BY DEF MembersInv
<1>2. TypeOK'  BY <1>0 DEF TypeOK
<1>3. ClaimsOneToOne' /\ AcceptedNamesClaimant'
  BY DEF MembersInv, ClaimsOneToOne, AcceptedNamesClaimant
<1>4. ClaimantBelongs'
  BY <1>0 DEF MembersInv, ClaimantBelongs, TypeOK, Claim
<1>5. HeldIsClaimed'  BY IdleIsRequest DEF MembersInv, HeldIsClaimed
<1>6. HandoffToAnother'  BY IdleIsRequest DEF MembersInv, HandoffToAnother, Doing
<1>. QED  BY <1>2, <1>3, <1>4, <1>5, <1>6 DEF MembersInv

LEMMA DoneKept ==
  ASSUME TypeOK, NEW s \in Slots, Done(s)
  PROVE  /\ request' \in [Slots -> Request]
         /\ \A q \in Slots : request'[q] = request[q] \/ request'[q] = Idle
BY IdleIsRequest DEF Done, Then, TypeOK

LEMMA GoLiveKeeps ==
  ASSUME MembersInv, NEW u \in Users, GoLive(u)
  PROVE  MembersInv'
<1>0. TypeOK  BY DEF MembersInv
<1>1. role' \in [Users -> Roles] /\ \A v \in Users : Belongs(v) => Belongs(v)'
  BY <1>0 DEF GoLive, TypeOK, Roles, Belongs
<1>2. UNCHANGED <<claims, invite, request, asked>>  BY DEF GoLive
<1>. QED  BY <1>0, <1>1, <1>2, RolesKept DEF TypeOK

LEMMA RoleWritesKeep ==
  ASSUME MembersInv, NEW s \in Slots, CommitHandoff(s) \/ CommitAppointment(s)
  PROVE  MembersInv'
<1>0. TypeOK  BY DEF MembersInv
<1>1. Done(s) /\ UNCHANGED <<claims, invite, asked>>
  BY DEF CommitHandoff, CommitAppointment
<1>2. CASE CommitHandoff(s)
  <2>1. request[s].actor \in Users /\ request[s].target \in Users
    BY <1>0, <1>2, RequestShape DEF CommitHandoff, Doing
  <2>2. role' \in [Users -> Roles] /\ \A v \in Users : Belongs(v) => Belongs(v)'
    BY <1>0, <1>2, <2>1 DEF CommitHandoff, TypeOK, Roles, Belongs
  <2>. QED  BY <1>0, <1>1, <2>2, RolesKept, DoneKept
<1>3. CASE CommitAppointment(s)
  <2>1. request[s].target \in Users
    BY <1>0, <1>3, RequestShape DEF CommitAppointment, Doing
  <2>2. role' \in [Users -> Roles] /\ \A v \in Users : Belongs(v) => Belongs(v)'
    BY <1>0, <1>3, <2>1 DEF CommitAppointment, TypeOK, Roles, Belongs
  <2>. QED  BY <1>0, <1>1, <2>2, RolesKept, DoneKept
<1>. QED  BY <1>2, <1>3

\* Writing or delivering an invite leaves who accepted it alone.
LEMMA InviteWritesKeep ==
  ASSUME MembersInv, NEW s \in Slots, SaveInvite(s) \/ MarkSent(s)
  PROVE  MembersInv'
<1>. DEFINE r == request[s]
<1>0. TypeOK  BY DEF MembersInv
<1>1. r \in [kind : {"invite", "deliver"}, team : Teams, token : 1..MaxRequests]
  BY <1>0, RequestShape DEF SaveInvite, MarkSent, Doing
<1>2. [r EXCEPT !.kind = "deliver"] \in Request
      /\ [r EXCEPT !.kind = "deliver"].kind = "deliver"
  <2>1. [r EXCEPT !.kind = "deliver"]
          \in [kind : {"invite", "deliver"}, team : Teams, token : 1..MaxRequests]
    BY <1>1
  <2>. QED  BY <1>1, <2>1 DEF Request
<1>3. /\ request' \in [Slots -> Request]
      /\ \A q \in Slots :
           request'[q] = request[q] \/ request'[q].kind \in {"idle", "deliver"}
  <2>1. CASE Done(s)
    BY <1>0, <2>1, RequestKept, IdleIsRequest DEF Done
  <2>2. CASE Then(s, [r EXCEPT !.kind = "deliver"])
    BY <1>0, <1>2, <2>2, RequestKept
  <2>. QED  BY <2>1, <2>2 DEF SaveInvite, MarkSent
<1>4. /\ invite' \in [Teams -> Invite]
      /\ \A t \in Teams : invite'[t].by = invite[t].by
      /\ \A t \in Teams : invite'[t].status = "accepted" => invite[t].status = "accepted"
  <2>1. r.team \in Teams /\ r.token \in 0..MaxRequests  BY <1>1
  <2>2. CASE SaveInvite(s)
    BY <1>0, <2>1, <2>2 DEF SaveInvite, TypeOK, Invite
  <2>3. CASE MarkSent(s)
    BY <1>0, <2>1, <2>3 DEF MarkSent, TypeOK, Invite
  <2>. QED  BY <2>2, <2>3
<1>5. UNCHANGED <<role, claims, asked>>  BY DEF SaveInvite, MarkSent
<1>6. TypeOK'  BY <1>0, <1>3, <1>4, <1>5 DEF TypeOK
<1>7. ClaimsOneToOne' /\ ClaimantBelongs'
  BY <1>5 DEF MembersInv, ClaimsOneToOne, ClaimantBelongs, Belongs
<1>8. AcceptedNamesClaimant'  BY <1>4, <1>5 DEF MembersInv, AcceptedNamesClaimant
<1>9. HeldIsClaimed'  BY <1>3, <1>5 DEF MembersInv, HeldIsClaimed
<1>10. HandoffToAnother'  BY <1>3 DEF MembersInv, HandoffToAnother, Doing
<1>. QED  BY <1>6, <1>7, <1>8, <1>9, <1>10 DEF MembersInv

\* An acceptance: the unique indexes let a claim in only if it is nobody else's.
LEMMA CommitAcceptKeeps ==
  ASSUME MembersAssumption, MembersInv, NEW s \in Slots, CommitAccept(s)
  PROVE  MembersInv'
<1>. DEFINE r == request[s]
            claim == [user |-> r.user, team |-> r.team]
<1>0. TypeOK  BY DEF MembersInv
<1>1. /\ r.user \in Users /\ r.team \in Teams
      /\ claim \in Claim /\ claim.user = r.user /\ claim.team = r.team
  BY <1>0, RequestShape DEF CommitAccept, Doing, Claim
<1>2. /\ request' \in [Slots -> Request]
      /\ \A q \in Slots : request'[q] = request[q] \/ request'[q] = Idle
      /\ UNCHANGED asked
  BY <1>0, RequestKept, IdleIsRequest DEF CommitAccept, Done
<1>3. CASE UNCHANGED <<role, claims, invite>>
  <2>1. TypeOK'  BY <1>0, <1>2, <1>3 DEF TypeOK
  <2>2. ClaimsOneToOne' /\ ClaimantBelongs' /\ AcceptedNamesClaimant'
    BY <1>3 DEF MembersInv, ClaimsOneToOne, ClaimantBelongs, Belongs, AcceptedNamesClaimant
  <2>3. HeldIsClaimed'  BY <1>2, <1>3, IdleIsRequest DEF MembersInv, HeldIsClaimed
  <2>4. HandoffToAnother'  BY <1>2, IdleIsRequest DEF MembersInv, HandoffToAnother, Doing
  <2>. QED  BY <2>1, <2>2, <2>3, <2>4 DEF MembersInv
<1>4. CASE /\ r.held \/ ~Conflicts(claim)
           /\ claims' = claims \cup {claim}
           /\ JoinAsMember(r.user)
           /\ AcceptInvites(r.team, r.user)
  <2>1. role' \in [Users -> Roles]
        /\ \A u \in Users : Belongs(u) \/ u = r.user => Belongs(u)'
    BY <1>0, <1>1, <1>4 DEF JoinAsMember, TypeOK, Roles, Belongs
  <2>2. /\ invite' \in [Teams -> Invite]
        /\ \A t \in Teams : t # r.team => invite'[t] = invite[t]
        /\ \/ invite'[r.team] = invite[r.team]
           \/ invite'[r.team].by = r.user
    BY <1>0, <1>1, <1>4 DEF AcceptInvites, TypeOK, Invite
  <2>3. TypeOK'  BY <1>0, <1>1, <1>2, <1>4, <2>1, <2>2 DEF TypeOK
  <2>4. claim \in claims \/ ~Conflicts(claim)
    BY <1>4 DEF MembersInv, HeldIsClaimed, CommitAccept, Doing
  <2>5. ClaimsOneToOne'
    BY <1>1, <1>4, <2>4 DEF MembersInv, ClaimsOneToOne, Conflicts
  <2>6. ClaimantBelongs'
    BY <1>0, <1>1, <1>4, <2>1 DEF MembersInv, ClaimantBelongs, TypeOK, Claim
  <2>7. AcceptedNamesClaimant'
    BY <1>1, <1>4, <2>2 DEF MembersInv, AcceptedNamesClaimant, MembersAssumption
  <2>8. HeldIsClaimed'  BY <1>2, <1>4, IdleIsRequest DEF MembersInv, HeldIsClaimed
  <2>9. HandoffToAnother'  BY <1>2, IdleIsRequest DEF MembersInv, HandoffToAnother, Doing
  <2>. QED  BY <2>3, <2>5, <2>6, <2>7, <2>8, <2>9 DEF MembersInv
<1>. QED  BY <1>3, <1>4 DEF CommitAccept

-----------------------------------------------------------------------------
(* Theorems *)

LEMMA InitHolds == ASSUME MembersAssumption, Init PROVE MembersInv
<1>1. TypeOK
  BY IdleIsRequest DEF MembersAssumption, Init, TypeOK, Roles, Invite
<1>2. ClaimsOneToOne /\ ClaimantBelongs  BY DEF Init, ClaimsOneToOne, ClaimantBelongs
<1>3. AcceptedNamesClaimant  BY DEF Init, AcceptedNamesClaimant
<1>4. HeldIsClaimed /\ HandoffToAnother
  BY IdleIsRequest DEF Init, HeldIsClaimed, HandoffToAnother, Doing
<1>. QED  BY <1>1, <1>2, <1>3, <1>4 DEF MembersInv

\* Every step keeps the invariant.
LEMMA NextKeeps ==
  ASSUME MembersAssumption, MembersInv, Next
  PROVE  MembersInv'
<1>1. ASSUME NEW u \in Users, GoLive(u) PROVE MembersInv'
  BY <1>1, GoLiveKeeps
<1>2. ASSUME NEW s \in Slots,
             \/ \E a, u \in Users : ReadHandoff(s, a, u) \/ ReadAppointment(s, a, u)
             \/ \E u \in Users, t \in Teams :
                  ReadTarget(s, u, t) \/ OpenLink(s, u, t) \/ OpenRosterLink(s, u, t)
             \/ CheckClaims(s)
             \/ GiveUp(s)
      PROVE  MembersInv'
  BY <1>2, ReadsKeep
<1>3. ASSUME NEW s \in Slots, CommitHandoff(s) \/ CommitAppointment(s) PROVE MembersInv'
  BY <1>3, RoleWritesKeep
<1>4. ASSUME NEW s \in Slots, SaveInvite(s) \/ MarkSent(s) PROVE MembersInv'
  BY <1>4, InviteWritesKeep
<1>5. ASSUME NEW s \in Slots, CommitAccept(s) PROVE MembersInv'
  BY <1>5, CommitAcceptKeeps
<1>. QED  BY <1>1, <1>2, <1>3, <1>4, <1>5 DEF Next

LEMMA StutterKeeps ==
  ASSUME MembersInv, UNCHANGED vars
  PROVE  MembersInv'
BY DEF MembersInv, vars, TypeOK, ClaimsOneToOne, ClaimantBelongs, Belongs,
       AcceptedNamesClaimant, HeldIsClaimed, HandoffToAnother, Doing

\* The invariant holds in every reachable state.
THEOREM InductiveInvariant == Spec => []MembersInv
<1>1. Init => MembersInv  BY MembersAssumption, InitHolds
<1>2. MembersInv /\ [Next]_vars => MembersInv'  BY MembersAssumption, NextKeeps, StutterKeeps
<1>. QED  BY <1>1, <1>2, PTL DEF Spec

\* Whatever runs at once, every variable keeps its type.
THEOREM TypeCorrect == Spec => []TypeOK
<1>1. MembersInv => TypeOK  BY DEF MembersInv
<1>. QED  BY <1>1, InductiveInvariant, PTL

\* However many links are accepted at once, a user is one team and a team one user
\* (acceptLeagueInvite and the unique indexes).
THEOREM OneIdentity == Spec => []ClaimsOneToOne
<1>1. MembersInv => ClaimsOneToOne  BY DEF MembersInv
<1>. QED  BY <1>1, InductiveInvariant, PTL

\* Whoever claimed a team is in the league, whatever handoffs and appointments do.
THEOREM ClaimantsAreMembers == Spec => []ClaimantBelongs
<1>1. MembersInv => ClaimantBelongs  BY DEF MembersInv
<1>. QED  BY <1>1, InductiveInvariant, PTL

\* The user an invite names as accepted holds the claim, also when the invite was
\* written again after it was accepted.
THEOREM InvitesTellTheTruth == Spec => []AcceptedNamesClaimant
<1>1. MembersInv => AcceptedNamesClaimant  BY DEF MembersInv
<1>. QED  BY <1>1, InductiveInvariant, PTL

\* Only the write of a handoff or an appointment changes the role of a member.
THEOREM RolesAreKept == Spec => RolesChangeByAuthority
<1>. DEFINE Authority ==
       \A u \in Users :
         Belongs(u) /\ role'[u] # role[u] =>
           \E s \in Slots :
             /\ request[s].kind \in {"handoff", "appoint"} /\ request'[s] = Idle
             /\ \/ request[s].target = u
                \/ Doing(s, "handoff") /\ request[s].actor = u
<1>1. ASSUME MembersInv, Next PROVE Authority
  <2>0. TypeOK  BY <1>1 DEF MembersInv
  <2>1. ASSUME NEW u \in Users, GoLive(u) PROVE Authority
    BY <2>0, <2>1 DEF GoLive, TypeOK, Belongs
  <2>2. ASSUME NEW s \in Slots, CommitHandoff(s) PROVE Authority
    <3>1. request[s].kind = "handoff" /\ request'[s] = Idle
      BY <2>0, <2>2 DEF CommitHandoff, Doing, Done, Then, TypeOK
    <3>2. \A u \in Users : role'[u] # role[u] =>
            u = request[s].target \/ u = request[s].actor
      BY <2>0, <2>2 DEF CommitHandoff, TypeOK
    <3>. QED  BY <3>1, <3>2 DEF Doing
  <2>3. ASSUME NEW s \in Slots, CommitAppointment(s) PROVE Authority
    <3>1. request[s].kind = "appoint" /\ request'[s] = Idle
      BY <2>0, <2>3 DEF CommitAppointment, Doing, Done, Then, TypeOK
    <3>2. \A u \in Users : role'[u] # role[u] => u = request[s].target
      BY <2>0, <2>3 DEF CommitAppointment, TypeOK
    <3>. QED  BY <3>1, <3>2
  <2>4. ASSUME NEW s \in Slots, CommitAccept(s) PROVE Authority
    BY <2>0, <2>4 DEF CommitAccept, JoinAsMember, TypeOK, Belongs
  <2>5. ASSUME UNCHANGED role PROVE Authority
    BY <2>5
  <2>. QED  BY <1>1, <2>1, <2>2, <2>3, <2>4, <2>5
            DEF Next, ReadHandoff, ReadAppointment, ReadTarget, OpenLink,
                OpenRosterLink, SaveInvite, MarkSent, CheckClaims, GiveUp
<1>2. ASSUME MembersInv, [Next]_vars PROVE [Authority]_vars
  BY <1>1, <1>2 DEF vars
<1>. QED  BY <1>2, InductiveInvariant, PTL DEF Spec, RolesChangeByAuthority

\* Handoffs leave the league a commissioner, however many are under way.
THEOREM HandoffsKeepALeader == Spec => HandoffKeepsALeader
<1>. DEFINE Kept == Led /\ ~Led' => \E s \in Slots : Doing(s, "appoint") /\ request'[s] = Idle
<1>1. ASSUME MembersInv, Next PROVE Kept
  <2>0. TypeOK  BY <1>1 DEF MembersInv
  <2>1. ASSUME NEW u \in Users, GoLive(u) PROVE Kept
    BY <2>0, <2>1 DEF GoLive, TypeOK, Belongs, Led
  <2>2. ASSUME NEW s \in Slots, CommitHandoff(s) PROVE Kept
    <3>1. request[s].target \in Users /\ request[s].actor \in Users
          /\ request[s].target # request[s].actor
      BY <1>1, <2>0, <2>2, RequestShape DEF CommitHandoff, Doing, MembersInv, HandoffToAnother
    <3>2. role'[request[s].target] = "commissioner"
      BY <2>0, <2>2, <3>1 DEF CommitHandoff, TypeOK
    <3>. QED  BY <3>1, <3>2 DEF Led
  <2>3. ASSUME NEW s \in Slots, CommitAppointment(s) PROVE Kept
    BY <2>0, <2>3 DEF CommitAppointment, Doing, Done, Then, TypeOK
  <2>4. ASSUME NEW s \in Slots, CommitAccept(s) PROVE Kept
    BY <2>0, <2>4 DEF CommitAccept, JoinAsMember, TypeOK, Led
  <2>5. ASSUME UNCHANGED role PROVE Kept
    BY <2>5 DEF Led
  <2>. QED  BY <1>1, <2>1, <2>2, <2>3, <2>4, <2>5
            DEF Next, ReadHandoff, ReadAppointment, ReadTarget, OpenLink,
                OpenRosterLink, SaveInvite, MarkSent, CheckClaims, GiveUp
<1>2. ASSUME MembersInv, [Next]_vars PROVE [Kept]_vars
  BY <1>1, <1>2 DEF vars
<1>. QED  BY <1>2, InductiveInvariant, PTL DEF Spec, HandoffKeepsALeader


(***************************************************************************)
(* ShadowImport.  The rows of all owners name one league, the one that     *)
(* exists; a request may take back what its own claim did and no more,     *)
(* because what it remembers of the row is what the claim replaced.        *)
(***************************************************************************)
\* A settled row names a league, and a row that names one names the present one.
RowSound(u) ==
  /\ discovery[u].imported # 0 => discovery[u].imported = league
  /\ discovery[u].state \in {"quarantined", "live"} => discovery[u].imported # 0
  /\ discovery[u].state = "live" => u \in members

\* What a request would put back is no live row, and names the league its claim
\* still names.
RequestSound(u) ==
  importing[u].at # "idle" =>
    /\ importing[u].attempt = importing[u].previous.attempts + 1
    /\ importing[u].previous.state # "live"
    /\ importing[u].previous.state = "quarantined" =>
         importing[u].previous.imported # 0
    /\ HoldsClaim(u, importing[u].attempt) /\ importing[u].previous.imported # 0 =>
         discovery[u].imported = importing[u].previous.imported
    /\ importing[u].at \in {"synced", "marked"} => importing[u].league # 0

JobsSound == \A e \in jobs : e.league # 0

Sound ==
  /\ \A u \in Owners : RowSound(u) /\ RequestSound(u)
  /\ JobsSound

ShadowInv == ShadowTypeOK /\ Sound

-----------------------------------------------------------------------------
(* Types *)

LEMMA NoRequestTyped == BoundsAssumption => Unclaimed \in Row /\ NoRequest \in Importing
BY DEF BoundsAssumption, Unclaimed, NoRequest, Row, Importing, Attempts, Leagues, Credentials

LEMMA MoveTyped ==
  ASSUME BoundsAssumption, ShadowTypeOK, NEW u \in Owners,
         \/ EndRequest(u)
         \/ \E at \in {"synced", "marked", "undo", "orphan"} : MoveRequest(u, at)
  PROVE  importing' \in [Owners -> Importing]
BY NoRequestTyped DEF ShadowTypeOK, EndRequest, MoveRequest, Importing

LEMMA AgainTyped ==
  ASSUME BoundsAssumption, NEW e \in ImportJob
  PROVE  /\ Again(e) \in ImportJob
         /\ Again(e).league = e.league /\ Again(e).user = e.user
         /\ Again(e).attempt = e.attempt
         /\ \A at \in {"clean", "flagged", "failed"} :
              [e EXCEPT !.at = at] \in ImportJob
<1>1. \A at \in {"queued", "clean", "flagged", "failed"} :
        [e EXCEPT !.at = at] \in ImportJob
  BY DEF ImportJob
<1>2. CASE e.try < MaxTries
  <2>1. e.try + 1 \in 1..MaxTries  BY <1>2 DEF ImportJob, BoundsAssumption
  <2>2. /\ Again(e) \in ImportJob /\ Again(e).league = e.league
        /\ Again(e).user = e.user /\ Again(e).attempt = e.attempt
    BY <1>2, <2>1 DEF Again, ImportJob
  <2>. QED  BY <1>1, <2>2
<1>3. CASE ~(e.try < MaxTries)
  <2>1. Again(e) = [e EXCEPT !.at = "failed"]  BY <1>3 DEF Again
  <2>. QED  BY <1>1, <2>1 DEF ImportJob
<1>. QED  BY <1>2, <1>3

\* The writes of a request.
LEMMA RequestTypes ==
  ASSUME BoundsAssumption, ShadowTypeOK, NEW u \in Owners,
         \/ ClaimDiscovered(u) \/ RequestStep(u) \/ EnqueueUnheard(u)
         \/ RequestFails(u) \/ RequestDies(u) \/ GrowStale(u) \/ SignIn(u)
  PROVE  ShadowTypeOK'
<1>1. CASE ClaimDiscovered(u)
  <2>. DEFINE row == discovery[u]
              new == [row EXCEPT !.state = "shadow_running", !.attempts = @ + 1,
                                 !.stale = FALSE]
              existed == league # 0
              c == account[u]
              req == [NoRequest EXCEPT !.at = "claimed", !.attempt = row.attempts + 1,
                                       !.previous = row, !.existed = existed,
                                       !.credential = c]
  <2>1. row \in Row /\ row.attempts + 1 \in Attempts
    BY <1>1 DEF ShadowTypeOK, ClaimDiscovered, Row, Attempts, BoundsAssumption
  <2>2. new \in Row  BY <2>1 DEF Row
  <2>3. req \in Importing
    <3>1. existed \in BOOLEAN /\ c \in Credentials  BY DEF ShadowTypeOK
    <3>. HIDE DEF row, existed, c
    <3>. QED  BY <2>1, <3>1, NoRequestTyped DEF Importing
  <2>. HIDE DEF row, new, req
  <2>4. discovery' = [discovery EXCEPT ![u] = new]
    BY <1>1 DEF ClaimDiscovered, row, new
  <2>5. importing' = [importing EXCEPT ![u] = req]
    BY <1>1 DEF ClaimDiscovered, row, existed, c, req
  <2>. QED  BY <1>1, <2>2, <2>3, <2>4, <2>5 DEF ClaimDiscovered, ShadowTypeOK, dataVars, signVars
<1>2. CASE SyncLeague(u)
  <2>1. made' \in Leagues /\ league' \in {0, made'}
    BY <1>2 DEF SyncLeague, ShadowTypeOK, Leagues, BoundsAssumption
  <2>2. league' \in Leagues  BY <2>1 DEF Leagues, BoundsAssumption
  <2>3. importing' \in [Owners -> Importing]
    <3>. DEFINE req == [importing[u] EXCEPT !.at = "synced", !.league = league']
    <3>1. importing[u] \in Importing  BY DEF ShadowTypeOK
    <3>2. req \in Importing  BY <2>2, <3>1 DEF Importing
    <3>3. importing' = [importing EXCEPT ![u] = req]  BY <1>2 DEF SyncLeague
    <3>. HIDE DEF req
    <3>. QED  BY <3>2, <3>3 DEF ShadowTypeOK
  <2>. QED  BY <1>2, <2>1, <2>3 DEF SyncLeague, RunSuite, ShadowTypeOK, signVars
<1>3. CASE MarkImported(u)
  <2>1. league \in Leagues  BY DEF ShadowTypeOK, Leagues, BoundsAssumption
  <2>2. discovery' \in [Owners -> Row]
    BY <1>3, <2>1 DEF MarkImported, Marks, ShadowTypeOK, Row
  <2>. QED  BY <1>3, <2>2, MoveTyped DEF MarkImported, ShadowTypeOK, dataVars, signVars
<1>4. CASE Enqueue(u) \/ EnqueueUnheard(u)
  <2>1. importing[u] \in Importing  BY DEF ShadowTypeOK
  <2>2. EventKey(u) \in Leagues \X Attempts  BY <2>1 DEF EventKey, Importing
  <2>3. 1 \in 1..MaxTries  BY DEF BoundsAssumption
  <2>4. Accept(u)  BY <1>4 DEF Enqueue, EnqueueUnheard
  <2>5. jobs' \subseteq ImportJob
    BY <2>1, <2>3, <2>4 DEF Accept, ImportJob, Importing, ShadowTypeOK
  <2>6. keys' \subseteq Leagues \X Attempts
    BY <2>2, <2>4 DEF Accept, ShadowTypeOK
  <2>7. importing' \in [Owners -> Importing]
    BY <1>4, MoveTyped DEF Enqueue, EnqueueUnheard
  <2>. QED  BY <1>4, <2>5, <2>6, <2>7
         DEF Enqueue, EnqueueUnheard, Fault, ShadowTypeOK, dataVars, signVars, BoundsAssumption
<1>5. CASE RequestFails(u) \/ RequestDies(u)
  <2>1. importing' \in [Owners -> Importing]
    BY <1>5, MoveTyped DEF RequestFails, RequestDies
  <2>. QED  BY <1>5, <2>1
         DEF RequestFails, RequestDies, Fault, ShadowTypeOK, dataVars, signVars, BoundsAssumption
<1>6. CASE Rollback(u)
  <2>1. importing' \in [Owners -> Importing]  BY <1>6, MoveTyped DEF Rollback
  <2>2. discovery' \in [Owners -> Row]
    BY <1>6 DEF Rollback, ShadowTypeOK, Importing
  <2>. QED  BY <1>6, <2>1, <2>2 DEF Rollback, ShadowTypeOK, dataVars, signVars
<1>7. CASE DeleteOrphan(u)
  <2>1. importing' \in [Owners -> Importing] /\ discovery' \in [Owners -> Row]
    <3>1. CASE ~Unreferenced
      BY <1>7, <3>1, MoveTyped DEF DeleteOrphan, ShadowTypeOK
    <3>2. CASE Unreferenced
      <4>1. PICK marks \in SUBSET {v \in Owners : Marks(v)} :
              /\ discovery' = [v \in Owners |->
                   IF v \in marks THEN [discovery[v] EXCEPT !.imported = 0] ELSE discovery[v]]
              /\ importing' = [v \in Owners |->
                   IF v = u THEN NoRequest
                   ELSE IF v \in marks THEN [importing[v] EXCEPT !.at = "marked"]
                   ELSE importing[v]]
        BY <1>7, <3>2 DEF DeleteOrphan
      <4>2. 0 \in Leagues  BY DEF Leagues, BoundsAssumption
      <4>3. \A v \in Owners : /\ [discovery[v] EXCEPT !.imported = 0] \in Row
                              /\ [importing[v] EXCEPT !.at = "marked"] \in Importing
        <5>. TAKE v \in Owners
        <5>1. discovery[v] \in Row /\ importing[v] \in Importing  BY DEF ShadowTypeOK
        <5>2. [discovery[v] EXCEPT !.imported = 0] \in Row  BY <4>2, <5>1 DEF Row
        <5>3. [importing[v] EXCEPT !.at = "marked"] \in Importing  BY <5>1 DEF Importing
        <5>. QED  BY <5>2, <5>3
      <4>. QED  BY <4>1, <4>3, NoRequestTyped DEF ShadowTypeOK
    <3>. QED  BY <3>1, <3>2
  <2>2. league' \in {0, made'} /\ made' = made /\ failures' \in Failures
    BY <1>7 DEF DeleteOrphan, ShadowTypeOK, Failures
  <2>. QED  BY <1>7, <2>1, <2>2 DEF DeleteOrphan, ShadowTypeOK, signVars
<1>8. CASE GrowStale(u)
  <2>1. discovery' \in [Owners -> Row]  BY <1>8 DEF GrowStale, ShadowTypeOK, Row
  <2>. QED  BY <1>8, <2>1 DEF GrowStale, ShadowTypeOK, dataVars, signVars
<1>9. CASE SignIn(u)
  BY <1>9 DEF SignIn, ShadowTypeOK, dataVars, BoundsAssumption
<1>. QED  BY <1>1, <1>2, <1>3, <1>4, <1>5, <1>6, <1>7, <1>8, <1>9 DEF RequestStep

\* The writes of a job.
LEMMA JobTypes ==
  ASSUME BoundsAssumption, ShadowTypeOK, NEW e \in jobs, JobStep(e) \/ TryFails(e)
  PROVE  ShadowTypeOK'
<1>1. e \in ImportJob /\ e.user \in Owners  BY DEF ShadowTypeOK, ImportJob
<1>2. \A f \in ImportJob : MoveJob(e, f) => jobs' \subseteq ImportJob
  BY DEF MoveJob, ShadowTypeOK
<1>3. Again(e) \in ImportJob  BY <1>1, AgainTyped
<1>4. Finish(e) => jobs' \subseteq ImportJob /\ trouble' \in 0..MaxTrouble
  BY <1>2, <1>3 DEF Finish, Fault, ShadowTypeOK, BoundsAssumption
<1>5. CASE JobRuns(e)
  <2>1. failures' \in Failures  BY <1>5 DEF JobRuns, RunSuite, ShadowTypeOK
  <2>2. jobs' \subseteq ImportJob
    BY <1>1, <1>2, <1>3, <1>5, <2>1, AgainTyped DEF JobRuns, Failures, ShadowTypeOK
  <2>3. complete' \subseteq Owners  BY <1>1, <1>5 DEF JobRuns, ShadowTypeOK
  <2>. QED  BY <1>5, <2>1, <2>2, <2>3 DEF JobRuns, ShadowTypeOK, signVars
<1>6. CASE Promote(e)
  <2>1. discovery' \in [Owners -> Row]  BY <1>1, <1>6 DEF Promote, ShadowTypeOK, Row
  <2>2. members' \subseteq Owners  BY <1>1, <1>6 DEF Promote, ShadowTypeOK
  <2>. QED  BY <1>4, <1>6, <2>1, <2>2 DEF Promote, ShadowTypeOK, dataVars, signVars
<1>7. CASE Quarantine(e)
  <2>1. discovery' \in [Owners -> Row]
    BY <1>1, <1>7 DEF Quarantine, ShadowTypeOK, Row
  <2>2. jobs' \subseteq ImportJob /\ trouble' \in 0..MaxTrouble
    BY <1>1, <1>2, <1>4, <1>7, AgainTyped DEF Quarantine, ShadowTypeOK
  <2>. QED  BY <1>7, <2>1, <2>2 DEF Quarantine, ShadowTypeOK, dataVars, signVars
<1>8. CASE QuarantineExhausted(e)
  <2>1. discovery' \in [Owners -> Row]
    BY <1>1, <1>8 DEF QuarantineExhausted, ShadowTypeOK, Row
  <2>. QED  BY <1>8, <2>1 DEF QuarantineExhausted, ShadowTypeOK, dataVars, signVars
<1>9. CASE TryFails(e)
  <2>1. [e EXCEPT !.at = "failed"] \in ImportJob  BY <1>1, AgainTyped
  <2>2. jobs' \subseteq ImportJob  BY <1>2, <1>3, <1>9, <2>1 DEF TryFails
  <2>3. trouble' \in 0..MaxTrouble
    BY <1>9 DEF TryFails, Fault, ShadowTypeOK, BoundsAssumption
  <2>. QED  BY <1>9, <2>2, <2>3 DEF TryFails, ShadowTypeOK, dataVars, signVars
<1>. QED  BY <1>5, <1>6, <1>7, <1>8, <1>9 DEF JobStep

\* The writes of a review.
LEMMA ReviewTypes ==
  ASSUME BoundsAssumption, ShadowTypeOK, NEW u \in Owners,
         ReviewCheck(u) \/ CommitReview(u) \/ ReviewDies(u)
  PROVE  ShadowTypeOK'
<1>1. CASE ReviewCheck(u)  BY <1>1 DEF ReviewCheck, ShadowTypeOK, signVars
<1>2. CASE CommitReview(u)
  <2>1. discovery' \in [Owners -> Row] /\ members' \subseteq Owners
    BY <1>2 DEF CommitReview, ShadowTypeOK, Row
  <2>. QED  BY <1>2, <2>1 DEF CommitReview, ShadowTypeOK, dataVars, signVars
<1>3. CASE ReviewDies(u)
  BY <1>3 DEF ReviewDies, Fault, ShadowTypeOK, dataVars, signVars, BoundsAssumption
<1>. QED  BY <1>1, <1>2, <1>3


-----------------------------------------------------------------------------
(* The invariant *)

\* A step that leaves the league, the jobs' leagues and the other owners' rows
\* and requests as they are.
LEMMA OwnerKeeps ==
  ASSUME Sound, NEW u \in Owners,
         league' = league, members \subseteq members',
         \A v \in Owners \ {u} : /\ discovery'[v] = discovery[v]
                                 /\ importing'[v] = importing[v],
         RowSound(u)', RequestSound(u)', JobsSound'
  PROVE  Sound'
<1>. SUFFICES ASSUME NEW v \in Owners  PROVE  RowSound(v)' /\ RequestSound(v)'
  BY DEF Sound
<1>1. CASE v = u  BY <1>1
<1>2. CASE v # u
  BY <1>2 DEF Sound, RowSound, RequestSound, HoldsClaim, Running
<1>. QED  BY <1>1, <1>2

\* A job that ends, or goes on, is of the league it was of.
LEMMA JobsKept ==
  ASSUME BoundsAssumption, ShadowTypeOK, Sound, NEW e \in jobs,
         \/ jobs' = jobs \ {e}
         \/ \E f \in ImportJob : f.league = e.league /\ MoveJob(e, f)
  PROVE  JobsSound'
BY DEF Sound, JobsSound, MoveJob

LEMMA FinishKeeps ==
  ASSUME BoundsAssumption, ShadowTypeOK, Sound, NEW e \in jobs, Finish(e)
  PROVE  JobsSound'
<1>1. e \in ImportJob  BY DEF ShadowTypeOK
<1>. QED  BY <1>1, AgainTyped, JobsKept DEF Finish

\* The claim of a request: what it replaced is what the request remembers.
LEMMA ClaimKeeps ==
  ASSUME BoundsAssumption, ShadowTypeOK, Sound, NEW u \in Owners, ClaimDiscovered(u)
  PROVE  Sound'
<1>. DEFINE row == discovery[u]
<1>1. row \in Row  BY DEF ShadowTypeOK
<1>2. /\ discovery'[u].state = "shadow_running"
      /\ discovery'[u].attempts = row.attempts + 1
      /\ discovery'[u].imported = row.imported
  BY <1>1 DEF ClaimDiscovered, ShadowTypeOK, Row
<1>3. /\ importing'[u].at = "claimed"
      /\ importing'[u].attempt = row.attempts + 1
      /\ importing'[u].previous = row
  BY DEF ClaimDiscovered, ShadowTypeOK, NoRequest
<1>4. RowSound(u)'  BY <1>2 DEF Sound, RowSound, ClaimDiscovered, dataVars
<1>5. RequestSound(u)'
  BY <1>2, <1>3 DEF Sound, RowSound, RequestSound, ClaimDiscovered
<1>6. JobsSound'  BY DEF Sound, JobsSound, ClaimDiscovered
<1>7. \A v \in Owners \ {u} : discovery'[v] = discovery[v] /\ importing'[v] = importing[v]
  BY DEF ClaimDiscovered, ShadowTypeOK
<1>. QED  BY <1>4, <1>5, <1>6, <1>7, OwnerKeeps DEF ClaimDiscovered, dataVars

\* The sync: a league is made only when no row names one.
LEMMA SyncKeeps ==
  ASSUME BoundsAssumption, ShadowTypeOK, Sound, NEW u \in Owners, SyncLeague(u)
  PROVE  Sound'
<1>1. league' # 0
  BY DEF SyncLeague, ShadowTypeOK, Leagues, BoundsAssumption
<1>2. JobsSound'  BY DEF Sound, JobsSound, SyncLeague
<1>3. ASSUME NEW v \in Owners  PROVE  RowSound(v)'
  BY DEF Sound, RowSound, SyncLeague
<1>4. ASSUME NEW v \in Owners  PROVE  RequestSound(v)'
  <2>1. /\ importing[v] \in Importing
        /\ v # u => importing'[v] = importing[v]
        /\ /\ importing'[u].at = "synced"
           /\ importing'[u].league = league'
           /\ importing'[u].attempt = importing[u].attempt
           /\ importing'[u].previous = importing[u].previous
    BY DEF SyncLeague, ShadowTypeOK, Importing
  <2>2. RequestSound(v) /\ importing[u].at = "claimed" /\ UNCHANGED discovery
    BY DEF Sound, SyncLeague
  <2>. QED  BY <1>1, <2>1, <2>2 DEF RequestSound, HoldsClaim, Running
<1>. QED  BY <1>2, <1>3, <1>4 DEF Sound

\* What the end of a request, or its next phase, leaves of it.
LEMMA MoveKeeps ==
  ASSUME ShadowTypeOK, NEW u \in Owners
  PROVE  /\ EndRequest(u) =>
              /\ importing'[u].at = "idle"
              /\ \A v \in Owners \ {u} : importing'[v] = importing[v]
         /\ \A at : MoveRequest(u, at) =>
              /\ importing'[u].at = at
              /\ importing'[u].attempt = importing[u].attempt
              /\ importing'[u].previous = importing[u].previous
              /\ importing'[u].league = importing[u].league
              /\ \A v \in Owners \ {u} : importing'[v] = importing[v]
BY DEF ShadowTypeOK, EndRequest, MoveRequest, Importing, NoRequest

LEMMA MarkKeeps ==
  ASSUME BoundsAssumption, ShadowTypeOK, Sound, NEW u \in Owners, MarkImported(u)
  PROVE  Sound'
<1>1. importing[u].at = "synced" /\ RequestSound(u) /\ RowSound(u)
  BY DEF MarkImported, Sound
<1>2. CASE Marks(u)
  <2>1. MoveRequest(u, "marked") /\ discovery' = [discovery EXCEPT ![u].imported = league]
    BY <1>2 DEF MarkImported
  <2>2. /\ discovery'[u].imported = league
        /\ discovery'[u].state = discovery[u].state
        /\ discovery'[u].attempts = discovery[u].attempts
        /\ \A v \in Owners \ {u} : discovery'[v] = discovery[v]
    BY <2>1 DEF ShadowTypeOK, Row
  <2>3. league # 0  BY <1>1, <1>2 DEF RequestSound, Marks
  <2>4. RowSound(u)'
    BY <1>1, <2>2, <2>3 DEF RowSound, MarkImported, dataVars
  <2>5. RequestSound(u)'
    BY <1>1, <1>2, <2>1, <2>2, MoveKeeps DEF RequestSound, RowSound, HoldsClaim, Running
  <2>6. JobsSound'  BY DEF Sound, JobsSound, MarkImported
  <2>. QED  BY <2>1, <2>2, <2>4, <2>5, <2>6, MoveKeeps, OwnerKeeps
         DEF MarkImported, dataVars
<1>3. CASE ~Marks(u)
  <2>1. MoveRequest(u, "undo") /\ UNCHANGED discovery  BY <1>3 DEF MarkImported
  <2>2. RowSound(u)'  BY <1>1, <2>1 DEF RowSound, MarkImported, dataVars
  <2>3. RequestSound(u)'
    BY <1>1, <2>1, MoveKeeps DEF RequestSound, HoldsClaim, Running
  <2>4. JobsSound'  BY DEF Sound, JobsSound, MarkImported
  <2>. QED  BY <2>1, <2>2, <2>3, <2>4, MoveKeeps, OwnerKeeps DEF MarkImported, dataVars
<1>. QED  BY <1>2, <1>3

\* The rows stay as they are: a request ends, or turns to its rollback.
LEMMA RequestEndKeeps ==
  ASSUME BoundsAssumption, ShadowTypeOK, Sound, NEW u \in Owners,
         Enqueue(u) \/ EnqueueUnheard(u) \/ RequestFails(u) \/ RequestDies(u)
  PROVE  Sound'
<1>1. RequestSound(u) /\ RowSound(u)  BY DEF Sound
<1>2. JobsSound'
  <2>1. CASE Enqueue(u) \/ EnqueueUnheard(u)
    <3>1. Accept(u) /\ importing[u].at = "marked"
      BY <2>1 DEF Enqueue, EnqueueUnheard
    <3>2. importing[u].league # 0  BY <1>1, <3>1 DEF RequestSound
    <3>. QED  BY <3>1, <3>2 DEF Accept, Sound, JobsSound
  <2>2. CASE RequestFails(u) \/ RequestDies(u)
    BY <2>2 DEF RequestFails, RequestDies, Sound, JobsSound
  <2>. QED  BY <2>1, <2>2
<1>3. UNCHANGED <<discovery, league, members>>
  BY DEF Enqueue, EnqueueUnheard, RequestFails, RequestDies, dataVars
<1>4. EndRequest(u) \/ (MoveRequest(u, "undo") /\ importing[u].at # "idle")
  BY DEF Enqueue, EnqueueUnheard, RequestFails, RequestDies
<1>5. RowSound(u)'  BY <1>1, <1>3 DEF RowSound
<1>6. RequestSound(u)'
  BY <1>1, <1>3, <1>4, MoveKeeps DEF RequestSound, HoldsClaim, Running
<1>. QED  BY <1>2, <1>3, <1>4, <1>5, <1>6, MoveKeeps, OwnerKeeps

\* The rollback: the row it puts back names the league the claim's row named.
LEMMA RollbackKeeps ==
  ASSUME BoundsAssumption, ShadowTypeOK, Sound, NEW u \in Owners, Rollback(u)
  PROVE  Sound'
<1>. DEFINE req == importing[u]
<1>1. req.at = "undo" /\ RequestSound(u) /\ RowSound(u)  BY DEF Rollback, Sound
<1>2. JobsSound' /\ UNCHANGED <<league, members>>
  BY DEF Rollback, Sound, JobsSound, dataVars
<1>3. EndRequest(u) \/ MoveRequest(u, "orphan")  BY DEF Rollback
<1>4. CASE HoldsClaim(u, req.attempt)
  <2>1. discovery' = [discovery EXCEPT ![u] = req.previous]  BY <1>4 DEF Rollback
  <2>2. /\ discovery'[u] = req.previous
        /\ \A v \in Owners \ {u} : discovery'[v] = discovery[v]
    BY <2>1 DEF ShadowTypeOK
  <2>3. RowSound(u)'
    BY <1>1, <1>2, <1>4, <2>2 DEF RowSound, RequestSound
  <2>4. req.previous \in Row  BY DEF ShadowTypeOK, Importing
  <2>5. RequestSound(u)'
    BY <1>1, <1>3, <2>2, <2>4, MoveKeeps DEF RequestSound, HoldsClaim, Running, Row, Attempts
  <2>. QED  BY <1>2, <1>3, <2>2, <2>3, <2>5, MoveKeeps, OwnerKeeps
<1>5. CASE ~HoldsClaim(u, req.attempt)
  <2>1. EndRequest(u) /\ UNCHANGED discovery  BY <1>5 DEF Rollback
  <2>2. RowSound(u)'  BY <1>1, <1>2, <2>1 DEF RowSound
  <2>3. RequestSound(u)'  BY <2>1, MoveKeeps DEF RequestSound
  <2>. QED  BY <1>2, <2>1, <2>2, <2>3, MoveKeeps, OwnerKeeps
<1>. QED  BY <1>4, <1>5

\* The cleanup: the league it deletes is named by no row, and the marks it overtakes go
\* with it.
LEMMA DeleteKeeps ==
  ASSUME BoundsAssumption, ShadowTypeOK, Sound, NEW u \in Owners, DeleteOrphan(u)
  PROVE  Sound'
<1>1. UNCHANGED <<members, jobs>> /\ JobsSound'  BY DEF DeleteOrphan, Sound, JobsSound
<1>2. CASE ~Unreferenced
  <2>1. EndRequest(u) /\ UNCHANGED <<league, discovery>>  BY <1>2 DEF DeleteOrphan
  <2>2. ASSUME NEW v \in Owners  PROVE  RowSound(v)' /\ RequestSound(v)'
    BY <1>1, <2>1, MoveKeeps DEF Sound, RowSound, RequestSound, HoldsClaim, Running
  <2>. QED  BY <1>1, <2>2 DEF Sound
<1>3. CASE Unreferenced
  <2>1. PICK marks \in SUBSET {v \in Owners : Marks(v)} :
          /\ league' = 0
          /\ discovery' = [v \in Owners |->
               IF v \in marks THEN [discovery[v] EXCEPT !.imported = 0] ELSE discovery[v]]
          /\ importing' = [v \in Owners |->
               IF v = u THEN NoRequest
               ELSE IF v \in marks THEN [importing[v] EXCEPT !.at = "marked"]
               ELSE importing[v]]
    BY <1>3 DEF DeleteOrphan
  <2>2. ASSUME NEW v \in Owners  PROVE  RowSound(v)' /\ RequestSound(v)'
    <3>1. /\ RowSound(v) /\ RequestSound(v) /\ discovery[v].imported # league
          /\ discovery[v] \in Row /\ importing[v] \in Importing
      BY <1>3 DEF Sound, Unreferenced, ShadowTypeOK
    <3>2. discovery[v].imported = 0  BY <3>1 DEF RowSound
    <3>3. /\ discovery'[v].imported = 0 /\ discovery'[v].state = discovery[v].state
          /\ discovery'[v].attempts = discovery[v].attempts
      BY <2>1, <3>1, <3>2 DEF Row
    <3>4. RowSound(v)'  BY <1>1, <3>1, <3>2, <3>3 DEF RowSound
    <3>5. \/ importing'[v].at = "idle"
          \/ importing'[v] = importing[v]
          \/ /\ importing[v].at = "synced" /\ importing'[v].at = "marked"
             /\ importing'[v].attempt = importing[v].attempt
             /\ importing'[v].previous = importing[v].previous
             /\ importing'[v].league = importing[v].league
      BY <2>1, <3>1 DEF NoRequest, Marks, Importing
    <3>6. RequestSound(v)'
      BY <3>1, <3>2, <3>3, <3>5 DEF RequestSound, HoldsClaim, Running
    <3>. QED  BY <3>4, <3>6
  <2>. QED  BY <1>1, <2>2 DEF Sound
<1>. QED  BY <1>2, <1>3

\* The stale limit and the owner's review.
LEMMA RowWritesKeep ==
  ASSUME BoundsAssumption, ShadowTypeOK, Sound, NEW u \in Owners,
         GrowStale(u) \/ CommitReview(u)
  PROVE  Sound'
<1>1. RequestSound(u) /\ RowSound(u)  BY DEF Sound
<1>2. UNCHANGED <<league, jobs, importing>>  BY DEF GrowStale, CommitReview, dataVars
<1>3. /\ discovery'[u].imported = discovery[u].imported
      /\ discovery'[u].attempts = discovery[u].attempts
      /\ \A v \in Owners \ {u} : discovery'[v] = discovery[v]
  BY DEF GrowStale, CommitReview, ShadowTypeOK, Row
<1>4. \/ discovery'[u].state = discovery[u].state
      \/ discovery[u].state = "quarantined" /\ discovery'[u].state = "live" /\ u \in members'
  BY DEF GrowStale, CommitReview, ShadowTypeOK, Row
<1>5. members \subseteq members'  BY DEF GrowStale, CommitReview
<1>6. RowSound(u)'  BY <1>1, <1>2, <1>3, <1>4, <1>5 DEF RowSound
<1>7. RequestSound(u)'
  BY <1>1, <1>2, <1>3, <1>4 DEF RequestSound, HoldsClaim, Running
<1>8. JobsSound'  BY <1>2 DEF Sound, JobsSound
<1>. QED  BY <1>2, <1>3, <1>5, <1>6, <1>7, <1>8, OwnerKeeps

\* The verdict of a job, and that of its failure: on a row that names its league.
LEMMA VerdictKeeps ==
  ASSUME BoundsAssumption, ShadowTypeOK, Sound, NEW e \in jobs,
         Promote(e) \/ Quarantine(e) \/ QuarantineExhausted(e)
  PROVE  Sound'
<1>. DEFINE u == e.user
<1>1. e \in ImportJob /\ u \in Owners  BY DEF ShadowTypeOK, ImportJob
<1>2. RequestSound(u) /\ RowSound(u) /\ e.league # 0  BY <1>1 DEF Sound, JobsSound
<1>3. UNCHANGED <<league, importing>> /\ members \subseteq members'
  BY DEF Promote, Quarantine, QuarantineExhausted, dataVars
<1>4. JobsSound'
  <2>1. [e EXCEPT !.at = "failed"] \in ImportJob /\ [e EXCEPT !.at = "failed"].league = e.league
    BY <1>1 DEF ImportJob
  <2>. QED  BY <2>1, FinishKeeps, JobsKept DEF Promote, Quarantine, QuarantineExhausted
<1>5. /\ discovery'[u].imported = discovery[u].imported
      /\ discovery'[u].attempts = discovery[u].attempts
      /\ \A v \in Owners \ {u} : discovery'[v] = discovery[v]
  BY <1>1 DEF Promote, Quarantine, QuarantineExhausted, ShadowTypeOK, Row
<1>6. \/ discovery'[u].state = discovery[u].state
      \/ /\ discovery[u].imported = e.league
         /\ \/ discovery'[u].state = "quarantined"
            \/ discovery'[u].state = "live" /\ u \in members'
  BY <1>1 DEF Promote, Quarantine, QuarantineExhausted, StillShadow, Settles, ShadowTypeOK, Row
<1>7. RowSound(u)'  BY <1>2, <1>3, <1>5, <1>6 DEF RowSound
<1>8. RequestSound(u)'
  BY <1>2, <1>3, <1>5, <1>6 DEF RequestSound, HoldsClaim, Running
<1>. QED  BY <1>1, <1>3, <1>4, <1>5, <1>7, <1>8, OwnerKeeps

\* Steps that write no row and no request.
LEMMA OthersKeep ==
  ASSUME BoundsAssumption, ShadowTypeOK, Sound,
         \/ \E u \in Owners : SignIn(u) \/ ReviewCheck(u) \/ ReviewDies(u)
         \/ \E e \in jobs : JobRuns(e) \/ TryFails(e)
  PROVE  Sound'
<1>1. UNCHANGED <<discovery, importing, league, members>>
  BY DEF SignIn, ReviewCheck, ReviewDies, JobRuns, TryFails, dataVars
<1>2. JobsSound'
  <2>1. CASE \E u \in Owners : SignIn(u) \/ ReviewCheck(u) \/ ReviewDies(u)
    BY <2>1 DEF SignIn, ReviewCheck, ReviewDies, Sound, JobsSound
  <2>2. ASSUME NEW e \in jobs, JobRuns(e) \/ TryFails(e)  PROVE  JobsSound'
    <3>1. e \in ImportJob  BY DEF ShadowTypeOK
    <3>2. Again(e) \in ImportJob /\ Again(e).league = e.league  BY <3>1, AgainTyped
    <3>3. \A at \in {"clean", "flagged", "failed"} :
            [e EXCEPT !.at = at] \in ImportJob /\ [e EXCEPT !.at = at].league = e.league
      BY <3>1 DEF ImportJob
    <3>4. jobs' = jobs \ {e} \/ \E f \in ImportJob : f.league = e.league /\ MoveJob(e, f)
      <4>1. CASE TryFails(e)  BY <3>2, <3>3, <4>1 DEF TryFails
      <4>2. CASE JobRuns(e)
        <5>1. failures' \in Failures  BY <4>2 DEF JobRuns, RunSuite, ShadowTypeOK
        <5>. QED  BY <3>2, <3>3, <4>2, <5>1 DEF JobRuns, Failures
      <4>. QED  BY <2>2, <4>1, <4>2
    <3>. QED  BY <3>4, JobsKept
  <2>. QED  BY <2>1, <2>2
<1>3. ASSUME NEW u \in Owners  PROVE  RowSound(u)' /\ RequestSound(u)'
  BY <1>1 DEF Sound, RowSound, RequestSound, HoldsClaim, Running
<1>. QED  BY <1>2, <1>3 DEF Sound


LEMMA ShadowInitSound == BoundsAssumption /\ ShadowInit => ShadowInv
<1>. SUFFICES ASSUME BoundsAssumption, ShadowInit  PROVE  ShadowInv
  OBVIOUS
<1>1. ShadowTypeOK
  <2>1. discovery \in [Owners -> Row] /\ importing \in [Owners -> Importing]
    BY NoRequestTyped DEF ShadowInit
  <2>. QED  BY <2>1 DEF ShadowInit, ShadowTypeOK, Failures, Leagues, Credentials, BoundsAssumption
<1>2. Sound
  BY DEF ShadowInit, Sound, RowSound, RequestSound, JobsSound, NoRequest, Unclaimed
<1>. QED  BY <1>1, <1>2 DEF ShadowInv

LEMMA ShadowStepSound == BoundsAssumption /\ ShadowInv /\ [ShadowNext]_shadowVars => ShadowInv'
<1>. SUFFICES ASSUME BoundsAssumption, ShadowTypeOK, Sound, [ShadowNext]_shadowVars
              PROVE  ShadowTypeOK' /\ Sound'
  BY DEF ShadowInv
<1>1. ASSUME NEW u \in Owners,
             \/ ClaimDiscovered(u) \/ RequestStep(u) \/ EnqueueUnheard(u)
             \/ RequestFails(u) \/ RequestDies(u) \/ GrowStale(u) \/ SignIn(u)
      PROVE  ShadowTypeOK' /\ Sound'
  BY <1>1, RequestTypes, OthersKeep, ClaimKeeps, SyncKeeps, MarkKeeps, RequestEndKeeps,
     RollbackKeeps, DeleteKeeps, RowWritesKeep DEF RequestStep
<1>2. ASSUME NEW u \in Owners, ReviewCheck(u) \/ CommitReview(u) \/ ReviewDies(u)
      PROVE  ShadowTypeOK' /\ Sound'
  BY <1>2, ReviewTypes, RowWritesKeep, OthersKeep
<1>3. ASSUME NEW e \in jobs, JobStep(e) \/ TryFails(e)
      PROVE  ShadowTypeOK' /\ Sound'
  BY <1>3, JobTypes, VerdictKeeps, OthersKeep DEF JobStep
<1>4. CASE UNCHANGED shadowVars
  <2>1. ShadowTypeOK'  BY <1>4 DEF shadowVars, ShadowTypeOK
  <2>2. Sound'
    BY <1>4 DEF shadowVars, Sound, RowSound, RequestSound, JobsSound, HoldsClaim, Running
  <2>. QED  BY <2>1, <2>2
<1>. QED  BY <1>1, <1>2, <1>3, <1>4 DEF ShadowNext

\* The cleanup decides nothing about a row.
LEMMA DeleteKeepsStates ==
  ASSUME ShadowTypeOK, NEW u \in Owners, NEW v \in Owners, DeleteOrphan(v)
  PROVE  discovery'[u].state = discovery[u].state
<1>1. discovery[u] \in Row  BY DEF ShadowTypeOK
<1>2. CASE Unreferenced
  <2>1. PICK marks \in SUBSET Owners :
          discovery' = [w \in Owners |->
            IF w \in marks THEN [discovery[w] EXCEPT !.imported = 0] ELSE discovery[w]]
    BY <1>2 DEF DeleteOrphan
  <2>. QED  BY <1>1, <2>1 DEF Row
<1>3. CASE ~Unreferenced
  BY <1>3 DEF DeleteOrphan
<1>. QED  BY <1>2, <1>3

\* Every state of an import is typed, for any numbers of owners, attempts,
\* leagues, sign-ins and failures.
THEOREM ShadowTypes == ShadowSpec => []ShadowTypeOK
<1>1. ShadowInit => ShadowInv  BY ShadowInitSound, BoundsAssumption
<1>2. ShadowInv /\ [ShadowNext]_shadowVars => ShadowInv'
  BY ShadowStepSound, BoundsAssumption
<1>3. ShadowInv => ShadowTypeOK  BY DEF ShadowInv
<1>. QED  BY <1>1, <1>2, <1>3, PTL DEF ShadowSpec

\* What requests, jobs and rows remember of the league is sound in every reachable state.
THEOREM ShadowInvariant == ShadowSpec => []ShadowInv
<1>1. ShadowInit => ShadowInv  BY ShadowInitSound, BoundsAssumption
<1>2. ShadowInv /\ [ShadowNext]_shadowVars => ShadowInv'
  BY ShadowStepSound, BoundsAssumption
<1>. QED  BY <1>1, <1>2, PTL DEF ShadowSpec

\* A row that is live or in quarantine names the league that exists, and the
\* owner of a live row is a member: no cleanup of anybody's failed import deletes
\* a league that another owner's import has reached.
THEOREM SettledRowHasItsLeague == ShadowSpec => []SettledLeagueExists
<1>1. ShadowInv => SettledLeagueExists
  BY DEF ShadowInv, Sound, RowSound, SettledLeagueExists
<1>. QED  BY <1>1, ShadowInvariant, PTL

\* No step takes a live row back: the rollback of a request whose event the
\* queue took unheard, the end of an old job and a new claim all leave it.
THEOREM LiveStaysLive == ShadowSpec => LiveIsFinal
<1>. DEFINE Kept ==
       \A u \in Owners : discovery[u].state = "live" => discovery'[u].state = "live"
<1>1. ShadowInv /\ [ShadowNext]_shadowVars => [Kept]_shadowVars
  <2>. SUFFICES ASSUME ShadowTypeOK, [ShadowNext]_shadowVars,
                       NEW u \in Owners, discovery[u].state = "live"
                PROVE  discovery'[u].state = "live"
    BY DEF ShadowInv
  <2>1. ASSUME NEW v \in Owners,
               \/ ClaimDiscovered(v) \/ RequestStep(v) \/ EnqueueUnheard(v)
               \/ RequestFails(v) \/ RequestDies(v) \/ GrowStale(v) \/ SignIn(v)
        PROVE  discovery'[u].state = "live"
    <3>1. CASE ClaimDiscovered(v)
      BY <3>1 DEF ClaimDiscovered, ShadowTypeOK
    <3>2. CASE MarkImported(v)
      BY <3>2 DEF MarkImported, ShadowTypeOK, Row
    <3>3. CASE Rollback(v)
      BY <3>3 DEF Rollback, HoldsClaim, Running, ShadowTypeOK
    <3>4. CASE GrowStale(v)
      BY <3>4 DEF GrowStale, ShadowTypeOK, Row
    <3>5. CASE \/ SyncLeague(v) \/ Enqueue(v) \/ EnqueueUnheard(v) \/ SignIn(v)
               \/ RequestFails(v) \/ RequestDies(v)
      BY <3>5 DEF SyncLeague, Enqueue, EnqueueUnheard, SignIn, RequestFails, RequestDies
    <3>6. CASE DeleteOrphan(v)
      BY <3>6, DeleteKeepsStates
    <3>. QED  BY <2>1, <3>1, <3>2, <3>3, <3>4, <3>5, <3>6 DEF RequestStep
  <2>2. ASSUME NEW v \in Owners, ReviewCheck(v) \/ CommitReview(v) \/ ReviewDies(v)
        PROVE  discovery'[u].state = "live"
    BY <2>2 DEF ReviewCheck, CommitReview, ReviewDies, ShadowTypeOK, Row
  <2>3. ASSUME NEW e \in jobs, JobStep(e) \/ TryFails(e)
        PROVE  discovery'[u].state = "live"
    BY <2>3 DEF JobStep, JobRuns, Promote, Quarantine, QuarantineExhausted, TryFails,
                StillShadow, Settles, ShadowTypeOK, Row
  <2>4. CASE UNCHANGED shadowVars  BY <2>4 DEF shadowVars
  <2>. QED  BY <2>1, <2>2, <2>3, <2>4 DEF ShadowNext
<1>2. ShadowSpec => [][Kept]_shadowVars
  BY <1>1, ShadowInvariant, PTL DEF ShadowSpec
<1>. QED  BY <1>2 DEF LiveIsFinal

\* The verdict on a running claim is that of a job of this very attempt, however
\* many older jobs of the row are still being retried.
THEOREM VerdictIsOfTheClaim == ShadowSpec => VerdictOfOwnAttempt
<1>. DEFINE Own ==
       \A u \in Owners :
         /\ Running(u) /\ UNCHANGED importing
         /\ discovery'[u].state \in {"quarantined", "live"}
         => \E e \in jobs : e.user = u /\ e.attempt = discovery[u].attempts
<1>1. ShadowInv /\ [ShadowNext]_shadowVars => [Own]_shadowVars
  <2>. SUFFICES ASSUME ShadowTypeOK, [ShadowNext]_shadowVars,
                       NEW u \in Owners, Running(u), UNCHANGED importing,
                       discovery'[u].state \in {"quarantined", "live"}
                PROVE  \E e \in jobs : e.user = u /\ e.attempt = discovery[u].attempts
    BY DEF ShadowInv
  <2>0. discovery[u].state = "shadow_running"  BY DEF Running
  <2>1. ASSUME NEW v \in Owners,
               \/ ClaimDiscovered(v) \/ RequestStep(v) \/ EnqueueUnheard(v)
               \/ RequestFails(v) \/ RequestDies(v) \/ GrowStale(v) \/ SignIn(v)
        PROVE  FALSE
    <3>1. CASE ClaimDiscovered(v)
      BY <3>1 DEF ClaimDiscovered, ShadowTypeOK, NoRequest
    <3>2. CASE MarkImported(v)
      BY <2>0, <3>2 DEF MarkImported, ShadowTypeOK, Row
    <3>3. CASE Rollback(v)
      BY <3>3, MoveKeeps DEF Rollback
    <3>4. CASE GrowStale(v)
      BY <2>0, <3>4 DEF GrowStale, ShadowTypeOK, Row
    <3>5. CASE \/ SyncLeague(v) \/ Enqueue(v) \/ EnqueueUnheard(v) \/ SignIn(v)
               \/ RequestFails(v) \/ RequestDies(v)
      BY <2>0, <3>5 DEF SyncLeague, Enqueue, EnqueueUnheard, SignIn, RequestFails, RequestDies
    <3>6. CASE DeleteOrphan(v)
      <4>1. discovery'[u].state = discovery[u].state  BY <3>6, DeleteKeepsStates
      <4>. QED  BY <2>0, <4>1
    <3>. QED  BY <2>1, <3>1, <3>2, <3>3, <3>4, <3>5, <3>6 DEF RequestStep
  <2>2. ASSUME NEW v \in Owners, ReviewCheck(v) \/ CommitReview(v) \/ ReviewDies(v)
        PROVE  FALSE
    BY <2>0, <2>2 DEF ReviewCheck, CommitReview, ReviewDies, ShadowTypeOK, Row
  <2>3. ASSUME NEW e \in jobs, JobStep(e) \/ TryFails(e)
        PROVE  e.user = u /\ e.attempt = discovery[u].attempts
    BY <2>0, <2>3 DEF JobStep, JobRuns, Promote, Quarantine, QuarantineExhausted, TryFails,
                StillShadow, Settles, ShadowTypeOK, Row
  <2>4. ~ UNCHANGED shadowVars  BY <2>0 DEF shadowVars
  <2>. QED  BY <2>1, <2>2, <2>3, <2>4 DEF ShadowNext
<1>2. ShadowSpec => [][Own]_shadowVars
  BY <1>1, ShadowInvariant, PTL DEF ShadowSpec
<1>. QED  BY <1>2 DEF VerdictOfOwnAttempt

\* A claim whose job the queue took is settled when the job ends, whatever failed, unless a
\* sign-in has replaced the credential of its row.
THEOREM JobSettles == ShadowSpec => JobSettlesItsClaim
<1>. DEFINE Settled ==
       \A e \in jobs : Ends(e) /\ WaitsFor(e) /\ account[e.user] = e.credential
                      => ~HoldsClaim(e.user, e.attempt)'
<1>1. ShadowInv /\ [ShadowNext]_shadowVars => [Settled]_shadowVars
  <2>. SUFFICES ASSUME ShadowTypeOK, Sound, [ShadowNext]_shadowVars, NEW e \in jobs,
                       Ends(e), WaitsFor(e), account[e.user] = e.credential
                PROVE  ~HoldsClaim(e.user, e.attempt)'
    BY DEF ShadowInv
  <2>1. e \in ImportJob /\ e.user \in Owners /\ e \notin jobs'
    BY DEF ShadowTypeOK, ImportJob, Ends
  <2>2. Shadow(e) /\ Settles(e, {"shadow_running"}) /\ StillShadow(e) /\ league = e.league
    <3>1. Settles(e, {"shadow_running"})  BY DEF WaitsFor, HoldsClaim, Running, Settles
    <3>2. discovery[e.user].imported = league
      BY <2>1, <3>1 DEF Sound, JobsSound, RowSound, Settles
    <3>. QED  BY <3>1, <3>2 DEF Shadow, StillShadow, Settles
  <2>3. ASSUME NEW f \in jobs, NEW g, MoveJob(f, g), g.user = f.user, g.attempt = f.attempt,
               g.league = f.league
        PROVE  FALSE
    BY <2>1, <2>3 DEF MoveJob, Ends
  <2>4. ASSUME NEW u \in Owners,
               \/ ClaimDiscovered(u) \/ RequestStep(u) \/ EnqueueUnheard(u)
               \/ RequestFails(u) \/ RequestDies(u) \/ GrowStale(u) \/ SignIn(u)
               \/ ReviewCheck(u) \/ CommitReview(u) \/ ReviewDies(u)
        PROVE  FALSE
    <3>1. jobs \subseteq jobs'
      BY <2>4 DEF ClaimDiscovered, RequestStep, SyncLeague, MarkImported, Enqueue, Accept,
         Rollback, DeleteOrphan, EnqueueUnheard, RequestFails, RequestDies, GrowStale, SignIn,
         ReviewCheck, CommitReview, ReviewDies
    <3>. QED  BY <2>1, <3>1
  <2>5. ASSUME NEW f \in jobs, JobStep(f) \/ TryFails(f)
        PROVE  ~HoldsClaim(e.user, e.attempt)'
    <3>1. f \in ImportJob  BY DEF ShadowTypeOK
    <3>2. /\ ~MoveJob(f, Again(f))
          /\ \A at \in {"clean", "flagged", "failed"} : ~MoveJob(f, [f EXCEPT !.at = at])
      <4>1. ~MoveJob(f, Again(f))
        <5>. DEFINE g == Again(f)
        <5>1. g.user = f.user /\ g.attempt = f.attempt /\ g.league = f.league
          BY <3>1, BoundsAssumption, AgainTyped
        <5>. HIDE DEF g
        <5>2. ~MoveJob(f, g)  BY <2>3, <5>1
        <5>. QED  BY <5>2 DEF g
      <4>2. ASSUME NEW at \in {"clean", "flagged", "failed"} PROVE ~MoveJob(f, [f EXCEPT !.at = at])
        <5>. DEFINE g == [f EXCEPT !.at = at]
        <5>1. g.user = f.user /\ g.attempt = f.attempt /\ g.league = f.league
          BY <3>1 DEF ImportJob
        <5>. HIDE DEF g
        <5>2. ~MoveJob(f, g)  BY <2>3, <5>1
        <5>. QED  BY <5>2 DEF g
      <4>. QED  BY <4>1, <4>2
    <3>3. jobs' = jobs \ {f} /\ (Promote(f) \/ Quarantine(f) \/ QuarantineExhausted(f)
                                 \/ (JobRuns(f) /\ ~(Shadow(f) /\ league = f.league)))
      <4>1. ~TryFails(f)  BY <3>2 DEF TryFails
      <4>2. CASE JobRuns(f)
        <5>1. failures' \in Failures  BY <4>2 DEF JobRuns, RunSuite, ShadowTypeOK
        <5>. QED  BY <3>2, <4>2, <5>1 DEF JobRuns, Failures
      <4>3. CASE Promote(f) \/ Quarantine(f)
        BY <3>2, <4>3 DEF Promote, Quarantine, Finish
      <4>4. CASE QuarantineExhausted(f)
        BY <4>4 DEF QuarantineExhausted
      <4>. QED  BY <2>5, <4>1, <4>2, <4>3, <4>4 DEF JobStep
    <3>4. f = e  BY <2>1, <3>3
    <3>5. discovery' = [discovery EXCEPT ![e.user].state = "live"]
          \/ discovery' = [discovery EXCEPT ![e.user].state = "quarantined"]
      BY <2>2, <3>2, <3>3, <3>4 DEF Promote, Quarantine, QuarantineExhausted
    <3>. QED  BY <2>1, <3>5 DEF HoldsClaim, Running, ShadowTypeOK, Row
  <2>6. ~ UNCHANGED shadowVars  BY <2>1 DEF shadowVars
  <2>. QED  BY <2>4, <2>5, <2>6 DEF ShadowNext
<1>2. ShadowSpec => [][Settled]_shadowVars
  BY <1>1, ShadowInvariant, PTL DEF ShadowSpec
<1>. QED  BY <1>2 DEF JobSettlesItsClaim
=============================================================================
