-------------------------- MODULE MembershipProofs --------------------------
(***************************************************************************)
(* Proofs about Membership, for any users, any number of concurrent        *)
(* requests and any bounds.                                                *)
(*                                                                         *)
(* The argument: nothing but CreateWorkspace ever makes an owner, and it   *)
(* runs once.  So a request that read "not an owner" reads a fact that     *)
(* cannot become false, a request that counts the owners counts one, and a *)
(* request that was let in as the owner acts for the creator.  For the     *)
(* invitations: a request that goes on with an invitation goes on with a   *)
(* row that exists, and a row that does not exist yet is a fresh one.      *)
(***************************************************************************)
EXTENDS Membership, FiniteSetTheorems, TLAPS

Types ==
  /\ creator \in Users \cup {Nobody}
  /\ member \in [Users -> Roles \cup {"none"}]
  /\ issued \subseteq Invites
  /\ invite \in [Invites -> Invitation]
  /\ accepted \in [Invites -> Nat]
  /\ clock \in 0..MaxClock
  /\ req \in [Requests -> Request]
  /\ peak \in [Invites -> 0..MaxUses]

OnlyCreatorOwns == \A u \in Users : member[u] = "owner" <=> u = creator

OnMember(r) == req[r].op \in {"add", "role", "remove", "leave"}
OnInvite(r) == req[r].op \in {"revoke", "policy", "resend", "accept"}

\* What a request that is under way knows.
RequestFacts ==
  \A r \in Requests :
    /\ req[r].op # "none" => creator # Nobody /\ req[r].actor \in Users
    /\ OnMember(r) => req[r].target \in Users
    /\ OnInvite(r) => req[r].invite \in issued
    /\ ActsAsOwner(r) => req[r].actor = creator
    /\ (req[r].op \in {"role", "remove", "leave"} /\ req[r].pc = "write")
          => req[r].target # creator

InviteFacts ==
  /\ issued # {} => creator # Nobody
  /\ \A i \in Invites \ issued : ~invite[i].revoked
  /\ \A i \in issued : invite[i].maxUses <= peak[i]
  /\ \A i \in Invites : invite[i].useCount <= peak[i]

IInv == Types /\ OnlyCreatorOwns /\ RequestFacts /\ InviteFacts

-----------------------------------------------------------------------------
(* Lemmas about the operators.                                             *)

LEMMA IdleType == Idle \in Request
BY MembershipAssumption DEF Idle, Request, Ops, Pcs, Granted, NoPolicy, Policy, Emails

LEMMA NewInvitationType ==
  ASSUME NEW p \in Policy
  PROVE  /\ NewInvitation(p) \in Invitation
         /\ NewInvitation(p).maxUses = p.maxUses
         /\ NewInvitation(p).useCount = 0
         /\ ~NewInvitation(p).revoked
BY DEF Policy, Invitation, NewInvitation

LEMMA NoPolicyType == NoPolicy \in Policy
BY MembershipAssumption DEF NoPolicy, Policy, Granted, Emails

LEMMA WithPolicyType ==
  ASSUME NEW inv \in Invitation, NEW p \in Policy
  PROVE  /\ WithPolicy(inv, p) \in Invitation
         /\ WithPolicy(inv, p).maxUses = p.maxUses
         /\ WithPolicy(inv, p).useCount = inv.useCount
         /\ WithPolicy(inv, p).revoked = inv.revoked
BY DEF Policy, Invitation, WithPolicy

LEMMA NextPoliciesType ==
  ASSUME NEW inv \in Invitation, clock \in Nat, NEW p \in NextPolicies(inv)
  PROVE  p \in Policy
<1> DEFINE E == {inv.expires} \cup {clock + t : t \in TTLs}
<1>1. inv.expires \in Nat
  BY DEF Invitation
<1>2. E \subseteq Nat
  BY <1>1, MembershipAssumption
<1>3. p \in [role : Granted, email : Emails, maxUses : 1..MaxUses, expires : E]
  BY DEF NextPolicies
<1> HIDE DEF E
<1> QED
  BY <1>2, <1>3 DEF Policy

LEMMA RenewedType ==
  ASSUME NEW inv \in Invitation, NEW n \in Nat
  PROVE  Renewed(inv, n) \in Policy
BY DEF Renewed, Invitation, Policy

\* With one owner there is never another one to count.
LEMMA CreatorIsLastOwner ==
  ASSUME OnlyCreatorOwns, creator \in Users
  PROVE  LastOwner
<1>1. Owners = {creator}
  BY DEF OnlyCreatorOwns, Owners
<1>2. Cardinality({creator}) = 1
  BY FS_Singleton
<1> QED
  BY <1>1, <1>2 DEF LastOwner

-----------------------------------------------------------------------------
(* The invariant is inductive.                                             *)

LEMMA InitIInv == Init => IInv
<1> SUFFICES ASSUME Init PROVE IInv
  OBVIOUS
<1>1. Types
  BY MembershipAssumption, IdleType, NoPolicyType, NewInvitationType DEF Init, Types, Roles
<1>2. OnlyCreatorOwns /\ RequestFacts
  BY MembershipAssumption
  DEF Init, OnlyCreatorOwns, RequestFacts, OnMember, OnInvite, ActsAsOwner, Idle
<1>3. InviteFacts
  BY NoPolicyType, NewInvitationType DEF Init, InviteFacts
<1> QED
  BY <1>1, <1>2, <1>3 DEF IInv

\* A handler that starts with the facts RequestFacts asks for keeps them.
LEMMA BeginKeepsIInv ==
  ASSUME IInv, NEW r \in Requests, NEW q \in Request, NEW need, Begin(r, q, need),
         q.actor \in Users,
         q.op \in {"add", "role", "remove", "leave"} => q.target \in Users,
         q.op \in {"revoke", "policy", "resend", "accept"} => q.invite \in issued,
         q.op \in {"add", "role", "remove", "invite", "revoke", "policy", "resend"}
            => q.actor = creator,
         q.op \in {"role", "remove", "leave"} => q.pc # "write"
  PROVE  IInv'
<1>1. Types'
  BY DEF IInv, Types, Begin
<1>2. OnlyCreatorOwns' /\ InviteFacts'
  BY DEF IInv, OnlyCreatorOwns, InviteFacts, Begin
<1>3. RequestFacts'
  BY DEF IInv, Types, RequestFacts, OnMember, OnInvite, ActsAsOwner, Begin
<1> QED
  BY <1>1, <1>2, <1>3 DEF IInv

\* Only the creator passes requireRole(owner).
LEMMA OwnerIsCreator ==
  ASSUME IInv, NEW r \in Requests, NEW q, q.actor \in Users, Begin(r, q, "owner")
  PROVE  q.actor = creator
BY DEF IInv, Types, OnlyCreatorOwns, Begin, RoleAtLeast, Roles, Granted

\* A handler that ends forgets what it knew, and nothing else changes.
LEMMA FinishKeepsIInv ==
  ASSUME IInv, NEW r \in Requests, Finish(r),
         UNCHANGED <<creator, member, issued, invite, accepted, clock, peak>>
  PROVE  IInv'
<1>1. Types'
  BY IdleType DEF IInv, Types, Finish
<1>2. OnlyCreatorOwns' /\ InviteFacts'
  BY DEF IInv, OnlyCreatorOwns, InviteFacts
<1>3. RequestFacts'
  BY DEF IInv, Types, RequestFacts, OnMember, OnInvite, ActsAsOwner, Finish, Idle
<1> QED
  BY <1>1, <1>2, <1>3 DEF IInv

\* A handler that goes on to its next call knows what it knew; only the step
\* to a write on a member's row needs more.
LEMMA GoOnKeepsIInv ==
  ASSUME IInv, NEW r \in Requests, NEW q \in Request,
         req' = [req EXCEPT ![r] = q],
         q.op = req[r].op, q.target = req[r].target,
         q.invite = req[r].invite, q.actor = req[r].actor,
         (q.op \in {"role", "remove", "leave"} /\ q.pc = "write")
            => q.target # creator,
         UNCHANGED <<creator, member, issued, invite, accepted, clock, peak>>
  PROVE  IInv'
<1>1. Types'
  BY DEF IInv, Types
<1>2. OnlyCreatorOwns' /\ InviteFacts'
  BY DEF IInv, OnlyCreatorOwns, InviteFacts
<1>3. RequestFacts'
  BY DEF IInv, Types, RequestFacts, OnMember, OnInvite, ActsAsOwner
<1> QED
  BY <1>1, <1>2, <1>3 DEF IInv

\* What a write leaves to be shown when its request ends: the other requests
\* keep what they know as long as no invitation disappears.
LEMMA WriteKeepsRequests ==
  ASSUME IInv, NEW r \in Requests, Finish(r), creator' = creator, issued \subseteq issued'
  PROVE  RequestFacts' /\ req' \in [Requests -> Request]
BY IdleType
DEF IInv, Types, RequestFacts, OnMember, OnInvite, ActsAsOwner, Finish, Idle

\* Starting a handler of a member, of the owner, or of an invited user.
LEMMA BeginStep ==
  ASSUME IInv, NEW r \in Requests,
         \/ \E a, t \in Users, role \in Granted : BeginAdd(r, a, t, role)
         \/ \E a, t \in Users, role \in Granted : BeginRole(r, a, t, role)
         \/ \E a, t \in Users : BeginRemove(r, a, t)
         \/ \E a \in Users : BeginLeave(r, a)
         \/ \E a \in Users, role \in Granted, email \in Emails,
               max \in 1..MaxUses, ttl \in TTLs : BeginInvite(r, a, role, email, max, ttl)
         \/ \E a \in Users, i \in Invites : BeginRevoke(r, a, i)
         \/ \E a \in Users, i \in Invites : BeginPolicy(r, a, i)
         \/ \E a \in Users, i \in Invites : BeginResend(r, a, i)
         \/ \E u \in Users, i \in Invites : BeginAccept(r, u, i)
  PROVE  IInv'
<1> USE IdleType
<1>1. CASE \E a, t \in Users, role \in Granted : BeginAdd(r, a, t, role)
  <2> PICK a \in Users, t \in Users, role \in Granted : BeginAdd(r, a, t, role)
    BY <1>1
  <2> DEFINE q == [Idle EXCEPT !.op = "add", !.pc = "write", !.actor = a,
                               !.target = t, !.role = role]
  <2>1. q \in Request /\ q.op = "add" /\ q.target = t /\ q.actor = a
    BY DEF Request, Ops, Pcs
  <2>2. Begin(r, q, "owner")
    BY DEF BeginAdd
  <2> HIDE DEF q
  <2> QED
    BY <2>1, <2>2, BeginKeepsIInv, OwnerIsCreator
<1>2. CASE \E a, t \in Users, role \in Granted : BeginRole(r, a, t, role)
  <2> PICK a \in Users, t \in Users, role \in Granted : BeginRole(r, a, t, role)
    BY <1>2
  <2> DEFINE q == [Idle EXCEPT !.op = "role", !.pc = "target", !.actor = a,
                               !.target = t, !.role = role]
  <2>1. q \in Request /\ q.op = "role" /\ q.pc = "target" /\ q.target = t /\ q.actor = a
    BY DEF Request, Ops, Pcs
  <2>2. Begin(r, q, "owner")
    BY DEF BeginRole
  <2> HIDE DEF q
  <2> QED
    BY <2>1, <2>2, BeginKeepsIInv, OwnerIsCreator
<1>3. CASE \E a, t \in Users : BeginRemove(r, a, t)
  <2> PICK a \in Users, t \in Users : BeginRemove(r, a, t)
    BY <1>3
  <2> DEFINE q == [Idle EXCEPT !.op = "remove", !.pc = "target", !.actor = a, !.target = t]
  <2>1. q \in Request /\ q.op = "remove" /\ q.pc = "target" /\ q.target = t /\ q.actor = a
    BY DEF Request, Ops, Pcs
  <2>2. Begin(r, q, "owner")
    BY DEF BeginRemove
  <2> HIDE DEF q
  <2> QED
    BY <2>1, <2>2, BeginKeepsIInv, OwnerIsCreator
<1>4. CASE \E a \in Users : BeginLeave(r, a)
  <2> PICK a \in Users : BeginLeave(r, a)
    BY <1>4
  <2> DEFINE q == [Idle EXCEPT !.op = "leave", !.pc = "target", !.actor = a, !.target = a]
  <2>1. q \in Request /\ q.op = "leave" /\ q.pc = "target" /\ q.target = a /\ q.actor = a
    BY DEF Request, Ops, Pcs
  <2>2. Begin(r, q, "guest")
    BY DEF BeginLeave
  <2> HIDE DEF q
  <2> QED
    BY <2>1, <2>2, BeginKeepsIInv
<1>5. CASE \E a \in Users, role \in Granted, email \in Emails,
             max \in 1..MaxUses, ttl \in TTLs : BeginInvite(r, a, role, email, max, ttl)
  <2> PICK a \in Users, role \in Granted, email \in Emails, max \in 1..MaxUses,
           ttl \in TTLs : BeginInvite(r, a, role, email, max, ttl)
    BY <1>5
  <2> DEFINE p == [role |-> role, email |-> email, maxUses |-> max, expires |-> clock + ttl]
             q == [Idle EXCEPT !.op = "invite", !.pc = "write", !.actor = a, !.policy = p]
  <2>1. p \in Policy
    BY MembershipAssumption DEF Policy, IInv, Types
  <2> HIDE DEF p
  <2>2. q \in Request /\ q.op = "invite" /\ q.actor = a
    BY <2>1 DEF Request, Ops, Pcs
  <2>3. Begin(r, q, "owner")
    BY DEF BeginInvite, p
  <2> HIDE DEF q
  <2> QED
    BY <2>2, <2>3, BeginKeepsIInv, OwnerIsCreator
<1>6. CASE \E a \in Users, i \in Invites : BeginRevoke(r, a, i)
  <2> PICK a \in Users, i \in Invites : BeginRevoke(r, a, i)
    BY <1>6
  <2> DEFINE q == [Idle EXCEPT !.op = "revoke", !.pc = "write", !.actor = a, !.invite = i]
  <2>1. q \in Request /\ q.op = "revoke" /\ q.invite = i /\ q.actor = a
    BY DEF Request, Ops, Pcs
  <2>2. i \in issued /\ Begin(r, q, "owner")
    BY DEF BeginRevoke
  <2> HIDE DEF q
  <2> QED
    BY <2>1, <2>2, BeginKeepsIInv, OwnerIsCreator
<1>7. CASE \E a \in Users, i \in Invites : BeginPolicy(r, a, i)
  <2> PICK a \in Users, i \in Invites : BeginPolicy(r, a, i)
    BY <1>7
  <2> DEFINE q == [Idle EXCEPT !.op = "policy", !.pc = "list", !.actor = a, !.invite = i]
  <2>1. q \in Request /\ q.op = "policy" /\ q.invite = i /\ q.actor = a
    BY DEF Request, Ops, Pcs
  <2>2. i \in issued /\ Begin(r, q, "owner")
    BY DEF BeginPolicy
  <2> HIDE DEF q
  <2> QED
    BY <2>1, <2>2, BeginKeepsIInv, OwnerIsCreator
<1>8. CASE \E a \in Users, i \in Invites : BeginResend(r, a, i)
  <2> PICK a \in Users, i \in Invites : BeginResend(r, a, i)
    BY <1>8
  <2> DEFINE q == [Idle EXCEPT !.op = "resend", !.pc = "list", !.actor = a, !.invite = i]
  <2>1. q \in Request /\ q.op = "resend" /\ q.invite = i /\ q.actor = a
    BY DEF Request, Ops, Pcs
  <2>2. i \in issued /\ Begin(r, q, "owner")
    BY DEF BeginResend
  <2> HIDE DEF q
  <2> QED
    BY <2>1, <2>2, BeginKeepsIInv, OwnerIsCreator
<1>9. CASE \E u \in Users, i \in Invites : BeginAccept(r, u, i)
  <2> PICK u \in Users, i \in Invites : BeginAccept(r, u, i)
    BY <1>9
  <2> DEFINE q == [Idle EXCEPT !.op = "accept", !.pc = "stamp", !.actor = u, !.invite = i]
  <2>1. q \in Request /\ q.op = "accept" /\ q.invite = i /\ q.actor = u
    BY DEF Request, Ops, Pcs
  <2>2. i \in issued /\ req' = [req EXCEPT ![r] = q]
        /\ UNCHANGED <<creator, member, issued, invite, accepted, clock, peak>>
    BY DEF BeginAccept
  <2> HIDE DEF q
  <2>3. Types'
    BY <2>1, <2>2 DEF IInv, Types
  <2>4. OnlyCreatorOwns' /\ InviteFacts'
    BY <2>2 DEF IInv, OnlyCreatorOwns, InviteFacts
  <2>5. RequestFacts'
    BY <2>1, <2>2 DEF IInv, Types, InviteFacts, RequestFacts, OnMember, OnInvite, ActsAsOwner
  <2> QED
    BY <2>3, <2>4, <2>5 DEF IInv
<1> QED
  BY <1>1, <1>2, <1>3, <1>4, <1>5, <1>6, <1>7, <1>8, <1>9

\* The steps that only read, and let the handler go on or give up.
LEMMA ReadStep ==
  ASSUME IInv, NEW r \in Requests,
         \/ ReadTarget(r) \/ CountOwners(r) \/ ListForPolicy(r)
         \/ ListForResend(r) \/ Reauthorize(r) \/ StampAccept(r)
  PROVE  IInv'
<1> USE DEF Pcs
<1>0. req[r] \in Request
  BY DEF IInv, Types
<1>1. CASE ReadTarget(r)
  <2> DEFINE t == req[r].target
  <2>1. CASE member[t] = "none" /\ Finish(r)
    BY <1>1, <2>1, FinishKeepsIInv DEF ReadTarget
  <2>2. CASE member[t] = "owner" /\ Goto(r, "count")
    <3> DEFINE q == [req[r] EXCEPT !.pc = "count"]
    <3>1. q \in Request /\ q.op = req[r].op /\ q.target = t /\ q.invite = req[r].invite
          /\ q.actor = req[r].actor /\ q.pc = "count"
      BY <1>0 DEF Request
    <3>2. req' = [req EXCEPT ![r] = q]
      BY <2>2 DEF Goto
    <3> HIDE DEF q
    <3> QED
      BY <1>1, <3>1, <3>2, GoOnKeepsIInv DEF ReadTarget
  <2>3. CASE member[t] \in Granted /\ Goto(r, "write")
    <3> DEFINE q == [req[r] EXCEPT !.pc = "write"]
    <3>1. q \in Request /\ q.op = req[r].op /\ q.target = t /\ q.invite = req[r].invite
          /\ q.actor = req[r].actor /\ q.pc = "write"
      BY <1>0 DEF Request
    <3>2. req' = [req EXCEPT ![r] = q]
      BY <2>3 DEF Goto
    <3>3. t # creator
      <4>1. t \in Users
        BY <1>1 DEF ReadTarget, IInv, RequestFacts, OnMember
      <4> QED
        BY <2>3, <4>1 DEF IInv, OnlyCreatorOwns, Granted
    <3> HIDE DEF q
    <3> QED
      BY <1>1, <3>1, <3>2, <3>3, GoOnKeepsIInv DEF ReadTarget
  <2> QED
    BY <1>1, <2>1, <2>2, <2>3 DEF ReadTarget
<1>2. CASE CountOwners(r)
  <2>1. creator \in Users
    BY <1>2 DEF CountOwners, IInv, Types, RequestFacts
  <2>2. LastOwner
    BY <2>1, CreatorIsLastOwner DEF IInv
  <2> QED
    BY <1>2, <2>2, FinishKeepsIInv DEF CountOwners
<1>3. CASE ListForPolicy(r)
  <2> DEFINE i == req[r].invite
  <2>1. i \in Invites /\ invite[i] \in Invitation
    BY <1>3 DEF ListForPolicy, At, IInv, Types, RequestFacts, OnInvite
  <2>2. ASSUME NEW p \in NextPolicies(invite[i]),
               req' = [req EXCEPT ![r] = [@ EXCEPT !.pc = "write", !.policy = p]]
        PROVE  IInv'
    <3> DEFINE q == [req[r] EXCEPT !.pc = "write", !.policy = p]
    <3>1. p \in Policy
      BY <2>1, MembershipAssumption, NextPoliciesType DEF IInv, Types
    <3>2. q \in Request /\ q.op = req[r].op /\ q.target = req[r].target
          /\ q.invite = i /\ q.actor = req[r].actor
      BY <1>0, <3>1 DEF Request
    <3>3. req' = [req EXCEPT ![r] = q]
      BY <2>2
    <3> HIDE DEF q
    <3> QED
      BY <1>3, <3>2, <3>3, GoOnKeepsIInv DEF ListForPolicy, At
  <2> QED
    BY <1>3, <2>2, FinishKeepsIInv DEF ListForPolicy
<1>4. CASE ListForResend(r)
  <2> DEFINE i == req[r].invite
  <2>1. i \in Invites /\ invite[i] \in Invitation
    BY <1>4 DEF ListForResend, At, IInv, Types, RequestFacts, OnInvite
  <2> PICK t \in TTLs : req' = [req EXCEPT ![r] =
         [@ EXCEPT !.pc = "reauth", !.policy = Renewed(invite[i], clock + t)]]
    BY <1>4 DEF ListForResend
  <2> DEFINE p == Renewed(invite[i], clock + t)
             q == [req[r] EXCEPT !.pc = "reauth", !.policy = p]
  <2>2. p \in Policy
    BY <2>1, MembershipAssumption, RenewedType DEF IInv, Types
  <2> HIDE DEF p
  <2>3. q \in Request /\ q.op = req[r].op /\ q.target = req[r].target
        /\ q.invite = i /\ q.actor = req[r].actor
    BY <1>0, <2>2 DEF Request
  <2>4. req' = [req EXCEPT ![r] = q]
    BY DEF p
  <2> HIDE DEF q
  <2> QED
    BY <1>4, <2>3, <2>4, GoOnKeepsIInv DEF ListForResend, At
<1>5. CASE Reauthorize(r)
  <2> DEFINE q == [req[r] EXCEPT !.pc = "write"]
  <2>1. q \in Request /\ q.op = req[r].op /\ q.target = req[r].target
        /\ q.invite = req[r].invite /\ q.actor = req[r].actor
    BY <1>0 DEF Request
  <2>2. Finish(r) \/ req' = [req EXCEPT ![r] = q]
    BY <1>5 DEF Reauthorize, Goto
  <2> HIDE DEF q
  <2> QED
    BY <1>5, <2>1, <2>2, GoOnKeepsIInv, FinishKeepsIInv DEF Reauthorize, At
<1>6. CASE StampAccept(r)
  <2> DEFINE q == [req[r] EXCEPT !.pc = "write", !.stamp = clock]
  <2>0. clock \in Nat
    BY MembershipAssumption DEF IInv, Types
  <2>1. q \in Request /\ q.op = req[r].op /\ q.target = req[r].target
        /\ q.invite = req[r].invite /\ q.actor = req[r].actor
    BY <1>0, <2>0 DEF Request
  <2>2. req' = [req EXCEPT ![r] = q]
    BY <1>6 DEF StampAccept
  <2> HIDE DEF q
  <2> QED
    BY <1>6, <2>1, <2>2, GoOnKeepsIInv DEF StampAccept, At
<1> QED
  BY <1>1, <1>2, <1>3, <1>4, <1>5, <1>6

\* The writes on a row of members.
LEMMA MemberWrite ==
  ASSUME IInv, NEW r \in Requests, WriteAdd(r) \/ WriteRole(r) \/ WriteRemove(r)
  PROVE  IInv'
<1> DEFINE t == req[r].target
<1>0. req[r] \in Request /\ Finish(r) /\ t \in Users /\ creator \in Users
  BY DEF WriteAdd, WriteRole, WriteRemove, At, IInv, Types, RequestFacts, OnMember
<1>1. UNCHANGED <<creator, issued, invite, accepted, clock, peak>>
  BY DEF WriteAdd, WriteRole, WriteRemove
<1>2. RequestFacts' /\ req' \in [Requests -> Request]
  BY <1>0, <1>1, WriteKeepsRequests
<1>3. \E v \in Granted \cup {"none"} :
        \/ member' = member
        \/ t # creator /\ member' = [member EXCEPT ![t] = v]
  <2>1. CASE WriteAdd(r)
    <3>1. member[t] = "none" => t # creator
      BY <1>0 DEF IInv, OnlyCreatorOwns
    <3> QED
      BY <1>0, <2>1, <3>1 DEF WriteAdd, Request
  <2>2. CASE WriteRole(r)
    BY <1>0, <2>2 DEF WriteRole, At, Request, IInv, RequestFacts
  <2>3. CASE WriteRemove(r)
    BY <1>0, <2>3 DEF WriteRemove, IInv, RequestFacts
  <2> QED
    BY <2>1, <2>2, <2>3
<1>4. Types'
  BY <1>1, <1>2, <1>3 DEF IInv, Types, Roles
<1>5. OnlyCreatorOwns'
  BY <1>0, <1>1, <1>3 DEF IInv, Types, OnlyCreatorOwns, Granted
<1>6. InviteFacts'
  BY <1>1 DEF IInv, InviteFacts
<1> QED
  BY <1>2, <1>4, <1>5, <1>6 DEF IInv

\* The owner's writes on a row of invitations.
LEMMA InviteWrite ==
  ASSUME IInv, NEW r \in Requests, WriteInvite(r) \/ WriteRevoke(r) \/ WritePolicy(r)
  PROVE  IInv'
<1> DEFINE p == req[r].policy
           i == req[r].invite
<1>0. /\ req[r] \in Request /\ p \in Policy /\ creator # Nobody
      /\ Finish(r)
  BY DEF WriteInvite, WriteRevoke, WritePolicy, At, IInv, Types, RequestFacts, Request
<1>1. UNCHANGED <<creator, member, accepted, clock>> /\ issued \subseteq issued'
  BY DEF WriteInvite, WriteRevoke, WritePolicy
<1>2. RequestFacts' /\ req' \in [Requests -> Request]
  BY <1>0, <1>1, WriteKeepsRequests
<1>3. OnlyCreatorOwns'
  BY <1>1 DEF IInv, OnlyCreatorOwns
<1>4. CASE WriteInvite(r)
  <2>1. CASE UNCHANGED <<issued, invite, peak>>
    BY <1>0, <1>1, <2>1, FinishKeepsIInv
  <2>2. ASSUME NEW j \in Invites \ issued, issued' = issued \cup {j},
               invite' = [invite EXCEPT ![j] = NewInvitation(p)],
               peak' = [peak EXCEPT ![j] = p.maxUses]
        PROVE  IInv'
    <3> DEFINE inv == NewInvitation(p)
    <3>1. inv \in Invitation /\ inv.maxUses = p.maxUses /\ inv.useCount = 0 /\ ~inv.revoked
      BY <1>0, NewInvitationType
    <3>2. p.maxUses \in 1..MaxUses
      BY <1>0 DEF Policy
    <3> HIDE DEF inv
    <3>3. invite' = [invite EXCEPT ![j] = inv]
      BY <2>2 DEF inv
    <3>4. Types'
      BY <1>1, <1>2, <2>2, <3>1, <3>2, <3>3, MembershipAssumption DEF IInv, Types
    <3>5. InviteFacts'
      BY <1>0, <1>1, <2>2, <3>1, <3>2, <3>3, MembershipAssumption DEF IInv, Types, InviteFacts
    <3> QED
      BY <1>2, <1>3, <3>4, <3>5 DEF IInv
  <2> QED
    BY <1>4, <2>1, <2>2 DEF WriteInvite
<1>5. CASE WriteRevoke(r)
  <2> DEFINE inv == [invite[i] EXCEPT !.revoked = TRUE]
  <2>1. i \in issued /\ i \in Invites /\ invite[i] \in Invitation
    BY <1>5 DEF WriteRevoke, At, IInv, Types, RequestFacts, OnInvite
  <2>2. inv \in Invitation /\ inv.maxUses = invite[i].maxUses
        /\ inv.useCount = invite[i].useCount
    BY <2>1 DEF Invitation
  <2>3. invite' = [invite EXCEPT ![i] = inv] /\ UNCHANGED <<issued, peak>>
    BY <1>5 DEF WriteRevoke
  <2> HIDE DEF inv
  <2>4. Types'
    BY <1>1, <1>2, <2>1, <2>2, <2>3 DEF IInv, Types
  <2>5. InviteFacts'
    BY <1>1, <2>1, <2>2, <2>3 DEF IInv, Types, InviteFacts
  <2> QED
    BY <1>2, <1>3, <2>4, <2>5 DEF IInv
<1>6. CASE WritePolicy(r)
  <2>1. i \in issued /\ i \in Invites /\ invite[i] \in Invitation /\ issued' = issued
    BY <1>6 DEF WritePolicy, At, IInv, Types, RequestFacts, OnInvite
  <2>2. CASE invite[i].revoked
    BY <1>0, <1>1, <1>6, <2>1, <2>2, FinishKeepsIInv DEF WritePolicy
  <2>3. CASE ~invite[i].revoked
    <3> DEFINE inv == WithPolicy(invite[i], p)
               high == IF p.maxUses > peak[i] THEN p.maxUses ELSE peak[i]
    <3>1. inv \in Invitation /\ inv.maxUses = p.maxUses
          /\ inv.useCount = invite[i].useCount /\ inv.revoked = invite[i].revoked
      BY <1>0, <2>1, WithPolicyType
    <3>2. p.maxUses \in 1..MaxUses /\ peak[i] \in 0..MaxUses /\ invite[i].useCount \in Nat
      BY <1>0, <2>1 DEF Policy, Invitation, IInv, Types
    <3>3. high \in 0..MaxUses /\ p.maxUses <= high /\ peak[i] <= high
      BY <3>2, MembershipAssumption
    <3> HIDE DEF inv, high
    <3>4. invite' = [invite EXCEPT ![i] = inv] /\ peak' = [peak EXCEPT ![i] = high]
      BY <1>6, <2>1, <2>3 DEF WritePolicy, inv, high, IInv, Types
    <3>5. Types'
      BY <1>1, <1>2, <2>1, <3>1, <3>3, <3>4 DEF IInv, Types
    <3>6. InviteFacts'
      BY <1>1, <2>1, <3>1, <3>2, <3>3, <3>4, MembershipAssumption DEF IInv, Types, InviteFacts
    <3> QED
      BY <1>2, <1>3, <3>5, <3>6 DEF IInv
  <2> QED
    BY <2>2, <2>3
<1> QED
  BY <1>4, <1>5, <1>6

\* The invited user's transaction and its audit event.
LEMMA AcceptWrite ==
  ASSUME IInv, NEW r \in Requests, WriteAccept(r) \/ AuditAccept(r)
  PROVE  IInv'
<1> DEFINE i == req[r].invite
           u == req[r].actor
<1>0. /\ req[r] \in Request /\ req[r].op = "accept"
      /\ i \in issued /\ i \in Invites /\ invite[i] \in Invitation
      /\ creator \in Users
      /\ UNCHANGED <<creator, issued, clock, peak>>
  BY DEF WriteAccept, AuditAccept, At, IInv, Types, RequestFacts, OnInvite
<1>1. CASE WriteAccept(r)
  <2>1. CASE Finish(r) /\ UNCHANGED <<member, invite>>
    BY <1>0, <1>1, <2>1, FinishKeepsIInv DEF WriteAccept
  <2>2. CASE /\ Acceptable(invite[i], req[r].stamp) /\ member[u] = "none"
             /\ member' = [member EXCEPT ![u] = invite[i].role]
             /\ invite' = [invite EXCEPT ![i].useCount = @ + 1]
             /\ Goto(r, "audit")
    <3> DEFINE inv == [invite[i] EXCEPT !.useCount = @ + 1]
               q == [req[r] EXCEPT !.pc = "audit"]
    <3>1. /\ inv \in Invitation /\ inv.maxUses = invite[i].maxUses
          /\ inv.useCount = invite[i].useCount + 1 /\ inv.revoked = invite[i].revoked
          /\ inv.useCount <= inv.maxUses
      BY <1>0, <2>2 DEF Invitation, Acceptable
    <3>2. /\ q \in Request /\ q.op = "accept" /\ q.target = req[r].target
          /\ q.invite = i /\ q.actor = u
      BY <1>0 DEF Request, Pcs
    <3>3. invite' = [invite EXCEPT ![i] = inv] /\ req' = [req EXCEPT ![r] = q]
      BY <2>2 DEF Goto
    <3>4. invite[i].role \in Granted
      BY <1>0 DEF Invitation
    <3>5. accepted' = accepted
      BY <1>1 DEF WriteAccept
    <3> HIDE DEF inv, q
    <3>6. Types'
      BY <1>0, <2>2, <3>1, <3>2, <3>3, <3>4, <3>5 DEF IInv, Types, Roles
    <3>7. OnlyCreatorOwns'
      BY <1>0, <2>2, <3>4 DEF IInv, Types, OnlyCreatorOwns, Granted
    <3>8. RequestFacts'
      BY <1>0, <3>2, <3>3 DEF IInv, Types, RequestFacts, OnMember, OnInvite, ActsAsOwner
    <3>9. InviteFacts'
      BY <1>0, <3>1, <3>3, MembershipAssumption DEF IInv, Types, InviteFacts, Invitation
    <3> QED
      BY <3>6, <3>7, <3>8, <3>9 DEF IInv
  <2> QED
    BY <1>1, <2>1, <2>2 DEF WriteAccept
<1>2. CASE AuditAccept(r)
  <2>1. UNCHANGED <<member, invite>> /\ Finish(r) /\ issued \subseteq issued'
    BY <1>0, <1>2 DEF AuditAccept
  <2>2. RequestFacts' /\ req' \in [Requests -> Request]
    BY <1>0, <2>1, WriteKeepsRequests
  <2>3. accepted' \in [Invites -> Nat]
    BY <1>0, <1>2 DEF AuditAccept, IInv, Types
  <2>4. Types'
    BY <1>0, <2>1, <2>2, <2>3 DEF IInv, Types
  <2>5. OnlyCreatorOwns' /\ InviteFacts'
    BY <1>0, <2>1 DEF IInv, OnlyCreatorOwns, InviteFacts
  <2> QED
    BY <2>2, <2>4, <2>5 DEF IInv
<1> QED
  BY <1>1, <1>2

LEMMA NextIInv == IInv /\ [Next]_vars => IInv'
<1> SUFFICES ASSUME IInv, [Next]_vars PROVE IInv'
  OBVIOUS
<1>1. ASSUME NEW u \in Users, CreateWorkspace(u) PROVE IInv'
  <2>1. /\ creator = Nobody /\ creator' = u
        /\ member' = [member EXCEPT ![u] = "owner"]
        /\ UNCHANGED <<issued, invite, accepted, clock, req, peak>>
    BY <1>1 DEF CreateWorkspace
  <2>2. \A r \in Requests : req[r].op = "none"
    BY <2>1 DEF IInv, RequestFacts
  <2>3. Types'
    BY <2>1 DEF IInv, Types, Roles
  <2>4. OnlyCreatorOwns'
    BY <2>1, MembershipAssumption DEF IInv, Types, OnlyCreatorOwns
  <2>5. RequestFacts'
    BY <2>1, <2>2 DEF RequestFacts, OnMember, OnInvite, ActsAsOwner
  <2>6. InviteFacts'
    BY <2>1, MembershipAssumption DEF IInv, InviteFacts
  <2> QED
    BY <2>3, <2>4, <2>5, <2>6 DEF IInv
<1>2. ASSUME NEW r \in Requests, MemberStep(r) PROVE IInv'
  BY <1>2, BeginStep, ReadStep, MemberWrite DEF MemberStep
<1>3. ASSUME NEW r \in Requests, InvitationStep(r) PROVE IInv'
  BY <1>3, BeginStep, ReadStep, InviteWrite DEF InvitationStep
<1>4. ASSUME NEW r \in Requests, AcceptStep(r) PROVE IInv'
  BY <1>4, BeginStep, ReadStep, AcceptWrite DEF AcceptStep
<1>5. CASE Tick
  <2>1. clock' \in 0..MaxClock
    BY <1>5, MembershipAssumption DEF Tick, IInv, Types
  <2> QED
    BY <1>5, <2>1 DEF Tick, IInv, Types, OnlyCreatorOwns, RequestFacts, OnMember,
                      OnInvite, ActsAsOwner, InviteFacts
<1>6. CASE UNCHANGED vars
  BY <1>6 DEF vars, IInv, Types, OnlyCreatorOwns, RequestFacts, OnMember, OnInvite,
              ActsAsOwner, InviteFacts
<1> QED
  BY <1>1, <1>2, <1>3, <1>4, <1>5, <1>6 DEF Next

LEMMA SpecIInv == Spec => []IInv
BY InitIInv, NextIInv, PTL DEF Spec

-----------------------------------------------------------------------------
(* What follows from it.                                                   *)

\* Every variable always has its type, and no invitation is ever used more
\* often than MaxInviteUses allows (store.AcceptInvitation).
THEOREM MembershipTypeOK == Spec => []TypeOK
<1>1. IInv => TypeOK
  BY MembershipAssumption DEF IInv, Types, InviteFacts, TypeOK, Invitation
<1> QED
  BY <1>1, SpecIInv, PTL

\* The creator is the one owner of the workspace, at all times, whatever the
\* member handlers of service/workspace.go run beside each other.
THEOREM SoleOwnerAlways == Spec => []SoleOwner
<1>1. IInv => SoleOwner
  BY MembershipAssumption DEF IInv, Types, OnlyCreatorOwns, SoleOwner, Owners
<1> QED
  BY <1>1, SpecIInv, PTL

\* requireRole(owner), read at the start of a handler, still holds at each of
\* its later writes.
THEOREM AuthorityHoldsAlways == Spec => []AuthorityHolds
<1>1. IInv => AuthorityHolds
  <2> SUFFICES ASSUME IInv, NEW r \in Requests, ActsAsOwner(r)
               PROVE  member[req[r].actor] = "owner"
    BY DEF AuthorityHolds
  <2>1. req[r].actor = creator /\ creator \in Users
    BY DEF IInv, Types, RequestFacts, ActsAsOwner
  <2> QED
    BY <2>1 DEF IInv, OnlyCreatorOwns
<1> QED
  BY <1>1, SpecIInv, PTL

\* An invitation never admits more users than the highest limit it ever had.
THEOREM UsesBoundedAlways == Spec => []UsesBounded
<1>1. IInv => UsesBounded
  BY DEF IInv, InviteFacts, UsesBounded
<1> QED
  BY <1>1, SpecIInv, PTL

\* A revoked invitation never changes again: each write that could change it
\* (policy, accept) looks at revoked_at in its own transaction, and a new
\* invitation gets a row of its own.
THEOREM RevokedIsFinalAlways == Spec => RevokedIsFinal
<1> DEFINE Keeps == \A i \in Invites : invite[i].revoked => invite'[i] = invite[i]
<1>1. ASSUME IInv, [Next]_vars, NEW i \in Invites, invite[i].revoked
      PROVE  invite'[i] = invite[i]
  <2>0. invite \in [Invites -> Invitation] /\ i \in issued
    BY <1>1 DEF IInv, Types, InviteFacts
  <2>1. CASE invite' = invite
    BY <2>1
  <2>2. ASSUME NEW r \in Requests, WriteInvite(r) PROVE invite'[i] = invite[i]
    BY <2>0, <2>2 DEF WriteInvite
  <2>3. ASSUME NEW r \in Requests, WriteRevoke(r) PROVE invite'[i] = invite[i]
    <3>1. [invite[i] EXCEPT !.revoked = TRUE] = invite[i]
      BY <1>1, <2>0 DEF Invitation
    <3> QED
      BY <2>0, <2>3, <3>1 DEF WriteRevoke
  <2>4. ASSUME NEW r \in Requests, WritePolicy(r) PROVE invite'[i] = invite[i]
    BY <1>1, <2>0, <2>4 DEF WritePolicy
  <2>5. ASSUME NEW r \in Requests, WriteAccept(r) PROVE invite'[i] = invite[i]
    BY <1>1, <2>0, <2>5 DEF WriteAccept, Acceptable
  <2>6. ASSUME NEW r \in Requests, MemberStep(r) PROVE invite' = invite
    BY <2>6 DEF MemberStep, BeginAdd, BeginRole, BeginRemove, BeginLeave, Begin,
                WriteAdd, ReadTarget, CountOwners, WriteRole, WriteRemove
  <2>7. ASSUME NEW r \in Requests, InvitationStep(r)
        PROVE  invite' = invite \/ WriteInvite(r) \/ WriteRevoke(r) \/ WritePolicy(r)
    BY <2>7 DEF InvitationStep, BeginInvite, BeginRevoke, BeginPolicy, BeginResend,
                Begin, ListForPolicy, ListForResend, Reauthorize
  <2>8. ASSUME NEW r \in Requests, AcceptStep(r)
        PROVE  invite' = invite \/ WriteAccept(r)
    BY <2>8 DEF AcceptStep, BeginAccept, StampAccept, AuditAccept
  <2> QED
    BY <1>1, <2>1, <2>2, <2>3, <2>4, <2>5, <2>6, <2>7, <2>8
    DEF Next, CreateWorkspace, Tick, vars
<1>2. IInv /\ [Next]_vars => [Keeps]_vars
  BY <1>1
<1> QED
  BY <1>2, SpecIInv, PTL DEF Spec, RevokedIsFinal

-----------------------------------------------------------------------------
(* The handlers are the calls of Members.                                  *)

\* A request that carries a policy it may write.
Grants(q) == q.op \in {"invite", "policy", "resend"} /\ q.pc \in {"write", "reauth"}

\* What a request has read of the clock is in the past.
TimeInv ==
  /\ \A i \in issued : invite[i].expires \in Api!Expiries
  /\ \A r \in Requests : req[r].stamp <= clock
  /\ \A r \in Requests : Grants(req[r]) => req[r].policy.expires \in Api!Expiries

LEMMA InitTimeInv == Init => TimeInv
BY DEF Init, TimeInv, Idle, Grants

LEMMA RequestKeepsTime ==
  ASSUME IInv, TimeInv, NEW r \in Requests, NEW q, req' = [req EXCEPT ![r] = q],
         clock' = clock, q.stamp <= clock,
         Grants(q) => q.policy.expires \in Api!Expiries,
         \A i \in issued' : invite'[i].expires \in Api!Expiries
  PROVE  TimeInv'
<1>1. Api!Expiries' = Api!Expiries
  BY DEF Api!Expiries
<1>2. \A s \in Requests : req'[s] = IF s = r THEN q ELSE req[s]
  BY DEF IInv, Types
<1>3. \A s \in Requests : req'[s].stamp <= clock'
  BY <1>2 DEF TimeInv
<1>4. \A s \in Requests : Grants(req'[s]) => req'[s].policy.expires \in Api!Expiries
  BY <1>2 DEF TimeInv
<1>. QED
  BY <1>1, <1>3, <1>4 DEF TimeInv, Grants

LEMMA FinishKeepsTime ==
  ASSUME IInv, TimeInv, NEW r \in Requests, Finish(r), clock' = clock,
         \A i \in issued' : invite'[i].expires \in Api!Expiries
  PROVE  TimeInv'
<1>1. Idle.stamp <= clock /\ ~Grants(Idle)
  BY MembershipAssumption DEF Idle, Grants, IInv, Types
<1>. QED
  BY <1>1, RequestKeepsTime DEF Finish

LEMMA BeginKeepsTime ==
  ASSUME IInv, TimeInv, NEW r \in Requests,
         \/ \E a, t \in Users, role \in Granted : BeginAdd(r, a, t, role)
         \/ \E a, t \in Users, role \in Granted : BeginRole(r, a, t, role)
         \/ \E a, t \in Users : BeginRemove(r, a, t)
         \/ \E a \in Users : BeginLeave(r, a)
         \/ \E a \in Users, role \in Granted, email \in Emails,
               max \in 1..MaxUses, ttl \in TTLs : BeginInvite(r, a, role, email, max, ttl)
         \/ \E a \in Users, i \in Invites : BeginRevoke(r, a, i)
         \/ \E a \in Users, i \in Invites : BeginPolicy(r, a, i)
         \/ \E a \in Users, i \in Invites : BeginResend(r, a, i)
         \/ \E u \in Users, i \in Invites : BeginAccept(r, u, i)
  PROVE  TimeInv' /\ UNCHANGED Api!vars
<1>1. UNCHANGED <<creator, member, issued, invite, clock>>
  BY DEF BeginAdd, BeginRole, BeginRemove, BeginLeave, BeginInvite, BeginRevoke,
         BeginPolicy, BeginResend, BeginAccept, Begin
<1>2. \A i \in issued' : invite'[i].expires \in Api!Expiries
  BY <1>1 DEF TimeInv
<1>3. 0 <= clock /\ clock \in 0..clock
  BY MembershipAssumption DEF IInv, Types
<1>4. \E q : /\ req' = [req EXCEPT ![r] = q] /\ q.stamp = 0
             /\ Grants(q) => q.policy.expires \in Api!Expiries
  <2>1. CASE \E a, t \in Users, role \in Granted : BeginAdd(r, a, t, role)
    <3>. PICK a \in Users, t \in Users, role \in Granted : BeginAdd(r, a, t, role)
      BY <2>1
    <3>. DEFINE q == [Idle EXCEPT !.op = "add", !.pc = "write", !.actor = a,
                                  !.target = t, !.role = role]
    <3>1. req' = [req EXCEPT ![r] = q]
      BY DEF BeginAdd, Begin
    <3>2. q.stamp = 0 /\ ~Grants(q)
      BY DEF Idle, Grants
    <3>. QED
      BY <3>1, <3>2
  <2>2. CASE \E a, t \in Users, role \in Granted : BeginRole(r, a, t, role)
    <3>. PICK a \in Users, t \in Users, role \in Granted : BeginRole(r, a, t, role)
      BY <2>2
    <3>. DEFINE q == [Idle EXCEPT !.op = "role", !.pc = "target", !.actor = a,
                                  !.target = t, !.role = role]
    <3>1. req' = [req EXCEPT ![r] = q]
      BY DEF BeginRole, Begin
    <3>2. q.stamp = 0 /\ ~Grants(q)
      BY DEF Idle, Grants
    <3>. QED
      BY <3>1, <3>2
  <2>3. CASE \E a, t \in Users : BeginRemove(r, a, t)
    <3>. PICK a \in Users, t \in Users : BeginRemove(r, a, t)
      BY <2>3
    <3>. DEFINE q == [Idle EXCEPT !.op = "remove", !.pc = "target", !.actor = a,
                                  !.target = t]
    <3>1. req' = [req EXCEPT ![r] = q]
      BY DEF BeginRemove, Begin
    <3>2. q.stamp = 0 /\ ~Grants(q)
      BY DEF Idle, Grants
    <3>. QED
      BY <3>1, <3>2
  <2>4. CASE \E a \in Users : BeginLeave(r, a)
    <3>. PICK a \in Users : BeginLeave(r, a)
      BY <2>4
    <3>. DEFINE q == [Idle EXCEPT !.op = "leave", !.pc = "target", !.actor = a,
                                  !.target = a]
    <3>1. req' = [req EXCEPT ![r] = q]
      BY DEF BeginLeave, Begin
    <3>2. q.stamp = 0 /\ ~Grants(q)
      BY DEF Idle, Grants
    <3>. QED
      BY <3>1, <3>2
  <2>5. CASE \E a \in Users, role \in Granted, email \in Emails, max \in 1..MaxUses,
               ttl \in TTLs : BeginInvite(r, a, role, email, max, ttl)
    <3>. PICK a \in Users, role \in Granted, email \in Emails, max \in 1..MaxUses,
              ttl \in TTLs : BeginInvite(r, a, role, email, max, ttl)
      BY <2>5
    <3>. DEFINE p == [role |-> role, email |-> email, maxUses |-> max,
                      expires |-> clock + ttl]
                q == [Idle EXCEPT !.op = "invite", !.pc = "write", !.actor = a, !.policy = p]
    <3>1. req' = [req EXCEPT ![r] = q]
      BY DEF BeginInvite, Begin
    <3>2. q.stamp = 0 /\ q.policy.expires = clock + ttl
      BY DEF Idle
    <3>3. clock + ttl \in Api!Expiries
      BY <1>3 DEF Api!Expiries
    <3>. QED
      BY <3>1, <3>2, <3>3
  <2>6. CASE \E a \in Users, i \in Invites : BeginRevoke(r, a, i)
    <3>. PICK a \in Users, i \in Invites : BeginRevoke(r, a, i)
      BY <2>6
    <3>. DEFINE q == [Idle EXCEPT !.op = "revoke", !.pc = "write", !.actor = a, !.invite = i]
    <3>1. req' = [req EXCEPT ![r] = q]
      BY DEF BeginRevoke, Begin
    <3>2. q.stamp = 0 /\ ~Grants(q)
      BY DEF Idle, Grants
    <3>. QED
      BY <3>1, <3>2
  <2>7. CASE \E a \in Users, i \in Invites : BeginPolicy(r, a, i)
    <3>. PICK a \in Users, i \in Invites : BeginPolicy(r, a, i)
      BY <2>7
    <3>. DEFINE q == [Idle EXCEPT !.op = "policy", !.pc = "list", !.actor = a, !.invite = i]
    <3>1. req' = [req EXCEPT ![r] = q]
      BY DEF BeginPolicy, Begin
    <3>2. q.stamp = 0 /\ ~Grants(q)
      BY DEF Idle, Grants
    <3>. QED
      BY <3>1, <3>2
  <2>8. CASE \E a \in Users, i \in Invites : BeginResend(r, a, i)
    <3>. PICK a \in Users, i \in Invites : BeginResend(r, a, i)
      BY <2>8
    <3>. DEFINE q == [Idle EXCEPT !.op = "resend", !.pc = "list", !.actor = a, !.invite = i]
    <3>1. req' = [req EXCEPT ![r] = q]
      BY DEF BeginResend, Begin
    <3>2. q.stamp = 0 /\ ~Grants(q)
      BY DEF Idle, Grants
    <3>. QED
      BY <3>1, <3>2
  <2>9. CASE \E u \in Users, i \in Invites : BeginAccept(r, u, i)
    <3>. PICK u \in Users, i \in Invites : BeginAccept(r, u, i)
      BY <2>9
    <3>. DEFINE q == [Idle EXCEPT !.op = "accept", !.pc = "stamp", !.actor = u, !.invite = i]
    <3>1. req' = [req EXCEPT ![r] = q]
      BY DEF BeginAccept
    <3>2. q.stamp = 0 /\ ~Grants(q)
      BY DEF Idle, Grants
    <3>. QED
      BY <3>1, <3>2
  <2>. QED
    BY <2>1, <2>2, <2>3, <2>4, <2>5, <2>6, <2>7, <2>8, <2>9
<1>5. TimeInv'
  BY <1>1, <1>2, <1>3, <1>4, RequestKeepsTime, ZenonT(60)
<1>. QED
  BY <1>1, <1>5 DEF Api!vars

\* A request that goes on with the policy and the time it has.
LEMMA GoOnKeepsTime ==
  ASSUME IInv, TimeInv, NEW r \in Requests, NEW q, req' = [req EXCEPT ![r] = q],
         q.stamp = req[r].stamp, Grants(q) => Grants(req[r]) /\ q.policy = req[r].policy,
         clock' = clock, \A i \in issued' : invite'[i].expires \in Api!Expiries
  PROVE  TimeInv'
<1>1. q.stamp <= clock /\ (Grants(q) => q.policy.expires \in Api!Expiries)
  BY DEF TimeInv
<1>. QED
  BY <1>1, RequestKeepsTime

LEMMA ReadKeepsTime ==
  ASSUME IInv, TimeInv, NEW r \in Requests,
         \/ ReadTarget(r) \/ CountOwners(r) \/ ListForPolicy(r)
         \/ ListForResend(r) \/ Reauthorize(r) \/ StampAccept(r)
  PROVE  TimeInv' /\ UNCHANGED Api!vars
<1>1. UNCHANGED <<creator, member, issued, invite, clock>>
  BY DEF ReadTarget, CountOwners, ListForPolicy, ListForResend, Reauthorize, StampAccept
<1>. SUFFICES TimeInv'
  BY <1>1 DEF Api!vars
<1>2. \A i \in issued' : invite'[i].expires \in Api!Expiries
  BY <1>1 DEF TimeInv
<1>3. req[r] \in Request /\ clock \in Nat /\ clock \in 0..clock /\ req[r].stamp <= clock
  BY MembershipAssumption DEF IInv, Types, TimeInv
<1>4. ASSUME NEW pc, Goto(r, pc), req[r].op \notin {"invite", "policy"},
             req[r].op = "resend" => req[r].pc = "reauth"
      PROVE  TimeInv'
  <2>. DEFINE q == [req[r] EXCEPT !.pc = pc]
  <2>1. /\ req' = [req EXCEPT ![r] = q] /\ q.op = req[r].op /\ q.policy = req[r].policy
        /\ q.stamp = req[r].stamp
    BY <1>3, <1>4 DEF Goto, Request
  <2>2. Grants(q) => Grants(req[r])
    BY <1>4, <2>1 DEF Grants
  <2>. HIDE DEF q
  <2>. QED
    BY <1>1, <1>2, <2>1, <2>2, GoOnKeepsTime
<1>5. CASE ReadTarget(r) \/ CountOwners(r)
  BY <1>1, <1>2, <1>4, <1>5, FinishKeepsTime DEF ReadTarget, CountOwners
<1>6. CASE Reauthorize(r)
  BY <1>1, <1>2, <1>4, <1>6, FinishKeepsTime DEF Reauthorize, At
<1>7. CASE ListForPolicy(r)
  <2>. DEFINE i == req[r].invite
  <2>1. i \in issued /\ invite[i].expires \in Api!Expiries
    BY <1>7 DEF ListForPolicy, At, IInv, RequestFacts, OnInvite, TimeInv
  <2>2. ASSUME NEW p \in NextPolicies(invite[i]),
               req' = [req EXCEPT ![r] = [@ EXCEPT !.pc = "write", !.policy = p]]
        PROVE  TimeInv'
    <3>. DEFINE q == [req[r] EXCEPT !.pc = "write", !.policy = p]
    <3>1. q.stamp = req[r].stamp /\ q.policy = p
      BY <1>3 DEF Request
    <3>2. p.expires \in {invite[i].expires} \cup {clock + t : t \in TTLs}
      BY DEF NextPolicies
    <3>3. {clock + t : t \in TTLs} \subseteq Api!Expiries
      BY <1>3 DEF Api!Expiries
    <3>4. p.expires \in Api!Expiries
      BY <2>1, <3>2, <3>3
    <3>5. req' = [req EXCEPT ![r] = q]
      BY <2>2
    <3>. HIDE DEF q
    <3>. QED
      BY <1>1, <1>2, <1>3, <3>1, <3>4, <3>5, RequestKeepsTime
  <2>. QED
    BY <1>1, <1>2, <1>7, <2>2, FinishKeepsTime DEF ListForPolicy
<1>8. CASE ListForResend(r)
  <2>. DEFINE i == req[r].invite
  <2>1. PICK t \in TTLs : req' = [req EXCEPT ![r] =
           [@ EXCEPT !.pc = "reauth", !.policy = Renewed(invite[i], clock + t)]]
    BY <1>8 DEF ListForResend
  <2>. DEFINE p == Renewed(invite[i], clock + t)
              q == [req[r] EXCEPT !.pc = "reauth", !.policy = p]
  <2>2. p.expires = clock + t
    BY DEF Renewed
  <2>3. clock + t \in Api!Expiries
    BY <1>3 DEF Api!Expiries
  <2>4. req' = [req EXCEPT ![r] = q] /\ q.stamp = req[r].stamp /\ q.policy = p
    <3>. HIDE DEF p
    <3>1. q.stamp = req[r].stamp /\ q.policy = p
      BY <1>3 DEF Request
    <3>2. req' = [req EXCEPT ![r] = q]
      BY <2>1 DEF p
    <3>. QED
      BY <3>1, <3>2
  <2>5. q.policy.expires \in Api!Expiries
    BY <2>2, <2>3, <2>4
  <2>. HIDE DEF p, q
  <2>. QED
    BY <1>1, <1>2, <1>3, <2>4, <2>5, RequestKeepsTime
<1>9. CASE StampAccept(r)
  <2>. DEFINE q == [req[r] EXCEPT !.pc = "write", !.stamp = clock]
  <2>1. q.stamp = clock /\ ~Grants(q)
    BY <1>3, <1>9 DEF Request, Grants, StampAccept, At
  <2>2. req' = [req EXCEPT ![r] = q]
    BY <1>9 DEF StampAccept
  <2>3. q.stamp <= clock
    BY <1>3, <2>1
  <2>. HIDE DEF q
  <2>. QED
    BY <1>1, <1>2, <2>1, <2>2, <2>3, RequestKeepsTime
<1>. QED
  BY <1>5, <1>6, <1>7, <1>8, <1>9
\* The writes on a row of members are the member calls.  Only an owner does
\* them for somebody else, and the creator is an owner besides whomever they
\* demote or remove.
LEMMA MemberCall ==
  ASSUME IInv, TimeInv, NEW r \in Requests, WriteAdd(r) \/ WriteRole(r) \/ WriteRemove(r)
  PROVE  TimeInv' /\ (Api!Next \/ UNCHANGED Api!vars)
<1>. DEFINE t == req[r].target
            a == req[r].actor
<1>1. /\ req[r] \in Request /\ Finish(r) /\ t \in Users /\ creator \in Users
      /\ member \in [Users -> Roles \cup {"none"}]
      /\ UNCHANGED <<creator, issued, invite, clock>>
  BY DEF WriteAdd, WriteRole, WriteRemove, At, IInv, Types, RequestFacts, OnMember
<1>2. TimeInv'
  BY <1>1, FinishKeepsTime DEF TimeInv
<1>3. ActsAsOwner(r) => a \in Users /\ Api!Owner(a) /\ a = creator
  BY <1>1 DEF IInv, RequestFacts, OnlyCreatorOwns, Api!Owner
<1>4. t # creator => Api!Dispensable(t)
  BY <1>1 DEF IInv, OnlyCreatorOwns, Api!Dispensable, Api!Owner
<1>5. req[r].role \in Api!Granted
  BY <1>1 DEF Request, Granted, Api!Granted
<1>6. CASE WriteAdd(r)
  <2>1. member' = member \/ Api!AddMember(t, req[r].role)
    BY <1>1, <1>6 DEF WriteAdd, Api!AddMember
  <2>2. Api!AddMember(t, req[r].role) => Api!Add(a)
    BY <1>1, <1>3, <1>5, <1>6 DEF Api!Add, ActsAsOwner, WriteAdd, At
  <2>3. a \in Users
    BY <1>3, <1>6 DEF ActsAsOwner, WriteAdd, At
  <2>. QED
    BY <1>1, <1>2, <2>1, <2>2, <2>3 DEF Api!Next, Api!vars
<1>7. CASE WriteRole(r)
  <2>1. t # creator /\ a \in Users /\ Api!Owner(a)
    BY <1>3, <1>7 DEF ActsAsOwner, WriteRole, At, IInv, RequestFacts
  <2>2. member' = member \/ Api!UpdateMemberRole(t, req[r].role)
    BY <1>1, <1>7 DEF WriteRole, Api!UpdateMemberRole
  <2>3. Api!UpdateMemberRole(t, req[r].role) => Api!ChangeRole(a)
    BY <1>1, <1>4, <1>5, <2>1 DEF Api!ChangeRole
  <2>. QED
    BY <1>1, <1>2, <2>1, <2>2, <2>3 DEF Api!Next, Api!vars
<1>8. CASE WriteRemove(r)
  <2>1. t # creator /\ (req[r].op = "remove" => a = creator /\ a \in Users /\ Api!Owner(a))
    BY <1>3, <1>8 DEF ActsAsOwner, WriteRemove, IInv, RequestFacts
  <2>2. member' = member \/ Api!RemoveMember(t)
    BY <1>1, <1>8 DEF WriteRemove, Api!RemoveMember
  <2>3. Api!RemoveMember(t) /\ req[r].op = "leave" => Api!Leave(t)
    BY <1>4, <2>1 DEF Api!Leave
  <2>4. Api!RemoveMember(t) /\ req[r].op = "remove" => Api!Remove(a)
    BY <1>1, <1>4, <2>1 DEF Api!Remove
  <2>. QED
    BY <1>1, <1>2, <1>8, <2>1, <2>2, <2>3, <2>4 DEF WriteRemove, Api!Next, Api!vars
<1>. QED
  BY <1>6, <1>7, <1>8
\* A policy a request is about to write is one an owner may ask for.
LEMMA GrantedPolicy ==
  ASSUME IInv, TimeInv, NEW r \in Requests, Grants(req[r])
  PROVE  req[r].policy \in Policy /\ req[r].policy \in Api!Policy
<1>. DEFINE p == req[r].policy
<1>1. req[r] \in Request
  BY DEF IInv, Types
<1>2. p \in Policy
  BY <1>1 DEF Request
<1>3. p.expires \in Api!Expiries
  BY DEF TimeInv
<1>. HIDE DEF p
<1>4. p \in Api!Policy
  BY <1>2, <1>3 DEF Policy, Api!Policy, Granted, Api!Granted, Emails
<1>. QED
  BY <1>2, <1>4 DEF p

\* What is left of the row a policy is written over.
LEMMA WithPolicyFields ==
  ASSUME NEW inv \in Invitation, NEW p \in Policy, ~inv.revoked
  PROVE  /\ WithPolicy(inv, p) =
              [role |-> p.role, email |-> p.email, maxUses |-> p.maxUses,
               expires |-> p.expires, useCount |-> inv.useCount, revoked |-> FALSE]
         /\ WithPolicy(inv, p).expires = p.expires
<1>. DEFINE w == WithPolicy(inv, p)
<1>1. /\ w \in Invitation
      /\ w.maxUses = p.maxUses /\ w.useCount = inv.useCount /\ w.revoked = FALSE
  BY WithPolicyType DEF Invitation
<1>2. w.role = p.role /\ w.email = p.email /\ w.expires = p.expires
  BY DEF WithPolicy, Invitation
<1>. HIDE DEF w
<1>3. w = [role |-> w.role, email |-> w.email, maxUses |-> w.maxUses,
           expires |-> w.expires, useCount |-> w.useCount, revoked |-> w.revoked]
  BY <1>1 DEF Invitation
<1>. QED
  BY <1>1, <1>2, <1>3 DEF w

\* The owner's writes on a row of invitations are the owner's calls.
LEMMA InviteCall ==
  ASSUME IInv, TimeInv, NEW r \in Requests,
         WriteInvite(r) \/ WriteRevoke(r) \/ WritePolicy(r)
  PROVE  TimeInv' /\ (Api!Next \/ UNCHANGED Api!vars)
<1>. DEFINE p == req[r].policy
            i == req[r].invite
            a == req[r].actor
<1>1. /\ req[r] \in Request /\ Finish(r) /\ creator \in Users
      /\ invite \in [Invites -> Invitation] /\ issued \subseteq Invites
      /\ UNCHANGED <<creator, member, clock>>
  BY DEF WriteInvite, WriteRevoke, WritePolicy, At, IInv, Types, RequestFacts
<1>2. ActsAsOwner(r)
  BY DEF WriteInvite, WriteRevoke, WritePolicy, At, ActsAsOwner
<1>3. a \in Users /\ Api!Owner(a)
  BY <1>1, <1>2 DEF IInv, RequestFacts, OnlyCreatorOwns, Api!Owner
<1>4. SUFFICES /\ \A j \in issued' : invite'[j].expires \in Api!Expiries
               /\ Api!Next \/ UNCHANGED Api!vars
  BY <1>1, FinishKeepsTime
<1>5. \A j \in issued : invite[j].expires \in Api!Expiries
  BY DEF TimeInv
<1>6. CASE WriteInvite(r)
  <2>1. CASE UNCHANGED <<issued, invite>>
    BY <1>1, <1>5, <2>1 DEF Api!vars
  <2>2. CASE ~UNCHANGED <<issued, invite>>
    <3>1. PICK j \in Invites \ issued :
            issued' = issued \cup {j} /\ invite' = [invite EXCEPT ![j] = NewInvitation(p)]
      BY <1>6, <2>2 DEF WriteInvite
    <3>2. p \in Policy /\ p \in Api!Policy
      BY <1>6, GrantedPolicy DEF WriteInvite, Grants
    <3>3. NewInvitation(p).expires \in Api!Expiries
      BY <3>2 DEF NewInvitation, Api!Policy
    <3>4. \A k \in issued' : invite'[k].expires \in Api!Expiries
      BY <1>1, <1>5, <3>1, <3>3
    <3>5. Api!CreateInvitation(j, p)
      BY <1>1, <3>1 DEF Api!CreateInvitation, NewInvitation
    <3>6. Api!Invite(a)
      BY <1>3, <3>2, <3>5 DEF Api!Invite
    <3>. QED
      BY <1>3, <3>4, <3>6 DEF Api!Next
  <2>. QED
    BY <2>1, <2>2
<1>7. CASE WriteRevoke(r)
  <2>1. i \in issued /\ i \in Invites /\ issued' = issued
        /\ invite' = [invite EXCEPT ![i].revoked = TRUE]
    BY <1>1, <1>7 DEF WriteRevoke, At, IInv, RequestFacts, OnInvite
  <2>2. [invite[i] EXCEPT !.revoked = TRUE].expires = invite[i].expires
    BY <1>1, <2>1 DEF Invitation
  <2>3. \A j \in issued' : invite'[j].expires \in Api!Expiries
    BY <1>1, <1>5, <2>1, <2>2
  <2>4. Api!Revoke(a)
    BY <1>1, <1>3, <2>1 DEF Api!Revoke, Api!RevokeInvitation
  <2>. QED
    BY <1>3, <2>3, <2>4 DEF Api!Next
<1>8. CASE WritePolicy(r)
  <2>1. i \in issued /\ i \in Invites /\ issued' = issued
    BY <1>1, <1>8 DEF WritePolicy, At, IInv, RequestFacts, OnInvite
  <2>2. CASE invite[i].revoked
    BY <1>1, <1>5, <1>8, <2>1, <2>2 DEF WritePolicy, Api!vars
  <2>3. CASE ~invite[i].revoked
    <3>1. p \in Policy /\ p \in Api!Policy
      BY <1>8, GrantedPolicy DEF WritePolicy, At, Grants
    <3>2. invite[i] \in Invitation
      BY <1>1, <2>1
    <3>3. /\ WithPolicy(invite[i], p) =
               [role |-> p.role, email |-> p.email, maxUses |-> p.maxUses,
                expires |-> p.expires, useCount |-> invite[i].useCount, revoked |-> FALSE]
          /\ WithPolicy(invite[i], p).expires = p.expires
      BY <2>3, <3>1, <3>2, WithPolicyFields
    <3>4. invite' = [invite EXCEPT ![i] = WithPolicy(invite[i], p)]
      BY <1>8, <2>3 DEF WritePolicy
    <3>5. p.expires \in Api!Expiries
      BY <3>1 DEF Api!Policy
    <3>6. \A j \in issued' : invite'[j].expires \in Api!Expiries
      BY <1>1, <1>5, <2>1, <3>3, <3>4, <3>5
    <3>7. Api!UpdateInvitationPolicy(i, p)
      BY <1>1, <2>1, <2>3, <3>3, <3>4 DEF Api!UpdateInvitationPolicy
    <3>8. Api!ChangePolicy(a)
      BY <1>3, <2>1, <3>1, <3>7 DEF Api!ChangePolicy
    <3>. QED
      BY <1>3, <3>6, <3>8 DEF Api!Next
  <2>. QED
    BY <2>2, <2>3
<1>. QED
  BY <1>6, <1>7, <1>8

\* The invited user's transaction is the call to join; the audit is none.
LEMMA AcceptCall ==
  ASSUME IInv, TimeInv, NEW r \in Requests, WriteAccept(r) \/ AuditAccept(r)
  PROVE  TimeInv' /\ (Api!Next \/ UNCHANGED Api!vars)
<1>. DEFINE i == req[r].invite
            u == req[r].actor
<1>1. /\ req[r] \in Request /\ i \in issued /\ i \in Invites /\ invite[i] \in Invitation
      /\ invite \in [Invites -> Invitation] /\ clock \in Nat
      /\ UNCHANGED <<creator, issued, clock>>
  BY MembershipAssumption
  DEF WriteAccept, AuditAccept, At, IInv, Types, RequestFacts, OnInvite
<1>2. \A j \in issued : invite[j].expires \in Api!Expiries
  BY DEF TimeInv
<1>3. CASE Finish(r) /\ UNCHANGED <<member, invite>>
  BY <1>1, <1>2, <1>3, FinishKeepsTime DEF Api!vars
<1>4. CASE /\ WriteAccept(r)
           /\ Acceptable(invite[i], req[r].stamp) /\ member[u] = "none"
           /\ member' = [member EXCEPT ![u] = invite[i].role]
           /\ invite' = [invite EXCEPT ![i].useCount = @ + 1]
           /\ Goto(r, "audit")
  <2>. DEFINE q == [req[r] EXCEPT !.pc = "audit"]
              inv == [invite[i] EXCEPT !.useCount = @ + 1]
  <2>1. req' = [req EXCEPT ![r] = q] /\ q.stamp = req[r].stamp /\ ~Grants(q)
    BY <1>1, <1>4 DEF Goto, Request, Grants
  <2>2. inv.expires = invite[i].expires /\ invite' = [invite EXCEPT ![i] = inv]
    BY <1>1, <1>4 DEF Invitation
  <2>. HIDE DEF q, inv
  <2>3. \A j \in issued' : invite'[j].expires \in Api!Expiries
    BY <1>1, <1>2, <2>2
  <2>4. TimeInv'
    BY <1>1, <2>1, <2>3, GoOnKeepsTime
  <2>5. req[r].stamp \in 0..clock
    BY <1>1 DEF Request, TimeInv
  <2>6. u \in Users
    BY <1>4 DEF WriteAccept, At, IInv, RequestFacts
  <2>7. Api!AcceptInvitation(i, u, req[r].stamp)
    BY <1>1, <1>4 DEF Api!AcceptInvitation, Acceptable
  <2>8. Api!Join(u)
    BY <1>1, <2>5, <2>7 DEF Api!Join
  <2>. QED
    BY <2>4, <2>6, <2>8 DEF Api!Next
<1>. QED
  BY <1>3, <1>4 DEF WriteAccept, AuditAccept
\* What can end later than a moment from now could already end then.
LEMMA ExpiriesGrow ==
  ASSUME clock \in Nat, clock' = clock + 1
  PROVE  Api!Expiries \subseteq Api!Expiries'
<1>1. 0..clock \subseteq 0..clock'
  OBVIOUS
<1>. QED
  BY <1>1 DEF Api!Expiries

LEMMA NextIsACall ==
  ASSUME IInv, TimeInv, [Next]_vars
  PROVE  TimeInv' /\ (Api!Next \/ UNCHANGED Api!vars)
<1>1. ASSUME NEW u \in Users, CreateWorkspace(u)
      PROVE  TimeInv' /\ Api!Next
  <2>1. UNCHANGED <<issued, invite, clock, req>> /\ Api!CreateWorkspace(u)
    BY <1>1 DEF CreateWorkspace, Api!CreateWorkspace
  <2>2. TimeInv'
    BY <2>1 DEF TimeInv, Api!Expiries, Grants
  <2>. QED
    BY <2>1, <2>2 DEF Api!Next
<1>2. ASSUME NEW r \in Requests, MemberStep(r)
      PROVE  TimeInv' /\ (Api!Next \/ UNCHANGED Api!vars)
  BY <1>2, BeginKeepsTime, ReadKeepsTime, MemberCall DEF MemberStep
<1>3. ASSUME NEW r \in Requests, InvitationStep(r)
      PROVE  TimeInv' /\ (Api!Next \/ UNCHANGED Api!vars)
  BY <1>3, BeginKeepsTime, ReadKeepsTime, InviteCall DEF InvitationStep
<1>4. ASSUME NEW r \in Requests, AcceptStep(r)
      PROVE  TimeInv' /\ (Api!Next \/ UNCHANGED Api!vars)
  BY <1>4, BeginKeepsTime, ReadKeepsTime, AcceptCall DEF AcceptStep
<1>5. CASE Tick
  <2>1. /\ clock \in Nat /\ clock' = clock + 1 /\ req \in [Requests -> Request]
        /\ UNCHANGED <<creator, member, issued, invite, req>>
    BY <1>5, MembershipAssumption DEF Tick, IInv, Types
  <2>2. Api!Expiries \subseteq Api!Expiries'
    BY <2>1, ExpiriesGrow
  <2>3. \A r \in Requests : req'[r].stamp <= clock'
    BY <2>1 DEF TimeInv, Request
  <2>4. TimeInv'
    BY <2>1, <2>2, <2>3 DEF TimeInv, Grants
  <2>. QED
    BY <2>1, <2>4 DEF Api!Next, Api!Tick
<1>6. CASE UNCHANGED vars
  BY <1>6 DEF vars, TimeInv, Api!Expiries, Api!vars, Grants
<1>. QED
  BY <1>1, <1>2, <1>3, <1>4, <1>5, <1>6 DEF Next

\* The handlers of service/workspace.go, each of which looks and writes in
\* transactions of its own, are as good as handlers that do all of it at once.
THEOREM ApiSpecAlways == Spec => ApiSpec
<1>1. Init => Api!Init
  BY DEF Init, Api!Init
<1>2. IInv /\ TimeInv /\ [Next]_vars => TimeInv' /\ [Api!Next]_(Api!vars)
  BY NextIsACall
<1>. QED
  BY <1>1, <1>2, InitTimeInv, SpecIInv, PTL DEF Spec, ApiSpec, Api!Spec
-----------------------------------------------------------------------------
(* The audit trail.                                                        *)

\* The requests about to record a join are as many as the uses that are not
\* recorded, and an invitation without a row has no record.
AuditInv ==
  /\ \A i \in Invites : IsFiniteSet(Auditing(i))
  /\ AuditedJoinsAreUses
  /\ \A i \in Invites \ issued : accepted[i] = 0

LEMMA InitAuditInv == Init => AuditInv
<1>. SUFFICES ASSUME Init PROVE AuditInv
  OBVIOUS
<1>1. \A i : Auditing(i) = {}
  BY DEF Init, Auditing, At, Idle
<1>2. \A i \in Invites : invite[i].useCount = 0 /\ accepted[i] = 0
  BY DEF Init, NewInvitation
<1>. QED
  BY <1>1, <1>2, FS_EmptySet DEF AuditInv, AuditedJoinsAreUses

\* Only a request that starts or stops to wait for its audit is seen there.
LEMMA OthersKeepAuditing ==
  ASSUME NEW r \in Requests, \A s \in Requests \ {r} : req'[s] = req[s],
         At(r, "accept", "audit") <=> At(r, "accept", "audit")',
         At(r, "accept", "audit") => req'[r].invite = req[r].invite
  PROVE  \A i : Auditing(i)' = Auditing(i)
BY DEF Auditing, At

LEMMA SameAudits ==
  ASSUME AuditInv, accepted' = accepted, issued' = issued,
         \A i \in Invites : invite'[i].useCount = invite[i].useCount,
         \A i : Auditing(i)' = Auditing(i)
  PROVE  AuditInv'
BY DEF AuditInv, AuditedJoinsAreUses

\* Before and after these steps the request does not wait for its audit.
LEMMA BeginKeepsAudits ==
  ASSUME IInv, AuditInv, NEW r \in Requests,
         \/ \E a, t \in Users, role \in Granted : BeginAdd(r, a, t, role)
         \/ \E a, t \in Users, role \in Granted : BeginRole(r, a, t, role)
         \/ \E a, t \in Users : BeginRemove(r, a, t)
         \/ \E a \in Users : BeginLeave(r, a)
         \/ \E a \in Users, role \in Granted, email \in Emails,
               max \in 1..MaxUses, ttl \in TTLs : BeginInvite(r, a, role, email, max, ttl)
         \/ \E a \in Users, i \in Invites : BeginRevoke(r, a, i)
         \/ \E a \in Users, i \in Invites : BeginPolicy(r, a, i)
         \/ \E a \in Users, i \in Invites : BeginResend(r, a, i)
         \/ \E u \in Users, i \in Invites : BeginAccept(r, u, i)
  PROVE  AuditInv'
<1>1. req[r] = Idle /\ UNCHANGED <<issued, invite, accepted>>
  BY DEF BeginAdd, BeginRole, BeginRemove, BeginLeave, BeginInvite, BeginRevoke,
         BeginPolicy, BeginResend, BeginAccept, Begin
<1>2. \A s \in Requests \ {r} : req'[s] = req[s]
  BY DEF BeginAdd, BeginRole, BeginRemove, BeginLeave, BeginInvite, BeginRevoke,
         BeginPolicy, BeginResend, BeginAccept, Begin, IInv, Types
<1>3. req \in [Requests -> Request]
  BY DEF IInv, Types
<1>4. req'[r].pc # "audit"
  <2>1. CASE \E a, t \in Users, role \in Granted : BeginAdd(r, a, t, role)
    BY <1>3, <2>1, ZenonT(60) DEF BeginAdd, Begin, Idle
  <2>2. CASE \E a, t \in Users, role \in Granted : BeginRole(r, a, t, role)
    BY <1>3, <2>2, ZenonT(60) DEF BeginRole, Begin, Idle
  <2>3. CASE \E a, t \in Users : BeginRemove(r, a, t)
    BY <1>3, <2>3, ZenonT(60) DEF BeginRemove, Begin, Idle
  <2>4. CASE \E a \in Users : BeginLeave(r, a)
    BY <1>3, <2>4, ZenonT(60) DEF BeginLeave, Begin, Idle
  <2>5. CASE \E a \in Users, role \in Granted, email \in Emails,
               max \in 1..MaxUses, ttl \in TTLs : BeginInvite(r, a, role, email, max, ttl)
    BY <1>3, <2>5, ZenonT(60) DEF BeginInvite, Begin, Idle
  <2>6. CASE \E a \in Users, i \in Invites : BeginRevoke(r, a, i)
    BY <1>3, <2>6, ZenonT(60) DEF BeginRevoke, Begin, Idle
  <2>7. CASE \E a \in Users, i \in Invites : BeginPolicy(r, a, i)
    BY <1>3, <2>7, ZenonT(60) DEF BeginPolicy, Begin, Idle
  <2>8. CASE \E a \in Users, i \in Invites : BeginResend(r, a, i)
    BY <1>3, <2>8, ZenonT(60) DEF BeginResend, Begin, Idle
  <2>9. CASE \E u \in Users, i \in Invites : BeginAccept(r, u, i)
    BY <1>3, <2>9 DEF BeginAccept, Idle
  <2>. QED
    BY <2>1, <2>2, <2>3, <2>4, <2>5, <2>6, <2>7, <2>8, <2>9
<1>5. ~At(r, "accept", "audit") /\ ~At(r, "accept", "audit")'
  BY <1>1, <1>4 DEF At, Idle
<1>. QED
  BY <1>1, <1>2, <1>5, OthersKeepAuditing, SameAudits

LEMMA ReadKeepsAudits ==
  ASSUME IInv, AuditInv, NEW r \in Requests,
         \/ ReadTarget(r) \/ CountOwners(r) \/ ListForPolicy(r)
         \/ ListForResend(r) \/ Reauthorize(r) \/ StampAccept(r)
  PROVE  AuditInv'
<1>1. UNCHANGED <<issued, invite, accepted>>
  BY DEF ReadTarget, CountOwners, ListForPolicy, ListForResend, Reauthorize, StampAccept
<1>2. \A s \in Requests \ {r} : req'[s] = req[s]
  BY DEF ReadTarget, CountOwners, ListForPolicy, ListForResend, Reauthorize,
         StampAccept, Goto, Finish, IInv, Types
<1>3. req \in [Requests -> Request] /\ req[r] \in Request
  BY DEF IInv, Types
<1>4. req'[r].pc # "audit"
  <2>1. CASE ReadTarget(r) \/ CountOwners(r)
    BY <1>3, <2>1 DEF ReadTarget, CountOwners, Goto, Finish, Idle, Request
  <2>2. ASSUME NEW pc \in Pcs, NEW p, req'[r] = [req[r] EXCEPT !.pc = pc, !.policy = p]
        PROVE  req'[r].pc = pc
    <3>. DEFINE q == [req[r] EXCEPT !.pc = pc, !.policy = p]
    <3>1. q.pc = pc
      BY <1>3 DEF Request
    <3>. QED
      BY <2>2, <3>1
  <2>3. CASE ListForPolicy(r) \/ ListForResend(r)
    <3>1. CASE req'[r] = Idle
      BY <3>1 DEF Idle
    <3>2. CASE ListForPolicy(r) /\ req'[r] # Idle
      <4>1. PICK p : req'[r] = [req[r] EXCEPT !.pc = "write", !.policy = p]
        BY <1>3, <3>2 DEF ListForPolicy, Finish
      <4>. QED
        BY <2>2, <4>1 DEF Pcs
    <3>3. CASE ListForResend(r)
      <4>1. PICK p : req'[r] = [req[r] EXCEPT !.pc = "reauth", !.policy = p]
        BY <1>3, <3>3 DEF ListForResend
      <4>. QED
        BY <2>2, <4>1 DEF Pcs
    <3>. QED
      BY <2>3, <3>1, <3>2, <3>3
  <2>4. CASE Reauthorize(r)
    BY <1>3, <2>4 DEF Reauthorize, Goto, Finish, Idle, Request
  <2>5. CASE StampAccept(r)
    <3>. DEFINE q == [req[r] EXCEPT !.pc = "write", !.stamp = clock]
    <3>1. q.pc = "write"
      BY <1>3 DEF Request
    <3>2. req'[r] = q
      BY <1>3, <2>5 DEF StampAccept
    <3>. QED
      BY <3>1, <3>2
  <2>. QED
    BY <2>1, <2>3, <2>4, <2>5
<1>5. ~At(r, "accept", "audit") /\ ~At(r, "accept", "audit")'
  BY <1>4 DEF At, ReadTarget, CountOwners, ListForPolicy, ListForResend, Reauthorize,
              StampAccept
<1>. QED
  BY <1>1, <1>2, <1>5, OthersKeepAuditing, SameAudits

\* A handler that ends without having waited for an audit.
LEMMA FinishKeepsAuditing ==
  ASSUME IInv, NEW r \in Requests, Finish(r), ~At(r, "accept", "audit")
  PROVE  \A i : Auditing(i)' = Auditing(i)
<1>1. req \in [Requests -> Request]
  BY DEF IInv, Types
<1>2. ~At(r, "accept", "audit")' /\ \A s \in Requests \ {r} : req'[s] = req[s]
  BY <1>1 DEF Finish, At, Idle
<1>. QED
  BY <1>2, OthersKeepAuditing

LEMMA WriteKeepsAudits ==
  ASSUME IInv, AuditInv, NEW r \in Requests,
         \/ WriteAdd(r) \/ WriteRole(r) \/ WriteRemove(r)
         \/ WriteInvite(r) \/ WriteRevoke(r) \/ WritePolicy(r)
  PROVE  AuditInv'
<1>. DEFINE p == req[r].policy
            i == req[r].invite
<1>1. Finish(r) /\ ~At(r, "accept", "audit") /\ accepted' = accepted
  BY DEF WriteAdd, WriteRole, WriteRemove, WriteInvite, WriteRevoke, WritePolicy, At
<1>2. \A j : Auditing(j)' = Auditing(j)
  BY <1>1, FinishKeepsAuditing
<1>3. /\ invite \in [Invites -> Invitation] /\ issued \subseteq Invites
      /\ accepted \in [Invites -> Nat]
  BY DEF IInv, Types
<1>4. CASE UNCHANGED <<issued, invite>>
  BY <1>1, <1>2, <1>4, SameAudits
<1>5. CASE WriteRevoke(r)
  <2>1. [invite[i] EXCEPT !.revoked = TRUE].useCount = invite[i].useCount
    BY <1>3, <1>5 DEF WriteRevoke, At, IInv, RequestFacts, OnInvite, Invitation
  <2>2. \A j \in Invites : invite'[j].useCount = invite[j].useCount
    BY <1>3, <1>5, <2>1 DEF WriteRevoke
  <2>. QED
    BY <1>1, <1>2, <1>5, <2>2, SameAudits DEF WriteRevoke
<1>6. CASE WritePolicy(r) /\ ~invite[i].revoked
  <2>1. i \in issued /\ invite[i] \in Invitation /\ p \in Policy
    BY <1>3, <1>6 DEF WritePolicy, At, IInv, Types, RequestFacts, OnInvite, Request
  <2>2. WithPolicy(invite[i], p).useCount = invite[i].useCount
    BY <2>1, WithPolicyType
  <2>3. \A j \in Invites : invite'[j].useCount = invite[j].useCount
    BY <1>3, <1>6, <2>2 DEF WritePolicy
  <2>. QED
    BY <1>1, <1>2, <1>6, <2>3, SameAudits DEF WritePolicy
<1>7. CASE WriteInvite(r) /\ ~UNCHANGED <<issued, invite>>
  <2>1. PICK j \in Invites \ issued :
          issued' = issued \cup {j} /\ invite' = [invite EXCEPT ![j] = NewInvitation(p)]
    BY <1>7 DEF WriteInvite
  <2>2. accepted[j] = 0 /\ Auditing(j) = {}
    BY <2>1 DEF AuditInv, Auditing, At, IInv, RequestFacts, OnInvite
  <2>3. NewInvitation(p).useCount = 0
    BY DEF NewInvitation
  <2>4. \A k \in Invites : accepted'[k] + Cardinality(Auditing(k)') <= invite'[k].useCount
    <3>. TAKE k \in Invites
    <3>1. CASE k = j
      BY <1>1, <1>2, <1>3, <2>1, <2>2, <2>3, <3>1, FS_EmptySet, SMTT(30)
    <3>2. CASE k # j
      BY <1>1, <1>2, <1>3, <2>1, <3>2 DEF AuditInv, AuditedJoinsAreUses
    <3>. QED
      BY <3>1, <3>2
  <2>. QED
    BY <1>1, <1>2, <2>1, <2>4 DEF AuditInv, AuditedJoinsAreUses
<1>. QED
  BY <1>4, <1>5, <1>6, <1>7
  DEF WriteAdd, WriteRole, WriteRemove, WriteInvite, WritePolicy

\* The use is counted before the request may record it.
LEMMA AcceptKeepsAudits ==
  ASSUME IInv, AuditInv, NEW r \in Requests, WriteAccept(r) \/ AuditAccept(r)
  PROVE  AuditInv'
<1>. PICK i : i = req[r].invite
  OBVIOUS
<1>1. /\ req[r] \in Request /\ i \in issued /\ i \in Invites
      /\ req \in [Requests -> Request] /\ invite \in [Invites -> Invitation]
      /\ accepted \in [Invites -> Nat] /\ issued' = issued
  BY DEF WriteAccept, AuditAccept, At, IInv, Types, RequestFacts, OnInvite
<1>2. invite[i] \in Invitation
  BY <1>1
<1>3. /\ IsFiniteSet(Auditing(i)) /\ Cardinality(Auditing(i)) \in Nat
      /\ accepted[i] + Cardinality(Auditing(i)) <= invite[i].useCount
      /\ accepted[i] \in Nat /\ invite[i].useCount \in Nat
  BY <1>1, <1>2, FS_CardinalityType DEF AuditInv, AuditedJoinsAreUses, Invitation
<1>4. CASE /\ WriteAccept(r)
           /\ invite' = [invite EXCEPT ![i].useCount = @ + 1]
           /\ Goto(r, "audit")
  <2>. DEFINE q == [req[r] EXCEPT !.pc = "audit"]
              inv == [invite[i] EXCEPT !.useCount = @ + 1]
  <2>1. inv.useCount = invite[i].useCount + 1 /\ invite' = [invite EXCEPT ![i] = inv]
    BY <1>2, <1>4 DEF Invitation
  <2>2. /\ req' = [req EXCEPT ![r] = q] /\ req[r].op = "accept" /\ req[r].pc = "write"
        /\ q.op = req[r].op /\ q.pc = "audit" /\ q.invite = i
    BY <1>1, <1>4 DEF Goto, Request, WriteAccept, At
  <2>. HIDE DEF q, inv
  <2>3. Auditing(i)' = Auditing(i) \cup {r} /\ r \notin Auditing(i)
    BY <1>1, <2>2 DEF Auditing, At
  <2>4. \A j \in Invites \ {i} : Auditing(j)' = Auditing(j)
    BY <1>1, <2>2 DEF Auditing, At
  <2>5. /\ IsFiniteSet(Auditing(i)')
        /\ Cardinality(Auditing(i)') = Cardinality(Auditing(i)) + 1
    BY <1>3, <2>3, FS_AddElement
  <2>6. accepted' = accepted
    BY <1>4 DEF WriteAccept
  <2>7. accepted'[i] + Cardinality(Auditing(i)') <= invite'[i].useCount
    BY <1>1, <1>3, <2>1, <2>5, <2>6
  <2>8. \A j \in Invites \ {i} : invite'[j] = invite[j]
    BY <1>1, <2>1
  <2>. QED
    BY <1>1, <2>4, <2>5, <2>6, <2>7, <2>8 DEF AuditInv, AuditedJoinsAreUses
<1>5. CASE WriteAccept(r) /\ Finish(r) /\ UNCHANGED invite
  <2>1. ~At(r, "accept", "audit") /\ accepted' = accepted
    BY <1>5 DEF WriteAccept, At
  <2>. QED
    BY <1>1, <1>5, <2>1, FinishKeepsAuditing, SameAudits
<1>6. CASE AuditAccept(r)
  <2>1. req' = [req EXCEPT ![r] = Idle] /\ req[r].op = "accept" /\ req[r].pc = "audit"
        /\ UNCHANGED invite
    BY <1>6 DEF AuditAccept, At, Finish
  <2>2. Idle.op = "none"
    BY DEF Idle
  <2>3. Auditing(i)' = Auditing(i) \ {r} /\ r \in Auditing(i)
    BY <1>1, <2>1, <2>2 DEF Auditing, At
  <2>4. \A j \in Invites \ {i} : Auditing(j)' = Auditing(j)
    BY <1>1, <2>1, <2>2 DEF Auditing, At
  <2>5. /\ IsFiniteSet(Auditing(i)')
        /\ Cardinality(Auditing(i)') = Cardinality(Auditing(i)) - 1
    BY <1>3, <2>3, FS_RemoveElement
  <2>6. accepted'[i] <= accepted[i] + 1 /\ accepted'[i] \in Nat
        /\ \A j \in Invites \ {i} : accepted'[j] = accepted[j]
    BY <1>1, <1>3, <1>6 DEF AuditAccept
  <2>7. accepted'[i] + Cardinality(Auditing(i)') <= invite'[i].useCount
    BY <1>3, <2>1, <2>5, <2>6
  <2>. QED
    BY <1>1, <2>1, <2>4, <2>5, <2>6, <2>7 DEF AuditInv, AuditedJoinsAreUses
<1>. QED
  BY <1>4, <1>5, <1>6 DEF WriteAccept

\* The audit trail never reports a join that AcceptInvitation did not count,
\* however many requests are between the transaction and their event.
THEOREM AuditedJoinsAreUsesAlways == Spec => []AuditedJoinsAreUses
<1>1. ASSUME IInv, AuditInv, [Next]_vars
      PROVE  AuditInv'
  <2>1. CASE UNCHANGED <<issued, invite, accepted, req>>
    BY <1>1, <2>1 DEF AuditInv, AuditedJoinsAreUses, Auditing, At
  <2>2. ASSUME NEW r \in Requests, MemberStep(r) PROVE AuditInv'
    BY <1>1, <2>2, BeginKeepsAudits, ReadKeepsAudits, WriteKeepsAudits DEF MemberStep
  <2>3. ASSUME NEW r \in Requests, InvitationStep(r) PROVE AuditInv'
    BY <1>1, <2>3, BeginKeepsAudits, ReadKeepsAudits, WriteKeepsAudits DEF InvitationStep
  <2>4. ASSUME NEW r \in Requests, AcceptStep(r) PROVE AuditInv'
    BY <1>1, <2>4, BeginKeepsAudits, ReadKeepsAudits, AcceptKeepsAudits DEF AcceptStep
  <2>. QED
    BY <1>1, <2>1, <2>2, <2>3, <2>4 DEF Next, CreateWorkspace, Tick, vars
<1>2. AuditInv => AuditedJoinsAreUses
  BY DEF AuditInv
<1>. QED
  BY <1>1, <1>2, InitAuditInv, SpecIInv, PTL DEF Spec
=============================================================================
