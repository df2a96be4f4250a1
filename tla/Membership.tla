----------------------------- MODULE Membership -----------------------------
(***************************************************************************)
(* The members and the invitations of one workspace (the rows of           *)
(* `members` and `invitations` that carry its id; every query of the store *)
(* is restricted to one workspace).                                        *)
(*                                                                         *)
(* A request handler of service/workspace.go is a sequence of store calls; *)
(* each store call is one transaction, and nothing spans two of them.  So  *)
(* a request is a record that remembers what its reads returned, and one   *)
(* action is one store call: whatever other requests do between two calls  *)
(* of a handler is an interleaving of this module.  A request whose check  *)
(* fails answers with an error and changes nothing, so the failing first   *)
(* call of a handler is not an action at all.                              *)
(***************************************************************************)
EXTENDS Naturals, FiniteSets

CONSTANTS
  Users,        \* subs; each has one e-mail address, written as the sub
  Requests,     \* request slots: how many handlers may run at once
  Invites,      \* invitation ids the workspace may ever issue
  MaxUses,      \* domain.MaxInviteUses
  TTLs,         \* lifetimes an invitation can be given
  MaxClock,     \* bound on the clock
  Addressees,   \* the users an invitation may be bound to (bounds the e-mails)
  Nobody        \* no user: no actor, no bound e-mail

ASSUME MembershipAssumption ==
  /\ Nobody \notin Users
  /\ MaxUses \in Nat \ {0}
  /\ MaxClock \in Nat
  /\ TTLs \subseteq Nat \ {0}
  /\ Addressees \subseteq Users

VARIABLES
  creator,      \* who created the workspace, Nobody before that
  member,       \* role of each user, "none" without a row
  issued,       \* invitations that have a row
  invite,       \* the row of each issued invitation
  accepted,     \* number of workspace.invitation.accepted events, by invitation
  clock,
  req,          \* the local state of each request
  peak          \* history: the highest maxUses an invitation ever had

vars == <<creator, member, issued, invite, accepted, clock, req, peak>>

-----------------------------------------------------------------------------
(* Roles.  An unknown role string ranks 0 in RoleAtLeast's map, like guest. *)

Granted == {"member", "guest"}
Roles   == Granted \cup {"owner"}

RoleAtLeast(role, need) ==
  LET rank == [guest |-> 0, member |-> 1, owner |-> 2]
  IN  role # "none" /\ rank[role] >= rank[need]

Emails == Addressees \cup {Nobody}

Owners == {u \in Users : member[u] = "owner"}

Policy     == [role : Granted, email : Emails,
               maxUses : 1..MaxUses, expires : Nat]
Invitation == [role : Granted, email : Emails,
               maxUses : 1..MaxUses, expires : Nat,
               useCount : Nat, revoked : BOOLEAN]

NoPolicy == [role |-> "guest", email |-> Nobody, maxUses |-> 1, expires |-> 0]

\* The policy of a new invitation like inv.
Renewed(inv, until) == [role |-> inv.role, email |-> inv.email,
                        maxUses |-> inv.maxUses, expires |-> until]

NewInvitation(p) == [role |-> p.role, email |-> p.email, maxUses |-> p.maxUses,
                     expires |-> p.expires, useCount |-> 0, revoked |-> FALSE]

WithPolicy(inv, p) == [inv EXCEPT !.role = p.role, !.email = p.email,
                                  !.maxUses = p.maxUses, !.expires = p.expires]

-----------------------------------------------------------------------------
(* Requests: the operation, its arguments, and pc, the next store call.    *)

Ops == {"none", "add", "role", "remove", "leave",
        "invite", "revoke", "policy", "resend", "accept"}
Pcs == {"idle", "target", "count", "write", "list", "reauth", "stamp", "audit"}

Request == [op : Ops, pc : Pcs, actor : Users \cup {Nobody},
            target : Users \cup {Nobody}, role : Granted,
            invite : Invites \cup {Nobody}, policy : Policy, stamp : Nat]

Idle == [op |-> "none", pc |-> "idle", actor |-> Nobody, target |-> Nobody,
         role |-> "guest", invite |-> Nobody, policy |-> NoPolicy, stamp |-> 0]

At(r, op, pc) == req[r].op = op /\ req[r].pc = pc
Goto(r, pc)   == req' = [req EXCEPT ![r] = [@ EXCEPT !.pc = pc]]
Finish(r)     == req' = [req EXCEPT ![r] = Idle]

\* requireRole, then the handler waits for its next call: the first step of
\* every handler that acts inside the workspace.
Begin(r, q, need) ==
  /\ req[r] = Idle
  /\ creator # Nobody
  /\ RoleAtLeast(member[q.actor], need)
  /\ req' = [req EXCEPT ![r] = q]
  /\ UNCHANGED <<creator, member, issued, invite, accepted, clock, peak>>

-----------------------------------------------------------------------------
(* The workspace and its members.                                          *)

CreateWorkspace(u) ==
  /\ creator = Nobody
  /\ creator' = u
  /\ member' = [member EXCEPT ![u] = "owner"]
  /\ UNCHANGED <<issued, invite, accepted, clock, req, peak>>

BeginAdd(r, a, t, role) ==
  Begin(r, [Idle EXCEPT !.op = "add", !.pc = "write", !.actor = a,
                        !.target = t, !.role = role], "owner")

\* INSERT INTO members: a second row for the same user is ErrConflict.
WriteAdd(r) ==
  LET q == req[r] IN
  /\ At(r, "add", "write")
  /\ member' = IF member[q.target] = "none"
               THEN [member EXCEPT ![q.target] = q.role] ELSE member
  /\ Finish(r)
  /\ UNCHANGED <<creator, issued, invite, accepted, clock, peak>>

BeginRole(r, a, t, role) ==
  Begin(r, [Idle EXCEPT !.op = "role", !.pc = "target", !.actor = a,
                        !.target = t, !.role = role], "owner")

\* Mutant: any member may remove another.
BeginRemove_AnyMember(r, a, t) ==
  /\ a # t
  /\ Begin(r, [Idle EXCEPT !.op = "remove", !.pc = "target", !.actor = a,
                           !.target = t], "member")

BeginRemove(r, a, t) ==
  /\ a # t
  /\ Begin(r, [Idle EXCEPT !.op = "remove", !.pc = "target", !.actor = a,
                           !.target = t], "owner")

BeginLeave(r, a) ==
  Begin(r, [Idle EXCEPT !.op = "leave", !.pc = "target", !.actor = a,
                        !.target = a], "guest")

\* GetMember(target): only an owner needs the count of the owners.
ReadTarget(r) ==
  LET t == req[r].target IN
  /\ req[r].op \in {"role", "remove", "leave"} /\ req[r].pc = "target"
  /\ \/ member[t] = "none"  /\ Finish(r)
     \/ member[t] = "owner" /\ Goto(r, "count")
     \/ member[t] \in Granted /\ Goto(r, "write")
  /\ UNCHANGED <<creator, member, issued, invite, accepted, clock, peak>>

\* Mutant: off by one.
LastOwner_OffByOne == Cardinality(Owners) < 1

\* countOwners: the last owner is neither demoted nor removed.
LastOwner == Cardinality(Owners) <= 1

CountOwners(r) ==
  /\ req[r].op \in {"role", "remove", "leave"} /\ req[r].pc = "count"
  /\ IF LastOwner THEN Finish(r) ELSE Goto(r, "write")
  /\ UNCHANGED <<creator, member, issued, invite, accepted, clock, peak>>

\* UPDATE members / DELETE FROM members; no row is ErrNotFound.
WriteRole(r) ==
  LET q == req[r] IN
  /\ At(r, "role", "write")
  /\ member' = IF member[q.target] = "none" THEN member
               ELSE [member EXCEPT ![q.target] = q.role]
  /\ Finish(r)
  /\ UNCHANGED <<creator, issued, invite, accepted, clock, peak>>

WriteRemove(r) ==
  /\ req[r].op \in {"remove", "leave"} /\ req[r].pc = "write"
  /\ member' = [member EXCEPT ![req[r].target] = "none"]
  /\ Finish(r)
  /\ UNCHANGED <<creator, issued, invite, accepted, clock, peak>>

-----------------------------------------------------------------------------
(* Invitations, as the owner sees them.                                    *)

BeginInvite(r, a, role, email, max, ttl) ==
  Begin(r, [Idle EXCEPT !.op = "invite", !.pc = "write", !.actor = a,
              !.policy = [role |-> role, email |-> email, maxUses |-> max,
                          expires |-> clock + ttl]], "owner")

\* INSERT INTO invitations, by CreateInvitation and by ResendInvitation.  When
\* the ids (a bound) have run out it fails as on any database error.
WriteInvite(r) ==
  LET p == req[r].policy IN
  /\ req[r].op \in {"invite", "resend"} /\ req[r].pc = "write"
  /\ \/ \E i \in Invites \ issued :
          /\ issued' = issued \cup {i}
          /\ invite' = [invite EXCEPT ![i] = NewInvitation(p)]
          /\ peak' = [peak EXCEPT ![i] = p.maxUses]
     \/ issued = Invites /\ UNCHANGED <<issued, invite, peak>>
  /\ Finish(r)
  /\ UNCHANGED <<creator, member, accepted, clock>>

\* An id without a row is ErrNotFound; rows are never deleted, so the ids the
\* next three handlers get any further with are issued ones.
BeginRevoke(r, a, i) ==
  /\ i \in issued
  /\ Begin(r, [Idle EXCEPT !.op = "revoke", !.pc = "write", !.actor = a,
                           !.invite = i], "owner")

WriteRevoke(r) ==
  LET i == req[r].invite IN
  /\ At(r, "revoke", "write")
  /\ invite' = [invite EXCEPT ![i].revoked = TRUE]
  /\ Finish(r)
  /\ UNCHANGED <<creator, member, issued, accepted, clock, peak>>

BeginPolicy(r, a, i) ==
  /\ i \in issued
  /\ Begin(r, [Idle EXCEPT !.op = "policy", !.pc = "list", !.actor = a,
                           !.invite = i], "owner")

\* Mutant: the limit is not compared with MaxInviteUses.
NextPolicies_NoCeiling(inv) ==
  {p \in [role : Granted, email : Emails, maxUses : 1..MaxUses + 1,
          expires : {inv.expires} \cup {clock + t : t \in TTLs}] :
     p.maxUses >= inv.useCount}

\* The policies a partial update can ask for on the row it has read: every
\* field is either kept or given.
NextPolicies(inv) ==
  {p \in [role : Granted, email : Emails, maxUses : 1..MaxUses,
          expires : {inv.expires} \cup {clock + t : t \in TTLs}] :
     p.maxUses >= inv.useCount}

\* ListInvitations, and every decision made on the row it returned.
ListForPolicy(r) ==
  LET i == req[r].invite IN
  /\ At(r, "policy", "list")
  /\ \/ /\ ~invite[i].revoked
        /\ \E p \in NextPolicies(invite[i]) :
             req' = [req EXCEPT ![r] = [@ EXCEPT !.pc = "write", !.policy = p]]
     \/ invite[i].revoked /\ Finish(r)
  /\ UNCHANGED <<creator, member, issued, invite, accepted, clock, peak>>

\* Mutant: the UPDATE relies on the test made on the row read before.
WritePolicy_NoRevokedTest(r) ==
  LET q == req[r] IN
  /\ At(r, "policy", "write")
  /\ invite' = [invite EXCEPT ![q.invite] = WithPolicy(@, q.policy)]
  /\ peak' = [peak EXCEPT ![q.invite] =
                IF q.policy.maxUses > @ THEN q.policy.maxUses ELSE @]
  /\ Finish(r)
  /\ UNCHANGED <<creator, member, issued, accepted, clock>>

\* UPDATE invitations ... WHERE revoked_at IS NULL: all four fields are
\* written, the ones the caller left out with the values read before.
WritePolicy(r) ==
  LET q == req[r] IN
  /\ At(r, "policy", "write")
  /\ IF invite[q.invite].revoked
     THEN UNCHANGED <<invite, peak>>
     ELSE /\ invite' = [invite EXCEPT ![q.invite] = WithPolicy(@, q.policy)]
          /\ peak' = [peak EXCEPT ![q.invite] =
                        IF q.policy.maxUses > @ THEN q.policy.maxUses ELSE @]
  /\ Finish(r)
  /\ UNCHANGED <<creator, member, issued, accepted, clock>>

BeginResend(r, a, i) ==
  /\ i \in issued
  /\ Begin(r, [Idle EXCEPT !.op = "resend", !.pc = "list", !.actor = a,
                           !.invite = i], "owner")

\* A copy with a lifetime of its own; the first invitation stays valid.
ListForResend(r) ==
  /\ At(r, "resend", "list")
  /\ \E t \in TTLs :
       req' = [req EXCEPT ![r] =
                 [@ EXCEPT !.pc = "reauth",
                           !.policy = Renewed(invite[req[r].invite], clock + t)]]
  /\ UNCHANGED <<creator, member, issued, invite, accepted, clock, peak>>

\* CreateInvitation asks for the role again.
Reauthorize(r) ==
  /\ At(r, "resend", "reauth")
  /\ IF RoleAtLeast(member[req[r].actor], "owner") THEN Goto(r, "write")
     ELSE Finish(r)
  /\ UNCHANGED <<creator, member, issued, invite, accepted, clock, peak>>

-----------------------------------------------------------------------------
(* Invitations, as the invited user sees them.                             *)

\* GetInvitationByTokenHash, and the e-mail test on the row it returned.
BeginAccept(r, u, i) ==
  /\ req[r] = Idle
  /\ i \in issued
  /\ invite[i].email \in {Nobody, u}
  /\ req' = [req EXCEPT ![r] = [Idle EXCEPT !.op = "accept", !.pc = "stamp",
                                            !.actor = u, !.invite = i]]
  /\ UNCHANGED <<creator, member, issued, invite, accepted, clock, peak>>

\* GetWorkspace, then the time the transaction will compare with.
StampAccept(r) ==
  /\ At(r, "accept", "stamp")
  /\ req' = [req EXCEPT ![r] = [@ EXCEPT !.pc = "write", !.stamp = clock]]
  /\ UNCHANGED <<creator, member, issued, invite, accepted, clock, peak>>

\* Mutant: one use too many.
Acceptable_OffByOne(inv, at) ==
  ~inv.revoked /\ at < inv.expires /\ inv.useCount <= inv.maxUses

\* Not revoked, not expired, not used up.
Acceptable(inv, at) ==
  ~inv.revoked /\ at < inv.expires /\ inv.useCount < inv.maxUses

\* Mutant: `joined` is not looked at before the event is recorded.
WriteAccept_AlwaysJoined(r) ==
  LET q == req[r]
      i == q.invite IN
  /\ At(r, "accept", "write")
  /\ \/ /\ Acceptable(invite[i], q.stamp)
        /\ IF member[q.actor] = "none"
           THEN /\ member' = [member EXCEPT ![q.actor] = invite[i].role]
                /\ invite' = [invite EXCEPT ![i].useCount = @ + 1]
           ELSE UNCHANGED <<member, invite>>
        /\ Goto(r, "audit")
     \/ ~Acceptable(invite[i], q.stamp) /\ Finish(r) /\ UNCHANGED <<member, invite>>
  /\ UNCHANGED <<creator, issued, accepted, clock, peak>>

\* The transaction of store.AcceptInvitation, under the lock on the row.  It
\* does not look at the e-mail again.  A member who accepts stays what he was.
WriteAccept(r) ==
  LET q == req[r]
      i == q.invite IN
  /\ At(r, "accept", "write")
  /\ \/ /\ Acceptable(invite[i], q.stamp) /\ member[q.actor] = "none"
        /\ member' = [member EXCEPT ![q.actor] = invite[i].role]
        /\ invite' = [invite EXCEPT ![i].useCount = @ + 1]
        /\ Goto(r, "audit")
     \/ /\ ~Acceptable(invite[i], q.stamp) \/ member[q.actor] # "none"
        /\ Finish(r)
        /\ UNCHANGED <<member, invite>>
  /\ UNCHANGED <<creator, issued, accepted, clock, peak>>

\* AddAuditEvent; its error is dropped.
AuditAccept(r) ==
  /\ At(r, "accept", "audit")
  /\ \/ accepted' = [accepted EXCEPT ![req[r].invite] = @ + 1]
     \/ UNCHANGED accepted
  /\ Finish(r)
  /\ UNCHANGED <<creator, member, issued, invite, clock, peak>>

Tick ==
  /\ clock < MaxClock
  /\ clock' = clock + 1
  /\ UNCHANGED <<creator, member, issued, invite, accepted, req, peak>>

-----------------------------------------------------------------------------

Init ==
  /\ creator = Nobody
  /\ member = [u \in Users |-> "none"]
  /\ issued = {}
  /\ invite = [i \in Invites |-> NewInvitation(NoPolicy)]
  /\ accepted = [i \in Invites |-> 0]
  /\ clock = 0
  /\ req = [r \in Requests |-> Idle]
  /\ peak = [i \in Invites |-> 0]

MemberStep(r) ==
  \/ \E a, t \in Users, role \in Granted : BeginAdd(r, a, t, role)
  \/ WriteAdd(r)
  \/ \E a, t \in Users, role \in Granted : BeginRole(r, a, t, role)
  \/ \E a, t \in Users : BeginRemove(r, a, t)
  \/ \E a \in Users : BeginLeave(r, a)
  \/ ReadTarget(r)
  \/ CountOwners(r)
  \/ WriteRole(r)
  \/ WriteRemove(r)

InvitationStep(r) ==
  \/ \E a \in Users, role \in Granted, email \in Emails,
        max \in 1..MaxUses, ttl \in TTLs : BeginInvite(r, a, role, email, max, ttl)
  \/ WriteInvite(r)
  \/ \E a \in Users, i \in Invites : BeginRevoke(r, a, i)
  \/ WriteRevoke(r)
  \/ \E a \in Users, i \in Invites : BeginPolicy(r, a, i)
  \/ ListForPolicy(r)
  \/ WritePolicy(r)
  \/ \E a \in Users, i \in Invites : BeginResend(r, a, i)
  \/ ListForResend(r)
  \/ Reauthorize(r)

AcceptStep(r) ==
  \/ \E u \in Users, i \in Invites : BeginAccept(r, u, i)
  \/ StampAccept(r)
  \/ WriteAccept(r)
  \/ AuditAccept(r)

Next ==
  \/ \E u \in Users : CreateWorkspace(u)
  \/ \E r \in Requests : MemberStep(r) \/ InvitationStep(r) \/ AcceptStep(r)
  \/ Tick

Spec == Init /\ [][Next]_vars

-----------------------------------------------------------------------------
(* Properties.                                                             *)

\* Every variable has its type; in particular no interleaving of accepts takes
\* the counter of an invitation past the largest limit the code accepts.
TypeOK ==
  /\ creator \in Users \cup {Nobody}
  /\ member \in [Users -> Roles \cup {"none"}]
  /\ issued \subseteq Invites
  /\ invite \in [Invites -> Invitation]
  /\ \A i \in Invites : invite[i].useCount <= MaxUses
  /\ accepted \in [Invites -> Nat]
  /\ clock \in 0..MaxClock
  /\ req \in [Requests -> Request]
  /\ peak \in [Invites -> 0..MaxUses]

\* Once the workspace exists its creator is an owner, and nobody else is,
\* although UpdateMemberRole, RemoveMember and LeaveWorkspace all read the role
\* and count the owners in transactions of their own before they write: "the
\* only owner cannot leave" (apps/web/app/page.tsx) whatever runs beside it.
SoleOwner == Owners = IF creator = Nobody THEN {} ELSE {creator}

\* The requests that act with an owner's authority.
ActsAsOwner(r) ==
  req[r].op \in {"add", "role", "remove", "invite", "revoke", "policy", "resend"}

\* requireRole(owner) is read once, and the writes come later in other
\* transactions; yet whoever passed it still is an owner when they happen.
AuthorityHolds ==
  \A r \in Requests : ActsAsOwner(r) => member[req[r].actor] = "owner"

\* Every handler that changes anything does it as if it had looked and written at
\* one moment, with whatever authority it needs then, though it reads roles,
\* owners and invitations in transactions of their own: the calls of Members,
\* one after the other, are all that can be seen of them.
Api == INSTANCE Members

ApiSpec == Api!Spec

\* A revoked invitation is a dead row: an update decided on a read from before
\* the revocation, or an accept already past its checks, cannot change it.
RevokedIsFinal ==
  [][\A i \in Invites : invite[i].revoked => invite'[i] = invite[i]]_vars

\* An invitation never lets in more users than the most generous limit it ever
\* had, however many accepts read it before the first of them is counted.
UsesBounded == \A i \in Invites : invite[i].useCount <= peak[i]

Auditing(i) == {r \in Requests : At(r, "accept", "audit") /\ req[r].invite = i}

\* The audit trail reports no join that was not counted: events recorded plus
\* those about to be never exceed the counter they describe.
AuditedJoinsAreUses ==
  \A i \in Invites : accepted[i] + Cardinality(Auditing(i)) <= invite[i].useCount

\* "This invitation is for <address>: it must match the account's e-mail"
\* (apps/web/app/join/[token]/page.tsx): whoever joins by an invitation that
\* is bound to an address at that moment has that address.
EmailBinding ==
  [][\A i \in Invites, u \in Users :
       /\ invite'[i].useCount > invite[i].useCount
       /\ member[u] = "none" /\ member'[u] # "none"
       => invite[i].email \in {Nobody, u}]_vars
=============================================================================
