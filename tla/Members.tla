------------------------------ MODULE Members -------------------------------
(***************************************************************************)
(* What the API promises of the members and the invitations of a           *)
(* workspace: each call looks and writes at one moment, with an owner's    *)
(* authority where it needs that, on the tables of the memory store.       *)
(* Membership.tla, whose calls look and write in transactions of their     *)
(* own, implements it.                                                     *)
(*                                                                         *)
(* Two things are promised less strictly, since they are not so: the time  *)
(* an invitation is accepted at, and the time its lifetime begins, may     *)
(* have passed; and a new limit may be below the number of uses.           *)
(***************************************************************************)
EXTENDS Naturals

CONSTANTS Users, Invites, MaxUses, TTLs, Addressees, Nobody

VARIABLES creator, member, issued, invite, clock

vars == <<creator, member, issued, invite, clock>>

Granted == {"member", "guest"}

Owner(u) == member[u] = "owner"

\* When a lifetime that was given until now may end.
Expiries == {t + ttl : t \in 0..clock, ttl \in TTLs}

Policy == [role : Granted, email : Addressees \cup {Nobody},
           maxUses : 1..MaxUses, expires : Expiries]

-----------------------------------------------------------------------------
(* The store.                                                              *)

CreateWorkspace(u) ==
  /\ creator = Nobody
  /\ creator' = u
  /\ member' = [member EXCEPT ![u] = "owner"]
  /\ UNCHANGED <<issued, invite, clock>>

AddMember(u, role) ==
  /\ member[u] = "none"
  /\ member' = [member EXCEPT ![u] = role]
  /\ UNCHANGED <<creator, issued, invite, clock>>

UpdateMemberRole(u, role) ==
  /\ member[u] # "none"
  /\ member' = [member EXCEPT ![u] = role]
  /\ UNCHANGED <<creator, issued, invite, clock>>

RemoveMember(u) ==
  /\ member[u] # "none"
  /\ member' = [member EXCEPT ![u] = "none"]
  /\ UNCHANGED <<creator, issued, invite, clock>>

CreateInvitation(i, p) ==
  /\ i \notin issued
  /\ issued' = issued \cup {i}
  /\ invite' = [invite EXCEPT ![i] =
                  [role |-> p.role, email |-> p.email, maxUses |-> p.maxUses,
                   expires |-> p.expires, useCount |-> 0, revoked |-> FALSE]]
  /\ UNCHANGED <<creator, member, clock>>

UpdateInvitationPolicy(i, p) ==
  /\ i \in issued /\ ~invite[i].revoked
  /\ invite' = [invite EXCEPT ![i] =
                  [role |-> p.role, email |-> p.email, maxUses |-> p.maxUses,
                   expires |-> p.expires, useCount |-> invite[i].useCount,
                   revoked |-> FALSE]]
  /\ UNCHANGED <<creator, member, issued, clock>>

RevokeInvitation(i) ==
  /\ i \in issued
  /\ invite' = [invite EXCEPT ![i].revoked = TRUE]
  /\ UNCHANGED <<creator, member, issued, clock>>

AcceptInvitation(i, u, now) ==
  /\ i \in issued
  /\ ~invite[i].revoked /\ now < invite[i].expires
  /\ invite[i].useCount < invite[i].maxUses
  /\ member[u] = "none"
  /\ member' = [member EXCEPT ![u] = invite[i].role]
  /\ invite' = [invite EXCEPT ![i].useCount = @ + 1]
  /\ UNCHANGED <<creator, issued, clock>>

-----------------------------------------------------------------------------
(* The handlers.                                                           *)

Add(a) == Owner(a) /\ \E u \in Users, role \in Granted : AddMember(u, role)

\* countOwners: there is another one.
Dispensable(u) == Owner(u) => \E o \in Users \ {u} : Owner(o)

ChangeRole(a) ==
  /\ Owner(a)
  /\ \E u \in Users, role \in Granted : Dispensable(u) /\ UpdateMemberRole(u, role)

Remove(a) ==
  /\ Owner(a)
  /\ \E u \in Users \ {a} : Dispensable(u) /\ RemoveMember(u)

Leave(u) == Dispensable(u) /\ RemoveMember(u)

\* Of a new invitation, or of another one like an old one.
Invite(a) == Owner(a) /\ \E i \in Invites, p \in Policy : CreateInvitation(i, p)

Revoke(a) == Owner(a) /\ \E i \in Invites : RevokeInvitation(i)

ChangePolicy(a) ==
  Owner(a) /\ \E i \in Invites, p \in Policy : UpdateInvitationPolicy(i, p)

Join(u) == \E i \in Invites, now \in 0..clock : AcceptInvitation(i, u, now)

-----------------------------------------------------------------------------

Tick == clock' = clock + 1 /\ UNCHANGED <<creator, member, issued, invite>>

Init ==
  /\ creator = Nobody
  /\ member = [u \in Users |-> "none"]
  /\ issued = {}
  /\ clock = 0

Next ==
  \/ \E u \in Users : CreateWorkspace(u) \/ Leave(u) \/ Join(u)
  \/ \E a \in Users :
       Add(a) \/ ChangeRole(a) \/ Remove(a) \/ Invite(a) \/ Revoke(a) \/ ChangePolicy(a)
  \/ Tick

Spec == Init /\ [][Next]_vars
=============================================================================
