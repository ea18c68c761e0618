------------------------------ MODULE Members ------------------------------
(***************************************************************************)
(* MembersService and PlaceMemberGuard: who belongs to a place, in which   *)
(* role, and how the codes that invite people are redeemed.                *)
(*                                                                         *)
(* One place that is not deleted.  A request passes the guard, reads, and  *)
(* writes, each in a step of its own.                                      *)
(***************************************************************************)
EXTENDS Naturals, FiniteSets

CONSTANTS
  Users,      \* active users
  Owner,      \* who created the place
  Friends,    \* pairs of users with an accepted friendship
  Invites,    \* ids of invites, never used twice
  Nothing,    \* no user, no invite
  Slots       \* requests in flight

ASSUME MembersAssumption ==
  /\ Owner \in Users
  /\ Friends \subseteq Users \X Users
  /\ Nothing \notin Users \cup Invites

VARIABLES
  members,     \* the place's rows of place_members, one per user
  invites,     \* its rows of place_invites
  redeemed,    \* history: who joined by each invite
  requests

vars == <<members, invites, redeemed, requests>>

Roles == {"VIEWER", "MEMBER", "ADMIN", "OWNER"}
ROLE_RANK == [VIEWER |-> 0, MEMBER |-> 1, ADMIN |-> 2, OWNER |-> 3]
hasAtLeastRole(actual, required) == ROLE_RANK[actual] >= ROLE_RANK[required]

MemberRow == [status : {"none", "ACTIVE", "REMOVED"}, role : Roles]

\* email: the one user an invite is addressed to, or Nothing.
InviteRow == [exists : BOOLEAN, role : Roles, email : Users \cup {Nothing}, expired : BOOLEAN,
              accepted : BOOLEAN, revoked : BOOLEAN]
NoInvite == [exists |-> FALSE, role |-> "MEMBER", email |-> Nothing, expired |-> FALSE,
             accepted |-> FALSE, revoked |-> FALSE]

\* The role that each route asks of its caller.
MinRole == [add |-> "ADMIN", updateRole |-> "OWNER", remove |-> "ADMIN", leave |-> "VIEWER",
            createInvite |-> "ADMIN", revokeInvite |-> "ADMIN"]

Pc == {"idle", "accept.user", "accept.write", "add.write", "updateRole.write", "remove.write"}
      \cup DOMAIN MinRole

\* user is the caller, member whom the request is about.
Request == [pc : Pc, user : Users, member : Users, role : Roles, invite : Invites \cup {Nothing}]
Idle == [pc |-> "idle", user |-> Owner, member |-> Owner, role |-> "MEMBER", invite |-> Nothing]

TypeOK ==
  /\ members \in [Users -> MemberRow]
  /\ invites \in [Invites -> InviteRow]
  /\ redeemed \in [Invites -> SUBSET Users]
  /\ requests \in [Slots -> Request]

\* PlacesService.create makes the owner a member in the same transaction.
Init ==
  /\ members = [u \in Users |-> [status |-> IF u = Owner THEN "ACTIVE" ELSE "none",
                                 role |-> IF u = Owner THEN "OWNER" ELSE "MEMBER"]]
  /\ invites = [i \in Invites |-> NoInvite]
  /\ redeemed = [i \in Invites |-> {}]
  /\ requests = [r \in Slots |-> Idle]

Free(r) == requests[r].pc = "idle"
At(r, pc) == requests[r].pc = pc
Goes(r, record) == requests' = [requests EXCEPT ![r] = record]
Step(r, pc) == Goes(r, [requests[r] EXCEPT !.pc = pc])
Ends(r) == Goes(r, Idle)
Active(u) == members[u].status = "ACTIVE"

-----------------------------------------------------------------------------
\* PlaceMemberGuard, for a route.  No route gives the role OWNER.
Arrive(r, u, route, member, role, invite) ==
  /\ Free(r)
  /\ Active(u) /\ hasAtLeastRole(members[u].role, MinRole[route])
  /\ Goes(r, [pc |-> route, user |-> u, member |-> member, role |-> role, invite |-> invite])
  /\ UNCHANGED <<members, invites, redeemed>>

Joined(u, role) == members' = [members EXCEPT ![u] = [status |-> "ACTIVE", role |-> role]]

\* Mutant: whoever is a member already gets the new role.
AddReadAnyone(r) ==
  LET q == requests[r] IN
  /\ At(r, "add")
  /\ q.member # q.user /\ <<q.user, q.member>> \in Friends
  /\ Step(r, "add.write")
  /\ UNCHANGED <<members, invites, redeemed>>

\* add: friends only, and nobody who is a member.
AddRead(r) ==
  LET q == requests[r] IN
  /\ At(r, "add")
  /\ q.member # q.user /\ <<q.user, q.member>> \in Friends
  /\ ~Active(q.member)
  /\ Step(r, "add.write")
  /\ UNCHANGED <<members, invites, redeemed>>

\* The upsert, whatever has become of the row.
AddWrite(r) ==
  /\ At(r, "add.write")
  /\ Joined(requests[r].member, requests[r].role)
  /\ Ends(r)
  /\ UNCHANGED <<invites, redeemed>>

\* Mutant: the owner's row is like any other.
ManageableAny(u) == members[u].status # "none"

\* updateRole and remove find a row in any status and spare the owner's.
Manageable(u) == members[u].status # "none" /\ members[u].role # "OWNER"

ManageRead(r) ==
  /\ Manageable(requests[r].member)
  /\ \/ /\ At(r, "updateRole")
        /\ Step(r, "updateRole.write")
     \/ /\ At(r, "remove")
        /\ Step(r, "remove.write")
     \/ /\ At(r, "leave")
        /\ Active(requests[r].member)
        /\ Step(r, "remove.write")
  /\ UNCHANGED <<members, invites, redeemed>>

UpdateRoleWrite(r) ==
  /\ At(r, "updateRole.write")
  /\ members' = [members EXCEPT ![requests[r].member].role = requests[r].role]
  /\ Ends(r)
  /\ UNCHANGED <<invites, redeemed>>

\* remove, and leave.
RemoveWrite(r) ==
  /\ At(r, "remove.write")
  /\ members' = [members EXCEPT ![requests[r].member].status = "REMOVED"]
  /\ Ends(r)
  /\ UNCHANGED <<invites, redeemed>>

-----------------------------------------------------------------------------
CreateInvite(r, i, email) ==
  /\ At(r, "createInvite")
  /\ ~invites[i].exists
  /\ invites' = [invites EXCEPT ![i] = [NoInvite EXCEPT !.exists = TRUE, !.role = requests[r].role,
                                                        !.email = email]]
  /\ Ends(r)
  /\ UNCHANGED <<members, redeemed>>

\* revokeInvite: one updateMany, of an invite neither used nor revoked.
RevokeInvite(r) ==
  LET i == requests[r].invite IN
  /\ At(r, "revokeInvite")
  /\ invites[i].exists /\ ~invites[i].accepted /\ ~invites[i].revoked
  /\ invites' = [invites EXCEPT ![i].revoked = TRUE]
  /\ Ends(r)
  /\ UNCHANGED <<members, redeemed>>

Expire(i) ==
  /\ invites[i].exists /\ ~invites[i].expired
  /\ invites' = [invites EXCEPT ![i].expired = TRUE]
  /\ UNCHANGED <<members, redeemed, requests>>

Open(i) == invites[i].exists /\ ~invites[i].revoked /\ ~invites[i].accepted /\ ~invites[i].expired

\* acceptInvite: no guard, the code is all the caller needs.
AcceptBegin(r, u, i) ==
  /\ Free(r)
  /\ Open(i)
  /\ Goes(r, [pc |-> "accept.user", user |-> u, member |-> u, role |-> invites[i].role, invite |-> i])
  /\ UNCHANGED <<members, invites, redeemed>>

\* Mutant: whoever holds the code.
AcceptUserAnyone(r) ==
  /\ At(r, "accept.user")
  /\ Step(r, "accept.write")
  /\ UNCHANGED <<members, invites, redeemed>>

\* The caller's email against the invite's, as the invite was read.
AcceptUser(r) ==
  LET q == requests[r] IN
  /\ At(r, "accept.user")
  /\ invites[q.invite].email \in {Nothing, q.user}
  /\ Step(r, "accept.write")
  /\ UNCHANGED <<members, invites, redeemed>>

\* The transaction: membership upserted and invite marked, by id alone.
AcceptWrite(r) ==
  LET q == requests[r] IN
  /\ At(r, "accept.write")
  /\ Joined(q.user, q.role)
  /\ invites' = [invites EXCEPT ![q.invite].accepted = TRUE]
  /\ redeemed' = [redeemed EXCEPT ![q.invite] = @ \cup {q.user}]
  /\ Ends(r)

\* Any 4xx after the guard, a unique violation, a crash.
Fails(r) ==
  /\ ~Free(r)
  /\ Ends(r)
  /\ UNCHANGED <<members, invites, redeemed>>

\* What a caller can ask of a route.
Ask(r, u) ==
  \/ \E route \in {"add", "updateRole"}, m \in Users, role \in Roles \ {"OWNER"} :
       Arrive(r, u, route, m, role, Nothing)
  \/ \E m \in Users : Arrive(r, u, "remove", m, "MEMBER", Nothing)
  \/ Arrive(r, u, "leave", u, "MEMBER", Nothing)
  \/ \E role \in Roles \ {"OWNER"} : Arrive(r, u, "createInvite", u, role, Nothing)
  \/ \E i \in Invites : Arrive(r, u, "revokeInvite", u, "MEMBER", i) \/ AcceptBegin(r, u, i)

Next ==
  \/ \E r \in Slots :
       \/ \E u \in Users : Ask(r, u)
       \/ AddRead(r) \/ AddWrite(r) \/ ManageRead(r) \/ UpdateRoleWrite(r) \/ RemoveWrite(r)
       \/ \E i \in Invites, email \in Users \cup {Nothing} : CreateInvite(r, i, email)
       \/ RevokeInvite(r) \/ AcceptUser(r) \/ AcceptWrite(r)
       \/ Fails(r)
  \/ \E i \in Invites : Expire(i)

Spec == Init /\ [][Next]_vars

-----------------------------------------------------------------------------
\* A place keeps its owner and has no other, however requests interleave, as
\* long as the owner redeems no invite to it: what updateRole, remove and leave
\* guard on a row they have read and then write by id.
OwnerUnlessRedeemed ==
  /\ \A u \in Users \ {Owner} : members[u].role # "OWNER"
  /\ (\A i \in Invites : Owner \notin redeemed[i]) =>
       members[Owner] = [status |-> "ACTIVE", role |-> "OWNER"]

\* What makes it inductive: a request about to change somebody's membership
\* is not about the owner, and nobody is given the role of one.
RequestSpares(q) ==
  /\ q.role # "OWNER"
  /\ /\ q.pc \in {"add.write", "updateRole.write", "remove.write"}
     /\ \A i \in Invites : Owner \notin redeemed[i]
     => q.member # Owner
  /\ q.pc \in {"accept.user", "accept.write"} => q.invite \in Invites

OwnerInv ==
  /\ TypeOK
  /\ OwnerUnlessRedeemed
  /\ \A i \in Invites : invites[i].role # "OWNER"
  /\ \A r \in Slots : RequestSpares(requests[r])

\* "The owner's role cannot be changed", nor the owner removed.
OwnerStays == members[Owner] = [status |-> "ACTIVE", role |-> "OWNER"]

\* An invite addressed to somebody lets nobody else in ("otherwise a leaked
\* code would let anyone in").
AddresseeOnly ==
  \A i \in Invites : invites[i].email # Nothing => redeemed[i] \subseteq {invites[i].email}

\* A code is good for one person.
SingleUse == \A i \in Invites : Cardinality(redeemed[i]) <= 1

\* Who redeems a code after it was revoked is not let in.
RevokedAdmitsNone == \A i \in Invites : invites[i].revoked => redeemed'[i] = redeemed[i]

\* The role of a member changes by the owner's doing, or by a code that the
\* member redeems: an ADMIN adds people and does not demote or promote them.
RoleChangesByOwner ==
  \A u \in Users :
    Active(u) /\ Active(u)' /\ members'[u].role # members[u].role =>
      \E r \in Slots :
        /\ At(r, "updateRole.write") \/ (At(r, "accept.write") /\ requests[r].user = u)
        /\ requests'[r] # requests[r]

=============================================================================
