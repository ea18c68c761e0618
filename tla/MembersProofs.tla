--------------------------- MODULE MembersProofs ---------------------------
(***************************************************************************)
(* A place keeps its owner, for any number of members, invites and         *)
(* requests in flight, as long as the owner redeems no invite to it; and,  *)
(* while requests are served one after the other, roles change by the      *)
(* owner only.                                                             *)
(***************************************************************************)
EXTENDS MCMembers, FiniteSetTheorems, TLAPS

\* Once the owner has redeemed an invite, that stays so.
OwnerRedeemed == \E i \in Invites : Owner \in redeemed[i]

LEMMA IdleSpares == Idle \in Request /\ RequestSpares(Idle)'
BY MembersAssumption DEF Idle, Request, Pc, Roles, RequestSpares

\* A step that sets one request, leaves the members alone and gives no invite
\* the role of owner.
LEMMA OnlyRequest ==
  ASSUME OwnerInv, NEW r \in Slots, NEW q \in Request, RequestSpares(q)', Goes(r, q),
         members' = members, redeemed' = redeemed,
         invites' \in [Invites -> InviteRow], \A i \in Invites : invites'[i].role # "OWNER"
  PROVE  OwnerInv'
<1>1. TypeOK'
  BY DEF OwnerInv, TypeOK, Goes
<1>2. OwnerUnlessRedeemed'
  BY DEF OwnerInv, OwnerUnlessRedeemed
<1>3. \A s \in Slots : RequestSpares(requests[s])'
  BY DEF OwnerInv, TypeOK, Goes, RequestSpares
<1> QED BY <1>1, <1>2, <1>3 DEF OwnerInv

\* A step that writes one member's row, with a role that is not the owner's, and
\* ends its request: the row is not the owner's, unless the owner has redeemed
\* an invite by now.
LEMMA MemberWritten ==
  ASSUME OwnerInv, NEW r \in Slots, NEW u \in Users, NEW row \in MemberRow, row.role # "OWNER",
         members' = [members EXCEPT ![u] = row], Ends(r),
         invites' \in [Invites -> InviteRow], \A i \in Invites : invites'[i].role # "OWNER",
         redeemed' \in [Invites -> SUBSET Users], \A i \in Invites : redeemed[i] \subseteq redeemed'[i],
         u # Owner \/ OwnerRedeemed'
  PROVE  OwnerInv'
<1>1. TypeOK'
  BY IdleSpares DEF OwnerInv, TypeOK, Ends, Goes
<1>2. OwnerUnlessRedeemed'
  BY DEF OwnerInv, OwnerUnlessRedeemed, OwnerRedeemed, TypeOK
<1>3. ASSUME NEW s \in Slots PROVE RequestSpares(requests[s])'
  <2>1. requests'[s] = requests[s] \/ requests'[s] = Idle
    BY DEF OwnerInv, TypeOK, Ends, Goes
  <2> QED BY <2>1, IdleSpares DEF OwnerInv, RequestSpares
<1>4. \A i \in Invites : invites'[i].role # "OWNER"
  OBVIOUS
<1> QED BY <1>1, <1>2, <1>3, <1>4 DEF OwnerInv

LEMMA OwnerInit == Init => OwnerInv
<1> SUFFICES ASSUME Init PROVE OwnerInv
  OBVIOUS
<1>1. TypeOK
  BY MembersAssumption
  DEF Init, TypeOK, MemberRow, NoInvite, InviteRow, Roles, Idle, Request, Pc
<1> QED
  BY <1>1, MembersAssumption DEF Init, OwnerInv, OwnerUnlessRedeemed, NoInvite, Idle, RequestSpares

\* One step per action of the service.
LEMMA OwnerStep == OwnerInv /\ [Next]_vars => OwnerInv'
<1> SUFFICES ASSUME OwnerInv, [Next]_vars PROVE OwnerInv'
  OBVIOUS
<1>a. TypeOK /\ OwnerUnlessRedeemed /\ \A i \in Invites : invites[i].role # "OWNER"
  BY DEF OwnerInv
<1>b. \A r \in Slots : requests[r] \in Request /\ RequestSpares(requests[r])
  BY DEF OwnerInv, TypeOK
<1>c. invites \in [Invites -> InviteRow] /\ redeemed \in [Invites -> SUBSET Users]
  BY <1>a DEF TypeOK
<1>1. ASSUME NEW r \in Slots, NEW u \in Users, NEW route \in DOMAIN MinRole, NEW m \in Users,
             NEW role \in Roles \ {"OWNER"}, NEW i \in Invites \cup {Nothing},
             Arrive(r, u, route, m, role, i)
      PROVE  OwnerInv'
  <2> DEFINE q == [pc |-> route, user |-> u, member |-> m, role |-> role, invite |-> i]
  <2>1. q \in Request /\ RequestSpares(q)'
    BY DEF Request, Pc, RequestSpares, MinRole
  <2> QED BY <1>1, <1>a, <1>c, <2>1, OnlyRequest DEF Arrive
<1>2. ASSUME NEW r \in Slots, NEW u \in Users, NEW i \in Invites, AcceptBegin(r, u, i)
      PROVE  OwnerInv'
  <2>1. PICK role \in Roles \ {"OWNER"} : role = invites[i].role
    BY <1>a, <1>c DEF InviteRow
  <2> DEFINE p == [pc |-> "accept.user", user |-> u, member |-> u, role |-> role, invite |-> i]
  <2>2. p \in Request /\ RequestSpares(p)'
    BY DEF Request, Pc, RequestSpares
  <2>3. Goes(r, p)
    BY <1>2, <2>1 DEF AcceptBegin
  <2> QED BY <1>2, <1>a, <1>c, <2>2, <2>3, OnlyRequest DEF AcceptBegin
<1>3. ASSUME NEW r \in Slots, AddRead(r)
      PROVE  OwnerInv'
  <2>0. PICK q \in Request : q = requests[r] /\ RequestSpares(q)
    BY <1>b
  <2> DEFINE n == [q EXCEPT !.pc = "add.write"]
  <2>1. (\A i \in Invites : Owner \notin redeemed[i]) => q.member # Owner
    BY <1>3, <1>a, <2>0 DEF AddRead, Active, OwnerUnlessRedeemed
  <2>2. n \in Request
    BY <2>0 DEF Request, Pc
  <2>3. Goes(r, n) /\ members' = members /\ redeemed' = redeemed /\ invites' = invites
    BY <1>3, <2>0 DEF AddRead, Step, Goes
  <2>4. RequestSpares(n)'
    BY <2>0, <2>1, <2>3 DEF RequestSpares, Request
  <2> QED BY <1>a, <1>c, <2>2, <2>3, <2>4, OnlyRequest
<1>4. ASSUME NEW r \in Slots, ManageRead(r)
      PROVE  OwnerInv'
  <2>0. PICK q \in Request : q = requests[r] /\ RequestSpares(q)
    BY <1>b
  <2>1. (\A i \in Invites : Owner \notin redeemed[i]) => q.member # Owner
    BY <1>4, <1>a, <2>0 DEF ManageRead, Manageable, OwnerUnlessRedeemed
  <2>2. PICK pc \in {"updateRole.write", "remove.write"} : Goes(r, [q EXCEPT !.pc = pc])
    BY <1>4, <2>0 DEF ManageRead, Step, Goes
  <2> DEFINE n == [q EXCEPT !.pc = pc]
  <2>3. n \in Request
    BY <2>0 DEF Request, Pc
  <2>4. members' = members /\ redeemed' = redeemed /\ invites' = invites
    BY <1>4 DEF ManageRead
  <2>5. RequestSpares(n)'
    BY <2>0, <2>1, <2>4 DEF RequestSpares, Request
  <2> QED BY <1>a, <1>c, <2>2, <2>3, <2>4, <2>5, OnlyRequest
<1>5. ASSUME NEW r \in Slots, AddWrite(r)
      PROVE  OwnerInv'
  <2>1. PICK q \in Request : q = requests[r] /\ RequestSpares(q)
    BY <1>b
  <2> DEFINE row == [status |-> "ACTIVE", role |-> q.role]
  <2>2. q.pc = "add.write" /\ Ends(r) /\ members' = [members EXCEPT ![q.member] = row]
        /\ invites' = invites /\ redeemed' = redeemed
    BY <1>5, <2>1 DEF AddWrite, At, Joined
  <2>3. row \in MemberRow /\ row.role # "OWNER" /\ q.member \in Users
    BY <2>1 DEF Request, MemberRow, RequestSpares
  <2>4. q.member # Owner \/ OwnerRedeemed'
    BY <2>1, <2>2 DEF RequestSpares, OwnerRedeemed
  <2> QED BY <1>a, <1>c, <2>2, <2>3, <2>4, MemberWritten
<1>6. ASSUME NEW r \in Slots, UpdateRoleWrite(r)
      PROVE  OwnerInv'
  <2>1. PICK q \in Request : q = requests[r] /\ RequestSpares(q)
    BY <1>b
  <2>2. PICK old \in MemberRow : old = members[q.member]
    BY <1>a, <2>1 DEF TypeOK, Request
  <2>3. [old EXCEPT !.role = q.role] \in MemberRow
    BY <2>1 DEF MemberRow, Request
  <2>4. PICK row \in MemberRow : row = [members[q.member] EXCEPT !.role = q.role]
    BY <2>2, <2>3
  <2>5. q.pc = "updateRole.write" /\ Ends(r) /\ members' = [members EXCEPT ![q.member] = row]
        /\ invites' = invites /\ redeemed' = redeemed
    BY <1>6, <1>a, <2>1, <2>4 DEF UpdateRoleWrite, At, TypeOK
  <2>6. row.role # "OWNER" /\ q.member \in Users
    BY <1>a, <2>1, <2>4 DEF Request, RequestSpares, TypeOK, MemberRow
  <2>7. q.member # Owner \/ OwnerRedeemed'
    BY <2>1, <2>5 DEF RequestSpares, OwnerRedeemed
  <2> QED BY <1>a, <1>c, <2>5, <2>6, <2>7, MemberWritten
<1>7. ASSUME NEW r \in Slots, RemoveWrite(r)
      PROVE  OwnerInv'
  <2>1. PICK q \in Request : q = requests[r] /\ RequestSpares(q)
    BY <1>b
  <2>2. q.pc = "remove.write" /\ Ends(r) /\ invites' = invites /\ redeemed' = redeemed
        /\ members' = [members EXCEPT ![q.member].status = "REMOVED"] /\ q.member \in Users
    BY <1>7, <2>1 DEF RemoveWrite, At, Request
  <2>3. q.member # Owner \/ OwnerRedeemed
    BY <2>1, <2>2 DEF RequestSpares, OwnerRedeemed
  <2>4. TypeOK'
    BY <1>a, <2>2, IdleSpares DEF TypeOK, Ends, Goes, MemberRow
  <2>5. OwnerUnlessRedeemed'
    BY <1>a, <2>2, <2>3 DEF OwnerUnlessRedeemed, OwnerRedeemed, TypeOK, MemberRow
  <2>6. ASSUME NEW s \in Slots PROVE RequestSpares(requests[s])'
    <3>1. requests'[s] = requests[s] \/ requests'[s] = Idle
      BY <1>a, <2>2 DEF TypeOK, Ends, Goes
    <3> QED BY <1>b, <2>2, <3>1, IdleSpares DEF RequestSpares
  <2> QED BY <1>a, <2>2, <2>4, <2>5, <2>6 DEF OwnerInv
<1>8. ASSUME NEW r \in Slots, NEW i \in Invites, NEW email \in Users \cup {Nothing},
             CreateInvite(r, i, email)
      PROVE  OwnerInv'
  <2>1. requests[r].role \in Roles /\ requests[r].role # "OWNER"
    BY <1>b DEF Request, RequestSpares
  <2>2. invites' \in [Invites -> InviteRow] /\ \A j \in Invites : invites'[j].role # "OWNER"
    BY <1>8, <1>a, <1>c, <2>1 DEF CreateInvite, InviteRow, NoInvite
  <2> QED BY <1>8, <2>2, IdleSpares, OnlyRequest DEF CreateInvite, Ends
<1>9. ASSUME NEW r \in Slots, RevokeInvite(r)
      PROVE  OwnerInv'
  <2>1. invites' \in [Invites -> InviteRow] /\ \A j \in Invites : invites'[j].role # "OWNER"
    BY <1>9, <1>a, <1>c DEF RevokeInvite, InviteRow
  <2> QED BY <1>9, <2>1, IdleSpares, OnlyRequest DEF RevokeInvite, Ends
<1>10. ASSUME NEW r \in Slots, AcceptUser(r)
       PROVE  OwnerInv'
  <2>0. PICK q \in Request : q = requests[r] /\ RequestSpares(q)
    BY <1>b
  <2> DEFINE n == [q EXCEPT !.pc = "accept.write"]
  <2>1. q.pc = "accept.user" /\ Goes(r, n) /\ members' = members /\ redeemed' = redeemed /\ invites' = invites
    BY <1>10, <2>0 DEF AcceptUser, At, Step, Goes
  <2>2. n \in Request /\ RequestSpares(n)'
    BY <2>0, <2>1 DEF Request, Pc, RequestSpares
  <2> QED BY <1>a, <1>c, <2>1, <2>2, OnlyRequest
<1>11. ASSUME NEW r \in Slots, AcceptWrite(r)
       PROVE  OwnerInv'
  <2>1. PICK q \in Request : q = requests[r] /\ RequestSpares(q)
    BY <1>b
  <2> DEFINE row == [status |-> "ACTIVE", role |-> q.role]
  <2>2. q.invite \in Invites /\ Ends(r) /\ members' = [members EXCEPT ![q.user] = row]
        /\ invites' = [invites EXCEPT ![q.invite].accepted = TRUE]
        /\ redeemed' = [redeemed EXCEPT ![q.invite] = @ \cup {q.user}]
    BY <1>11, <2>1 DEF AcceptWrite, At, Joined, RequestSpares
  <2>3. row \in MemberRow /\ row.role # "OWNER" /\ q.user \in Users
    BY <2>1 DEF Request, MemberRow, RequestSpares
  <2>4. invites' \in [Invites -> InviteRow] /\ \A j \in Invites : invites'[j].role # "OWNER"
    <3>1. invites' = [invites EXCEPT ![q.invite].accepted = TRUE] /\ q.invite \in Invites
      BY <2>2
    <3> QED BY <1>a, <1>c, <3>1 DEF InviteRow
  <2>5. redeemed' \in [Invites -> SUBSET Users] /\ \A j \in Invites : redeemed[j] \subseteq redeemed'[j]
    BY <1>c, <2>2, <2>3
  <2>6. q.user # Owner \/ OwnerRedeemed'
    BY <1>c, <2>2 DEF OwnerRedeemed
  <2> QED BY <2>2, <2>3, <2>4, <2>5, <2>6, MemberWritten
<1>12. ASSUME NEW r \in Slots, Fails(r)
       PROVE  OwnerInv'
  BY <1>a, <1>c, <1>12, IdleSpares, OnlyRequest DEF Fails, Ends
<1>13. ASSUME NEW i \in Invites, Expire(i)
       PROVE  OwnerInv'
  <2>1. invites' \in [Invites -> InviteRow] /\ \A j \in Invites : invites'[j].role # "OWNER"
    BY <1>13, <1>a, <1>c DEF Expire, InviteRow
  <2> QED
    BY <1>13, <1>a, <1>b, <2>1 DEF Expire, OwnerInv, TypeOK, OwnerUnlessRedeemed, RequestSpares
<1>14. CASE UNCHANGED vars
  BY <1>14, <1>a, <1>b DEF vars, OwnerInv, TypeOK, OwnerUnlessRedeemed, RequestSpares
<1>15. ASSUME NEW r \in Slots, NEW u \in Users, Ask(r, u)
       PROVE  OwnerInv'
  BY <1>15, <1>1, <1>2 DEF Ask, MinRole, Roles
<1> QED
  BY <1>3, <1>4, <1>5, <1>6, <1>7, <1>8, <1>9, <1>10, <1>11, <1>12, <1>13, <1>14, <1>15 DEF Next

\* The invariant that carries the theorem below.
THEOREM OwnerInvariant == Spec => []OwnerInv
BY OwnerInit, OwnerStep, PTL DEF Spec

\* A place keeps its owner and has no other, however requests interleave, as
\* long as the owner redeems no invite to it.
THEOREM OwnerKept == Spec => []OwnerUnlessRedeemed
<1>1. OwnerInv => OwnerUnlessRedeemed
  BY DEF OwnerInv
<1> QED BY <1>1, OwnerInvariant, PTL

-----------------------------------------------------------------------------
\* What makes AddresseeOnly inductive: an invite that is not there yet has let
\* nobody in, and a request about to redeem one is the addressee's, since the
\* address of an invite never changes.
Addressed(q) ==
  /\ q.pc \in {"accept.user", "accept.write"} => invites[q.invite].exists
  /\ q.pc = "accept.write" => invites[q.invite].email \in {Nothing, q.user}

AddressInv ==
  /\ AddresseeOnly
  /\ \A i \in Invites : ~invites[i].exists => redeemed[i] = {}
  /\ \A r \in Slots : Addressed(requests[r])

\* A step that redeems nothing, and leaves the address of every invite there is
\* as it is.
LEMMA AddressKept ==
  ASSUME OwnerInv, AddressInv, redeemed' = redeemed,
         \A i \in Invites : invites[i].exists =>
           invites'[i].exists /\ invites'[i].email = invites[i].email,
         \A r \in Slots : requests'[r] = requests[r] \/ Addressed(requests[r])'
  PROVE  AddressInv'
<1>1. AddresseeOnly'
  BY DEF AddressInv, AddresseeOnly
<1>2. \A i \in Invites : ~invites'[i].exists => redeemed'[i] = {}
  BY DEF AddressInv
<1>3. ASSUME NEW r \in Slots, requests'[r] = requests[r]
      PROVE  Addressed(requests[r])'
  <2>1. Addressed(requests[r]) /\ RequestSpares(requests[r])
    BY DEF AddressInv, OwnerInv
  <2> QED BY <1>3, <2>1 DEF Addressed, RequestSpares
<1> QED BY <1>1, <1>2, <1>3 DEF AddressInv

LEMMA AddressInit == Init => AddressInv
BY DEF Init, AddressInv, AddresseeOnly, Addressed, NoInvite, Idle

\* The three actions that touch invites or redeem them; of the others, the one
\* request they set is on no way to redeem anything.
LEMMA AddressStep == OwnerInv /\ AddressInv /\ [Next]_vars => AddressInv'
<1> SUFFICES ASSUME OwnerInv, AddressInv, [Next]_vars PROVE AddressInv'
  OBVIOUS
<1>a. invites \in [Invites -> InviteRow] /\ redeemed \in [Invites -> SUBSET Users]
  BY DEF OwnerInv, TypeOK
<1>b. \A r \in Slots : requests[r] \in Request /\ RequestSpares(requests[r]) /\ Addressed(requests[r])
  BY DEF OwnerInv, TypeOK, AddressInv
<1>c. ASSUME NEW r \in Slots, NEW q, Goes(r, q), Addressed(q)', redeemed' = redeemed,
             \A i \in Invites : invites[i].exists =>
               invites'[i].exists /\ invites'[i].email = invites[i].email
      PROVE  AddressInv'
  <2>1. requests'[r] = q /\ \A s \in Slots \ {r} : requests'[s] = requests[s]
    BY <1>c DEF Goes, OwnerInv, TypeOK
  <2>2. Addressed(requests[r])'
    BY <1>c, <2>1 DEF Addressed
  <2> QED BY <1>c, <2>1, <2>2, AddressKept
<1>d. Addressed(Idle)'
  BY DEF Addressed, Idle
<1>1. ASSUME NEW r \in Slots, Ends(r), redeemed' = redeemed,
             \A i \in Invites : invites[i].exists =>
               invites'[i].exists /\ invites'[i].email = invites[i].email
      PROVE  AddressInv'
  BY <1>1, <1>c, <1>d DEF Ends
<1>2. ASSUME NEW r \in Slots, NEW q, Goes(r, q), q.pc \notin {"accept.user", "accept.write"},
             redeemed' = redeemed, invites' = invites
      PROVE  AddressInv'
  BY <1>2, <1>c DEF Addressed
<1>3. ASSUME NEW r \in Slots, NEW u \in Users, Ask(r, u)
      PROVE  AddressInv'
  <2>1. ASSUME NEW route \in DOMAIN MinRole, NEW m, NEW role, NEW i, Arrive(r, u, route, m, role, i)
        PROVE  AddressInv'
    BY <2>1, <1>2 DEF Arrive, MinRole
  <2>2. ASSUME NEW i \in Invites, AcceptBegin(r, u, i)
        PROVE  AddressInv'
    <3>1. PICK role : role = invites[i].role
      OBVIOUS
    <3> DEFINE q == [pc |-> "accept.user", user |-> u, member |-> u, role |-> role, invite |-> i]
    <3>2. Goes(r, q) /\ invites' = invites /\ redeemed' = redeemed /\ invites[i].exists
      BY <2>2, <3>1 DEF AcceptBegin, Open
    <3>3. Addressed(q)'
      BY <3>2 DEF Addressed
    <3> HIDE DEF q
    <3> QED BY <3>2, <3>3, <1>c
  <2> QED BY <1>3, <2>1, <2>2 DEF Ask, MinRole
<1>4. ASSUME NEW r \in Slots, AddRead(r) \/ ManageRead(r)
      PROVE  AddressInv'
  <2>1. PICK pc \in {"add.write", "updateRole.write", "remove.write"} :
          Step(r, pc) /\ invites' = invites /\ redeemed' = redeemed
    BY <1>4 DEF AddRead, ManageRead
  <2>2. PICK q \in Request : q = requests[r]
    BY <1>b
  <2>3. [q EXCEPT !.pc = pc].pc = pc
    BY DEF Request
  <2> QED BY <2>1, <2>2, <2>3, <1>2 DEF Step
<1>5. ASSUME NEW r \in Slots, AddWrite(r) \/ UpdateRoleWrite(r) \/ RemoveWrite(r) \/ Fails(r)
      PROVE  AddressInv'
  BY <1>5, <1>1 DEF AddWrite, UpdateRoleWrite, RemoveWrite, Fails
<1>6. ASSUME NEW r \in Slots, NEW i \in Invites, NEW email, CreateInvite(r, i, email)
      PROVE  AddressInv'
  BY <1>6, <1>a, <1>1 DEF CreateInvite
<1>7. ASSUME NEW r \in Slots, RevokeInvite(r)
      PROVE  AddressInv'
  <2>1. \A i \in Invites : invites[i].exists =>
          invites'[i].exists /\ invites'[i].email = invites[i].email
    BY <1>7, <1>a DEF RevokeInvite, InviteRow
  <2> QED BY <1>7, <2>1, <1>1 DEF RevokeInvite
<1>8. ASSUME NEW i \in Invites, Expire(i)
      PROVE  AddressInv'
  <2>1. \A j \in Invites : invites[j].exists =>
          invites'[j].exists /\ invites'[j].email = invites[j].email
    BY <1>8, <1>a DEF Expire, InviteRow
  <2> QED BY <1>8, <2>1, AddressKept DEF Expire
<1>9. ASSUME NEW r \in Slots, AcceptUser(r)
      PROVE  AddressInv'
  <2>1. PICK q \in Request : q = requests[r] /\ RequestSpares(q) /\ Addressed(q)
    BY <1>b
  <2> DEFINE n == [q EXCEPT !.pc = "accept.write"]
  <2>2. Goes(r, n) /\ invites' = invites /\ redeemed' = redeemed
    BY <1>9, <2>1 DEF AcceptUser, Step
  <2>3. n.invite = q.invite /\ n.user = q.user /\ invites[q.invite].exists
        /\ invites[q.invite].email \in {Nothing, q.user}
    BY <1>9, <2>1 DEF AcceptUser, At, Addressed, Request
  <2>4. Addressed(n)'
    BY <2>2, <2>3 DEF Addressed
  <2> HIDE DEF n
  <2> QED BY <2>2, <2>4, <1>c
<1>10. ASSUME NEW r \in Slots, AcceptWrite(r)
       PROVE  AddressInv'
  <2>1. PICK q \in Request : q = requests[r] /\ RequestSpares(q) /\ Addressed(q)
    BY <1>b
  <2>2. q.invite \in Invites /\ invites[q.invite].exists
        /\ invites[q.invite].email \in {Nothing, q.user}
    BY <1>10, <2>1 DEF AcceptWrite, At, RequestSpares, Addressed
  <2>3. \A i \in Invites : invites'[i].exists = invites[i].exists /\ invites'[i].email = invites[i].email
    BY <1>10, <2>1, <1>a DEF AcceptWrite, InviteRow
  <2>4. \A i \in Invites : redeemed'[i] = redeemed[i]
                           \/ (i = q.invite /\ redeemed'[i] = redeemed[i] \cup {q.user})
    BY <1>10, <2>1, <1>a DEF AcceptWrite
  <2>5. AddresseeOnly'
    BY <2>2, <2>3, <2>4 DEF AddressInv, AddresseeOnly
  <2>6. \A i \in Invites : ~invites'[i].exists => redeemed'[i] = {}
    BY <2>2, <2>3, <2>4 DEF AddressInv
  <2>7. ASSUME NEW s \in Slots PROVE Addressed(requests[s])'
    <3>1. requests'[s] = Idle \/ requests'[s] = requests[s]
      BY <1>10 DEF AcceptWrite, Ends, Goes, OwnerInv, TypeOK
    <3> QED BY <3>1, <1>b, <1>d, <2>3 DEF Addressed, RequestSpares
  <2> QED BY <2>5, <2>6, <2>7 DEF AddressInv
<1>11. CASE UNCHANGED vars
  BY <1>11, AddressKept DEF vars
<1> QED
  BY <1>3, <1>4, <1>5, <1>6, <1>7, <1>8, <1>9, <1>10, <1>11 DEF Next

\* An invite addressed to somebody lets nobody else in, however requests
\* interleave (members.service.ts, acceptInvite: the comparison of emails).
THEOREM AddresseesOnly == Spec => []AddresseeOnly
<1>1. AddressInv => AddresseeOnly
  BY DEF AddressInv
<1> QED BY <1>1, AddressInit, AddressStep, OwnerInvariant, PTL DEF Spec


-----------------------------------------------------------------------------
\* One request after the other: whom add found to be no member still is none
\* when it writes.
NewcomersAreNew == \A r \in Slots : At(r, "add.write") => ~Active(requests[r].member)
OneBusy == \A p, r \in Busy : p = r

SerialInv ==
  /\ OwnerInv
  /\ IsFiniteSet(Busy)
  /\ ~overlapped => OneBusy /\ NewcomersAreNew

\* What one request does.
Acts(r) ==
  \/ \E u \in Users : Ask(r, u)
  \/ AddRead(r) \/ AddWrite(r) \/ ManageRead(r) \/ UpdateRoleWrite(r) \/ RemoveWrite(r)
  \/ \E i \in Invites, email \in Users \cup {Nothing} : CreateInvite(r, i, email)
  \/ RevokeInvite(r) \/ AcceptUser(r) \/ AcceptWrite(r)
  \/ Fails(r)

LEMMA NextSplit ==
  ASSUME Next
  PROVE  (\E r \in Slots : Acts(r)) \/ (\E i \in Invites : Expire(i))
BY DEF Next, Acts

\* The writes of members, and what every other step leaves of them.
WritesMember(r) == AddWrite(r) \/ UpdateRoleWrite(r) \/ RemoveWrite(r) \/ AcceptWrite(r)

ReadsOn(r) ==
  /\ members' = members
  /\ \E q : Goes(r, q) /\ (q.pc = "add.write" => ~Active(q.member))

LEMMA ActsReading ==
  ASSUME OwnerInv, NEW r \in Slots, Acts(r)
  PROVE  WritesMember(r) \/ ReadsOn(r)
<1>a. requests[r] \in Request
  BY DEF OwnerInv, TypeOK
<1>1. ASSUME NEW route \in DOMAIN MinRole, NEW u, NEW m, NEW role, NEW i, Arrive(r, u, route, m, role, i)
      PROVE  ReadsOn(r)
  BY <1>1 DEF Arrive, ReadsOn, MinRole
<1>2. ASSUME NEW u, NEW i, AcceptBegin(r, u, i)
      PROVE  ReadsOn(r)
  <2> DEFINE q == [pc |-> "accept.user", user |-> u, member |-> u, role |-> invites[i].role, invite |-> i]
  <2>1. Goes(r, q) /\ members' = members
    BY <1>2 DEF AcceptBegin
  <2>2. q.pc = "accept.user"
    OBVIOUS
  <2> HIDE DEF q
  <2> QED BY <2>1, <2>2 DEF ReadsOn
<1>3. ASSUME NEW u \in Users, Ask(r, u)
      PROVE  ReadsOn(r)
  BY <1>1, <1>2, <1>3 DEF Ask, MinRole
<1>4. ASSUME NEW pc, Step(r, pc), members' = members, pc = "add.write" => ~Active(requests[r].member)
      PROVE  ReadsOn(r)
  <2> DEFINE q == [requests[r] EXCEPT !.pc = pc]
  <2>1. Goes(r, q) /\ q.pc = pc /\ q.member = requests[r].member
    BY <1>a, <1>4 DEF Step, Request
  <2> HIDE DEF q
  <2> QED BY <1>4, <2>1 DEF ReadsOn
<1>5. CASE AddRead(r) \/ ManageRead(r) \/ AcceptUser(r)
  BY <1>4, <1>5 DEF AddRead, ManageRead, AcceptUser
<1>6. ASSUME Ends(r), members' = members
      PROVE  ReadsOn(r)
  BY <1>6 DEF Ends, Idle, ReadsOn
<1>7. CASE Fails(r) \/ RevokeInvite(r) \/ \E i \in Invites, email \in Users \cup {Nothing} : CreateInvite(r, i, email)
  BY <1>6, <1>7 DEF Fails, RevokeInvite, CreateInvite
<1> QED BY <1>3, <1>5, <1>7 DEF Acts, WritesMember

LEMMA ActsGoes ==
  ASSUME OwnerInv, NEW r \in Slots, Acts(r)
  PROVE  \E q : Goes(r, q)
<1>1. WritesMember(r) => Ends(r)
  BY DEF WritesMember, AddWrite, UpdateRoleWrite, RemoveWrite, AcceptWrite
<1> QED BY <1>1, ActsReading DEF ReadsOn, Ends

LEMMA BusyStaysFinite ==
  ASSUME OwnerInv, IsFiniteSet(Busy), [Next]_vars
  PROVE  IsFiniteSet(Busy')
<1>1. ASSUME NEW r \in Slots, Acts(r) PROVE IsFiniteSet(Busy')
  <2>1. PICK q : requests' = [requests EXCEPT ![r] = q]
    BY <1>1, ActsGoes DEF Goes
  <2>2. Busy' \subseteq Busy \cup {r}
    BY <2>1 DEF Busy, Free, OwnerInv, TypeOK
  <2> QED BY <2>2, FS_AddElement, FS_Subset
<1>2. ASSUME requests' = requests PROVE IsFiniteSet(Busy')
  BY <1>2 DEF Busy, Free
<1> QED BY <1>1, <1>2, NextSplit DEF Expire, vars

LEMMA SerialActs ==
  ASSUME OwnerInv, OneBusy, NewcomersAreNew, NEW r \in Slots, Acts(r)
  PROVE  NewcomersAreNew' /\ RoleChangesByOwner
<1>1. requests \in [Slots -> Request] /\ members \in [Users -> MemberRow]
  BY DEF OwnerInv, TypeOK
<1>2. CASE ReadsOn(r)
  <2>1. PICK q : /\ members' = members
                 /\ requests' = [requests EXCEPT ![r] = q]
                 /\ q.pc = "add.write" => ~Active(q.member)
    BY <1>2 DEF ReadsOn, Goes
  <2>2. NewcomersAreNew'
    BY <1>1, <2>1 DEF NewcomersAreNew, At, Active
  <2> QED BY <2>1, <2>2 DEF RoleChangesByOwner
<1>3. CASE WritesMember(r)
  <2>1. Ends(r) /\ requests[r].pc # "idle"
    BY <1>3 DEF WritesMember, AddWrite, UpdateRoleWrite, RemoveWrite, AcceptWrite, At
  <2>2. \A p \in Slots \ {r} : requests[p].pc = "idle"
    BY <2>1 DEF OneBusy, Busy, Free
  <2>3. /\ requests'[r] = Idle /\ requests'[r] # requests[r]
        /\ \A p \in Slots \ {r} : requests'[p] = requests[p]
    BY <1>1, <2>1 DEF Ends, Goes, Idle
  <2>4. NewcomersAreNew'
    BY <2>2, <2>3 DEF NewcomersAreNew, At, Idle
  <2>5. RoleChangesByOwner
    <3> SUFFICES ASSUME NEW u \in Users, Active(u), Active(u)', members'[u].role # members[u].role
                 PROVE  At(r, "updateRole.write") \/ (At(r, "accept.write") /\ requests[r].user = u)
      BY <2>3 DEF RoleChangesByOwner
    <3>1. CASE AddWrite(r)
      <4>1. u = requests[r].member /\ At(r, "add.write")
        BY <1>1, <3>1 DEF AddWrite, Joined
      <4> QED BY <4>1 DEF NewcomersAreNew
    <3>2. CASE RemoveWrite(r)
      <4>1. /\ members' = [members EXCEPT ![requests[r].member].status = "REMOVED"]
            /\ members[u] \in MemberRow
        BY <1>1, <3>2 DEF RemoveWrite
      <4>2. members'[u].role = members[u].role
        BY <1>1, <4>1 DEF MemberRow
      <4> QED BY <4>2
    <3>3. CASE AcceptWrite(r)
      BY <1>1, <3>3 DEF AcceptWrite, Joined
    <3>4. CASE UpdateRoleWrite(r)
      BY <3>4 DEF UpdateRoleWrite
    <3> QED BY <1>3, <3>1, <3>2, <3>3, <3>4 DEF WritesMember
  <2> QED BY <2>4, <2>5
<1> QED BY <1>2, <1>3, ActsReading

\* A set of at most one element, by its cardinality.
LEMMA AtMostOne ==
  ASSUME NEW S, IsFiniteSet(S), ~(Cardinality(S) > 1)
  PROVE  \A p, r \in S : p = r
<1> SUFFICES ASSUME NEW p \in S, NEW r \in S, p # r PROVE FALSE
  OBVIOUS
<1>1. {p} \cup {r} \subseteq S /\ IsFiniteSet({p}) /\ Cardinality({p}) = 1
  BY FS_Singleton
<1>2. IsFiniteSet({p} \cup {r}) /\ Cardinality({p} \cup {r}) = 2
  <2> DEFINE T == {p}
  <2>1. IsFiniteSet(T) /\ Cardinality(T) = 1 /\ r \notin T
    BY <1>1
  <2> HIDE DEF T
  <2>2. IsFiniteSet(T \cup {r}) /\ Cardinality(T \cup {r}) = Cardinality(T) + 1
    BY <2>1, FS_AddElement
  <2> QED BY <2>1, <2>2 DEF T
<1>3. Cardinality({p} \cup {r}) <= Cardinality(S)
  BY <1>1, FS_Subset
<1> QED BY <1>2, <1>3, FS_CardinalityType

LEMMA SerialInit == MCInit => SerialInv
<1> SUFFICES ASSUME MCInit PROVE SerialInv
  OBVIOUS
<1>1. Busy = {}
  BY DEF MCInit, Init, Busy, Free, Idle
<1> QED BY <1>1, OwnerInit, FS_EmptySet DEF MCInit, SerialInv, OneBusy, NewcomersAreNew, Busy, Free, At

LEMMA SerialStep ==
  ASSUME SerialInv, MCNext
  PROVE  SerialInv' /\ (~overlapped' => RoleChangesByOwner)
<1>1. OwnerInv /\ IsFiniteSet(Busy) /\ Next
  BY DEF SerialInv, MCNext
<1>2. OwnerInv' /\ IsFiniteSet(Busy')
  BY <1>1, OwnerStep, BusyStaysFinite
<1>3. ASSUME ~overlapped'
      PROVE  OneBusy' /\ NewcomersAreNew' /\ RoleChangesByOwner
  <2>1. ~overlapped /\ ~(Cardinality(Busy') > 1)
    BY <1>3 DEF MCNext
  <2>2. OneBusy'
    BY <1>2, <2>1, AtMostOne DEF OneBusy
  <2>3. OneBusy /\ NewcomersAreNew
    BY <2>1 DEF SerialInv
  <2>4. ASSUME NEW i \in Invites, Expire(i)
        PROVE  NewcomersAreNew' /\ RoleChangesByOwner
    BY <2>3, <2>4 DEF Expire, NewcomersAreNew, RoleChangesByOwner, At, Active
  <2> QED BY <1>1, <2>2, <2>3, <2>4, SerialActs, NextSplit
<1> QED BY <1>2, <1>3 DEF SerialInv

LEMMA SerialStill ==
  ASSUME SerialInv, UNCHANGED <<vars, overlapped>>
  PROVE  SerialInv'
<1>1. OwnerInv' /\ IsFiniteSet(Busy')
  BY OwnerStep, BusyStaysFinite DEF SerialInv
<1> QED BY <1>1 DEF SerialInv, vars, OneBusy, NewcomersAreNew, Busy, Free, At, Active

\* One request after the other, the role of somebody who is a member changes by
\* updateRole or by a code that the member redeems, never by an ADMIN's add.
THEOREM RolesChangedByOwnerSerially == MCSpec => SerialRolesChangedByOwner
<1>1. SerialInv /\ [MCNext]_<<vars, overlapped>> => SerialInv'
  BY SerialStep, SerialStill
<1>2. SerialInv /\ [MCNext]_<<vars, overlapped>> => [~overlapped' => RoleChangesByOwner]_vars
  <2>1. SerialInv /\ MCNext => (~overlapped' => RoleChangesByOwner)
    BY SerialStep
  <2> QED BY <2>1
<1> QED BY <1>1, <1>2, SerialInit, PTL DEF MCSpec, SerialRolesChangedByOwner

=============================================================================
