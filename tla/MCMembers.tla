----------------------------- MODULE MCMembers -----------------------------
(***************************************************************************)
(* Members with a history variable: what holds however requests            *)
(* interleave, and what holds while they are served one after the other.   *)
(***************************************************************************)
EXTENDS Members, TLC

VARIABLE overlapped   \* whether a request was ever served during another

Busy == {r \in Slots : ~Free(r)}

MCInit == Init /\ overlapped = FALSE
MCNext == Next /\ overlapped' = (overlapped \/ Cardinality(Busy') > 1)
MCSpec == MCInit /\ [][MCNext]_<<vars, overlapped>>

AllFriends == Users \X Users
Sym == Permutations(Invites) \cup Permutations(Slots) \cup Permutations(Users \ {Owner})

\* One request after the other, only updateRole, or a code that the member
\* redeems, changes the role of an active member (members.service.ts: add).
SerialRolesChangedByOwner == [][~overlapped' => RoleChangesByOwner]_vars

=============================================================================
