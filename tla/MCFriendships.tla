--------------------------- MODULE MCFriendships ---------------------------
(***************************************************************************)
(* Friendships with a history variable: what holds however requests        *)
(* interleave, and what holds while they are served one after the other.   *)
(***************************************************************************)
EXTENDS Friendships, TLC

VARIABLE overlapped   \* whether a request was ever served during another

Busy == {r \in Slots : ~Free(r)}

MCInit == Init /\ overlapped = FALSE
MCNext ==
  /\ Next
  /\ overlapped' = (overlapped \/ \E r \in Busy : requests'[r] = requests[r])
MCSpec == MCInit /\ [][MCNext]_<<vars, overlapped>>

Sym == Permutations(Rows) \cup Permutations(Slots)

\* One request after the other, two people share one row, though the unique
\* index would take one each way (friendships.service.ts: pairWhere).
SerialOneRowPerPair == ~overlapped => OneRowPerPair

\* One request after the other, a block stays and ends the friendship
\* (friendships.service.ts: block, sendRequest, remove).
SerialBlocksHold == [][~overlapped' => BlockHolds]_vars

=============================================================================
