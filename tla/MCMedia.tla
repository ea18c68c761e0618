------------------------------ MODULE MCMedia ------------------------------
(***************************************************************************)
(* Media with a history variable: whether uploads of one user's photo, or  *)
(* requests for one item, were ever in flight together.                    *)
(***************************************************************************)
EXTENDS Media, TLC

VARIABLE overlapped

Running(s) == ~Settled(uploads[s])
Overlap ==
  \/ \E s, t \in Slots : s # t /\ Running(s) /\ Running(t)
                          /\ uploads[s].user = uploads[t].user /\ uploads[s].photo = uploads[t].photo
  \/ \E q, r \in Requests : q # r /\ requests[q].pc # "idle" /\ requests[r].pc # "idle"
                            /\ requests[q].item \in Items /\ requests[q].item = requests[r].item

MCInit == Init /\ overlapped = FALSE
MCNext == Next /\ overlapped' = (overlapped \/ Overlap')
MCSpec == MCInit /\ [][MCNext]_<<vars, overlapped>>

Sym == Permutations(MediaIds) \cup Permutations(Users) \cup Permutations(Photos)
       \cup Permutations(Requests)

\* One after the other, uploads of a photo make one row of it, across failures,
\* removals and restarts (media.service.ts, the query for an existing row).
SerialOneRowPerPhoto == ~overlapped => OneRowPerPhoto

\* One after the other, requests that add photos to an item leave the photo that
\* stands for it in place (items.service.ts, create and update).
SerialCoverStays == [][~overlapped' => CoverStays]_vars

=============================================================================
