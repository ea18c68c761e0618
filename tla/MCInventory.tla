---------------------------- MODULE MCInventory ----------------------------
(***************************************************************************)
(* Inventory with history variables, so that one run shows what holds as   *)
(* long as requests are served one after the other, and what holds however *)
(* they interleave.                                                        *)
(***************************************************************************)
EXTENDS Views, TLC

VARIABLES
  overlapped,   \* whether two requests were ever in flight at once
  patched       \* whether a PATCH of a storage ever carried an id

MCInit == Init /\ overlapped = FALSE /\ patched = FALSE
MCNext ==
  /\ Next
  /\ overlapped' = (overlapped \/ InFlight' > 1)
  /\ patched' = (patched \/ \E r \in StorageRequests : storageReq'[r].newId # NoStorage)
MCSpec == MCInit /\ [][MCNext]_<<vars, overlapped, patched>>

Sym == Permutations(StorageIds)

\* One request after the other, every live item is in a live storage or in
\* none (storages.service.ts, remove; items.service.ts, recordMove).
SerialItemsInLiveStorages == ~overlapped => ItemsInLiveStorages

\* One request after the other, the movements of an item are a chain
\* (items.service.ts, recordMove; storages.service.ts, remove).
SerialMovesAreRecorded == [][~overlapped' => MoveIsRecorded]_vars

\* One request after the other, and without an id in a PATCH body, the lists,
\* the search, the reminders and the tree show every member the same items
\* (items.service.ts, buildWhere and attention; search.service.ts; storages.service.ts,
\* tree and itemCounts; FRONTEND.md on PRIVATE items: "lists, counts or search").
SerialViewsAgree == ~overlapped /\ ~patched => ViewsAgree

=============================================================================
