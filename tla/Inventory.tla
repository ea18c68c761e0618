----------------------------- MODULE Inventory -----------------------------
(***************************************************************************)
(* One place as its members use it: the storage and the item handlers over *)
(* the same tables, and PlacesService.remove, which takes the whole place. *)
(* Concurrency bounds the requests in flight: with 1 they are served one   *)
(* after the other, with more they interleave at every await.              *)
(***************************************************************************)
EXTENDS Storages, Items

CONSTANT Concurrency

ASSUME ConcurrencyAssumption == Concurrency \in Nat \ {0}

VARIABLE place   \* "live", "removing" once its removal has read it, "deleted"

vars == <<storages, items, movements, storageReq, itemReq, place>>

TypeOK ==
  /\ StoragesTypeOK
  /\ itemReq \in [ItemRequests -> ItemRequest]
  /\ place \in {"live", "removing", "deleted"}

Init ==
  /\ StoragesInit
  /\ itemReq = [r \in ItemRequests |-> ItemIdle]
  /\ place = "live"

InFlight ==
  Cardinality({r \in StorageRequests : storageReq[r].pc # "idle"})
  + Cardinality({r \in ItemRequests : itemReq[r].pc # "idle"})
  + IF place = "removing" THEN 1 ELSE 0

\* PlaceMemberGuard lets a request in while the place is not deleted; what it
\* read then is not read again.
Admitted == place # "deleted" /\ InFlight < Concurrency

StorageRequestStep ==
  /\ \E r \in StorageRequests : (Admitted /\ StorageArrives(r)) \/ StorageStep(r)
  /\ UNCHANGED <<itemReq, place>>

ItemRequestStep ==
  /\ \E r \in ItemRequests : (Admitted /\ ItemArrives(r)) \/ ItemStep(r)
  /\ UNCHANGED <<storageReq, place>>

\* The owner asks for the place's removal: its row is read first.
PlaceRemoveBegin ==
  /\ place = "live"
  /\ Admitted
  /\ place' = "removing"
  /\ UNCHANGED <<storages, items, movements, storageReq, itemReq>>

\* One batch transaction deletes the live items, the live storages, the place.
PlaceRemoveWrite ==
  /\ place = "removing"
  /\ place' = "deleted"
  /\ items' = [i \in ItemIds |->
                 IF items[i].state = "live" THEN [items[i] EXCEPT !.state = "deleted"]
                 ELSE items[i]]
  /\ storages' = SoftDeleted(storages, LiveIn(storages))
  /\ UNCHANGED <<movements, storageReq, itemReq>>

PlaceRemoveFails ==
  /\ place = "removing"
  /\ place' = "live"
  /\ UNCHANGED <<storages, items, movements, storageReq, itemReq>>

Next ==
  \/ StorageRequestStep
  \/ ItemRequestStep
  \/ PlaceRemoveBegin \/ PlaceRemoveWrite \/ PlaceRemoveFails

Spec == Init /\ [][Next]_vars

-----------------------------------------------------------------------------
LiveItems == {i \in ItemIds : items[i].state = "live"}

\* A live item is in a live storage or in none: deleting a storage, alone or
\* with an ancestor, unassigns what it held, and nothing is put into what is
\* deleted.
ItemsInLiveStorages ==
  \A i \in LiveItems : items[i].storageId # NoStorage => Live(storages, items[i].storageId)

\* An item changes its storage only together with a movement that says from
\* where and to where, so the log of an item is a chain that ends where the
\* item is; a storage that gets another id takes its items and their log along.
MoveIsRecorded ==
  \A i \in ItemIds :
    items'[i].storageId # items[i].storageId =>
      \/ movements'[i] = [from |-> items[i].storageId, to |-> items'[i].storageId]
      \/ items[i].storageId \in StorageIds /\ ~Exists(storages', items[i].storageId)

\* An item that is out on loan comes back before it is lent to someone else.
LoanEndsInReturn ==
  \A i \in ItemIds :
    items[i].status = "LENT_OUT" => items'[i].lentTo \in {items[i].lentTo, Nobody}

\* While an item is PRIVATE no other member's item request changes it.
PrivateIsWrittenByOwner ==
  \A r \in ItemRequests, i \in ItemIds :
    /\ items[i].state = "live" /\ items[i].visibility = "PRIVATE"
    /\ items'[i] # items[i] /\ itemReq'[r] # itemReq[r]
    => itemReq[r].user = items[i].owner

\* What is deleted is not brought back, however requests race: no handler that
\* read an item or a storage before its deletion makes it live again by a late
\* write, which would part the server from the clients that hold the tombstone.
TombstonesStay ==
  [][/\ \A i \in ItemIds : items[i].state = "deleted" => items'[i].state = "deleted"
     /\ \A s \in StorageIds : storages[s].state = "deleted" => storages'[s].state # "live"]_vars

\* The removal of a place leaves nothing of it live.
NothingLeftInDeletedPlace == place = "deleted" => LiveIn(storages) = {} /\ LiveItems = {}

=============================================================================
