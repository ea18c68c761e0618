-------------------------- MODULE InventoryProofs --------------------------
(***************************************************************************)
(* The storage and item handlers over the same tables, and the removal of  *)
(* the place: types and tombstones whatever overlaps, and, while requests  *)
(* are served one after the other, where the live items are, their         *)
(* movements, and what the screens show.                                   *)
(***************************************************************************)
EXTENDS MCInventory, StoragesProofs

-----------------------------------------------------------------------------
(* Types and tombstones.                                                   *)

\* What a request in flight carries is what its write puts into the tables.
ItemRequestTyped(q) ==
  /\ q.pc # "idle" => q.id \in ItemIds
  /\ q.pc \in {"create.write", "move.target", "move.write"} => q.to \in MaybeStorage
  /\ q.pc = "create.write" => q.visibility \in {"SHARED", "PRIVATE"}

InventoryInv ==
  /\ LevelInv
  /\ itemReq \in [ItemRequests -> ItemRequest]
  /\ place \in {"live", "removing", "deleted"}
  /\ \A r \in ItemRequests : ItemRequestTyped(itemReq[r])

\* What a step of an item request makes of the tables, and of the request.
ItemTables ==
  /\ storages' = storages
  /\ items' \in [ItemIds -> ItemRow]
  /\ movements' \in [ItemIds -> Movement]
  /\ \A i \in ItemIds : items[i].state = "deleted" => items'[i].state = "deleted"

Onward(r) == \E q \in ItemRequest : ItemRequestTyped(q) /\ Becomes(r, q)

LEMMA ItemTypes ==
  ASSUME InventoryInv
  PROVE  /\ storages \in [StorageIds -> Row]
         /\ items \in [ItemIds -> ItemRow] /\ movements \in [ItemIds -> Movement]
         /\ \A r \in ItemRequests : itemReq[r] \in ItemRequest /\ ItemRequestTyped(itemReq[r])
BY DEF InventoryInv, LevelInv, StoragesTypeOK, TablesType

LEMMA AbsentItemType == AbsentItem \in ItemRow /\ AbsentItem.storageId = NoStorage
BY TablesAssumption DEF AbsentItem, ItemRow, MaybeStorage

LEMMA ItemIdleTyped == ItemIdle \in ItemRequest /\ ItemRequestTyped(ItemIdle) /\ ItemIdle.pc = "idle"
BY AbsentItemType DEF ItemIdle, ItemRequest, ItemPc, ItemRequestTyped, MaybeStorage, Keep, ItemRow

LEMMA TablesRead ==
  ASSUME InventoryInv, UNCHANGED tables
  PROVE  ItemTables
BY ItemTypes DEF tables, ItemTables

\* A step that writes one row, and possibly its movement.
LEMMA RowWritten ==
  ASSUME InventoryInv, NEW i \in ItemIds, NEW row \in ItemRow, items' = [items EXCEPT ![i] = row],
         items[i].state = "deleted" => row.state = "deleted",
         movements' = movements \/ \E m \in Movement : movements' = [movements EXCEPT ![i] = m],
         storages' = storages
  PROVE  ItemTables
BY ItemTypes DEF ItemTables

LEMMA DoneOnward ==
  ASSUME NEW r, Done(r)
  PROVE  Onward(r)
BY ItemIdleTyped DEF Done, Onward

\* The requests that read, each with the record it leaves.
LEMMA ItemArrivesTyped ==
  ASSUME InventoryInv, NEW r \in ItemRequests, ItemArrives(r)
  PROVE  ItemTables /\ Onward(r)
<1>1. UNCHANGED tables
  BY DEF ItemArrives, CreateItemBegin, UpdateItemBegin, MoveItemBegin, LendBegin, ReturnBegin,
         RemoveItemBegin
<1>2. \A i \in ItemIds : items[i] \in ItemRow /\ items[i].storageId \in MaybeStorage
  BY ItemTypes DEF ItemRow
<1> SUFFICES ASSUME NEW u \in Users, NEW i \in ItemIds,
               \/ \E to \in MaybeStorage, visibility \in {"SHARED", "PRIVATE"} :
                    CreateItemBegin(r, u, i, to, visibility)
               \/ \E to \in MaybeStorage \cup {Keep}, visibility \in {"SHARED", "PRIVATE", Keep} :
                    UpdateItemBegin(r, u, i, to, visibility)
               \/ \E to \in MaybeStorage : MoveItemBegin(r, u, i, to)
               \/ \E b \in Borrowers : LendBegin(r, u, i, b)
               \/ ReturnBegin(r, u, i)
               \/ RemoveItemBegin(r, u, i)
             PROVE Onward(r)
  BY <1>1, TablesRead DEF ItemArrives
<1>3. ASSUME NEW to \in MaybeStorage, NEW visibility \in {"SHARED", "PRIVATE"},
             CreateItemBegin(r, u, i, to, visibility)
      PROVE  Onward(r)
  <2> DEFINE q == [ItemIdle EXCEPT !.pc = "create.write", !.user = u, !.id = i, !.to = to,
                     !.visibility = visibility]
  <2>1. q \in ItemRequest /\ ItemRequestTyped(q)
    BY ItemIdleTyped DEF ItemRequest, ItemPc, ItemRequestTyped
  <2> QED BY <1>3, <2>1 DEF CreateItemBegin, Onward
<1>4. ASSUME NEW to \in MaybeStorage \cup {Keep}, NEW visibility \in {"SHARED", "PRIVATE", Keep},
             UpdateItemBegin(r, u, i, to, visibility)
      PROVE  Onward(r)
  <2> DEFINE q(pc) == [ItemIdle EXCEPT !.pc = pc, !.user = u, !.id = i, !.from = items[i].storageId,
                         !.to = to, !.visibility = visibility]
  <2>1. \A pc \in {"update.write", "update.target"} : q(pc) \in ItemRequest /\ ItemRequestTyped(q(pc))
    BY <1>2, ItemIdleTyped DEF ItemRequest, ItemPc, ItemRequestTyped
  <2>2. \E pc \in {"update.write", "update.target"} : Becomes(r, q(pc))
    BY <1>4 DEF UpdateItemBegin
  <2> QED BY <2>1, <2>2 DEF Onward
<1>5. ASSUME NEW to \in MaybeStorage, MoveItemBegin(r, u, i, to)
      PROVE  Onward(r)
  <2> DEFINE q == [ItemIdle EXCEPT !.pc = "move.target", !.user = u, !.id = i,
                     !.from = items[i].storageId, !.to = to]
  <2>1. q \in ItemRequest /\ ItemRequestTyped(q)
    BY <1>2, ItemIdleTyped DEF ItemRequest, ItemPc, ItemRequestTyped
  <2> QED BY <1>5, <2>1 DEF MoveItemBegin, Onward
<1>6. ASSUME NEW b \in Borrowers, LendBegin(r, u, i, b)
      PROVE  Onward(r)
  <2> DEFINE q == [ItemIdle EXCEPT !.pc = "lend.write", !.user = u, !.id = i, !.borrower = b]
  <2>1. q \in ItemRequest /\ ItemRequestTyped(q)
    BY ItemIdleTyped DEF ItemRequest, ItemPc, ItemRequestTyped
  <2> QED BY <1>6, <2>1 DEF LendBegin, Onward
<1>7. ASSUME NEW pc \in {"return.write", "remove.write"},
             Becomes(r, [ItemIdle EXCEPT !.pc = pc, !.user = u, !.id = i])
      PROVE  Onward(r)
  <2> DEFINE q == [ItemIdle EXCEPT !.pc = pc, !.user = u, !.id = i]
  <2>1. q \in ItemRequest /\ ItemRequestTyped(q)
    BY ItemIdleTyped DEF ItemRequest, ItemPc, ItemRequestTyped
  <2> QED BY <1>7, <2>1 DEF Onward
<1> QED BY <1>3, <1>4, <1>5, <1>6, <1>7 DEF ReturnBegin, RemoveItemBegin

LEMMA ItemRequestFacts ==
  ASSUME InventoryInv, NEW r \in ItemRequests, itemReq[r].pc # "idle"
  PROVE  /\ itemReq[r] \in ItemRequest /\ itemReq[r].id \in ItemIds
         /\ items[itemReq[r].id] \in ItemRow /\ ItemRequestTyped(itemReq[r])
         /\ itemReq[r].from \in MaybeStorage /\ itemReq[r].to \in MaybeStorage \cup {Keep}
         /\ itemReq[r].user \in Users /\ itemReq[r].borrower \in Borrowers \cup {Nobody}
         /\ itemReq[r].visibility \in {"SHARED", "PRIVATE", Keep}
BY ItemTypes DEF ItemRequestTyped, ItemRequest

\* The move of an item by a request.
LEMMA MovesTyped ==
  ASSUME InventoryInv, NEW i \in ItemIds, NEW item \in ItemRow,
         NEW from \in MaybeStorage, NEW to \in MaybeStorage, Moves(i, item, from, to),
         items[i].state = "deleted" => item.state = "deleted",
         storages' = storages
  PROVE  ItemTables
<1> DEFINE row == [item EXCEPT !.storageId = to]
           m == [from |-> from, to |-> to]
<1>1. row \in ItemRow /\ row.state = item.state /\ m \in Movement
  BY DEF ItemRow, Movement
<1>2. items' = [items EXCEPT ![i] = row] /\ movements' = [movements EXCEPT ![i] = m]
  BY DEF Moves
<1> HIDE DEF row, m
<1> QED BY <1>1, <1>2, RowWritten

LEMMA ItemStepTyped ==
  ASSUME InventoryInv, NEW r \in ItemRequests, ItemStep(r)
  PROVE  ItemTables /\ Onward(r)
<1> DEFINE q == itemReq[r]
<1>1. CASE CreateItemWrite(r)
  <2> DEFINE item == [AbsentItem EXCEPT !.state = "live", !.visibility = q.visibility,
                        !.owner = q.user]
  <2>1. q.pc = "create.write" /\ items[q.id].state = "absent"
        /\ Moves(q.id, item, NoStorage, q.to) /\ Done(r) /\ storages' = storages
    BY <1>1 DEF CreateItemWrite
  <2>2. /\ q \in ItemRequest /\ q.id \in ItemIds /\ q.to \in MaybeStorage
        /\ q.visibility \in {"SHARED", "PRIVATE"} /\ q.user \in Users
    BY <2>1, ItemRequestFacts DEF ItemRequestTyped
  <2>3. item \in ItemRow
    BY <2>2, AbsentItemType DEF ItemRow
  <2>4. NoStorage \in MaybeStorage
    BY DEF MaybeStorage
  <2> HIDE DEF item, q
  <2>5. ItemTables
    BY <2>1, <2>2, <2>3, <2>4, MovesTyped
  <2> QED BY <2>1, <2>5, DoneOnward
<1>2. CASE MoveTarget(r)
  <2> DEFINE p(pc) == [q EXCEPT !.pc = pc]
  <2>1. UNCHANGED tables
    BY <1>2 DEF MoveTarget
  <2>2. \/ q.pc = "move.target" /\ Becomes(r, p("move.write"))
        \/ q.pc = "update.target" /\ Becomes(r, p("update.write"))
    BY <1>2 DEF MoveTarget
  <2>3. q \in ItemRequest /\ ItemRequestTyped(q)
    BY ItemTypes
  <2>4. CASE q.pc = "move.target" /\ Becomes(r, p("move.write"))
    <3>1. p("move.write") \in ItemRequest /\ ItemRequestTyped(p("move.write"))
      BY <2>3, <2>4 DEF ItemRequest, ItemPc, ItemRequestTyped
    <3> QED BY <2>1, <2>4, <3>1, TablesRead DEF Onward
  <2>5. CASE q.pc = "update.target" /\ Becomes(r, p("update.write"))
    <3>1. p("update.write") \in ItemRequest /\ ItemRequestTyped(p("update.write"))
      BY <2>3, <2>5 DEF ItemRequest, ItemPc, ItemRequestTyped
    <3> QED BY <2>1, <2>5, <3>1, TablesRead DEF Onward
  <2> QED BY <2>2, <2>4, <2>5
<1>3. CASE MoveItemWrite(r)
  <2>1. q.pc = "move.write" /\ Moves(q.id, items[q.id], q.from, q.to) /\ Done(r)
        /\ storages' = storages
    BY <1>3 DEF MoveItemWrite
  <2>2. q.id \in ItemIds /\ items[q.id] \in ItemRow /\ q.from \in MaybeStorage /\ q.to \in MaybeStorage
    BY <2>1, ItemRequestFacts DEF ItemRequestTyped
  <2> HIDE DEF q
  <2>3. ItemTables
    BY <2>1, <2>2, MovesTyped
  <2> QED BY <2>1, <2>3, DoneOnward
<1>4. CASE UpdateItemWrite(r)
  <2> DEFINE item == IF q.visibility = Keep THEN items[q.id]
                     ELSE [items[q.id] EXCEPT !.visibility = q.visibility]
  <2>1. /\ q.pc = "update.write" /\ Done(r) /\ storages' = storages
        /\ \/ q.to \notin {Keep, q.from} /\ Moves(q.id, item, q.from, q.to)
           \/ /\ q.to = q.from
              /\ items' = [items EXCEPT ![q.id] = [item EXCEPT !.storageId = q.to]]
              /\ movements' = movements
           \/ q.to = Keep /\ items' = [items EXCEPT ![q.id] = item] /\ movements' = movements
    BY <1>4 DEF UpdateItemWrite
  <2>2. /\ q.id \in ItemIds /\ items[q.id] \in ItemRow /\ q.from \in MaybeStorage
        /\ q.to \in MaybeStorage \cup {Keep} /\ q.visibility \in {"SHARED", "PRIVATE", Keep}
    BY <2>1, ItemRequestFacts
  <2>3. item \in ItemRow /\ item.state = items[q.id].state
    BY <2>2 DEF ItemRow
  <2>4. Onward(r)
    BY <2>1, DoneOnward
  <2> HIDE DEF q, item
  <2>5. CASE q.to \notin {Keep, q.from} /\ Moves(q.id, item, q.from, q.to)
    <3>1. q.to \in MaybeStorage
      BY <2>2, <2>5
    <3> QED BY <2>1, <2>2, <2>3, <2>4, <2>5, <3>1, MovesTyped
  <2>6. CASE /\ q.to = q.from
             /\ items' = [items EXCEPT ![q.id] = [item EXCEPT !.storageId = q.to]]
             /\ movements' = movements
    <3> DEFINE row == [item EXCEPT !.storageId = q.to]
    <3>1. row \in ItemRow /\ row.state = item.state
      BY <2>2, <2>3, <2>6 DEF ItemRow
    <3>2. items' = [items EXCEPT ![q.id] = row]
      BY <2>6
    <3> HIDE DEF row
    <3> QED BY <2>1, <2>2, <2>3, <2>4, <2>6, <3>1, <3>2, RowWritten
  <2>7. CASE q.to = Keep /\ items' = [items EXCEPT ![q.id] = item] /\ movements' = movements
    BY <2>1, <2>2, <2>3, <2>4, <2>7, RowWritten
  <2> QED BY <2>1, <2>5, <2>6, <2>7
<1>5. ASSUME q.pc # "idle", Done(r), movements' = movements, storages' = storages,
             NEW row \in ItemRow, items' = [items EXCEPT ![q.id] = row],
             items[q.id].state = "deleted" => row.state = "deleted"
      PROVE  ItemTables /\ Onward(r)
  <2>1. q.id \in ItemIds
    BY <1>5, ItemRequestFacts
  <2> HIDE DEF q
  <2> QED BY <1>5, <2>1, RowWritten, DoneOnward
<1>6. q.pc # "idle" => q.id \in ItemIds /\ items[q.id] \in ItemRow /\ q.borrower \in Borrowers \cup {Nobody}
  BY ItemRequestFacts
<1>7. items \in [ItemIds -> ItemRow]
  BY ItemTypes
<1>8. CASE LendWrite(r)
  <2> DEFINE row == [items[q.id] EXCEPT !.status = "LENT_OUT", !.lentTo = q.borrower]
  <2>1. q.pc # "idle" /\ Done(r) /\ movements' = movements /\ storages' = storages
        /\ items' = [items EXCEPT ![q.id].status = "LENT_OUT", ![q.id].lentTo = q.borrower]
    BY <1>8 DEF LendWrite
  <2>2. row \in ItemRow /\ row.state = items[q.id].state
    BY <2>1, <1>6 DEF ItemRow
  <2>3. items' = [items EXCEPT ![q.id] = row]
    BY <2>1, <1>6, <1>7
  <2> HIDE DEF row
  <2> QED BY <2>1, <2>2, <2>3, <1>5
<1>9. CASE ReturnWrite(r)
  <2> DEFINE row == [items[q.id] EXCEPT !.status = "AVAILABLE", !.lentTo = Nobody]
  <2>1. q.pc # "idle" /\ Done(r) /\ movements' = movements /\ storages' = storages
        /\ items' = [items EXCEPT ![q.id].status = "AVAILABLE", ![q.id].lentTo = Nobody]
    BY <1>9 DEF ReturnWrite
  <2>2. row \in ItemRow /\ row.state = items[q.id].state
    BY <2>1, <1>6 DEF ItemRow
  <2>3. items' = [items EXCEPT ![q.id] = row]
    BY <2>1, <1>6, <1>7
  <2> HIDE DEF row
  <2> QED BY <2>1, <2>2, <2>3, <1>5
<1>10. CASE RemoveItemWrite(r)
  <2> DEFINE row == [items[q.id] EXCEPT !.state = "deleted"]
  <2>1. q.pc # "idle" /\ Done(r) /\ movements' = movements /\ storages' = storages
        /\ items' = [items EXCEPT ![q.id].state = "deleted"]
    BY <1>10 DEF RemoveItemWrite
  <2>2. row \in ItemRow /\ row.state = "deleted"
    BY <2>1, <1>6 DEF ItemRow
  <2>3. items' = [items EXCEPT ![q.id] = row]
    BY <2>1, <1>6, <1>7
  <2> HIDE DEF row
  <2> QED BY <2>1, <2>2, <2>3, <1>5
<1>11. CASE ItemFails(r)
  BY <1>11, TablesRead, DoneOnward DEF ItemFails
<1> QED BY <1>1, <1>2, <1>3, <1>4, <1>8, <1>9, <1>10, <1>11 DEF ItemStep


\* A step of the items leaves what the storages keep.
LEMMA ItemTablesLevel ==
  ASSUME InventoryInv, ItemTables, storageReq' = storageReq
  PROVE  LevelInv'
BY DEF InventoryInv, LevelInv, StoragesTypeOK, TablesType, ItemTables, LevelIsDepth

LEMMA ItemRequestStepInv ==
  ASSUME InventoryInv, ItemRequestStep
  PROVE  InventoryInv' /\ ItemTables
<1>1. PICK r \in ItemRequests : ItemArrives(r) \/ ItemStep(r)
  BY DEF ItemRequestStep
<1>2. ItemTables /\ Onward(r)
  BY <1>1, ItemArrivesTyped, ItemStepTyped
<1>3. storageReq' = storageReq /\ place' = place
  BY DEF ItemRequestStep
<1>4. LevelInv'
  BY <1>2, <1>3, ItemTablesLevel
<1>5. PICK q \in ItemRequest : ItemRequestTyped(q) /\ itemReq' = [itemReq EXCEPT ![r] = q]
  BY <1>2 DEF Onward, Becomes
<1>6. /\ itemReq' \in [ItemRequests -> ItemRequest]
      /\ \A p \in ItemRequests : itemReq'[p] = IF p = r THEN q ELSE itemReq[p]
  BY <1>5 DEF InventoryInv
<1>7. \A p \in ItemRequests : ItemRequestTyped(itemReq'[p])
  BY <1>5, <1>6 DEF InventoryInv
<1>8. (\A p \in ItemRequests : ItemRequestTyped(itemReq[p]))'
  BY <1>7
<1> QED BY <1>2, <1>3, <1>4, <1>6, <1>8 DEF InventoryInv

LEMMA StorageRequestStepLevel ==
  ASSUME InventoryInv, StorageRequestStep
  PROVE  InventoryInv'
<1>1. StoragesNext /\ itemReq' = itemReq /\ place' = place
  BY DEF StorageRequestStep, StoragesNext
<1>2. LevelInv'
  BY <1>1, NextLevel DEF InventoryInv
<1> QED BY <1>1, <1>2 DEF InventoryInv

\* What the removal of the place leaves of a row.
LEMMA PlaceRemovedRows ==
  ASSUME InventoryInv, PlaceRemoveWrite
  PROVE  /\ \A s \in StorageIds :
              /\ storages'[s] \in Row
              /\ storages'[s].path = storages[s].path /\ storages'[s].level = storages[s].level
              /\ storages'[s].parentId = storages[s].parentId
              /\ storages'[s].state # "live"
              /\ storages'[s].state = "absent" <=> storages[s].state = "absent"
         /\ \A i \in ItemIds :
              /\ items'[i] \in ItemRow
              /\ items'[i].state # "live"
              /\ items'[i].storageId = items[i].storageId
              /\ items[i].state = "deleted" => items'[i].state = "deleted"
              /\ items[i].state = "absent" => items'[i] = items[i]
<1>1. \A s \in StorageIds :
        /\ storages[s] \in Row
        /\ storages'[s] = IF storages[s].state = "live" THEN [storages[s] EXCEPT !.state = "deleted"]
                          ELSE storages[s]
  BY ItemTypes DEF PlaceRemoveWrite, SoftDeleted, LiveIn, Live
<1>2. \A i \in ItemIds :
        /\ items[i] \in ItemRow
        /\ items'[i] = IF items[i].state = "live" THEN [items[i] EXCEPT !.state = "deleted"]
                       ELSE items[i]
  BY ItemTypes DEF PlaceRemoveWrite
<1>3. ASSUME NEW s \in StorageIds
      PROVE  /\ storages'[s] \in Row
             /\ storages'[s].path = storages[s].path /\ storages'[s].level = storages[s].level
             /\ storages'[s].parentId = storages[s].parentId
             /\ storages'[s].state # "live"
             /\ storages'[s].state = "absent" <=> storages[s].state = "absent"
  <2>1. storages[s].state \in {"absent", "live", "deleted"} /\ storages[s] \in Row
    BY <1>1 DEF Row
  <2>2. CASE storages[s].state = "live"
    BY <2>1, <2>2, <1>1 DEF Row
  <2>3. CASE storages[s].state # "live"
    BY <2>1, <2>3, <1>1
  <2> QED BY <2>2, <2>3
<1>4. ASSUME NEW i \in ItemIds
      PROVE  /\ items'[i] \in ItemRow
             /\ items'[i].state # "live"
             /\ items'[i].storageId = items[i].storageId
             /\ items[i].state = "deleted" => items'[i].state = "deleted"
             /\ items[i].state = "absent" => items'[i] = items[i]
  <2>1. CASE items[i].state = "live"
    BY <2>1, <1>2 DEF ItemRow
  <2>2. CASE items[i].state # "live"
    BY <2>2, <1>2
  <2> QED BY <2>1, <2>2
<1> QED BY <1>3, <1>4

LEMMA PlaceRemoveWriteInv ==
  ASSUME InventoryInv, PlaceRemoveWrite
  PROVE  InventoryInv'
<1>1. /\ movements' = movements /\ storageReq' = storageReq /\ itemReq' = itemReq
      /\ place' = "deleted"
      /\ DOMAIN storages' = StorageIds /\ storages' = [s \in StorageIds |-> storages'[s]]
      /\ items' = [i \in ItemIds |-> items'[i]]
  BY DEF PlaceRemoveWrite, SoftDeleted
<1>2. storages' \in [StorageIds -> Row] /\ items' \in [ItemIds -> ItemRow]
  BY <1>1, PlaceRemovedRows
<1>3. LevelIsDepth'
  BY PlaceRemovedRows DEF InventoryInv, LevelInv, LevelIsDepth
<1>4. LevelInv'
  BY <1>1, <1>2, <1>3 DEF InventoryInv, LevelInv, StoragesTypeOK, TablesType
<1> QED BY <1>1, <1>4 DEF InventoryInv

LEMMA InitInventory == Init => InventoryInv
<1> SUFFICES ASSUME Init PROVE InventoryInv
  OBVIOUS
<1>1. LevelInv
  BY InitLevel DEF Init
<1>2. itemReq = [r \in ItemRequests |-> ItemIdle] /\ place = "live"
  BY DEF Init
<1>3. /\ itemReq \in [ItemRequests -> ItemRequest]
      /\ \A r \in ItemRequests : ItemRequestTyped(itemReq[r])
  BY <1>2, ItemIdleTyped
<1> QED BY <1>1, <1>2, <1>3 DEF InventoryInv

LEMMA NextInventory == InventoryInv /\ [Next]_vars => InventoryInv'
<1> SUFFICES ASSUME InventoryInv, [Next]_vars PROVE InventoryInv'
  OBVIOUS
<1>1. CASE StorageRequestStep
  BY <1>1, StorageRequestStepLevel
<1>2. CASE ItemRequestStep
  BY <1>2, ItemRequestStepInv
<1>3. CASE PlaceRemoveWrite
  BY <1>3, PlaceRemoveWriteInv
<1>4. CASE PlaceRemoveBegin \/ PlaceRemoveFails \/ UNCHANGED vars
  <2>1. /\ storages' = storages /\ items' = items /\ movements' = movements
        /\ storageReq' = storageReq /\ itemReq' = itemReq
        /\ place' \in {"live", "removing", "deleted"}
    BY <1>4 DEF PlaceRemoveBegin, PlaceRemoveFails, vars, InventoryInv
  <2> QED BY <2>1 DEF InventoryInv, LevelInv, StoragesTypeOK, TablesType, LevelIsDepth
<1> QED BY <1>1, <1>2, <1>3, <1>4 DEF Next

\* The rows and requests of a place keep their types while storage requests,
\* item requests and the removal of the place interleave.
THEOREM InventoryTyped == Spec => []TypeOK
<1>1. Spec => []InventoryInv
  BY InitInventory, NextInventory, PTL DEF Spec
<1>2. InventoryInv => TypeOK
  BY DEF InventoryInv, LevelInv, TypeOK
<1> QED BY <1>1, <1>2, PTL


\* No row comes back to life by a step.
Stays ==
  /\ \A i \in ItemIds : items[i].state = "deleted" => items'[i].state = "deleted"
  /\ \A s \in StorageIds : storages[s].state = "deleted" => storages'[s].state # "live"

LEMMA ReparentedStates ==
  ASSUME InventoryInv, NEW s \in StorageIds, NEW row, NEW to, NEW path, NEW level, NEW d \in StorageIds
  PROVE  Reparented(storages, s, row, to, path, level)[d].state = storages[d].state
<1>1. MovedRow(storages, s, to, path, level)[d].state = storages[d].state
  BY ItemTypes DEF MovedRow
<1> QED BY <1>1 DEF Reparented, Reprefixed

LEMMA UpdateWriteStays ==
  ASSUME InventoryInv, NEW r \in StorageRequests, UpdateWrite(r)
  PROVE  Stays
<1> DEFINE q == storageReq[r]
           moved == IF q.move THEN Reparented(storages, q.id, q.snap, q.to, q.path, q.level)
                    ELSE storages
           follow(s) == IF s = q.id THEN q.newId ELSE s
<1>1. q.id \in StorageIds /\ storages[q.id].state # "absent"
  BY DEF UpdateWrite, Exists
<1>2. /\ DOMAIN moved = StorageIds
      /\ \A d \in StorageIds : moved[d].state = storages[d].state
  <2>1. CASE q.move
    <3>1. moved = Reparented(storages, q.id, q.snap, q.to, q.path, q.level)
      BY <2>1
    <3>2. DOMAIN Reparented(storages, q.id, q.snap, q.to, q.path, q.level) = StorageIds
      BY DEF Reparented
    <3> HIDE DEF moved, q
    <3> QED BY <3>1, <3>2, <1>1, ReparentedStates
  <2>2. CASE ~q.move
    BY <2>2, ItemTypes
  <2> QED BY <2>1, <2>2
<1>3. CASE q.newId = NoStorage /\ storages' = moved /\ UNCHANGED <<items, movements>>
  <2> HIDE DEF moved
  <2> QED BY <1>2, <1>3 DEF Stays
<1>4. CASE /\ ~Exists(storages, q.newId)
           /\ storages' = Renamed(moved, q.id, q.newId)
           /\ items' = [i \in ItemIds |-> [items[i] EXCEPT !.storageId = follow(@)]]
  <2>1. \A i \in ItemIds : items'[i].state = items[i].state
    BY <1>4, ItemTypes DEF ItemRow
  <2> HIDE DEF moved, q
  <2> DEFINE swapped == [moved EXCEPT ![q.newId] = moved[q.id], ![q.id] = AbsentRow]
  <2>2. ASSUME NEW d \in StorageIds, storages[d].state = "deleted"
        PROVE  storages'[d].state # "live"
    <3>1. d # q.newId
      BY <2>2, <1>4 DEF Exists
    <3>2. swapped[d] = IF d = q.id THEN AbsentRow ELSE moved[d]
      BY <3>1, <1>1, <1>2
    <3>3. swapped[d].state # "live"
      BY <3>2, <1>2, <2>2 DEF AbsentRow
    <3>4. storages'[d] = IF swapped[d].parentId = q.id THEN [swapped[d] EXCEPT !.parentId = q.newId]
                         ELSE swapped[d]
      BY <1>4 DEF Renamed
    <3> HIDE DEF swapped
    <3> QED BY <3>3, <3>4
  <2> QED BY <2>1, <2>2 DEF Stays
<1>5. UpdateWrite(r) => (q.newId = NoStorage /\ storages' = moved /\ UNCHANGED <<items, movements>>)
                        \/ (/\ ~Exists(storages, q.newId)
                            /\ storages' = Renamed(moved, q.id, q.newId)
                            /\ items' = [i \in ItemIds |-> [items[i] EXCEPT !.storageId = follow(@)]])
  BY DEF UpdateWrite
<1> QED BY <1>3, <1>4, <1>5

LEMMA RemoveWriteStays ==
  ASSUME InventoryInv, NEW r \in StorageRequests, RemoveWrite(r)
  PROVE  Stays
<1> DEFINE q == storageReq[r]
           taken == {h[1] : h \in q.held}
<1>1. /\ storages' = SoftDeleted(storages, q.ids)
      /\ items' = [i \in ItemIds |-> IF i \in taken THEN [items[i] EXCEPT !.storageId = NoStorage]
                                     ELSE items[i]]
  BY DEF RemoveWrite
<1> HIDE DEF q, taken
<1>2. \A i \in ItemIds : items'[i].state = items[i].state
  BY <1>1, ItemTypes DEF ItemRow
<1>3. \A s \in StorageIds : storages[s].state = "deleted" => storages'[s].state # "live"
  BY <1>1, ItemTypes DEF SoftDeleted, Row
<1> QED BY <1>2, <1>3 DEF Stays

LEMMA CreateInsertStays ==
  ASSUME InventoryInv, NEW r \in StorageRequests, CreateInsert(r)
  PROVE  Stays
<1>1. PICK row : /\ ~Exists(storages, storageReq[r].id)
                 /\ storages' = [storages EXCEPT ![storageReq[r].id] = row]
                 /\ items' = items
  BY DEF CreateInsert
<1> QED BY <1>1, ItemTypes DEF Stays, Exists

LEMMA NextStays ==
  ASSUME InventoryInv, [Next]_vars
  PROVE  Stays
<1>1. ASSUME storages' = storages, items' = items
      PROVE  Stays
  BY <1>1 DEF Stays
<1>2. CASE StorageRequestStep
  <2>1. PICK r \in StorageRequests : StorageArrives(r) \/ StorageStep(r)
    BY <1>2 DEF StorageRequestStep
  <2>2. CASE UNCHANGED tables
    BY <2>2, <1>1 DEF tables
  <2>3. CASE StorageArrives(r)
    BY <2>3, <2>2 DEF StorageArrives, CreateBegin, UpdateBegin, RemoveBegin
  <2>4. CASE StorageStep(r)
    BY <2>4, <2>2, CreateInsertStays, UpdateWriteStays, RemoveWriteStays
    DEF StorageStep, UpdateParent, UpdateDepth, RemoveSubtree, RemoveItems, StorageFails
  <2> QED BY <2>1, <2>3, <2>4
<1>3. CASE ItemRequestStep
  BY <1>3, ItemRequestStepInv DEF Stays, ItemTables
<1>4. CASE PlaceRemoveWrite
  BY <1>4, PlaceRemovedRows DEF Stays
<1>5. CASE PlaceRemoveBegin \/ PlaceRemoveFails \/ UNCHANGED vars
  BY <1>5, <1>1 DEF PlaceRemoveBegin, PlaceRemoveFails, vars
<1> QED BY <1>2, <1>3, <1>4, <1>5 DEF Next

\* No handler that read an item or a storage before its deletion makes it live
\* again by a late write, however many requests overlap and even when ids are
\* patched.
THEOREM TombstonesAlwaysStay == Spec => TombstonesStay
<1>1. Spec => []InventoryInv
  BY InitInventory, NextInventory, PTL DEF Spec
<1>2. InventoryInv /\ [Next]_vars
        => [/\ \A i \in ItemIds : items[i].state = "deleted" => items'[i].state = "deleted"
            /\ \A s \in StorageIds : storages[s].state = "deleted" => storages'[s].state # "live"]_vars
  BY NextStays DEF Stays
<1> QED BY <1>1, <1>2, PTL DEF Spec, TombstonesStay


-----------------------------------------------------------------------------
(* One request after the other: what a request read is still so when it    *)
(* writes.                                                                 *)

AbsentUnplaced ==
  \A i \in ItemIds : items[i].state = "absent" => items[i].storageId = NoStorage

Placed == ItemsInLiveStorages /\ AbsentUnplaced

\* A storage about to be written for an item is live or none, and what the
\* handler saw of the item is what the row says.
ItemCurrent(q) ==
  /\ q.pc \in {"create.write", "move.write"} => q.to = NoStorage \/ Live(storages, q.to)
  /\ q.pc = "update.write" => q.to \in {Keep, q.from, NoStorage} \/ Live(storages, q.to)
  /\ q.pc \in {"move.target", "move.write", "update.target", "update.write"} =>
       q.from = items[q.id].storageId /\ items[q.id].state = "live"

\* The items a removal found are those that are in its storages.
HeldCurrent(q) ==
  q.pc = "remove.write" => q.held = {<<i, items[i].storageId>> : i \in ItemsIn(q.ids)}

LEMMA PlacedItem ==
  ASSUME Placed, NEW i \in ItemIds
  PROVE  /\ items[i].state = "live" /\ items[i].storageId # NoStorage
              => Live(storages, items[i].storageId)
         /\ items[i].state = "absent" => items[i].storageId = NoStorage
BY DEF Placed, ItemsInLiveStorages, AbsentUnplaced, LiveItems

\* The tables are left alone.
LEMMA PlacedRead ==
  ASSUME Placed, storages' = storages, items' = items
  PROVE  Placed' /\ MoveIsRecorded
BY DEF Placed, ItemsInLiveStorages, AbsentUnplaced, LiveItems, MoveIsRecorded

\* The storages are left alone, and one item is written.
LEMMA PlacedWrite ==
  ASSUME InventoryInv, Placed, NEW i \in ItemIds, NEW row,
         items' = [items EXCEPT ![i] = row], storages' = storages,
         row.state = "live" => row.storageId = NoStorage \/ Live(storages, row.storageId),
         row.state = "absent" => row.storageId = NoStorage,
         \/ row.storageId = items[i].storageId
         \/ movements' = [movements EXCEPT ![i] = [from |-> items[i].storageId, to |-> row.storageId]]
  PROVE  Placed' /\ MoveIsRecorded
<1>1. \A j \in ItemIds : items'[j] = IF j = i THEN row ELSE items[j]
  BY ItemTypes
<1>2. ItemsInLiveStorages'
  BY <1>1 DEF Placed, ItemsInLiveStorages, LiveItems
<1>3. AbsentUnplaced'
  BY <1>1 DEF Placed, AbsentUnplaced
<1>4. MoveIsRecorded
  <2> SUFFICES ASSUME NEW j \in ItemIds, items'[j].storageId # items[j].storageId
               PROVE  movements'[j] = [from |-> items[j].storageId, to |-> items'[j].storageId]
    BY DEF MoveIsRecorded
  <2>1. j = i
    BY <1>1
  <2> QED BY <1>1, <2>1, ItemTypes
<1> QED BY <1>2, <1>3, <1>4 DEF Placed


\* What one item request leaves, while no other one is in flight.
ItemServed(r) ==
  /\ Placed'
  /\ MoveIsRecorded
  /\ ItemCurrent(itemReq[r])'

LEMMA BecomesRecord ==
  ASSUME InventoryInv, NEW r \in ItemRequests, NEW q, Becomes(r, q)
  PROVE  itemReq'[r] = q
BY DEF InventoryInv, Becomes

LEMMA ItemReadServed ==
  ASSUME InventoryInv, Placed, NEW r \in ItemRequests, NEW q, Becomes(r, q), ItemCurrent(q),
         UNCHANGED tables
  PROVE  ItemServed(r)
<1>1. Placed' /\ MoveIsRecorded
  BY PlacedRead DEF tables
<1>2. itemReq'[r] = q
  BY BecomesRecord
<1>3. storages' = storages /\ items' = items
  BY DEF tables
<1> QED BY <1>1, <1>2, <1>3 DEF ItemServed, ItemCurrent

LEMMA ItemDoneServed ==
  ASSUME InventoryInv, NEW r \in ItemRequests, Done(r), Placed', MoveIsRecorded
  PROVE  ItemServed(r)
<1>1. itemReq'[r].pc = "idle"
  BY BecomesRecord, ItemIdleTyped DEF Done
<1> QED BY <1>1 DEF ItemServed, ItemCurrent

LEMMA ItemArrivesRecord ==
  ASSUME NEW r, ItemArrives(r)
  PROVE  \E q : Becomes(r, q) /\ ItemCurrent(q) /\ q.pc # "idle"
<1> SUFFICES ASSUME NEW u \in Users, NEW i \in ItemIds,
               \/ \E to \in MaybeStorage, visibility \in {"SHARED", "PRIVATE"} :
                    CreateItemBegin(r, u, i, to, visibility)
               \/ \E to \in MaybeStorage \cup {Keep}, visibility \in {"SHARED", "PRIVATE", Keep} :
                    UpdateItemBegin(r, u, i, to, visibility)
               \/ \E to \in MaybeStorage : MoveItemBegin(r, u, i, to)
               \/ \E b \in Borrowers : LendBegin(r, u, i, b)
               \/ ReturnBegin(r, u, i)
               \/ RemoveItemBegin(r, u, i)
             PROVE  \E q : Becomes(r, q) /\ ItemCurrent(q) /\ q.pc # "idle"
  BY DEF ItemArrives
<1>2. ASSUME NEW to, NEW visibility, CreateItemBegin(r, u, i, to, visibility)
      PROVE  \E q : Becomes(r, q) /\ ItemCurrent(q) /\ q.pc # "idle"
  <2> DEFINE q == [ItemIdle EXCEPT !.pc = "create.write", !.user = u, !.id = i, !.to = to,
                     !.visibility = visibility]
  <2>1. q.pc = "create.write" /\ q.to = to
    BY DEF ItemIdle
  <2>2. ItemCurrent(q)
    BY <2>1, <1>2 DEF ItemCurrent, CreateItemBegin
  <2> QED BY <2>1, <2>2, <1>2 DEF CreateItemBegin
<1>3. ASSUME NEW to, NEW visibility, UpdateItemBegin(r, u, i, to, visibility)
      PROVE  \E q : Becomes(r, q) /\ ItemCurrent(q) /\ q.pc # "idle"
  <2> DEFINE q == [ItemIdle EXCEPT
                   !.pc = IF to \in {Keep, items[i].storageId} THEN "update.write"
                          ELSE "update.target",
                   !.user = u, !.id = i, !.from = items[i].storageId, !.to = to,
                   !.visibility = visibility]
  <2>1. /\ q.pc = IF to \in {Keep, items[i].storageId} THEN "update.write" ELSE "update.target"
        /\ q.to = to /\ q.id = i /\ q.from = items[i].storageId
    BY DEF ItemIdle
  <2>2. items[i].state = "live"
    BY <1>3 DEF UpdateItemBegin, MayWrite
  <2>3. Becomes(r, q)
    BY <1>3 DEF UpdateItemBegin
  <2> HIDE DEF q
  <2>4. ItemCurrent(q) /\ q.pc # "idle"
    BY <2>1, <2>2 DEF ItemCurrent
  <2> QED BY <2>3, <2>4
<1>4. ASSUME NEW to, MoveItemBegin(r, u, i, to)
      PROVE  \E q : Becomes(r, q) /\ ItemCurrent(q) /\ q.pc # "idle"
  <2> DEFINE q == [ItemIdle EXCEPT !.pc = "move.target", !.user = u, !.id = i,
                     !.from = items[i].storageId, !.to = to]
  <2>1. q.pc = "move.target" /\ q.id = i /\ q.from = items[i].storageId
    BY DEF ItemIdle
  <2>2. items[i].state = "live" /\ Becomes(r, q)
    BY <1>4 DEF MoveItemBegin, MayWrite
  <2> HIDE DEF q
  <2> QED BY <2>1, <2>2 DEF ItemCurrent
<1>5. ASSUME NEW b, LendBegin(r, u, i, b)
      PROVE  \E q : Becomes(r, q) /\ ItemCurrent(q) /\ q.pc # "idle"
  <2> DEFINE q == [ItemIdle EXCEPT !.pc = "lend.write", !.user = u, !.id = i, !.borrower = b]
  <2>1. q.pc = "lend.write"
    BY DEF ItemIdle
  <2> QED BY <1>5, <2>1 DEF LendBegin, ItemCurrent
<1>6. ASSUME NEW pc \in {"return.write", "remove.write"},
             Becomes(r, [ItemIdle EXCEPT !.pc = pc, !.user = u, !.id = i])
      PROVE  \E q : Becomes(r, q) /\ ItemCurrent(q) /\ q.pc # "idle"
  <2> DEFINE q == [ItemIdle EXCEPT !.pc = pc, !.user = u, !.id = i]
  <2>1. q.pc = pc
    BY DEF ItemIdle
  <2> QED BY <1>6, <2>1 DEF ItemCurrent
<1> QED BY <1>2, <1>3, <1>4, <1>5, <1>6 DEF ReturnBegin, RemoveItemBegin

LEMMA ItemArrivesServed ==
  ASSUME InventoryInv, Placed, NEW r \in ItemRequests, ItemArrives(r)
  PROVE  ItemServed(r)
<1>1. UNCHANGED tables
  BY DEF ItemArrives, CreateItemBegin, UpdateItemBegin, MoveItemBegin, LendBegin, ReturnBegin,
         RemoveItemBegin
<1> QED BY <1>1, ItemReadServed, ItemArrivesRecord

LEMMA ItemStepServed ==
  ASSUME InventoryInv, Placed, NEW r \in ItemRequests, ItemCurrent(itemReq[r]), ItemStep(r)
  PROVE  ItemServed(r)
<1> DEFINE q == itemReq[r]
<1>0. items \in [ItemIds -> ItemRow] /\ movements \in [ItemIds -> Movement]
  BY ItemTypes
<1>1. CASE CreateItemWrite(r)
  <2> DEFINE item == [AbsentItem EXCEPT !.state = "live", !.visibility = q.visibility,
                        !.owner = q.user]
             row == [item EXCEPT !.storageId = q.to]
  <2>1. /\ q.pc = "create.write" /\ items[q.id].state = "absent" /\ Done(r) /\ storages' = storages
        /\ items' = [items EXCEPT ![q.id] = row]
        /\ movements' = [movements EXCEPT ![q.id] = [from |-> NoStorage, to |-> q.to]]
    BY <1>1 DEF CreateItemWrite, Moves
  <2>2. q.id \in ItemIds /\ (q.to = NoStorage \/ Live(storages, q.to))
    BY <2>1, ItemRequestFacts DEF ItemCurrent
  <2>3. row.storageId = q.to /\ row.state = "live"
    BY DEF AbsentItem
  <2> HIDE DEF row, q
  <2>4. items[q.id].storageId = NoStorage
    BY <2>1, <2>2, PlacedItem
  <2>5. Placed' /\ MoveIsRecorded
    BY <2>1, <2>2, <2>3, <2>4, PlacedWrite
  <2> QED BY <2>1, <2>5, ItemDoneServed
<1>2. CASE MoveTarget(r)
  <2>1. /\ UNCHANGED tables
        /\ q.to = NoStorage \/ Live(storages, q.to)
    BY <1>2 DEF MoveTarget
  <2>2. q \in ItemRequest
    BY ItemTypes
  <2>3. PICK before \in {"move.target", "update.target"}, after \in {"move.write", "update.write"} :
          q.pc = before /\ Becomes(r, [q EXCEPT !.pc = after])
    BY <1>2 DEF MoveTarget
  <2> DEFINE p == [q EXCEPT !.pc = after]
  <2>4. p.pc = after /\ p.id = q.id /\ p.from = q.from /\ p.to = q.to
    BY <2>2 DEF ItemRequest
  <2>5. q.from = items[q.id].storageId /\ items[q.id].state = "live"
    BY <2>3 DEF ItemCurrent
  <2>6. Becomes(r, p)
    BY <2>3
  <2> HIDE DEF p, q
  <2>7. ItemCurrent(p)
    BY <2>1, <2>4, <2>5 DEF ItemCurrent
  <2> QED BY <2>1, <2>6, <2>7, ItemReadServed
<1>3. CASE MoveItemWrite(r)
  <2> DEFINE row == [items[q.id] EXCEPT !.storageId = q.to]
  <2>1. /\ q.pc = "move.write" /\ Done(r) /\ storages' = storages
        /\ items' = [items EXCEPT ![q.id] = row]
        /\ movements' = [movements EXCEPT ![q.id] = [from |-> q.from, to |-> q.to]]
    BY <1>3 DEF MoveItemWrite, Moves
  <2>2. /\ q.id \in ItemIds /\ items[q.id] \in ItemRow
        /\ q.to = NoStorage \/ Live(storages, q.to)
        /\ q.from = items[q.id].storageId /\ items[q.id].state = "live"
    BY <2>1, ItemRequestFacts DEF ItemCurrent
  <2>3. row.storageId = q.to /\ row.state = "live"
    BY <2>2 DEF ItemRow
  <2> HIDE DEF row, q
  <2>4. Placed' /\ MoveIsRecorded
    BY <2>1, <2>2, <2>3, PlacedWrite
  <2> QED BY <2>1, <2>4, ItemDoneServed
<1>4. CASE UpdateItemWrite(r)
  <2> DEFINE item == IF q.visibility = Keep THEN items[q.id]
                     ELSE [items[q.id] EXCEPT !.visibility = q.visibility]
             put == [item EXCEPT !.storageId = q.to]
  <2>1. q.pc = "update.write" /\ Done(r) /\ storages' = storages
    BY <1>4 DEF UpdateItemWrite
  <2>2. \/ /\ q.to \notin {Keep, q.from} /\ items' = [items EXCEPT ![q.id] = put]
           /\ movements' = [movements EXCEPT ![q.id] = [from |-> q.from, to |-> q.to]]
        \/ q.to = q.from /\ items' = [items EXCEPT ![q.id] = put]
        \/ items' = [items EXCEPT ![q.id] = item]
    BY <1>4 DEF UpdateItemWrite, Moves
  <2>3. /\ q.id \in ItemIds /\ items[q.id] \in ItemRow
        /\ q.to \in {Keep, q.from, NoStorage} \/ Live(storages, q.to)
        /\ q.from = items[q.id].storageId /\ items[q.id].state = "live"
    BY <2>1, ItemRequestFacts DEF ItemCurrent
  <2>4. item.storageId = q.from /\ item.state = "live"
    BY <2>3 DEF ItemRow
  <2>5. put.storageId = q.to /\ put.state = "live"
    BY <2>3 DEF ItemRow
  <2>6. q.from # NoStorage => Live(storages, q.from)
    BY <2>3, PlacedItem
  <2> HIDE DEF put, item, q
  <2>7. CASE /\ q.to \notin {Keep, q.from} /\ items' = [items EXCEPT ![q.id] = put]
             /\ movements' = [movements EXCEPT ![q.id] = [from |-> q.from, to |-> q.to]]
    <3>1. q.to = NoStorage \/ Live(storages, q.to)
      BY <2>3, <2>7
    <3>2. Placed' /\ MoveIsRecorded
      BY <2>1, <2>3, <2>5, <2>7, <3>1, PlacedWrite
    <3> QED BY <2>1, <3>2, ItemDoneServed
  <2>8. ASSUME NEW row, items' = [items EXCEPT ![q.id] = row], row.storageId = q.from, row.state = "live"
        PROVE  ItemServed(r)
    <3>1. Placed' /\ MoveIsRecorded
      BY <2>1, <2>3, <2>6, <2>8, PlacedWrite
    <3> QED BY <2>1, <3>1, ItemDoneServed
  <2> QED BY <2>2, <2>4, <2>5, <2>7, <2>8
<1>5. ASSUME q.pc # "idle", Done(r), storages' = storages,
             NEW row, items' = [items EXCEPT ![q.id] = row],
             row.storageId = items[q.id].storageId,
             row.state \in {items[q.id].state, "deleted"}
      PROVE  ItemServed(r)
  <2>1. q.id \in ItemIds
    BY <1>5, ItemRequestFacts
  <2> HIDE DEF q
  <2>2. Placed' /\ MoveIsRecorded
    BY <1>5, <2>1, PlacedItem, PlacedWrite
  <2> QED BY <1>5, <2>2, ItemDoneServed
<1>6. q.pc # "idle" => q.id \in ItemIds /\ items[q.id] \in ItemRow
  BY ItemRequestFacts
<1>7. CASE LendWrite(r)
  <2> DEFINE row == [items[q.id] EXCEPT !.status = "LENT_OUT", !.lentTo = q.borrower]
  <2>1. q.pc # "idle" /\ Done(r) /\ storages' = storages
        /\ items' = [items EXCEPT ![q.id].status = "LENT_OUT", ![q.id].lentTo = q.borrower]
    BY <1>7 DEF LendWrite
  <2>2. row.storageId = items[q.id].storageId /\ row.state = items[q.id].state
    BY <2>1, <1>6 DEF ItemRow
  <2>3. items' = [items EXCEPT ![q.id] = row]
    BY <2>1, <1>6, <1>0
  <2> HIDE DEF row
  <2> QED BY <2>1, <2>2, <2>3, <1>5
<1>8. CASE ReturnWrite(r)
  <2> DEFINE row == [items[q.id] EXCEPT !.status = "AVAILABLE", !.lentTo = Nobody]
  <2>1. q.pc # "idle" /\ Done(r) /\ storages' = storages
        /\ items' = [items EXCEPT ![q.id].status = "AVAILABLE", ![q.id].lentTo = Nobody]
    BY <1>8 DEF ReturnWrite
  <2>2. row.storageId = items[q.id].storageId /\ row.state = items[q.id].state
    BY <2>1, <1>6 DEF ItemRow
  <2>3. items' = [items EXCEPT ![q.id] = row]
    BY <2>1, <1>6, <1>0
  <2> HIDE DEF row
  <2> QED BY <2>1, <2>2, <2>3, <1>5
<1>9. CASE RemoveItemWrite(r)
  <2> DEFINE row == [items[q.id] EXCEPT !.state = "deleted"]
  <2>1. q.pc # "idle" /\ Done(r) /\ storages' = storages
        /\ items' = [items EXCEPT ![q.id].state = "deleted"]
    BY <1>9 DEF RemoveItemWrite
  <2>2. row.storageId = items[q.id].storageId /\ row.state = "deleted"
    BY <2>1, <1>6 DEF ItemRow
  <2>3. items' = [items EXCEPT ![q.id] = row]
    BY <2>1, <1>6, <1>0
  <2> HIDE DEF row
  <2> QED BY <2>1, <2>2, <2>3, <1>5
<1>10. CASE ItemFails(r)
  <2>1. Placed' /\ MoveIsRecorded
    BY <1>10, PlacedRead DEF ItemFails, tables
  <2> QED BY <1>10, <2>1, ItemDoneServed DEF ItemFails
<1> QED BY <1>1, <1>2, <1>3, <1>4, <1>7, <1>8, <1>9, <1>10 DEF ItemStep


-----------------------------------------------------------------------------
\* The same of one storage request.
StorageServed(r) ==
  /\ Placed'
  /\ MoveIsRecorded
  /\ HeldCurrent(storageReq[r])'

LEMMA GoesRecord ==
  ASSUME InventoryInv, NEW r \in StorageRequests, NEW q, Goes(r, q)
  PROVE  storageReq'[r] = q
BY DEF InventoryInv, LevelInv, StoragesTypeOK, Goes

LEMMA StorageReadServed ==
  ASSUME InventoryInv, Placed, NEW r \in StorageRequests, NEW q, Goes(r, q), HeldCurrent(q),
         UNCHANGED tables
  PROVE  StorageServed(r)
<1>1. Placed' /\ MoveIsRecorded
  BY PlacedRead DEF tables
<1>2. storageReq'[r] = q /\ items' = items
  BY GoesRecord DEF tables
<1> QED BY <1>1, <1>2 DEF StorageServed, HeldCurrent, ItemsIn

LEMMA StorageEndsServed ==
  ASSUME InventoryInv, NEW r \in StorageRequests, Ends(r), Placed', MoveIsRecorded
  PROVE  StorageServed(r)
<1>1. storageReq'[r].pc = "idle"
  BY GoesRecord DEF Ends, StorageIdle
<1> QED BY <1>1 DEF StorageServed, HeldCurrent

\* The items are left alone, and no storage dies.
LEMMA PlacedOnward ==
  ASSUME Placed, items' = items,
         \A s \in StorageIds : storages[s].state = "live" => storages'[s].state = "live"
  PROVE  Placed' /\ MoveIsRecorded
BY DEF Placed, ItemsInLiveStorages, AbsentUnplaced, LiveItems, MoveIsRecorded, Live

StartPc == {"create.insert", "update.parent", "update.write", "remove.subtree"}

LEMMA StorageArrivesRecord ==
  ASSUME NEW r, StorageArrives(r)
  PROVE  \E q : Goes(r, q) /\ q.pc \in StartPc
<1> SUFFICES ASSUME NEW s \in StorageIds,
               \/ \E parent \in MaybeStorage : CreateBegin(r, s, parent)
               \/ \E to \in MaybeStorage, newId \in MaybeStorage : UpdateBegin(r, s, to, newId)
               \/ RemoveBegin(r, s)
             PROVE  \E q : Goes(r, q) /\ q.pc \in StartPc
  BY DEF StorageArrives
<1>1. ASSUME NEW parent, CreateBegin(r, s, parent)
      PROVE  \E q : Goes(r, q) /\ q.pc \in StartPc
  <2> DEFINE q == [StorageIdle EXCEPT !.pc = "create.insert", !.id = s]
             p == [StorageIdle EXCEPT !.pc = "create.insert", !.id = s, !.to = parent,
                     !.path = SubtreePrefix(parent, storages[parent]),
                     !.level = storages[parent].level + 1]
  <2>1. Goes(r, q) \/ Goes(r, p)
    BY <1>1 DEF CreateBegin
  <2>2. q.pc = "create.insert" /\ p.pc = "create.insert"
    BY DEF StorageIdle
  <2> HIDE DEF p, q
  <2> QED BY <2>1, <2>2 DEF StartPc
<1>2. ASSUME NEW to, NEW newId, UpdateBegin(r, s, to, newId)
      PROVE  \E q : Goes(r, q) /\ q.pc \in StartPc
  <2> DEFINE pc == IF to # storages[s].parentId THEN "update.parent" ELSE "update.write"
             q == [StorageIdle EXCEPT !.pc = pc, !.id = s, !.snap = Snapshot(storages[s]),
                     !.to = to, !.move = to # storages[s].parentId, !.newId = newId]
  <2>1. Goes(r, q)
    BY <1>2 DEF UpdateBegin
  <2>2. q.pc = pc
    BY DEF StorageIdle
  <2> HIDE DEF q
  <2> QED BY <2>1, <2>2 DEF StartPc
<1>3. ASSUME RemoveBegin(r, s)
      PROVE  \E q : Goes(r, q) /\ q.pc \in StartPc
  <2> DEFINE q == [StorageIdle EXCEPT !.pc = "remove.subtree", !.id = s,
                     !.snap = Snapshot(storages[s])]
  <2>1. Goes(r, q)
    BY <1>3 DEF RemoveBegin
  <2>2. q.pc = "remove.subtree"
    BY DEF StorageIdle
  <2> HIDE DEF q
  <2> QED BY <2>1, <2>2 DEF StartPc
<1> QED BY <1>1, <1>2, <1>3

LEMMA StorageArrivesServed ==
  ASSUME InventoryInv, Placed, NEW r \in StorageRequests, StorageArrives(r)
  PROVE  StorageServed(r)
<1>1. UNCHANGED tables
  BY DEF StorageArrives, CreateBegin, UpdateBegin, RemoveBegin
<1> QED BY <1>1, StorageArrivesRecord, StorageReadServed DEF HeldCurrent, StartPc

LEMMA UpdateWriteServed ==
  ASSUME InventoryInv, Placed, NEW r \in StorageRequests, UpdateWrite(r)
  PROVE  StorageServed(r)
<1> DEFINE q == storageReq[r]
           moved == IF q.move THEN Reparented(storages, q.id, q.snap, q.to, q.path, q.level)
                    ELSE storages
           follow(s) == IF s = q.id THEN q.newId ELSE s
<1>1. q.id \in StorageIds /\ storages[q.id].state # "absent" /\ Ends(r)
  BY DEF UpdateWrite, Exists
<1>2. /\ DOMAIN moved = StorageIds
      /\ \A d \in StorageIds : moved[d].state = storages[d].state
  <2>1. CASE q.move
    <3>1. moved = Reparented(storages, q.id, q.snap, q.to, q.path, q.level)
      BY <2>1
    <3>2. DOMAIN Reparented(storages, q.id, q.snap, q.to, q.path, q.level) = StorageIds
      BY DEF Reparented
    <3> HIDE DEF moved, q
    <3> QED BY <3>1, <3>2, <1>1, ReparentedStates
  <2>2. CASE ~q.move
    BY <2>2, ItemTypes
  <2> QED BY <2>1, <2>2
<1>3. CASE q.newId = NoStorage /\ storages' = moved /\ UNCHANGED <<items, movements>>
  <2> HIDE DEF moved, q
  <2>1. Placed' /\ MoveIsRecorded
    BY <1>2, <1>3, PlacedOnward
  <2> QED BY <1>1, <2>1, StorageEndsServed
<1>4. CASE /\ q.newId # NoStorage /\ ~Exists(storages, q.newId)
           /\ storages' = Renamed(moved, q.id, q.newId)
           /\ items' = [i \in ItemIds |-> [items[i] EXCEPT !.storageId = follow(@)]]
  <2>1. q.newId \in StorageIds
    BY <1>4 DEF InventoryInv, LevelInv, StoragesTypeOK, StorageRequest, MaybeStorage
  <2>2. \A i \in ItemIds : /\ items'[i].state = items[i].state
                           /\ items'[i].storageId = follow(items[i].storageId)
    BY <1>4, ItemTypes DEF ItemRow
  <2> HIDE DEF moved, q
  <2> DEFINE swapped == [moved EXCEPT ![q.newId] = moved[q.id], ![q.id] = AbsentRow]
  <2>3. q.newId # q.id
    BY <1>1, <1>4 DEF Exists
  <2>4. ASSUME NEW d \in StorageIds
        PROVE  storages'[d].state = IF d = q.id THEN "absent"
                                    ELSE IF d = q.newId THEN storages[q.id].state
                                    ELSE storages[d].state
    <3>1. swapped[d] = IF d = q.id THEN AbsentRow ELSE IF d = q.newId THEN moved[q.id] ELSE moved[d]
      BY <1>1, <1>2, <2>1
    <3>2. swapped[d].state = IF d = q.id THEN "absent"
                             ELSE IF d = q.newId THEN storages[q.id].state ELSE storages[d].state
      BY <3>1, <1>1, <1>2 DEF AbsentRow
    <3>3. storages'[d] = IF swapped[d].parentId = q.id THEN [swapped[d] EXCEPT !.parentId = q.newId]
                         ELSE swapped[d]
      BY <1>4 DEF Renamed
    <3> HIDE DEF swapped
    <3> QED BY <3>2, <3>3
  <2>5. storages[q.newId].state = "absent"
    BY <1>4, <2>1 DEF Exists
  <2> HIDE DEF follow
  <2>6. \A s : follow(s) = IF s = q.id THEN q.newId ELSE s
    BY DEF follow
  <2>7. ItemsInLiveStorages'
    <3> SUFFICES ASSUME NEW i \in ItemIds, items'[i].state = "live", items'[i].storageId # NoStorage
                 PROVE  Live(storages', items'[i].storageId)
      BY DEF ItemsInLiveStorages, LiveItems
    <3>1. CASE items[i].storageId = q.id
      <4>1. Live(storages, q.id)
        BY <3>1, <2>2, <1>1, PlacedItem, StorageAssumption
      <4> QED BY <3>1, <4>1, <2>1, <2>2, <2>3, <2>4, <2>6 DEF Live
    <3>2. CASE items[i].storageId # q.id
      <4>1. Live(storages, items[i].storageId) /\ items'[i].storageId = items[i].storageId
        BY <3>2, <2>2, <2>6, PlacedItem
      <4> QED BY <3>2, <4>1, <2>4, <2>5 DEF Live
    <3> QED BY <3>1, <3>2
  <2>8. AbsentUnplaced'
    BY <1>1, <2>2, <2>6, PlacedItem, StorageAssumption DEF AbsentUnplaced
  <2>9. MoveIsRecorded
    <3> SUFFICES ASSUME NEW i \in ItemIds, items'[i].storageId # items[i].storageId
                 PROVE  items[i].storageId \in StorageIds /\ ~Exists(storages', items[i].storageId)
      BY DEF MoveIsRecorded
    <3>1. items[i].storageId = q.id
      BY <2>2, <2>6
    <3> QED BY <3>1, <1>1, <2>4 DEF Exists
  <2> QED BY <1>1, <2>7, <2>8, <2>9, StorageEndsServed DEF Placed
<1>5. \/ q.newId = NoStorage /\ storages' = moved /\ UNCHANGED <<items, movements>>
      \/ /\ q.newId # NoStorage /\ ~Exists(storages, q.newId)
         /\ storages' = Renamed(moved, q.id, q.newId)
         /\ items' = [i \in ItemIds |-> [items[i] EXCEPT !.storageId = follow(@)]]
  BY DEF UpdateWrite
<1> QED BY <1>3, <1>4, <1>5


\* The items that a removal takes are those of its storages.
LEMMA RemoveWriteServed ==
  ASSUME InventoryInv, Placed, NEW r \in StorageRequests, HeldCurrent(storageReq[r]), RemoveWrite(r)
  PROVE  StorageServed(r)
<1> DEFINE q == storageReq[r]
           taken == {h[1] : h \in q.held}
           from(i) == (CHOOSE h \in q.held : h[1] = i)[2]
<1>1. /\ q.pc = "remove.write" /\ Ends(r)
      /\ storages' = SoftDeleted(storages, q.ids)
      /\ items' = [i \in ItemIds |-> IF i \in taken THEN [items[i] EXCEPT !.storageId = NoStorage]
                                     ELSE items[i]]
      /\ movements' = [i \in ItemIds |-> IF i \in taken THEN [from |-> from(i), to |-> NoStorage]
                                         ELSE movements[i]]
  BY DEF RemoveWrite
<1>2. q.held = {<<i, items[i].storageId>> : i \in ItemsIn(q.ids)}
  BY <1>1 DEF HeldCurrent
<1> HIDE DEF q
<1>3. taken = ItemsIn(q.ids)
  <2>1. ASSUME NEW h \in q.held PROVE h[1] \in ItemsIn(q.ids)
    BY <1>2
  <2>2. ASSUME NEW i \in ItemsIn(q.ids) PROVE i \in taken
    <3>1. <<i, items[i].storageId>> \in q.held /\ <<i, items[i].storageId>>[1] = i
      BY <1>2
    <3> QED BY <3>1
  <2> QED BY <2>1, <2>2
<1>4. ASSUME NEW i \in taken PROVE from(i) = items[i].storageId
  <2>1. <<i, items[i].storageId>> \in q.held
    BY <1>2, <1>3
  <2>2. \A h \in q.held : h[1] = i => h[2] = items[i].storageId
    BY <1>2
  <2>3. (CHOOSE h \in q.held : h[1] = i) \in q.held /\ (CHOOSE h \in q.held : h[1] = i)[1] = i
    BY <2>1
  <2> QED BY <2>2, <2>3
<1> HIDE DEF taken, from
<1>5. ASSUME NEW i \in ItemIds
      PROVE  /\ items'[i].state = items[i].state
             /\ items'[i].storageId = IF i \in taken THEN NoStorage ELSE items[i].storageId
             /\ i \in taken => movements'[i] = [from |-> items[i].storageId, to |-> NoStorage]
  <2>1. items[i] \in ItemRow
    BY ItemTypes
  <2>2. CASE i \in taken
    BY <1>1, <1>4, <2>1, <2>2 DEF ItemRow
  <2>3. CASE i \notin taken
    BY <1>1, <2>3
  <2> QED BY <2>2, <2>3
<1>6. \A s \in StorageIds : s \notin q.ids => storages'[s] = storages[s]
  BY <1>1 DEF SoftDeleted
<1>7. ItemsInLiveStorages'
  <2> SUFFICES ASSUME NEW i \in ItemIds, items'[i].state = "live", items'[i].storageId # NoStorage
               PROVE  Live(storages', items'[i].storageId)
    BY DEF ItemsInLiveStorages, LiveItems
  <2>1. i \notin taken /\ items[i].state = "live" /\ items'[i].storageId = items[i].storageId
    BY <1>5
  <2>2. Live(storages, items[i].storageId) /\ items[i].storageId \notin q.ids
    BY <2>1, <1>3, PlacedItem DEF ItemsIn
  <2> QED BY <2>1, <2>2, <1>6 DEF Live
<1>8. AbsentUnplaced'
  BY <1>5, PlacedItem DEF AbsentUnplaced
<1>9. MoveIsRecorded
  BY <1>5 DEF MoveIsRecorded
<1> QED BY <1>1, <1>7, <1>8, <1>9, StorageEndsServed DEF Placed

LEMMA StorageStepServed ==
  ASSUME InventoryInv, Placed, NEW r \in StorageRequests, HeldCurrent(storageReq[r]), StorageStep(r)
  PROVE  StorageServed(r)
<1> DEFINE q == storageReq[r]
<1>0. q \in StorageRequest
  BY DEF InventoryInv, LevelInv, StoragesTypeOK
<1>1. CASE CreateInsert(r)
  <2>1. PICK row : storages' = [storages EXCEPT ![q.id] = row] /\ ~Exists(storages, q.id)
                   /\ items' = items /\ Ends(r)
    BY <1>1 DEF CreateInsert
  <2>2. \A s \in StorageIds : storages[s].state = "live" => storages'[s].state = "live"
    BY <2>1, ItemTypes DEF Exists
  <2> QED BY <2>1, <2>2, PlacedOnward, StorageEndsServed
<1>2. ASSUME NEW p, Goes(r, p), p.pc # "remove.write", UNCHANGED tables
      PROVE  StorageServed(r)
  BY <1>2, StorageReadServed DEF HeldCurrent
<1>3. CASE UpdateParent(r)
  <2> DEFINE p(path, level) == [q EXCEPT !.pc = "update.depth", !.path = path, !.level = level]
  <2>1. \A path, level : p(path, level).pc = "update.depth"
    BY <1>0 DEF StorageRequest
  <2>2. /\ UNCHANGED tables
        /\ \/ Goes(r, p(<<>>, 0))
           \/ Goes(r, p(SubtreePrefix(q.to, storages[q.to]), storages[q.to].level + 1))
    BY <1>3 DEF UpdateParent
  <2> HIDE DEF p
  <2>3. \A path, level : p(path, level).pc # "remove.write"
    BY <2>1
  <2> QED BY <2>2, <2>3, <1>2
<1>4. CASE UpdateDepth(r)
  <2> DEFINE p == [q EXCEPT !.pc = "update.write"]
  <2>1. p.pc = "update.write" /\ Goes(r, p) /\ UNCHANGED tables
    BY <1>0, <1>4 DEF StorageRequest, UpdateDepth
  <2> HIDE DEF p
  <2> QED BY <2>1, <1>2
<1>5. CASE RemoveSubtree(r)
  <2> DEFINE p == [StorageIdle EXCEPT !.pc = "remove.items", !.id = q.id,
                     !.ids = {q.id} \cup LiveDescendants(storages, q.id, q.snap)]
  <2>1. p.pc = "remove.items"
    BY DEF StorageIdle
  <2>2. Goes(r, p) /\ UNCHANGED tables
    BY <1>5 DEF RemoveSubtree
  <2> HIDE DEF p
  <2> QED BY <2>1, <2>2, <1>2
<1>6. CASE RemoveItems(r)
  <2> DEFINE held == {<<i, items[i].storageId>> : i \in ItemsIn(q.ids)}
             p == [q EXCEPT !.pc = "remove.write", !.held = held]
  <2>1. p.ids = q.ids /\ p.held = held
    BY <1>0 DEF StorageRequest
  <2>2. Goes(r, p) /\ UNCHANGED tables
    BY <1>6 DEF RemoveItems
  <2>3. HeldCurrent(p)
    BY <2>1 DEF HeldCurrent
  <2> HIDE DEF p
  <2> QED BY <2>2, <2>3, StorageReadServed
<1>7. CASE StorageFails(r)
  <2>1. Placed' /\ MoveIsRecorded
    BY <1>7, PlacedRead DEF StorageFails, tables
  <2> QED BY <1>7, <2>1, StorageEndsServed DEF StorageFails
<1> QED BY <1>1, <1>3, <1>4, <1>5, <1>6, <1>7, UpdateWriteServed, RemoveWriteServed DEF StorageStep


-----------------------------------------------------------------------------
\* The requests in flight, and what it means that no two of them are.
StorageBusy == {r \in StorageRequests : storageReq[r].pc # "idle"}
ItemBusy == {r \in ItemRequests : itemReq[r].pc # "idle"}

OneInFlight ==
  /\ \A p, r \in StorageBusy : p = r
  /\ \A p, r \in ItemBusy : p = r
  /\ StorageBusy = {} \/ ItemBusy = {}
  /\ place = "removing" => StorageBusy = {} /\ ItemBusy = {}

\* A set of at most one element, by its cardinality.
LEMMA AtMostOne ==
  ASSUME NEW S, IsFiniteSet(S), Cardinality(S) <= 1
  PROVE  \A p, r \in S : p = r
<1> SUFFICES ASSUME NEW p \in S, NEW r \in S, p # r PROVE FALSE
  OBVIOUS
<1>1. {p} \cup {r} \subseteq S /\ IsFiniteSet({p}) /\ IsFiniteSet({r})
  BY FS_Singleton
<1>2. Cardinality({p}) = 1
  BY FS_Singleton
<1>3. IsFiniteSet({p} \cup {r}) /\ Cardinality({p} \cup {r}) = 2
  BY <1>1, <1>2, FS_AddElement
<1>4. Cardinality({p} \cup {r}) <= Cardinality(S)
  BY <1>1, FS_Subset
<1> QED BY <1>3, <1>4, FS_CardinalityType

LEMMA NoneByCount ==
  ASSUME NEW S, IsFiniteSet(S), Cardinality(S) <= 0
  PROVE  S = {}
BY FS_CardinalityType, FS_EmptySet

LEMMA FewInFlight ==
  ASSUME IsFiniteSet(StorageBusy)', IsFiniteSet(ItemBusy)', ~(InFlight' > 1)
  PROVE  OneInFlight'
<1> DEFINE s == Cardinality(StorageBusy)'
           i == Cardinality(ItemBusy)'
           p == IF place' = "removing" THEN 1 ELSE 0
<1>1. s \in Nat /\ i \in Nat
  BY FS_CardinalityType
<1>2. InFlight' = s + i + p
  BY DEF InFlight, StorageBusy, ItemBusy
<1>3. s <= 1 /\ i <= 1 /\ (s <= 0 \/ i <= 0) /\ (place' = "removing" => s <= 0 /\ i <= 0)
  <2> HIDE DEF s, i
  <2> QED BY <1>1, <1>2
<1> QED BY <1>3, AtMostOne, NoneByCount DEF OneInFlight

\* The steps of Next that one storage request, one item request, makes.
StorageMoves(r) ==
  /\ (Admitted /\ StorageArrives(r)) \/ StorageStep(r)
  /\ UNCHANGED <<itemReq, place>>

ItemActs(r) ==
  /\ (Admitted /\ ItemArrives(r)) \/ ItemStep(r)
  /\ UNCHANGED <<storageReq, place>>

LEMMA NextSplit ==
  ASSUME Next
  PROVE  \/ \E r \in StorageRequests : StorageMoves(r)
         \/ \E r \in ItemRequests : ItemActs(r)
         \/ PlaceRemoveBegin \/ PlaceRemoveWrite \/ PlaceRemoveFails
BY DEF Next, StorageRequestStep, ItemRequestStep, StorageMoves, ItemActs

LEMMA StorageStepBusy ==
  ASSUME NEW r, StorageStep(r)
  PROVE  storageReq[r].pc # "idle"
BY DEF StorageStep, CreateInsert, UpdateParent, UpdateDepth, UpdateWrite, RemoveSubtree,
       RemoveItems, RemoveWrite, StorageFails

LEMMA ItemStepBusy ==
  ASSUME NEW r, ItemStep(r)
  PROVE  itemReq[r].pc # "idle"
BY DEF ItemStep, CreateItemWrite, MoveTarget, MoveItemWrite, UpdateItemWrite, LendWrite,
       ReturnWrite, RemoveItemWrite, ItemFails

LEMMA StorageOthersKept ==
  ASSUME InventoryInv, NEW r \in StorageRequests, StorageMoves(r)
  PROVE  \A p \in StorageRequests \ {r} : storageReq'[p] = storageReq[p]
<1>1. \E q : storageReq' = [storageReq EXCEPT ![r] = q]
  <2>1. CASE StorageArrives(r)
    BY <2>1, StorageArrivesRecord DEF Goes
  <2>2. CASE StorageStep(r)
    BY <2>2 DEF StorageStep, CreateInsert, UpdateParent, UpdateDepth, UpdateWrite, RemoveSubtree,
                RemoveItems, RemoveWrite, StorageFails, Goes, Ends
  <2> QED BY <2>1, <2>2 DEF StorageMoves
<1> QED BY <1>1 DEF InventoryInv, LevelInv, StoragesTypeOK

LEMMA ItemOthersKept ==
  ASSUME InventoryInv, NEW r \in ItemRequests, ItemActs(r)
  PROVE  \A p \in ItemRequests \ {r} : itemReq'[p] = itemReq[p]
<1>1. \E q : itemReq' = [itemReq EXCEPT ![r] = q]
  <2>1. CASE ItemArrives(r)
    BY <2>1, ItemArrivesRecord DEF Becomes
  <2>2. CASE ItemStep(r)
    BY <2>2, ItemStepTyped DEF Onward, Becomes
  <2> QED BY <2>1, <2>2 DEF ItemActs
<1> QED BY <1>1 DEF InventoryInv


\* While no two are in flight, the request that takes a step is the only one.
NoneAfterRemoval ==
  place = "deleted" => /\ StorageBusy = {} /\ ItemBusy = {}
                       /\ LiveItems = {} /\ LiveIn(storages) = {}

LEMMA StorageAlone ==
  ASSUME InventoryInv, OneInFlight, NoneAfterRemoval, OneInFlight', NEW r \in StorageRequests,
         StorageMoves(r)
  PROVE  /\ Alone(r)
         /\ \A p \in StorageRequests \ {r} : storageReq'[p] = storageReq[p]
         /\ itemReq' = itemReq
         /\ \A p \in ItemRequests : itemReq[p].pc = "idle"
         /\ place = "live" /\ place' = "live"
<1>1. r \in StorageBusy \/ r \in StorageBusy'
  <2>1. CASE StorageArrives(r)
    BY <2>1, StorageArrivesRecord, GoesRecord DEF StorageBusy, StartPc
  <2>2. CASE StorageStep(r)
    BY <2>2, StorageStepBusy DEF StorageBusy
  <2> QED BY <2>1, <2>2 DEF StorageMoves
<1>2. /\ itemReq' = itemReq /\ place' = place
      /\ \A p \in StorageRequests \ {r} : storageReq'[p] = storageReq[p]
  BY StorageOthersKept DEF StorageMoves
<1>3. Alone(r)
  <2> SUFFICES ASSUME NEW p \in StorageRequests \ {r}, storageReq[p].pc # "idle" PROVE FALSE
    BY DEF Alone
  <2>1. p \in StorageBusy /\ p \in StorageBusy'
    BY <1>2 DEF StorageBusy
  <2> QED BY <1>1, <2>1 DEF OneInFlight
<1>4. ItemBusy = {} /\ place # "removing"
  BY <1>1, <1>2 DEF OneInFlight, ItemBusy
<1>5. place # "deleted"
  BY StorageStepBusy DEF StorageMoves, Admitted, NoneAfterRemoval, StorageBusy
<1> QED BY <1>2, <1>3, <1>4, <1>5 DEF ItemBusy, InventoryInv

LEMMA ItemAlone ==
  ASSUME InventoryInv, OneInFlight, NoneAfterRemoval, OneInFlight', NEW r \in ItemRequests,
         ItemActs(r)
  PROVE  /\ \A p \in ItemRequests \ {r} : itemReq[p].pc = "idle" /\ itemReq'[p].pc = "idle"
         /\ storageReq' = storageReq
         /\ \A p \in StorageRequests : storageReq[p].pc = "idle"
         /\ place = "live" /\ place' = "live"
<1>1. r \in ItemBusy \/ r \in ItemBusy'
  <2>1. CASE ItemArrives(r)
    BY <2>1, ItemArrivesRecord, BecomesRecord DEF ItemBusy
  <2>2. CASE ItemStep(r)
    BY <2>2, ItemStepBusy DEF ItemBusy
  <2> QED BY <2>1, <2>2 DEF ItemActs
<1>2. /\ storageReq' = storageReq /\ place' = place
      /\ \A p \in ItemRequests \ {r} : itemReq'[p] = itemReq[p]
  BY ItemOthersKept DEF ItemActs
<1>3. \A p \in ItemRequests \ {r} : itemReq[p].pc = "idle"
  <2> SUFFICES ASSUME NEW p \in ItemRequests \ {r}, itemReq[p].pc # "idle" PROVE FALSE
    OBVIOUS
  <2>1. p \in ItemBusy /\ p \in ItemBusy'
    BY <1>2 DEF ItemBusy
  <2> QED BY <1>1, <2>1 DEF OneInFlight
<1>4. StorageBusy = {} /\ place # "removing"
  BY <1>1, <1>2 DEF OneInFlight, StorageBusy
<1>5. place # "deleted"
  BY ItemStepBusy DEF ItemActs, Admitted, NoneAfterRemoval, ItemBusy
<1> QED BY <1>2, <1>3, <1>4, <1>5 DEF StorageBusy, InventoryInv

BusyFinite == IsFiniteSet(StorageBusy) /\ IsFiniteSet(ItemBusy)

LEMMA NextBusyFinite ==
  ASSUME InventoryInv, BusyFinite, [Next]_vars
  PROVE  BusyFinite'
<1>1. ASSUME NEW r \in StorageRequests, StorageMoves(r) PROVE BusyFinite'
  <2>1. StorageBusy' \subseteq StorageBusy \cup {r} /\ ItemBusy' = ItemBusy
    BY <1>1, StorageOthersKept DEF StorageBusy, ItemBusy, StorageMoves
  <2>2. IsFiniteSet(StorageBusy \cup {r})
    BY FS_AddElement DEF BusyFinite
  <2> QED BY <2>1, <2>2, FS_Subset DEF BusyFinite
<1>2. ASSUME NEW r \in ItemRequests, ItemActs(r) PROVE BusyFinite'
  <2>1. ItemBusy' \subseteq ItemBusy \cup {r} /\ StorageBusy' = StorageBusy
    BY <1>2, ItemOthersKept DEF StorageBusy, ItemBusy, ItemActs
  <2>2. IsFiniteSet(ItemBusy \cup {r})
    BY FS_AddElement DEF BusyFinite
  <2> QED BY <2>1, <2>2, FS_Subset DEF BusyFinite
<1>3. CASE \/ PlaceRemoveBegin \/ PlaceRemoveWrite \/ PlaceRemoveFails
           \/ UNCHANGED vars
  <2>1. storageReq' = storageReq /\ itemReq' = itemReq
    BY <1>3 DEF PlaceRemoveBegin, PlaceRemoveWrite, PlaceRemoveFails, vars
  <2> QED BY <2>1 DEF BusyFinite, StorageBusy, ItemBusy
<1> QED BY <1>1, <1>2, <1>3, NextSplit

\* What holds in every state before the first overlap.
SerialState ==
  /\ OneInFlight
  /\ NoneAfterRemoval
  /\ Placed
  /\ \A r \in ItemRequests : ItemCurrent(itemReq[r])
  /\ \A r \in StorageRequests : HeldCurrent(storageReq[r])

LEMMA SerialStep ==
  ASSUME InventoryInv, SerialState, OneInFlight', Next
  PROVE  SerialState' /\ MoveIsRecorded
<1>1. ASSUME NEW r \in StorageRequests, StorageMoves(r) PROVE SerialState' /\ MoveIsRecorded
  <2>1. /\ Alone(r)
        /\ \A p \in StorageRequests \ {r} : storageReq'[p] = storageReq[p]
        /\ itemReq' = itemReq
        /\ \A p \in ItemRequests : itemReq[p].pc = "idle"
        /\ place' = "live"
    BY <1>1, StorageAlone DEF SerialState
  <2>2. StorageServed(r)
    BY <1>1, StorageArrivesServed, StorageStepServed DEF SerialState, StorageMoves
  <2>3. ASSUME NEW p \in StorageRequests PROVE HeldCurrent(storageReq[p])'
    <3>1. CASE p = r
      BY <3>1, <2>2 DEF StorageServed
    <3>2. CASE p # r
      BY <3>2, <2>1 DEF Alone, HeldCurrent
    <3> QED BY <3>1, <3>2
  <2>4. (\A p \in StorageRequests : HeldCurrent(storageReq[p]))'
    BY <2>3
  <2>5. (\A p \in ItemRequests : ItemCurrent(itemReq[p]))'
    BY <2>1 DEF ItemCurrent
  <2>6. NoneAfterRemoval'
    BY <2>1 DEF NoneAfterRemoval
  <2> QED BY <2>2, <2>4, <2>5, <2>6 DEF SerialState, StorageServed
<1>2. ASSUME NEW r \in ItemRequests, ItemActs(r) PROVE SerialState' /\ MoveIsRecorded
  <2>1. /\ \A p \in ItemRequests \ {r} : itemReq'[p].pc = "idle"
        /\ storageReq' = storageReq
        /\ \A p \in StorageRequests : storageReq[p].pc = "idle"
        /\ place' = "live"
    BY <1>2, ItemAlone DEF SerialState
  <2>2. ItemServed(r)
    BY <1>2, ItemArrivesServed, ItemStepServed DEF SerialState, ItemActs
  <2>3. ASSUME NEW p \in ItemRequests PROVE ItemCurrent(itemReq[p])'
    <3>1. CASE p = r
      BY <3>1, <2>2 DEF ItemServed
    <3>2. CASE p # r
      BY <3>2, <2>1 DEF ItemCurrent
    <3> QED BY <3>1, <3>2
  <2>4. (\A p \in ItemRequests : ItemCurrent(itemReq[p]))'
    BY <2>3
  <2>5. (\A p \in StorageRequests : HeldCurrent(storageReq[p]))'
    BY <2>1 DEF HeldCurrent
  <2>6. NoneAfterRemoval'
    BY <2>1 DEF NoneAfterRemoval
  <2> QED BY <2>2, <2>4, <2>5, <2>6 DEF SerialState, ItemServed
<1>3. CASE PlaceRemoveBegin \/ PlaceRemoveFails
  <2>1. /\ storages' = storages /\ items' = items /\ storageReq' = storageReq
        /\ itemReq' = itemReq /\ place' # "deleted"
    BY <1>3 DEF PlaceRemoveBegin, PlaceRemoveFails
  <2>2. Placed' /\ MoveIsRecorded
    BY <2>1, PlacedRead DEF SerialState
  <2>3. (\A p \in ItemRequests : ItemCurrent(itemReq[p]))'
    BY <2>1 DEF SerialState, ItemCurrent
  <2>4. (\A p \in StorageRequests : HeldCurrent(storageReq[p]))'
    BY <2>1 DEF SerialState, HeldCurrent, ItemsIn
  <2> QED BY <2>1, <2>2, <2>3, <2>4 DEF SerialState, NoneAfterRemoval
<1>4. CASE PlaceRemoveWrite
  <2>1. /\ storageReq' = storageReq /\ itemReq' = itemReq
        /\ \A p \in StorageRequests : storageReq[p].pc = "idle"
        /\ \A p \in ItemRequests : itemReq[p].pc = "idle"
    BY <1>4 DEF PlaceRemoveWrite, SerialState, OneInFlight, StorageBusy, ItemBusy
  <2>2. LiveItems' = {} /\ LiveIn(storages)' = {}
    BY <1>4, PlaceRemovedRows DEF LiveItems, LiveIn, Live
  <2>3. MoveIsRecorded
    BY <1>4, PlaceRemovedRows DEF MoveIsRecorded
  <2>4. Placed'
    <3>1. AbsentUnplaced'
      <4> SUFFICES ASSUME NEW i \in ItemIds, items'[i].state = "absent"
                   PROVE  items'[i].storageId = NoStorage
        BY DEF AbsentUnplaced
      <4>1. items'[i] = IF items[i].state = "live" THEN [items[i] EXCEPT !.state = "deleted"]
                        ELSE items[i]
        BY <1>4 DEF PlaceRemoveWrite
      <4>2. items[i].state = "absent"
        BY <4>1, ItemTypes DEF ItemRow
      <4> QED BY <4>2, <1>4, PlaceRemovedRows, PlacedItem DEF SerialState
    <3> QED BY <3>1, <2>2 DEF Placed, ItemsInLiveStorages
  <2>5. (\A p \in ItemRequests : ItemCurrent(itemReq[p]))'
    BY <2>1 DEF ItemCurrent
  <2>6. (\A p \in StorageRequests : HeldCurrent(storageReq[p]))'
    BY <2>1 DEF HeldCurrent
  <2>7. NoneAfterRemoval'
    BY <2>1, <2>2 DEF NoneAfterRemoval, StorageBusy, ItemBusy
  <2> QED BY <2>3, <2>4, <2>5, <2>6, <2>7 DEF SerialState
<1> QED BY <1>1, <1>2, <1>3, <1>4, NextSplit


\* With the history variable of MCInventory.
SerialInv ==
  /\ InventoryInv
  /\ BusyFinite
  /\ ~overlapped => SerialState

LEMMA InitBusy == Init => StorageBusy = {} /\ ItemBusy = {}
BY ItemIdleTyped DEF Init, StoragesInit, StorageBusy, ItemBusy, StorageIdle

LEMMA InitSerial == MCInit => SerialInv
<1> SUFFICES ASSUME MCInit PROVE SerialInv
  OBVIOUS
<1>1. Init
  BY DEF MCInit
<1>2. InventoryInv
  BY <1>1, InitInventory
<1>3. StorageBusy = {} /\ ItemBusy = {}
  BY <1>1, InitBusy
<1>4. BusyFinite
  BY <1>3, FS_EmptySet DEF BusyFinite
<1>5. OneInFlight /\ NoneAfterRemoval
  BY <1>1, <1>3 DEF OneInFlight, NoneAfterRemoval, Init
<1>6. Placed
  BY <1>1, AbsentItemType
  DEF Init, StoragesInit, TablesInit, Placed, ItemsInLiveStorages, AbsentUnplaced, LiveItems, AbsentItem
<1>7. /\ \A r \in ItemRequests : ItemCurrent(itemReq[r])
      /\ \A r \in StorageRequests : HeldCurrent(storageReq[r])
  BY <1>3 DEF ItemBusy, StorageBusy, ItemCurrent, HeldCurrent
<1> QED BY <1>2, <1>4, <1>5, <1>6, <1>7 DEF SerialInv, SerialState

\* What a step does before the first overlap.
LEMMA SerialMoves ==
  ASSUME SerialInv, MCNext
  PROVE  /\ SerialInv'
         /\ ~overlapped' => /\ ~overlapped /\ SerialState /\ OneInFlight' /\ MoveIsRecorded
<1>1. Next /\ InventoryInv /\ BusyFinite
  BY DEF MCNext, SerialInv
<1>2. InventoryInv'
  BY <1>1, NextInventory
<1>3. BusyFinite'
  BY <1>1, NextBusyFinite
<1>4. ASSUME ~overlapped'
      PROVE  ~overlapped /\ SerialState /\ OneInFlight' /\ SerialState' /\ MoveIsRecorded
  <2>1. ~overlapped /\ ~(InFlight' > 1)
    BY <1>4 DEF MCNext
  <2>2. OneInFlight'
    BY <1>3, <2>1, FewInFlight DEF BusyFinite
  <2>3. SerialState
    BY <2>1 DEF SerialInv
  <2> QED BY <1>1, <2>1, <2>2, <2>3, SerialStep
<1> QED BY <1>2, <1>3, <1>4 DEF SerialInv

LEMMA StillSerial ==
  ASSUME SerialInv, UNCHANGED <<vars, overlapped, patched>>
  PROVE  SerialInv'
<1>1. InventoryInv' /\ BusyFinite'
  BY NextInventory, NextBusyFinite DEF SerialInv
<1>2. SerialState => SerialState'
  BY DEF vars, SerialState, OneInFlight, NoneAfterRemoval, Placed, ItemsInLiveStorages, AbsentUnplaced,
         ItemCurrent, HeldCurrent, LiveItems, ItemsIn, StorageBusy, ItemBusy
<1> QED BY <1>1, <1>2 DEF SerialInv

\* The strengthening that the three theorems after it rest on: of a request in
\* flight, what the handler read is still so when it writes.
THEOREM SerialInvariant == MCSpec => []SerialInv
<1>1. SerialInv /\ [MCNext]_<<vars, overlapped, patched>> => SerialInv'
  BY SerialMoves, StillSerial
<1> QED BY <1>1, InitSerial, PTL DEF MCSpec

\* As long as no two requests were in flight at once, every live item is in a
\* live storage or in none: removals take the items of the whole subtree out
\* (storages.service.ts, remove), and items go only where a live storage was
\* read (items.service.ts, create and recordMove).
THEOREM ItemsInLiveStoragesSerially == MCSpec => []SerialItemsInLiveStorages
<1>1. SerialInv => SerialItemsInLiveStorages
  BY DEF SerialInv, SerialState, Placed, SerialItemsInLiveStorages
<1> QED BY <1>1, SerialInvariant, PTL

\* And the movements of an item form a chain that ends where the item is
\* (items.service.ts, recordMove).
THEOREM MovesAreRecordedSerially == MCSpec => SerialMovesAreRecorded
<1>1. SerialInv /\ [MCNext]_<<vars, overlapped, patched>> => [~overlapped' => MoveIsRecorded]_vars
  <2>1. SerialInv /\ MCNext => (~overlapped' => MoveIsRecorded)
    BY SerialMoves
  <2> QED BY <2>1
<1> QED BY <1>1, SerialInvariant, PTL DEF MCSpec, SerialMovesAreRecorded


-----------------------------------------------------------------------------
(* What the screens show, while also no id is patched: AncestryInv holds.  *)

\* The paths select what tree() nests: if it nested less, take what it leaves
\* out at the least level; its parent is selected too, a level above it, and
\* nested.
LEMMA NestedIsSubtree ==
  ASSUME AncestryInv, NEW s \in LiveIn(storages)
  PROVE  Nested(storages, {s}) = SubtreeOf(s)
<1> DEFINE sub == SubtreeOf(s)
           closed(set) == {s} \subseteq set /\ HoldsChildren(storages, set)
           live == LiveIn(storages)
<1>1. s \in StorageIds /\ live \subseteq StorageIds
  BY DEF LiveIn
<1>2. \A d : d \in sub <=> d = s \/ (d \in live /\ s \in AncestorIds(storages[d]))
  <2> SUFFICES ASSUME NEW d \in live
               PROVE  d \in LiveDescendants(storages, s, storages[s]) <=> s \in AncestorIds(storages[d])
    BY DEF SubtreeOf, LiveDescendants
  <2> QED BY <1>1, RowFacts, TreeFacts DEF LiveDescendants
<1>3. ASSUME NEW d \in live
      PROVE  LET p == storages[d].parentId IN
             /\ p = NoStorage => AncestorIds(storages[d]) = {}
             /\ p # NoStorage => /\ Live(storages, p)
                                 /\ AncestorIds(storages[d]) = AncestorIds(storages[p]) \cup {p}
  <2>1. d \in StorageIds
    BY <1>1
  <2> QED BY <2>1, RowFacts, TreeFacts DEF RowsInv, SubtreesDieTogether
<1> HIDE DEF sub
<1>4. sub \in SUBSET StorageIds /\ closed(sub)
  <2>1. sub \in SUBSET StorageIds
    BY <1>1, <1>2
  <2>2. ASSUME NEW d \in live, storages[d].parentId \in sub PROVE d \in sub
    <3>1. storages[d].parentId # NoStorage
      BY <2>1, <2>2, StorageAssumption
    <3> QED BY <1>2, <1>3, <2>2, <3>1
  <2> QED BY <1>2, <2>1, <2>2 DEF HoldsChildren
<1>5. ASSUME NEW set \in SUBSET StorageIds, closed(set)
      PROVE  sub \subseteq set
  <2> DEFINE lost == sub \ set
             levels == {storages[t].level : t \in lost}
  <2>1. SUFFICES ASSUME lost # {} PROVE FALSE
    OBVIOUS
  <2>2. \A t \in StorageIds : storages[t].level \in Nat
    BY RowFacts, LenProperties DEF LevelInv, LevelIsDepth, Row, Paths
  <2>3. PICK t \in lost : \A v \in lost : storages[t].level <= storages[v].level
    <3>1. levels \in SUBSET Nat /\ levels # {}
      BY <1>4, <2>1, <2>2
    <3> HIDE DEF lost
    <3>2. PICK x \in levels : \A y \in levels : x <= y
      BY <3>1, LeastNumber
    <3> QED BY <3>2
  <2> DEFINE p == storages[t].parentId
  <2>4. t # s /\ t \in live /\ t \in StorageIds /\ s \in AncestorIds(storages[t])
    BY <1>1, <1>2, <1>5
  <2>5. /\ p # NoStorage /\ Live(storages, p)
        /\ AncestorIds(storages[t]) = AncestorIds(storages[p]) \cup {p}
    BY <1>3, <2>4
  <2>6. p \in sub /\ p \in StorageIds
    BY <1>2, <2>4, <2>5 DEF Live, LiveIn
  <2>7. p \notin set
    BY <1>5, <2>4 DEF HoldsChildren
  <2>8. storages[t].level = storages[p].level + 1
    <3>1. storages[t].path = SubtreePrefix(p, storages[p])
      BY <2>4, <2>5 DEF AncestryInv, PathIsAncestry
    <3>2. Len(SubtreePrefix(p, storages[p])) = storages[p].level + 1
      BY <2>5, RowFacts, LiveRow DEF Live, Exists
    <3>3. storages[t].level = Len(storages[t].path)
      BY <2>4, RowFacts DEF LevelInv, LevelIsDepth
    <3> QED BY <3>1, <3>2, <3>3
  <2> QED BY <2>2, <2>3, <2>6, <2>7, <2>8
<1>6. Nested(storages, {s}) = sub
  BY <1>4, <1>5 DEF Nested
<1> QED BY <1>6 DEF sub

LEMMA AgreementOfViews ==
  ASSUME AncestryInv, ItemsInLiveStorages, NoneAfterRemoval
  PROVE  ViewsAgree
<1>1. SearchAndRemindersAgree
  <2> SUFFICES ASSUME NEW u \in Users
               PROVE  /\ FoundItems(u) = ListedItems(u)
                      /\ LowStock(u) = ListedItems(u)
                      /\ PhotosReadable(u) = ListedItems(u)
    BY DEF SearchAndRemindersAgree
  <2>1. Visible(u) = {i \in ItemIds : /\ items[i].state = "live"
                                      /\ items[i].visibility = "SHARED" \/ items[i].owner = u}
    BY DEF Visible, VisibleTo, LiveItems
  <2>2. ~PlaceShown => Visible(u) = {}
    BY DEF PlaceShown, NoneAfterRemoval, Visible
  <2> QED BY <2>1, <2>2 DEF FoundItems, LowStock, PhotosReadable, ListedItems
<1>2. TreeCountsItems
  <2> SUFFICES ASSUME PlaceShown PROVE TreeCountsItems
    BY DEF TreeCountsItems
  <2>1. FoundStorages = LiveIn(storages) /\ TreeShown = LiveIn(storages)
    BY TreeShowsEachRow DEF FoundStorages, TreeShowsAll
  <2>2. ASSUME NEW u \in Users
        PROVE  ListedItems(u) = {i \in Visible(u) : items[i].storageId = NoStorage}
                                \cup UNION {CountedIn(u, s) : s \in LiveIn(storages)}
    <3>1. \A i \in Visible(u) : items[i].storageId # NoStorage =>
                                  items[i].storageId \in LiveIn(storages)
      BY DEF ItemsInLiveStorages, Visible, LiveIn, Live
    <3>2. ListedItems(u) = Visible(u)
      BY DEF ListedItems
    <3>3. ASSUME NEW i \in Visible(u), items[i].storageId # NoStorage
          PROVE  i \in UNION {CountedIn(u, s) : s \in LiveIn(storages)}
      <4>1. i \in CountedIn(u, items[i].storageId)
        BY DEF CountedIn
      <4> QED BY <3>1, <3>3, <4>1
    <3>4. \A s : CountedIn(u, s) \subseteq Visible(u)
      BY DEF CountedIn
    <3> QED BY <3>2, <3>3, <3>4
  <2> QED BY <2>1, <2>2 DEF TreeCountsItems
<1>3. NestedListIsSubtree
  <2> SUFFICES ASSUME NEW u \in Users, NEW s \in LiveIn(storages)
               PROVE  ListedUnder(u, s) = UNION {CountedIn(u, d) : d \in SubtreeOf(s)}
    BY NestedIsSubtree DEF NestedListIsSubtree, SubtreeShown
  <2>1. ListedUnder(u, s) = {i \in Visible(u) : items[i].storageId \in SubtreeOf(s)}
    BY DEF ListedUnder, SubtreeOf
  <2> QED BY <2>1 DEF CountedIn
<1> QED BY <1>1, <1>2, <1>3 DEF ViewsAgree


\* Before the first overlap and the first id in a PATCH.
ViewInv ==
  /\ SerialInv
  /\ ~overlapped /\ ~patched => AncestryInv

LEMMA AncestryKept ==
  ASSUME AncestryInv, LevelInv', storages' = storages, storageReq' = storageReq
  PROVE  AncestryInv'
<1>1. RowsInv'
  BY RowFacts
  DEF RowsInv, PathIsAncestry, AbsentUnparented, SubtreesDieTogether, DepthCapped, Exists, Live, LiveIn
<1>2. (\A p \in StorageRequests : RequestCurrent(storageReq[p]))'
  BY DEF AncestryInv, RequestCurrent, SnapshotCurrent, DerivedCurrent, MoveCurrent, SubtreeOf, Live,
         LiveDescendants, LiveIn
<1> QED BY <1>1, <1>2 DEF AncestryInv, RowsInv

LEMMA PlaceRemovedAncestry ==
  ASSUME InventoryInv, AncestryInv, LevelInv', PlaceRemoveWrite,
         \A p \in StorageRequests : storageReq[p].pc = "idle" /\ storageReq[p].newId = NoStorage
  PROVE  AncestryInv'
<1>1. \A s \in StorageIds :
        /\ storages'[s].path = storages[s].path
        /\ storages'[s].parentId = storages[s].parentId
        /\ storages'[s].state # "live"
        /\ storages'[s].state = "absent" <=> storages[s].state = "absent"
  BY PlaceRemovedRows
<1>2. PathIsAncestry'
  <2> SUFFICES ASSUME NEW s \in StorageIds
               PROVE  IF storages[s].parentId = NoStorage THEN storages[s].path = <<>>
                      ELSE /\ Exists(storages', storages[s].parentId)
                           /\ storages[s].path
                                = Append(storages'[storages[s].parentId].path, storages[s].parentId)
    BY <1>1 DEF PathIsAncestry, SubtreePrefix
  <2>1. IF storages[s].parentId = NoStorage THEN storages[s].path = <<>>
        ELSE /\ Exists(storages, storages[s].parentId)
             /\ storages[s].path
                  = Append(storages[storages[s].parentId].path, storages[s].parentId)
    BY DEF AncestryInv, PathIsAncestry, SubtreePrefix
  <2> QED BY <2>1, <1>1 DEF Exists
<1>3. AbsentUnparented'
  BY <1>1 DEF AncestryInv, AbsentUnparented
<1>4. SubtreesDieTogether' /\ DepthCapped'
  BY <1>1 DEF SubtreesDieTogether, DepthCapped, LiveIn, Live
<1>5. storageReq' = storageReq
  BY DEF PlaceRemoveWrite
<1>6. (\A p \in StorageRequests : RequestCurrent(storageReq[p]))'
  BY <1>5 DEF RequestCurrent
<1> QED BY <1>2, <1>3, <1>4, <1>6 DEF AncestryInv

LEMMA ViewStep ==
  ASSUME ViewInv, MCNext
  PROVE  ViewInv'
<1>1. SerialInv' /\ InventoryInv
  BY SerialMoves DEF ViewInv, SerialInv
<1>2. LevelInv'
  BY <1>1 DEF SerialInv, InventoryInv
<1> SUFFICES ASSUME ~overlapped', ~patched' PROVE AncestryInv'
  BY <1>1 DEF ViewInv
<1>3. ~overlapped /\ SerialState /\ OneInFlight'
  BY SerialMoves DEF ViewInv
<1>4. ~patched /\ \A p \in StorageRequests : storageReq'[p].newId = NoStorage
  BY DEF MCNext
<1>5. AncestryInv
  BY <1>3, <1>4 DEF ViewInv
<1>6. ASSUME NEW r \in StorageRequests, StorageMoves(r) PROVE AncestryInv'
  <2>1. Alone(r)
    BY <1>1, <1>3, <1>6, StorageAlone DEF SerialState
  <2> QED BY <1>4, <1>5, <1>6, <2>1, StorageStepAncestry DEF StorageMoves
<1>7. ASSUME NEW r \in ItemRequests, ItemActs(r) PROVE AncestryInv'
  <2>1. storages' = storages /\ storageReq' = storageReq
    BY <1>1, <1>7, ItemArrivesTyped, ItemStepTyped DEF ItemActs, ItemTables
  <2> QED BY <1>2, <1>5, <2>1, AncestryKept
<1>8. CASE PlaceRemoveBegin \/ PlaceRemoveFails
  BY <1>2, <1>5, <1>8, AncestryKept DEF PlaceRemoveBegin, PlaceRemoveFails
<1>9. CASE PlaceRemoveWrite
  <2>1. \A p \in StorageRequests : storageReq[p].pc = "idle" /\ storageReq[p].newId = NoStorage
    BY <1>3, <1>5, <1>9
    DEF PlaceRemoveWrite, SerialState, OneInFlight, StorageBusy, AncestryInv, RequestCurrent
  <2> QED BY <1>1, <1>2, <1>5, <1>9, <2>1, PlaceRemovedAncestry
<1> QED BY <1>6, <1>7, <1>8, <1>9, NextSplit DEF MCNext

LEMMA StillViewed ==
  ASSUME ViewInv, UNCHANGED <<vars, overlapped, patched>>
  PROVE  ViewInv'
<1>1. SerialInv'
  BY StillSerial DEF ViewInv
<1>2. LevelInv'
  BY <1>1 DEF SerialInv, InventoryInv
<1>3. storages' = storages /\ storageReq' = storageReq
  BY DEF vars
<1> QED BY <1>1, <1>2, <1>3, AncestryKept DEF ViewInv

\* As long as no two requests were in flight at once and no PATCH of a storage
\* carried an id, the lists, the search, the reminders, the photos and the tree
\* show every member the same items, counted at storages that the tree shows;
\* and the list under a storage, chosen by path, is what the tree nests there.
THEOREM ViewsAgreeSerially == MCSpec => []SerialViewsAgree
<1>1. MCInit => ViewInv
  BY InitSerial, InitAncestry DEF MCInit, Init, ViewInv
<1>2. ViewInv /\ [MCNext]_<<vars, overlapped, patched>> => ViewInv'
  BY ViewStep, StillViewed
<1>3. ViewInv => SerialViewsAgree
  BY AgreementOfViews DEF ViewInv, SerialInv, SerialState, Placed, SerialViewsAgree
<1> QED BY <1>1, <1>2, <1>3, PTL DEF MCSpec

=============================================================================
