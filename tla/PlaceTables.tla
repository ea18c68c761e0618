---------------------------- MODULE PlaceTables ----------------------------
(***************************************************************************)
(* The rows of one place that its storage and item handlers share: the     *)
(* storages, the items, and of the movement log the newest entry of each   *)
(* item.  Every query of both services is restricted to one place, so one  *)
(* place is all a handler can reach.                                       *)
(***************************************************************************)
EXTENDS StorageTree

CONSTANTS
  ItemIds,     \* the ids an item row may have
  Users,       \* the place's active members
  Borrowers,   \* whom an item can be lent to
  Nobody       \* NULL in lentToName

ASSUME TablesAssumption ==
  /\ Nobody \notin Borrowers
  /\ Users # {}

VARIABLES
  storages,    \* the storages table, one row per id
  items,       \* the items table, one row per id
  movements    \* the newest row of item_movements for each item

tables == <<storages, items, movements>>

ItemRow == [state : {"absent", "live", "deleted"}, storageId : MaybeStorage,
            status : {"AVAILABLE", "LENT_OUT"}, lentTo : Borrowers \cup {Nobody},
            visibility : {"SHARED", "PRIVATE"}, owner : Users]

Movement == [from : MaybeStorage, to : MaybeStorage]
NoMovement == [from |-> NoStorage, to |-> NoStorage]

AbsentItem == [state |-> "absent", storageId |-> NoStorage, status |-> "AVAILABLE",
               lentTo |-> Nobody, visibility |-> "SHARED", owner |-> CHOOSE u \in Users : TRUE]

TablesType ==
  /\ storages \in [StorageIds -> Row]
  /\ items \in [ItemIds -> ItemRow]
  /\ movements \in [ItemIds -> Movement]

TablesInit ==
  /\ storages = [s \in StorageIds |-> AbsentRow]
  /\ items = [i \in ItemIds |-> AbsentItem]
  /\ movements = [i \in ItemIds |-> NoMovement]

\* The foreign keys on parentId, storageId, fromStorageId and toStorageId: a
\* row may name no storage, or one that has a row, deleted or not.
Referable(s) == s = NoStorage \/ Exists(storages, s)

ItemsIn(ids) == {i \in ItemIds : items[i].state = "live" /\ items[i].storageId \in ids}

=============================================================================
