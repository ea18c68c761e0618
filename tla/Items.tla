------------------------------- MODULE Items -------------------------------
(***************************************************************************)
(* ItemsService: create, update, move, lend, return and remove, as         *)
(* concurrent requests of the members of a place.                          *)
(*                                                                         *)
(* Each handler but create reads the item before it opens a transaction    *)
(* (requireItem) and decides by that snapshot; the update it ends in names *)
(* the row by id alone.  A movement row and the item update it goes with   *)
(* commit together, and the newest entry is the one committed last.        *)
(***************************************************************************)
EXTENDS PlaceTables

CONSTANTS
  ItemRequests,   \* slots for item requests in flight
  Viewers         \* the users whose role in the place is VIEWER

ASSUME ViewersAssumption == Viewers \subseteq Users

VARIABLE itemReq

itemVars == <<storages, items, movements, itemReq>>

\* What a request body does not carry.
Keep == "keep"

ItemPc == {"idle", "create.write", "move.target", "move.write",
           "update.target", "update.write", "lend.write", "return.write", "remove.write"}

ItemIdle ==
  [pc |-> "idle", user |-> AbsentItem.owner, id |-> NoStorage, from |-> NoStorage,
   to |-> NoStorage, visibility |-> Keep, borrower |-> Nobody]

\* from is the storage the handler saw the item in.
ItemRequest ==
  [pc : ItemPc, user : Users, id : ItemIds \cup {NoStorage}, from : MaybeStorage,
   to : MaybeStorage \cup {Keep}, visibility : {"SHARED", "PRIVATE", Keep},
   borrower : Borrowers \cup {Nobody}]

ItemsTypeOK ==
  /\ TablesType
  /\ itemReq \in [ItemRequests -> ItemRequest]

ItemsInit ==
  /\ TablesInit
  /\ itemReq = [r \in ItemRequests |-> ItemIdle]

Becomes(r, record) == itemReq' = [itemReq EXCEPT ![r] = record]
Done(r) == Becomes(r, ItemIdle)

-----------------------------------------------------------------------------
\* visibilityFilter: a PRIVATE item is there for its owner only.
VisibleTo(item, u) == item.visibility = "SHARED" \/ item.owner = u

\* requireItem and assertCanWrite.
MayWrite(u, i) ==
  /\ items[i].state = "live"
  /\ VisibleTo(items[i], u)
  /\ u \notin Viewers

\* Mutant: the item moves without a movement.
MovesUnrecorded(i, item, from, to) ==
  /\ items' = [items EXCEPT ![i] = [item EXCEPT !.storageId = to]]
  /\ UNCHANGED movements

\* Writes the movement and the item's storage; the rest of the row is `item'.
Moves(i, item, from, to) ==
  /\ items' = [items EXCEPT ![i] = [item EXCEPT !.storageId = to]]
  /\ movements' = [movements EXCEPT ![i] = [from |-> from, to |-> to]]

-----------------------------------------------------------------------------
\* The controller asks for the MEMBER role; the storage is read before the
\* transaction, and images are uploaded in between.
CreateItemBegin(r, u, i, to, visibility) ==
  /\ itemReq[r].pc = "idle"
  /\ u \notin Viewers
  /\ to = NoStorage \/ Live(storages, to)
  /\ Becomes(r, [ItemIdle EXCEPT !.pc = "create.write", !.user = u, !.id = i, !.to = to,
                   !.visibility = visibility])
  /\ UNCHANGED tables

\* Mutant: an upsert, which takes the row of a deleted item.
CreateItemWriteOver(r) ==
  LET q == itemReq[r] IN
  /\ q.pc = "create.write"
  /\ items[q.id].state # "live"
  /\ Referable(q.to)
  /\ Moves(q.id, [AbsentItem EXCEPT !.state = "live", !.visibility = q.visibility,
                    !.owner = q.user], NoStorage, q.to)
  /\ Done(r)
  /\ UNCHANGED storages

\* The row and its first movement.  A taken id fails the request.
CreateItemWrite(r) ==
  LET q == itemReq[r] IN
  /\ q.pc = "create.write"
  /\ items[q.id].state = "absent"
  /\ Referable(q.to)
  /\ Moves(q.id, [AbsentItem EXCEPT !.state = "live", !.visibility = q.visibility,
                    !.owner = q.user], NoStorage, q.to)
  /\ Done(r)
  /\ UNCHANGED storages

-----------------------------------------------------------------------------
\* The body of a PATCH may carry a storageId and a visibility.  Only the owner
\* may change the visibility; a storageId other than the current one is a move.
UpdateItemBegin(r, u, i, to, visibility) ==
  /\ itemReq[r].pc = "idle"
  /\ MayWrite(u, i)
  /\ visibility \in {Keep, items[i].visibility} \/ items[i].owner = u
  /\ Becomes(r, [ItemIdle EXCEPT
                   !.pc = IF to \in {Keep, items[i].storageId} THEN "update.write"
                          ELSE "update.target",
                   !.user = u, !.id = i, !.from = items[i].storageId, !.to = to,
                   !.visibility = visibility])
  /\ UNCHANGED tables

MoveItemBegin(r, u, i, to) ==
  /\ itemReq[r].pc = "idle"
  /\ MayWrite(u, i)
  /\ to # items[i].storageId
  /\ Becomes(r, [ItemIdle EXCEPT !.pc = "move.target", !.user = u, !.id = i,
                   !.from = items[i].storageId, !.to = to])
  /\ UNCHANGED tables

\* recordMove: the target has to be live when read inside the transaction.
MoveTarget(r) ==
  LET q == itemReq[r] IN
  /\ q.to = NoStorage \/ Live(storages, q.to)
  /\ \/ q.pc = "move.target" /\ Becomes(r, [q EXCEPT !.pc = "move.write"])
     \/ q.pc = "update.target" /\ Becomes(r, [q EXCEPT !.pc = "update.write"])
  /\ UNCHANGED tables

\* recordMove: the movement says where the item was when first read.
MoveItemWrite(r) ==
  LET q == itemReq[r] IN
  /\ q.pc = "move.write"
  /\ Referable(q.from) /\ Referable(q.to)
  /\ Moves(q.id, items[q.id], q.from, q.to)
  /\ Done(r)
  /\ UNCHANGED storages

\* Mutant: a storageId that the body does not carry is written as well.
UpdateItemWriteUndefined(r) ==
  LET q == itemReq[r] IN
  /\ q.pc = "update.write"
  /\ q.to \in {Keep, q.from}
  /\ items' = [items EXCEPT ![q.id].storageId = q.to]
  /\ Done(r)
  /\ UNCHANGED <<storages, movements>>

\* The fields of the body.  A storageId in it is written whether or not it
\* counted as a move, and a movement is recorded only when it did.
UpdateItemWrite(r) ==
  LET q == itemReq[r]
      item == IF q.visibility = Keep THEN items[q.id]
              ELSE [items[q.id] EXCEPT !.visibility = q.visibility]
  IN
  /\ q.pc = "update.write"
  /\ q.to # Keep => Referable(q.to)
  /\ \/ /\ q.to \notin {Keep, q.from}
        /\ Referable(q.from)
        /\ Moves(q.id, item, q.from, q.to)
     \/ /\ q.to = q.from
        /\ items' = [items EXCEPT ![q.id] = [item EXCEPT !.storageId = q.to]]
        /\ UNCHANGED movements
     \/ /\ q.to = Keep
        /\ items' = [items EXCEPT ![q.id] = item]
        /\ UNCHANGED movements
  /\ Done(r)
  /\ UNCHANGED storages

-----------------------------------------------------------------------------
LendBegin(r, u, i, b) ==
  /\ itemReq[r].pc = "idle"
  /\ MayWrite(u, i)
  /\ items[i].status # "LENT_OUT"
  /\ Becomes(r, [ItemIdle EXCEPT !.pc = "lend.write", !.user = u, !.id = i, !.borrower = b])
  /\ UNCHANGED tables

LendWrite(r) ==
  LET q == itemReq[r] IN
  /\ q.pc = "lend.write"
  /\ items' = [items EXCEPT ![q.id].status = "LENT_OUT", ![q.id].lentTo = q.borrower]
  /\ Done(r)
  /\ UNCHANGED <<storages, movements>>

ReturnBegin(r, u, i) ==
  /\ itemReq[r].pc = "idle"
  /\ MayWrite(u, i)
  /\ items[i].status = "LENT_OUT"
  /\ Becomes(r, [ItemIdle EXCEPT !.pc = "return.write", !.user = u, !.id = i])
  /\ UNCHANGED tables

ReturnWrite(r) ==
  LET q == itemReq[r] IN
  /\ q.pc = "return.write"
  /\ items' = [items EXCEPT ![q.id].status = "AVAILABLE", ![q.id].lentTo = Nobody]
  /\ Done(r)
  /\ UNCHANGED <<storages, movements>>

RemoveItemBegin(r, u, i) ==
  /\ itemReq[r].pc = "idle"
  /\ MayWrite(u, i)
  /\ Becomes(r, [ItemIdle EXCEPT !.pc = "remove.write", !.user = u, !.id = i])
  /\ UNCHANGED tables

RemoveItemWrite(r) ==
  LET q == itemReq[r] IN
  /\ q.pc = "remove.write"
  /\ items' = [items EXCEPT ![q.id].state = "deleted"]
  /\ Done(r)
  /\ UNCHANGED <<storages, movements>>

-----------------------------------------------------------------------------
\* Any 4xx after the first read, a rolled back transaction or a crash.
ItemFails(r) ==
  /\ itemReq[r].pc # "idle"
  /\ Done(r)
  /\ UNCHANGED tables

ItemArrives(r) ==
  \E u \in Users, i \in ItemIds :
    \/ \E to \in MaybeStorage, visibility \in {"SHARED", "PRIVATE"} :
         CreateItemBegin(r, u, i, to, visibility)
    \/ \E to \in MaybeStorage \cup {Keep}, visibility \in {"SHARED", "PRIVATE", Keep} :
         UpdateItemBegin(r, u, i, to, visibility)
    \/ \E to \in MaybeStorage : MoveItemBegin(r, u, i, to)
    \/ \E b \in Borrowers : LendBegin(r, u, i, b)
    \/ ReturnBegin(r, u, i)
    \/ RemoveItemBegin(r, u, i)

ItemStep(r) ==
  \/ CreateItemWrite(r)
  \/ MoveTarget(r) \/ MoveItemWrite(r) \/ UpdateItemWrite(r)
  \/ LendWrite(r) \/ ReturnWrite(r) \/ RemoveItemWrite(r)
  \/ ItemFails(r)

ItemsNext == \E r \in ItemRequests : ItemArrives(r) \/ ItemStep(r)

=============================================================================
