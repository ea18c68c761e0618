------------------------------ MODULE Storages ------------------------------
(***************************************************************************)
(* StoragesService: create, update (edit, move, and an edit that carries   *)
(* an id) and remove, as concurrent requests against the tables.           *)
(*                                                                         *)
(* A request is a record in storageReq; its pc names the next await.  What *)
(* a handler read before an await it still holds after it, whatever other  *)
(* requests committed in between.  The statements that write run in one    *)
(* READ COMMITTED transaction and are one action here: every row they      *)
(* touch is locked until the commit, and a statement that meets a locked   *)
(* row re-evaluates its WHERE on the committed version.                    *)
(***************************************************************************)
EXTENDS PlaceTables

CONSTANTS
  StorageRequests,   \* slots for storage requests in flight
  PatchIds,          \* whether clients put an id in a PATCH body
  PathBound          \* moves arrive only while no path is longer than this

ASSUME RequestsAssumption == PatchIds \in BOOLEAN /\ PathBound \in Nat

VARIABLE storageReq

storageVars == <<storages, items, movements, storageReq>>

\* Of the row a handler has read, what it uses later.
Snapshot(row) == [path |-> row.path, level |-> row.level]
NoSnapshot == [path |-> <<>>, level |-> 0]

StorageIdle ==
  [pc |-> "idle", id |-> NoStorage, snap |-> NoSnapshot, to |-> NoStorage, move |-> FALSE,
   path |-> <<>>, level |-> 0, newId |-> NoStorage, ids |-> {}, held |-> {}]

StoragePc == {"idle", "create.insert", "update.parent", "update.depth", "update.write",
              "remove.subtree", "remove.items", "remove.write"}

StorageRequest ==
  [pc : StoragePc, id : MaybeStorage, snap : [path : Paths, level : Int], to : MaybeStorage, move : BOOLEAN,
   path : Paths, level : Int, newId : MaybeStorage,
   ids : SUBSET StorageIds, held : SUBSET (ItemIds \X StorageIds)]

StoragesTypeOK ==
  /\ TablesType
  /\ storageReq \in [StorageRequests -> StorageRequest]

StoragesInit ==
  /\ TablesInit
  /\ storageReq = [r \in StorageRequests |-> StorageIdle]

\* Moves request r to a new record, or ends it.
Goes(r, record) == storageReq' = [storageReq EXCEPT ![r] = record]
Ends(r) == Goes(r, StorageIdle)

-----------------------------------------------------------------------------
(* create *)

\* Reads the parent, if one is named, and derives path and level from it.
CreateBegin(r, s, parent) ==
  /\ storageReq[r].pc = "idle"
  /\ \/ /\ parent = NoStorage
        /\ Goes(r, [StorageIdle EXCEPT !.pc = "create.insert", !.id = s])
     \/ /\ Live(storages, parent)
        /\ storages[parent].level + 1 <= MAX_DEPTH
        /\ Goes(r, [StorageIdle EXCEPT !.pc = "create.insert", !.id = s, !.to = parent,
                      !.path = SubtreePrefix(parent, storages[parent]),
                      !.level = storages[parent].level + 1])
  /\ UNCHANGED tables

\* The insert, in a statement of its own and after a possible image upload.
\* A taken id (P2002) or a parent that is gone (P2003) fails the request; a
\* taken label code is retried with another one.
CreateInsert(r) ==
  LET q == storageReq[r] IN
  /\ q.pc = "create.insert"
  /\ ~Exists(storages, q.id)
  /\ Referable(q.to)
  /\ storages' = [storages EXCEPT ![q.id] = [state |-> "live", parentId |-> q.to,
                                             path |-> q.path, level |-> q.level]]
  /\ Ends(r)
  /\ UNCHANGED <<items, movements>>

-----------------------------------------------------------------------------
(* update *)

\* Reads the row outside the transaction.  to is the parentId of the body, or
\* the current one when the body has none, or newId the id of the body.
UpdateBegin(r, s, to, newId) ==
  /\ storageReq[r].pc = "idle"
  /\ Live(storages, s)
  /\ newId # NoStorage => PatchIds
  /\ LET isMove == to # storages[s].parentId
     IN  Goes(r, [StorageIdle EXCEPT !.pc = IF isMove THEN "update.parent" ELSE "update.write",
                    !.id = s, !.snap = Snapshot(storages[s]), !.to = to, !.move = isMove, !.newId = newId])
  /\ UNCHANGED tables

\* Mutant: only the storage itself is refused as its own parent.
UpdateParentSelfOnly(r) ==
  LET q == storageReq[r] IN
  /\ q.pc = "update.parent"
  /\ Live(storages, q.to)
  /\ q.to # q.id
  /\ Goes(r, [q EXCEPT !.pc = "update.depth", !.path = SubtreePrefix(q.to, storages[q.to]),
                !.level = storages[q.to].level + 1])
  /\ UNCHANGED tables

\* reparent: the new parent, read inside the transaction.  It must not be the
\* storage itself or one whose path names the storage.
UpdateParent(r) ==
  LET q == storageReq[r]
      parent == storages[q.to]
  IN
  /\ q.pc = "update.parent"
  /\ \/ /\ q.to = NoStorage
        /\ Goes(r, [q EXCEPT !.pc = "update.depth", !.path = <<>>, !.level = 0])
     \/ /\ Live(storages, q.to)
        /\ q.to # q.id
        /\ q.id \notin AncestorIds(parent)
        /\ Goes(r, [q EXCEPT !.pc = "update.depth", !.path = SubtreePrefix(q.to, parent),
                      !.level = parent.level + 1])
  /\ UNCHANGED tables

\* reparent: how deep the subtree is, by the path the storage had when read.
UpdateDepth(r) ==
  LET q == storageReq[r] IN
  /\ q.pc = "update.depth"
  /\ q.level + DepthBelow(storages, q.id, q.snap) <= MAX_DEPTH
  /\ Goes(r, [q EXCEPT !.pc = "update.write"])
  /\ UNCHANGED tables

\* The writes and the commit: the moved row, its subtree, then the fields of
\* the body.  The row is addressed by id alone, so a storage deleted meanwhile
\* is moved all the same; one that has another id by now fails the request.
UpdateWrite(r) ==
  LET q == storageReq[r]
      moved == IF q.move THEN Reparented(storages, q.id, q.snap, q.to, q.path, q.level)
               ELSE storages
  IN
  /\ q.pc = "update.write"
  /\ Exists(storages, q.id)
  /\ q.move => Referable(q.to)
  /\ \/ /\ q.newId = NoStorage
        /\ storages' = moved
        /\ UNCHANGED <<items, movements>>
     \/ /\ q.newId # NoStorage
        /\ ~Exists(storages, q.newId)
        /\ LET follow(s) == IF s = q.id THEN q.newId ELSE s IN
           /\ storages' = Renamed(moved, q.id, q.newId)
           /\ items' = [i \in ItemIds |-> [items[i] EXCEPT !.storageId = follow(@)]]
           /\ movements' = [i \in ItemIds |-> [from |-> follow(movements[i].from),
                                               to |-> follow(movements[i].to)]]
  /\ Ends(r)

-----------------------------------------------------------------------------
(* remove *)

\* Reads the row outside the transaction.
RemoveBegin(r, s) ==
  /\ storageReq[r].pc = "idle"
  /\ Live(storages, s)
  /\ Goes(r, [StorageIdle EXCEPT !.pc = "remove.subtree", !.id = s, !.snap = Snapshot(storages[s])])
  /\ UNCHANGED tables

\* Mutant: the storage alone.
RemoveSubtreeRootOnly(r) ==
  LET q == storageReq[r] IN
  /\ q.pc = "remove.subtree"
  /\ Goes(r, [StorageIdle EXCEPT !.pc = "remove.items", !.id = q.id, !.ids = {q.id}])
  /\ UNCHANGED tables

\* The live subtree, by the path the storage had when read.
RemoveSubtree(r) ==
  LET q == storageReq[r] IN
  /\ q.pc = "remove.subtree"
  /\ Goes(r, [StorageIdle EXCEPT !.pc = "remove.items", !.id = q.id,
                !.ids = {q.id} \cup LiveDescendants(storages, q.id, q.snap)])
  /\ UNCHANGED tables

\* Mutant: the items directly in the storage.
RemoveItemsRootOnly(r) ==
  LET q == storageReq[r] IN
  /\ q.pc = "remove.items"
  /\ Goes(r, [q EXCEPT !.pc = "remove.write", !.held = {<<i, q.id>> : i \in ItemsIn({q.id})}])
  /\ UNCHANGED tables

\* The items kept anywhere in it, each with the storage it was in: what their
\* movements will say they were taken from.
RemoveItems(r) ==
  LET q == storageReq[r] IN
  /\ q.pc = "remove.items"
  /\ Goes(r, [q EXCEPT !.pc = "remove.write",
                !.held = {<<i, items[i].storageId>> : i \in ItemsIn(q.ids)}])
  /\ UNCHANGED tables

\* A movement for each item found, those items unassigned, the rows deleted:
\* all by id, whatever has become of the items and the subtree since.
RemoveWrite(r) ==
  LET q == storageReq[r]
      taken == {h[1] : h \in q.held}
  IN
  /\ q.pc = "remove.write"
  /\ \A h \in q.held : Referable(h[2])
  /\ movements' = [i \in ItemIds |->
                     IF i \in taken
                     THEN [from |-> (CHOOSE h \in q.held : h[1] = i)[2], to |-> NoStorage]
                     ELSE movements[i]]
  /\ items' = [i \in ItemIds |->
                 IF i \in taken THEN [items[i] EXCEPT !.storageId = NoStorage] ELSE items[i]]
  /\ storages' = SoftDeleted(storages, q.ids)
  /\ Ends(r)

-----------------------------------------------------------------------------
\* Any 4xx after the first read, a deadlock victim, a transaction timeout or
\* a crash: a request writes all it writes in one transaction, or nothing.
StorageFails(r) ==
  /\ storageReq[r].pc # "idle"
  /\ Ends(r)
  /\ UNCHANGED tables

StorageStep(r) ==
  \/ CreateInsert(r)
  \/ UpdateParent(r) \/ UpdateDepth(r) \/ UpdateWrite(r)
  \/ RemoveSubtree(r) \/ RemoveItems(r) \/ RemoveWrite(r)
  \/ StorageFails(r)

\* Racing moves can close a cycle, and moves along a cycle make paths longer
\* and longer: the bound keeps the model finite.
WithinBound == \A s \in StorageIds : Len(storages[s].path) <= PathBound

StorageArrives(r) ==
  \E s \in StorageIds :
    \/ \E parent \in MaybeStorage : CreateBegin(r, s, parent)
    \/ \E to \in MaybeStorage, newId \in MaybeStorage :
         WithinBound /\ UpdateBegin(r, s, to, newId)
    \/ RemoveBegin(r, s)

StoragesNext == \E r \in StorageRequests : StorageArrives(r) \/ StorageStep(r)

StoragesSpec == StoragesInit /\ [][StoragesNext]_storageVars

-----------------------------------------------------------------------------
(* What holds however the requests interleave.                             *)

\* The level of a row is the length of its path (schema.prisma: "Materialised
\* path of ancestor ids"): a move shifts both by what one stale snapshot says,
\* so they never part, and the depth cap, which reads level, caps the path.
LevelIsDepth ==
  \A s \in StorageIds : storages[s].level = Len(storages[s].path)

\* What makes it inductive: a request in flight names a storage, and what it
\* has read or derived obeys the same equation, whatever the rows are by now.
RequestConsistent(q) ==
  /\ q.pc # "idle" => q.id \in StorageIds
  /\ q.snap.level = Len(q.snap.path)
  /\ q.level = Len(q.path)

LevelInv ==
  /\ StoragesTypeOK
  /\ LevelIsDepth
  /\ \A r \in StorageRequests : RequestConsistent(storageReq[r])

\* The two ways a row says who its parent is agree: the path of a row ends in
\* its parentId, and is empty when it has none.  create, reparent's first
\* statement and its raw UPDATE each write one or both.  It needs clients that
\* never put an id in a PATCH body.
EndsAt(path, parent) ==
  IF parent = NoStorage THEN path = <<>>
  ELSE path # <<>> /\ path[Len(path)] = parent

PathEndsAtParent == \A s \in StorageIds : EndsAt(storages[s].path, storages[s].parentId)

\* Every id in a path is that of a row, so breadcrumb never has to print the
\* "?" it keeps for an ancestor it cannot find.
BreadcrumbsResolve ==
  \A s \in StorageIds : \A a \in AncestorIds(storages[s]) : Exists(storages, a)

\* What makes the two inductive: a request about to write a path has one that
\* ends at the parent it will write and names rows only.
RequestParented(q) ==
  /\ q.newId = NoStorage
  /\ q.pc \in {"create.insert", "update.depth"} \/ (q.pc = "update.write" /\ q.move) =>
       /\ EndsAt(q.path, q.to)
       /\ \A a \in AncestorIds(q) : Exists(storages, a)

ParentInv ==
  /\ LevelInv
  /\ PathEndsAtParent
  /\ BreadcrumbsResolve
  /\ \A r \in StorageRequests : RequestParented(storageReq[r])

-----------------------------------------------------------------------------
(* What holds while requests do not overlap (one slot).                    *)

\* The path of every row, a deleted one too, is the ancestry that following
\* parentId gives: breadcrumbs, subtree queries, moves and removals all trust
\* it instead of walking the tree.
PathIsAncestry ==
  \A s \in StorageIds :
    LET row == storages[s] IN
    IF row.parentId = NoStorage THEN row.path = <<>>
    ELSE /\ Exists(storages, row.parentId)
         /\ row.path = SubtreePrefix(row.parentId, storages[row.parentId])

\* A live storage hangs under a live one: remove takes the whole subtree, and
\* nothing is created in or moved into what is deleted.
SubtreesDieTogether ==
  \A s \in LiveIn(storages) :
    storages[s].parentId # NoStorage => Live(storages, storages[s].parentId)

\* No live storage is nested deeper than MAX_DEPTH, by any sequence of creates
\* and moves of whole subtrees.
DepthCapped == \A s \in LiveIn(storages) : storages[s].level <= MAX_DEPTH

\* No live storage is among its own ancestors.
NeverInsideItself == \A s \in LiveIn(storages) : s \notin AncestorIds(storages[s])

\* What makes these inductive: what a request has read or derived is still so
\* when the next step uses it.  Derived: the parent about to be written, with the
\* path and the level that go with it.
SnapshotCurrent(q) == Live(storages, q.id) /\ q.snap = Snapshot(storages[q.id])

DerivedCurrent(q) ==
  \/ q.to = NoStorage /\ q.path = <<>> /\ q.level = 0
  \/ /\ Live(storages, q.to)
     /\ q.path = SubtreePrefix(q.to, storages[q.to])
     /\ q.level = storages[q.to].level + 1

MoveCurrent(q) ==
  /\ DerivedCurrent(q)
  /\ q.to # q.id
  /\ q.to # NoStorage => q.id \notin AncestorIds(storages[q.to])

SubtreeOf(s) == {s} \cup LiveDescendants(storages, s, storages[s])

RequestCurrent(q) ==
  /\ q.newId = NoStorage
  /\ q.pc = "create.insert" => DerivedCurrent(q) /\ q.level <= MAX_DEPTH
  /\ q.pc \in {"update.parent", "update.depth", "update.write", "remove.subtree"} => SnapshotCurrent(q)
  /\ q.pc = "update.depth" => MoveCurrent(q)
  /\ q.pc \in {"update.parent", "update.depth"} => q.move
  /\ q.pc = "update.write" /\ q.move =>
       /\ MoveCurrent(q)
       /\ \A d \in SubtreeOf(q.id) : storages[d].level + (q.level - storages[q.id].level) <= MAX_DEPTH
  /\ q.pc \in {"remove.items", "remove.write"} =>
       Live(storages, q.id) /\ q.ids = SubtreeOf(q.id)

AbsentUnparented ==
  \A s \in StorageIds : storages[s].state = "absent" => storages[s].parentId = NoStorage

AncestryInv ==
  /\ LevelInv
  /\ PathIsAncestry
  /\ AbsentUnparented
  /\ SubtreesDieTogether
  /\ DepthCapped
  /\ \A r \in StorageRequests : RequestCurrent(storageReq[r])

\* tree(): the live rows whose parent is not among them are the roots, every
\* other one is a child of its parent, and what hangs under no root is lost.
TreeRoots == {s \in LiveIn(storages) : ~Live(storages, storages[s].parentId)}
TreeShown == Nested(storages, TreeRoots)

\* The nested tree of a place shows each of its live storages.
TreeShowsAll == TreeShown = LiveIn(storages)

\* The storages implement a plain forest, in which ancestry is what following
\* parents gives and no path exists.
Forest == INSTANCE Forest WITH
            parent <- [s \in StorageIds |-> storages[s].parentId],
            planted <- {s \in StorageIds : storages[s].state # "absent"},
            alive <- LiveIn(storages)
ImplementsForest == Forest!Spec

=============================================================================
