--------------------------- MODULE StoragesProofs ---------------------------
(***************************************************************************)
(* Three invariants of the storages, for any set of ids, items, requests   *)
(* and any MAX_DEPTH, each carried by an inductive one.                    *)
(*                                                                         *)
(* LevelInv: the level of a row is the length of its path, however         *)
(* requests overlap and whatever ids clients patch.                        *)
(* ParentInv: the path of a row ends at its parent and names rows only,    *)
(* however requests overlap, while clients patch no ids.                   *)
(* AncestryInv: the path is the whole ancestry, no live storage lies too   *)
(* deep, in itself or in a deleted one, and the tree shows them all, while *)
(* besides that requests are served one after the other; hence Storages    *)
(* implements Forest.                                                      *)
(***************************************************************************)
EXTENDS Storages, SequenceTheorems, FiniteSetTheorems, WellFoundedInduction, TLAPS

-----------------------------------------------------------------------------
(* Levels, under LevelInv.                                                 *)

LEMMA PrefixExtended ==
  ASSUME NEW path \in Paths, NEW s \in StorageIds
  PROVE  /\ Append(path, s) \in Paths
         /\ Len(Append(path, s)) = Len(path) + 1
BY AppendProperties DEF Paths

\* What the raw UPDATE of a move makes of a row.
LEMMA Reprefix ==
  ASSUME NEW row \in Row, NEW old \in Paths, NEW new \in Paths, NEW shift \in Int, NEW r,
         r = Reprefixed(row, old, new, shift)
  PROVE  /\ r \in Row
         /\ r.state = row.state /\ r.parentId = row.parentId
         /\ row.level = Len(row.path) /\ shift = Len(new) - Len(old) => r.level = Len(r.path)
  <1>1. CASE row.state # "absent" /\ UnderPrefix(old, row)
    <2> DEFINE tail == SubSeq(row.path, Len(old) + 1, Len(row.path))
               path == new \o tail
    <2>1. row.path \in Paths /\ row.level \in Int
      BY DEF Row
    <2>2. Len(old) \in Nat /\ Len(new) \in Nat /\ Len(row.path) \in Nat /\ Len(old) <= Len(row.path)
      BY <1>1, <2>1 DEF UnderPrefix, IsPrefix, Paths
    <2>3. tail \in Paths /\ Len(tail) = Len(row.path) - Len(old)
      BY <2>1, <2>2, SubSeqProperties DEF Paths
    <2>4. r = [state |-> row.state, parentId |-> row.parentId, path |-> path,
               level |-> row.level + shift]
      BY <1>1 DEF Reprefixed
    <2> HIDE DEF tail
    <2>5. path \in Paths /\ Len(path) = Len(new) + Len(tail)
      BY <2>3, ConcatProperties DEF Paths
    <2> HIDE DEF path
    <2>6. r \in Row
      BY <2>1, <2>4, <2>5 DEF Row
    <2>7. ASSUME row.level = Len(row.path), shift = Len(new) - Len(old)
          PROVE  r.level = Len(r.path)
      <3>1. row.level + shift = Len(path)
        BY <2>2, <2>3, <2>5, <2>7
      <3> QED BY <3>1, <2>4
    <2> QED BY <2>4, <2>6, <2>7
  <1>2. CASE ~(row.state # "absent" /\ UnderPrefix(old, row))
    BY <1>2 DEF Reprefixed
  <1> QED BY <1>1, <1>2

-----------------------------------------------------------------------------
\* A step that only replaces the record of one request.
LEMMA OnlyRequest ==
  ASSUME LevelInv, NEW r \in StorageRequests, NEW q \in StorageRequest,
         RequestConsistent(q), Goes(r, q), UNCHANGED tables
  PROVE  LevelInv'
BY DEF LevelInv, StoragesTypeOK, TablesType, LevelIsDepth, Goes, tables, RequestConsistent

LEMMA IdleConsistent == StorageIdle \in StorageRequest /\ RequestConsistent(StorageIdle)
  <1>1. <<>> \in Paths /\ Len(<<>>) = 0
    BY EmptySeq DEF Paths
  <1> QED
    BY <1>1 DEF StorageIdle, StorageRequest, RequestConsistent, NoSnapshot, StoragePc, MaybeStorage

\* A step that ends a request and rewrites the tables.
LEMMA TablesWritten ==
  ASSUME LevelInv, NEW r \in StorageRequests, Ends(r), TablesType', LevelIsDepth'
  PROVE  LevelInv'
BY IdleConsistent DEF LevelInv, StoragesTypeOK, Ends, Goes, RequestConsistent

\* What a handler reads of a live row.
LEMMA LiveRow ==
  ASSUME LevelInv, NEW s, Exists(storages, s)
  PROVE  /\ s \in StorageIds
         /\ storages[s] \in Row
         /\ storages[s].path \in Paths /\ storages[s].level = Len(storages[s].path)
         /\ SubtreePrefix(s, storages[s]) \in Paths
         /\ Len(SubtreePrefix(s, storages[s])) = storages[s].level + 1
  <1>1. s \in StorageIds /\ storages[s] \in Row
    BY DEF LevelInv, StoragesTypeOK, TablesType, Exists
  <1>2. storages[s].path \in Paths /\ storages[s].level = Len(storages[s].path)
    BY <1>1 DEF LevelInv, LevelIsDepth, Row
  <1> QED BY <1>1, <1>2, PrefixExtended DEF SubtreePrefix

LEMMA CreateBeginLevel ==
  ASSUME LevelInv, NEW r \in StorageRequests, NEW s \in StorageIds, NEW parent \in MaybeStorage,
         CreateBegin(r, s, parent)
  PROVE  LevelInv'
  <1>1. CASE parent = NoStorage /\ Goes(r, [StorageIdle EXCEPT !.pc = "create.insert", !.id = s])
    <2> DEFINE q == [StorageIdle EXCEPT !.pc = "create.insert", !.id = s]
    <2>1. q \in StorageRequest /\ RequestConsistent(q)
      BY IdleConsistent DEF StorageIdle, StorageRequest, RequestConsistent, StoragePc, MaybeStorage
    <2> QED BY <1>1, <2>1, OnlyRequest DEF CreateBegin
  <1>2. CASE /\ Live(storages, parent)
             /\ Goes(r, [StorageIdle EXCEPT !.pc = "create.insert", !.id = s, !.to = parent,
                           !.path = SubtreePrefix(parent, storages[parent]),
                           !.level = storages[parent].level + 1])
    <2> DEFINE path == SubtreePrefix(parent, storages[parent])
               level == storages[parent].level + 1
               q == [StorageIdle EXCEPT !.pc = "create.insert", !.id = s, !.to = parent,
                       !.path = path, !.level = level]
    <2>1. Exists(storages, parent)
      BY <1>2 DEF Live, Exists
    <2>2. path \in Paths /\ level = Len(path) /\ level \in Int
      BY <2>1, LiveRow, LenProperties DEF Paths
    <2> HIDE DEF path, level
    <2>3. q \in StorageRequest /\ RequestConsistent(q)
      BY <2>2, IdleConsistent
      DEF StorageIdle, StorageRequest, RequestConsistent, StoragePc, MaybeStorage
    <2> USE DEF path, level
    <2> QED BY <1>2, <2>3, OnlyRequest DEF CreateBegin
  <1> QED BY <1>1, <1>2 DEF CreateBegin

LEMMA CreateInsertLevel ==
  ASSUME LevelInv, NEW r \in StorageRequests, CreateInsert(r)
  PROVE  LevelInv'
  <1> DEFINE q == storageReq[r]
             row == [state |-> "live", parentId |-> q.to, path |-> q.path, level |-> q.level]
  <1>1. q \in StorageRequest /\ RequestConsistent(q)
    BY DEF LevelInv, StoragesTypeOK
  <1>2. row \in Row /\ row.level = Len(row.path)
    BY <1>1 DEF StorageRequest, RequestConsistent, Row
  <1>3. storages' = [storages EXCEPT ![q.id] = row] /\ UNCHANGED <<items, movements>> /\ Ends(r)
    BY DEF CreateInsert
  <1> HIDE DEF q, row
  <1>4. TablesType' /\ LevelIsDepth'
    BY <1>2, <1>3 DEF LevelInv, StoragesTypeOK, TablesType, LevelIsDepth
  <1> QED BY <1>3, <1>4, TablesWritten

LEMMA UpdateBeginLevel ==
  ASSUME LevelInv, NEW r \in StorageRequests, NEW s \in StorageIds,
         NEW to \in MaybeStorage, NEW newId \in MaybeStorage, UpdateBegin(r, s, to, newId)
  PROVE  LevelInv'
  <1> DEFINE snap == Snapshot(storages[s])
             isMove == to # storages[s].parentId
             pc == IF isMove THEN "update.parent" ELSE "update.write"
             q == [StorageIdle EXCEPT !.pc = pc, !.id = s, !.snap = snap, !.to = to,
                     !.move = isMove, !.newId = newId]
  <1>1. snap \in [path : Paths, level : Int] /\ snap.level = Len(snap.path)
    BY DEF LevelInv, StoragesTypeOK, TablesType, LevelIsDepth, Snapshot, Row
  <1>2. isMove \in BOOLEAN /\ pc \in StoragePc
    BY DEF StoragePc
  <1>3. Goes(r, q) /\ UNCHANGED tables
    BY DEF UpdateBegin
  <1> HIDE DEF snap, isMove, pc
  <1>4. q \in StorageRequest /\ RequestConsistent(q)
    BY <1>1, <1>2, IdleConsistent DEF StorageIdle, StorageRequest, RequestConsistent, MaybeStorage
  <1> QED BY <1>3, <1>4, OnlyRequest

LEMMA UpdateParentLevel ==
  ASSUME LevelInv, NEW r \in StorageRequests, UpdateParent(r)
  PROVE  LevelInv'
  <1> DEFINE q == storageReq[r]
  <1>1. q \in StorageRequest /\ RequestConsistent(q) /\ q.pc = "update.parent"
    BY DEF LevelInv, StoragesTypeOK, UpdateParent
  <1>2. ASSUME NEW path \in Paths, NEW level \in Int, level = Len(path),
               Goes(r, [q EXCEPT !.pc = "update.depth", !.path = path, !.level = level])
        PROVE  LevelInv'
    <2> DEFINE nq == [q EXCEPT !.pc = "update.depth", !.path = path, !.level = level]
    <2> HIDE DEF q
    <2>1. nq \in StorageRequest /\ RequestConsistent(nq)
      BY <1>1, <1>2 DEF StorageRequest, RequestConsistent, StoragePc
    <2> QED BY <1>2, <2>1, OnlyRequest DEF UpdateParent
  <1>3. CASE q.to = NoStorage
    <2>1. <<>> \in Paths /\ 0 = Len(<<>>) /\ 0 \in Int
      BY EmptySeq DEF Paths
    <2>2. Goes(r, [q EXCEPT !.pc = "update.depth", !.path = <<>>, !.level = 0])
      BY <1>3, StorageAssumption DEF UpdateParent, Live
    <2> QED BY <1>2, <2>1, <2>2
  <1>4. CASE q.to # NoStorage
    <2> DEFINE path == SubtreePrefix(q.to, storages[q.to])
               level == storages[q.to].level + 1
    <2>1. /\ Exists(storages, q.to)
          /\ Goes(r, [q EXCEPT !.pc = "update.depth", !.path = path, !.level = level])
      BY <1>4 DEF UpdateParent, Live, Exists
    <2>2. path \in Paths /\ level = Len(path) /\ level \in Int
      BY <2>1, LiveRow, LenProperties DEF Paths
    <2> HIDE DEF path, level
    <2> QED BY <1>2, <2>1, <2>2
  <1> QED BY <1>3, <1>4

LEMMA UpdateDepthLevel ==
  ASSUME LevelInv, NEW r \in StorageRequests, UpdateDepth(r)
  PROVE  LevelInv'
  <1> DEFINE q == storageReq[r]
             nq == [q EXCEPT !.pc = "update.write"]
  <1>1. q \in StorageRequest /\ RequestConsistent(q) /\ q.pc = "update.depth"
    BY DEF LevelInv, StoragesTypeOK, UpdateDepth
  <1>2. Goes(r, nq) /\ UNCHANGED tables
    BY DEF UpdateDepth
  <1> HIDE DEF q
  <1>3. nq \in StorageRequest /\ RequestConsistent(nq)
    BY <1>1 DEF StorageRequest, RequestConsistent, StoragePc
  <1> QED BY <1>2, <1>3, OnlyRequest

\* The heart of the matter: whatever has become of the rows since the handler
\* read them, moving a subtree keeps every level the length of its path.
LEMMA ReparentLevel ==
  ASSUME LevelInv, NEW q \in StorageRequest, RequestConsistent(q), Exists(storages, q.id),
         NEW moved, moved = Reparented(storages, q.id, q.snap, q.to, q.path, q.level)
  PROVE  /\ moved \in [StorageIds -> Row]
         /\ \A s \in StorageIds : moved[s].level = Len(moved[s].path)
  <1> DEFINE old == SubtreePrefix(q.id, q.snap)
             new == Append(q.path, q.id)
             shift == q.level - q.snap.level
             first == MovedRow(storages, q.id, q.to, q.path, q.level)
  <1>1. /\ q.id \in StorageIds /\ q.path \in Paths /\ q.level \in Int /\ q.to \in MaybeStorage
        /\ q.snap.path \in Paths /\ q.snap.level \in Int
        /\ q.level = Len(q.path) /\ q.snap.level = Len(q.snap.path)
    BY DEF StorageRequest, RequestConsistent, Exists
  <1>2. old \in Paths /\ new \in Paths /\ shift \in Int /\ shift = Len(new) - Len(old)
    <2>1. old \in Paths /\ Len(old) = q.snap.level + 1
      BY <1>1, PrefixExtended DEF SubtreePrefix
    <2>2. new \in Paths /\ Len(new) = q.level + 1
      BY <1>1, PrefixExtended
    <2> HIDE DEF old, new
    <2> QED BY <1>1, <2>1, <2>2
  <1>3. /\ first \in [StorageIds -> Row]
        /\ \A s \in StorageIds : first[s].level = Len(first[s].path)
    BY <1>1 DEF MovedRow, LevelInv, StoragesTypeOK, TablesType, LevelIsDepth, Row
  <1>4. moved = [s \in StorageIds |-> Reprefixed(first[s], old, new, shift)]
    BY DEF Reparented
  <1> HIDE DEF old, new, shift, first
  <1>5. ASSUME NEW s \in StorageIds
        PROVE  moved[s] \in Row /\ moved[s].level = Len(moved[s].path)
    <2>1. first[s] \in Row /\ first[s].level = Len(first[s].path)
      BY <1>3
    <2>2. moved[s] = Reprefixed(first[s], old, new, shift)
      BY <1>4
    <2> QED BY <1>2, <2>1, <2>2, Reprefix
  <1> QED BY <1>4, <1>5

LEMMA UpdateWriteLevel ==
  ASSUME LevelInv, NEW r \in StorageRequests, UpdateWrite(r)
  PROVE  LevelInv'
  <1> DEFINE q == storageReq[r]
             moved == IF q.move THEN Reparented(storages, q.id, q.snap, q.to, q.path, q.level)
                      ELSE storages
             follow(s) == IF s = q.id THEN q.newId ELSE s
  <1>1. /\ q \in StorageRequest /\ RequestConsistent(q) /\ Exists(storages, q.id)
        /\ q.newId \in MaybeStorage /\ Ends(r)
    BY DEF LevelInv, StoragesTypeOK, UpdateWrite, StorageRequest
  <1>2. /\ moved \in [StorageIds -> Row]
        /\ \A s \in StorageIds : moved[s].level = Len(moved[s].path)
    <2>1. CASE q.move
      BY <1>1, <2>1, ReparentLevel
    <2>2. CASE ~q.move
      BY <2>2 DEF LevelInv, StoragesTypeOK, TablesType, LevelIsDepth
    <2> QED BY <2>1, <2>2
  <1>3. CASE q.newId = NoStorage /\ storages' = moved /\ UNCHANGED <<items, movements>>
    <2> HIDE DEF moved
    <2>1. TablesType' /\ LevelIsDepth'
      BY <1>2, <1>3 DEF LevelInv, StoragesTypeOK, TablesType, LevelIsDepth
    <2> QED BY <1>1, <2>1, TablesWritten
  <1>4. CASE /\ q.newId # NoStorage
             /\ storages' = Renamed(moved, q.id, q.newId)
             /\ items' = [i \in ItemIds |-> [items[i] EXCEPT !.storageId = follow(@)]]
             /\ movements' = [i \in ItemIds |-> [from |-> follow(movements[i].from),
                                                 to |-> follow(movements[i].to)]]
    <2>1. q.id \in StorageIds /\ q.newId \in StorageIds
      BY <1>1, <1>4 DEF Exists, MaybeStorage
    <2>2. \A s \in MaybeStorage : follow(s) \in MaybeStorage
      BY <2>1 DEF MaybeStorage
    <2> HIDE DEF moved, follow
    <2>3. items' \in [ItemIds -> ItemRow]
      BY <1>4, <2>2 DEF LevelInv, StoragesTypeOK, TablesType, ItemRow
    <2>4. movements' \in [ItemIds -> Movement]
      BY <1>4, <2>2 DEF LevelInv, StoragesTypeOK, TablesType, Movement
    <2>5. /\ storages' \in [StorageIds -> Row]
          /\ \A s \in StorageIds : storages'[s].level = Len(storages'[s].path)
      <3> DEFINE table == [moved EXCEPT ![q.newId] = moved[q.id], ![q.id] = AbsentRow]
      <3>1. AbsentRow \in Row /\ AbsentRow.level = Len(AbsentRow.path)
        BY EmptySeq DEF AbsentRow, Row, Paths, MaybeStorage
      <3>2. /\ table \in [StorageIds -> Row]
            /\ \A s \in StorageIds : table[s].level = Len(table[s].path)
        BY <1>2, <2>1, <3>1
      <3>3. storages' = [d \in StorageIds |->
                           IF table[d].parentId = q.id THEN [table[d] EXCEPT !.parentId = q.newId]
                           ELSE table[d]]
        BY <1>4 DEF Renamed
      <3> HIDE DEF table
      <3> QED BY <2>1, <3>2, <3>3 DEF Row, MaybeStorage
    <2>6. TablesType' /\ LevelIsDepth'
      BY <2>3, <2>4, <2>5 DEF TablesType, LevelIsDepth
    <2> QED BY <1>1, <2>6, TablesWritten
  <1> QED BY <1>3, <1>4 DEF UpdateWrite

LEMMA RemoveBeginLevel ==
  ASSUME LevelInv, NEW r \in StorageRequests, NEW s \in StorageIds, RemoveBegin(r, s)
  PROVE  LevelInv'
  <1> DEFINE snap == Snapshot(storages[s])
             q == [StorageIdle EXCEPT !.pc = "remove.subtree", !.id = s, !.snap = snap]
  <1>1. snap \in [path : Paths, level : Int] /\ snap.level = Len(snap.path)
    BY DEF LevelInv, StoragesTypeOK, TablesType, LevelIsDepth, Snapshot, Row
  <1>2. Goes(r, q) /\ UNCHANGED tables
    BY DEF RemoveBegin
  <1> HIDE DEF snap
  <1>3. q \in StorageRequest /\ RequestConsistent(q)
    BY <1>1, IdleConsistent
    DEF StorageIdle, StorageRequest, RequestConsistent, MaybeStorage, StoragePc
  <1> QED BY <1>2, <1>3, OnlyRequest

LEMMA RemoveSubtreeLevel ==
  ASSUME LevelInv, NEW r \in StorageRequests, RemoveSubtree(r)
  PROVE  LevelInv'
  <1> DEFINE id == storageReq[r].id
             ids == {id} \cup LiveDescendants(storages, id, storageReq[r].snap)
             q == [StorageIdle EXCEPT !.pc = "remove.items", !.id = id, !.ids = ids]
  <1>1. id \in StorageIds /\ ids \in SUBSET StorageIds
    BY DEF LevelInv, RequestConsistent, RemoveSubtree, LiveDescendants, LiveIn
  <1>2. Goes(r, q) /\ UNCHANGED tables
    BY DEF RemoveSubtree
  <1> HIDE DEF id, ids
  <1>3. q \in StorageRequest /\ RequestConsistent(q)
    BY <1>1, IdleConsistent
    DEF StorageIdle, StorageRequest, RequestConsistent, MaybeStorage, StoragePc
  <1> QED BY <1>2, <1>3, OnlyRequest

LEMMA RemoveItemsLevel ==
  ASSUME LevelInv, NEW r \in StorageRequests, RemoveItems(r)
  PROVE  LevelInv'
  <1> DEFINE q == storageReq[r]
             held == {<<i, items[i].storageId>> : i \in ItemsIn(q.ids)}
             nq == [q EXCEPT !.pc = "remove.write", !.held = held]
  <1>1. q \in StorageRequest /\ RequestConsistent(q) /\ q.pc = "remove.items"
    BY DEF LevelInv, StoragesTypeOK, RemoveItems
  <1>2. held \in SUBSET (ItemIds \X StorageIds)
    BY <1>1 DEF StorageRequest, ItemsIn
  <1>3. Goes(r, nq) /\ UNCHANGED tables
    BY DEF RemoveItems
  <1> HIDE DEF q, held
  <1>4. nq \in StorageRequest /\ RequestConsistent(nq)
    BY <1>1, <1>2 DEF StorageRequest, RequestConsistent, StoragePc
  <1> QED BY <1>3, <1>4, OnlyRequest

LEMMA RemoveWriteLevel ==
  ASSUME LevelInv, NEW r \in StorageRequests, RemoveWrite(r)
  PROVE  LevelInv'
  <1> DEFINE q == storageReq[r]
             taken == {h[1] : h \in q.held}
             from(i) == (CHOOSE h \in q.held : h[1] = i)[2]
  <1>1. q.held \in SUBSET (ItemIds \X StorageIds)
    BY DEF LevelInv, StoragesTypeOK, StorageRequest
  <1>2. ASSUME NEW i \in taken PROVE from(i) \in MaybeStorage
    BY <1>1, <1>2 DEF MaybeStorage
  <1>3. movements' \in [ItemIds -> Movement]
    <2>1. movements' = [i \in ItemIds |-> IF i \in taken THEN [from |-> from(i), to |-> NoStorage]
                                          ELSE movements[i]]
      BY DEF RemoveWrite
    <2> HIDE DEF taken, from
    <2> QED BY <1>2, <2>1 DEF LevelInv, StoragesTypeOK, TablesType, Movement, MaybeStorage
  <1>4. items' \in [ItemIds -> ItemRow]
    <2>1. items' = [i \in ItemIds |-> IF i \in taken THEN [items[i] EXCEPT !.storageId = NoStorage]
                                      ELSE items[i]]
      BY DEF RemoveWrite
    <2> HIDE DEF taken
    <2> QED BY <2>1 DEF LevelInv, StoragesTypeOK, TablesType, ItemRow, MaybeStorage
  <1>5. /\ storages' \in [StorageIds -> Row]
        /\ \A s \in StorageIds : storages'[s].level = Len(storages'[s].path)
    <2>1. storages' = SoftDeleted(storages, q.ids)
      BY DEF RemoveWrite
    <2> QED BY <2>1 DEF SoftDeleted, LevelInv, StoragesTypeOK, TablesType, LevelIsDepth, Row
  <1>6. TablesType' /\ LevelIsDepth' /\ Ends(r)
    BY <1>3, <1>4, <1>5 DEF TablesType, LevelIsDepth, RemoveWrite
  <1> QED BY <1>6, TablesWritten

LEMMA StorageFailsLevel ==
  ASSUME LevelInv, NEW r \in StorageRequests, StorageFails(r)
  PROVE  LevelInv'
BY IdleConsistent, OnlyRequest DEF StorageFails, Ends

LEMMA InitLevel == StoragesInit => LevelInv
  <1>1. <<>> \in Paths /\ Len(<<>>) = 0
    BY EmptySeq DEF Paths
  <1>2. AbsentRow \in Row /\ AbsentRow.level = Len(AbsentRow.path)
    BY <1>1 DEF AbsentRow, Row, MaybeStorage
  <1>3. AbsentItem \in ItemRow
    BY TablesAssumption DEF AbsentItem, ItemRow, MaybeStorage
  <1>4. NoMovement \in Movement
    BY DEF NoMovement, Movement, MaybeStorage
  <1> QED
    BY <1>2, <1>3, <1>4, IdleConsistent
    DEF StoragesInit, TablesInit, LevelInv, StoragesTypeOK, TablesType, LevelIsDepth

LEMMA NextLevel == LevelInv /\ [StoragesNext]_storageVars => LevelInv'
  <1> SUFFICES ASSUME LevelInv, [StoragesNext]_storageVars PROVE LevelInv'
    OBVIOUS
  <1>1. CASE UNCHANGED storageVars
    BY <1>1 DEF storageVars, LevelInv, StoragesTypeOK, TablesType, LevelIsDepth
  <1>2. ASSUME NEW r \in StorageRequests, StorageArrives(r) PROVE LevelInv'
    BY <1>2, CreateBeginLevel, UpdateBeginLevel, RemoveBeginLevel DEF StorageArrives
  <1>3. ASSUME NEW r \in StorageRequests, StorageStep(r) PROVE LevelInv'
    BY <1>3, CreateInsertLevel, UpdateParentLevel, UpdateDepthLevel, UpdateWriteLevel,
       RemoveSubtreeLevel, RemoveItemsLevel, RemoveWriteLevel, StorageFailsLevel
    DEF StorageStep
  <1> QED BY <1>1, <1>2, <1>3 DEF StoragesNext

\* However many requests overlap, rows and requests keep level and path in step.
THEOREM LevelInvariant == StoragesSpec => []LevelInv
  BY InitLevel, NextLevel, PTL DEF StoragesSpec

\* The tables and the requests keep their types.
THEOREM StoragesTyped == StoragesSpec => []StoragesTypeOK
  <1>1. LevelInv => StoragesTypeOK
    BY DEF LevelInv
  <1> QED BY <1>1, LevelInvariant, PTL

\* However many requests overlap, and even when ids are patched, the level of
\* every row, live or deleted, is the length of its path.
THEOREM LevelIsAlwaysDepth == StoragesSpec => []LevelIsDepth
  <1>1. LevelInv => LevelIsDepth
    BY DEF LevelInv
  <1> QED BY <1>1, LevelInvariant, PTL

-----------------------------------------------------------------------------
(* Parents, under ParentInv.                                               *)

\* Every id of a path has a row in a table.
Resolves(path, table) == \A k \in 1 .. Len(path) : Exists(table, path[k])

LEMMA AncestorsOfPath ==
  ASSUME NEW row, row.path \in Paths, NEW table
  PROVE  (\A a \in AncestorIds(row) : Exists(table, a)) <=> Resolves(row.path, table)
  <1>1. DOMAIN row.path = 1 .. Len(row.path)
    BY LenProperties DEF Paths
  <1> QED BY <1>1 DEF AncestorIds, Resolves

LEMMA PrefixEnds ==
  ASSUME NEW path \in Paths, NEW s \in StorageIds, NEW table
  PROVE  /\ EndsAt(Append(path, s), s)
         /\ Resolves(path, table) /\ Exists(table, s) => Resolves(Append(path, s), table)
  <1>1. /\ Append(path, s) \in Paths /\ Len(path) \in Nat
        /\ Len(Append(path, s)) = Len(path) + 1
        /\ \A k \in 1 .. Len(path) : Append(path, s)[k] = path[k]
        /\ Append(path, s)[Len(path) + 1] = s
    BY AppendProperties, LenProperties DEF Paths
  <1>2. Append(path, s) # <<>>
    BY <1>1, EmptySeq DEF Paths
  <1>3. EndsAt(Append(path, s), s)
    BY <1>1, <1>2, StorageAssumption DEF EndsAt
  <1>4. ASSUME Resolves(path, table), Exists(table, s), NEW k \in 1 .. Len(path) + 1
        PROVE  Exists(table, Append(path, s)[k])
    BY <1>1, <1>4 DEF Resolves
  <1> QED BY <1>1, <1>3, <1>4 DEF Resolves

\* The raw UPDATE of a move of x keeps a row's path ending at its parent: the
\* old and the new prefix both end in x, and the rest is the row's own.
LEMMA ReprefixParent ==
  ASSUME NEW row \in Row, NEW from \in Paths, NEW to \in Paths, NEW x \in StorageIds,
         NEW shift \in Int, NEW table, NEW r,
         r = Reprefixed(row, Append(from, x), Append(to, x), shift),
         EndsAt(row.path, row.parentId), Resolves(row.path, table),
         Resolves(to, table), Exists(table, x)
  PROVE  EndsAt(r.path, r.parentId) /\ Resolves(r.path, table)
  <1> DEFINE old == Append(from, x)
             new == Append(to, x)
             p == row.path
             n == Len(p)
  <1>1. /\ old \in Paths /\ Len(old) \in Nat \ {0} /\ old[Len(old)] = x
        /\ new \in Paths /\ Len(new) \in Nat \ {0} /\ new[Len(new)] = x
        /\ Resolves(new, table)
    <2>1. Len(from) \in Nat /\ Len(to) \in Nat
      BY LenProperties DEF Paths
    <2> QED BY <2>1, AppendProperties, PrefixEnds DEF Paths
  <1>2. p \in Paths /\ n \in Nat
    BY LenProperties DEF Row, Paths
  <1> HIDE DEF old, new
  <1>3. CASE row.state # "absent" /\ UnderPrefix(old, row)
    <2> DEFINE tail == SubSeq(p, Len(old) + 1, n)
    <2>1. Len(old) <= n /\ SubSeq(old, 1, Len(old)) = SubSeq(p, 1, Len(old))
      BY <1>3 DEF UnderPrefix, IsPrefix
    <2>2. /\ tail \in Paths /\ Len(tail) = n - Len(old)
          /\ \A k \in 1 .. n - Len(old) : tail[k] = p[Len(old) + k]
      BY <1>1, <1>2, <2>1, SubSeqProperties DEF Paths
    <2>3. p[Len(old)] = x
      <3>1. SubSeq(old, 1, Len(old))[Len(old)] = old[Len(old)]
        BY <1>1, SubSeqProperties DEF Paths
      <3>2. SubSeq(p, 1, Len(old))[Len(old)] = p[Len(old)]
        BY <1>1, <1>2, <2>1, SubSeqProperties DEF Paths
      <3> QED BY <1>1, <2>1, <3>1, <3>2
    <2> HIDE DEF tail
    <2>4. /\ new \o tail \in Paths /\ Len(new \o tail) = Len(new) + Len(tail)
          /\ \A k \in 1 .. Len(new) + Len(tail) :
               (new \o tail)[k] = IF k <= Len(new) THEN new[k] ELSE tail[k - Len(new)]
      BY <1>1, <2>2, ConcatProperties DEF Paths
    <2>5. r.path = new \o tail /\ r.parentId = row.parentId
      BY <1>3 DEF Reprefixed, tail, old, new
    <2>6. row.parentId # NoStorage /\ row.parentId = p[n]
      <3>1. n # 0
        BY <1>1, <2>1
      <3>2. p # <<>>
        BY <3>1, <1>2, EmptySeq
      <3> QED BY <3>2 DEF EndsAt
    <2>7. (new \o tail)[Len(new \o tail)] = p[n]
      <3>1. CASE n = Len(old)
        BY <3>1, <1>1, <2>2, <2>3, <2>4
      <3>2. CASE n > Len(old)
        <4>1. /\ Len(tail) \in 1 .. n - Len(old) /\ Len(new) + Len(tail) \in 1 .. Len(new) + Len(tail)
              /\ ~(Len(new) + Len(tail) <= Len(new))
              /\ (Len(new) + Len(tail)) - Len(new) = Len(tail)
              /\ Len(old) + Len(tail) = n
          BY <3>2, <1>1, <1>2, <2>2
        <4>2. (new \o tail)[Len(new) + Len(tail)] = tail[Len(tail)]
          BY <4>1, <2>4
        <4>3. tail[Len(tail)] = p[n]
          BY <4>1, <2>2
        <4> QED BY <4>2, <4>3, <2>4
      <3> QED BY <3>1, <3>2, <2>1, <1>1, <1>2
    <2>8. new \o tail # <<>>
      BY <1>1, <2>1, <2>2, <2>4, EmptySeq, <1>2
    <2>9. ASSUME NEW k \in 1 .. Len(new) + Len(tail)
          PROVE  Exists(table, (new \o tail)[k])
      <3>1. CASE k <= Len(new)
        BY <3>1, <2>4, <1>1 DEF Resolves
      <3>2. CASE k > Len(new)
        <4>1. k - Len(new) \in 1 .. n - Len(old)
          BY <3>2, <1>1, <1>2, <2>1, <2>2
        <4>2. (new \o tail)[k] = p[Len(old) + (k - Len(new))]
          BY <4>1, <3>2, <2>2, <2>4, <1>1
        <4>3. Len(old) + (k - Len(new)) \in 1 .. n
          BY <4>1, <1>1, <1>2, <2>1
        <4> QED BY <4>2, <4>3 DEF Resolves
      <3> QED BY <3>1, <3>2, <1>1
    <2> QED BY <2>4, <2>5, <2>6, <2>7, <2>8, <2>9 DEF EndsAt, Resolves
  <1>4. CASE ~(row.state # "absent" /\ UnderPrefix(old, row))
    BY <1>4 DEF Reprefixed, old
  <1> QED BY <1>3, <1>4

-----------------------------------------------------------------------------
\* Rows never vanish while ids are not patched, so a path that resolves goes on
\* resolving.
LEMMA ResolvesForever ==
  ASSUME NEW path, NEW table, NEW later, Resolves(path, table),
         \A s \in StorageIds : Exists(table, s) => Exists(later, s)
  PROVE  Resolves(path, later)
BY DEF Resolves, Exists

LEMMA ParentFacts ==
  ASSUME ParentInv, NEW s, Exists(storages, s)
  PROVE  /\ Resolves(storages[s].path, storages)
         /\ EndsAt(SubtreePrefix(s, storages[s]), s)
         /\ Resolves(SubtreePrefix(s, storages[s]), storages)
  <1>1. s \in StorageIds /\ storages[s].path \in Paths
    BY LiveRow DEF ParentInv
  <1>2. Resolves(storages[s].path, storages)
    BY <1>1, AncestorsOfPath DEF ParentInv, BreadcrumbsResolve
  <1> QED BY <1>1, <1>2, PrefixEnds DEF SubtreePrefix

\* A request about to write a path, as RequestParented has it.
LEMMA RequestFacts ==
  ASSUME ParentInv, NEW r \in StorageRequests,
         \/ storageReq[r].pc \in {"create.insert", "update.depth"}
         \/ storageReq[r].pc = "update.write" /\ storageReq[r].move
  PROVE  /\ storageReq[r].path \in Paths
         /\ EndsAt(storageReq[r].path, storageReq[r].to)
         /\ Resolves(storageReq[r].path, storages)
  <1>1. storageReq[r].path \in Paths
    BY DEF ParentInv, LevelInv, StoragesTypeOK, StorageRequest
  <1>2. /\ EndsAt(storageReq[r].path, storageReq[r].to)
        /\ \A a \in AncestorIds(storageReq[r]) : Exists(storages, a)
    BY DEF ParentInv, RequestParented
  <1> QED BY <1>1, <1>2, AncestorsOfPath

\* A step that only replaces the record of one request.
LEMMA OnlyRequestParent ==
  ASSUME ParentInv, LevelInv', NEW r \in StorageRequests, NEW q,
         RequestParented(q), Goes(r, q), UNCHANGED tables
  PROVE  ParentInv'
  <1>1. \A p \in StorageRequests :
          storageReq'[p] = IF p = r THEN q ELSE storageReq[p]
    BY DEF Goes, ParentInv, LevelInv, StoragesTypeOK
  <1>2. storages' = storages
    BY DEF tables
  <1>3. \A p \in StorageRequests : RequestParented(storageReq'[p])
    BY <1>1 DEF ParentInv
  <1> QED
    BY <1>2, <1>3 DEF ParentInv, PathEndsAtParent, BreadcrumbsResolve, RequestParented

LEMMA IdleParented == RequestParented(StorageIdle)
BY DEF RequestParented, StorageIdle

\* A step that ends a request and rewrites the tables without losing a row.
LEMMA TablesWrittenParent ==
  ASSUME ParentInv, LevelInv', NEW r \in StorageRequests, Ends(r),
         \A s \in StorageIds : Exists(storages, s) => Exists(storages', s),
         \A s \in StorageIds :
           /\ EndsAt(storages'[s].path, storages'[s].parentId)
           /\ Resolves(storages'[s].path, storages')
  PROVE  ParentInv'
  <1>1. PathEndsAtParent'
    BY DEF PathEndsAtParent
  <1>2. BreadcrumbsResolve'
    <2> SUFFICES ASSUME NEW s \in StorageIds
                 PROVE  \A a \in AncestorIds(storages'[s]) : Exists(storages', a)
      BY DEF BreadcrumbsResolve
    <2>1. storages'[s].path \in Paths
      BY DEF LevelInv, StoragesTypeOK, TablesType, Row
    <2> QED BY <2>1, AncestorsOfPath
  <1>3. ASSUME NEW p \in StorageRequests PROVE RequestParented(storageReq[p])'
    <2>1. storageReq'[p] = IF p = r THEN StorageIdle ELSE storageReq[p]
      BY DEF Ends, Goes, ParentInv, LevelInv, StoragesTypeOK
    <2>2. RequestParented(storageReq[p])
      BY DEF ParentInv
    <2>3. \A a : Exists(storages, a) => Exists(storages', a)
      BY DEF Exists
    <2> QED BY <2>1, <2>2, <2>3, IdleParented DEF RequestParented, StorageIdle
  <1> QED BY <1>1, <1>2, <1>3 DEF ParentInv

-----------------------------------------------------------------------------
LEMMA CreateBeginParent ==
  ASSUME ParentInv, LevelInv', NEW r \in StorageRequests, NEW s \in StorageIds,
         NEW parent \in MaybeStorage, CreateBegin(r, s, parent)
  PROVE  ParentInv'
  <1>1. CASE parent = NoStorage /\ Goes(r, [StorageIdle EXCEPT !.pc = "create.insert", !.id = s])
    <2> DEFINE q == [StorageIdle EXCEPT !.pc = "create.insert", !.id = s]
    <2>1. q.newId = NoStorage /\ q.path = <<>> /\ q.to = NoStorage
      BY DEF StorageIdle
    <2>2. AncestorIds(q) = {}
      BY <2>1 DEF AncestorIds
    <2>3. RequestParented(q)
      BY <2>1, <2>2 DEF RequestParented, EndsAt
    <2> QED BY <1>1, <2>3, OnlyRequestParent DEF CreateBegin
  <1>2. CASE /\ Live(storages, parent)
             /\ Goes(r, [StorageIdle EXCEPT !.pc = "create.insert", !.id = s, !.to = parent,
                           !.path = SubtreePrefix(parent, storages[parent]),
                           !.level = storages[parent].level + 1])
    <2> DEFINE q == [StorageIdle EXCEPT !.pc = "create.insert", !.id = s, !.to = parent,
                       !.path = SubtreePrefix(parent, storages[parent]),
                       !.level = storages[parent].level + 1]
    <2>1. Exists(storages, parent)
      BY <1>2 DEF Live, Exists
    <2>2. q.newId = NoStorage /\ q.path = SubtreePrefix(parent, storages[parent]) /\ q.to = parent
      BY DEF StorageIdle
    <2>3. q.path \in Paths /\ EndsAt(q.path, q.to) /\ Resolves(q.path, storages)
      BY <2>1, <2>2, ParentFacts, LiveRow DEF ParentInv
    <2>4. RequestParented(q)
      BY <2>2, <2>3, AncestorsOfPath DEF RequestParented
    <2> QED BY <1>2, <2>4, OnlyRequestParent DEF CreateBegin
  <1> QED BY <1>1, <1>2 DEF CreateBegin

LEMMA CreateInsertParent ==
  ASSUME ParentInv, LevelInv', NEW r \in StorageRequests, CreateInsert(r)
  PROVE  ParentInv'
  <1> DEFINE q == storageReq[r]
             row == [state |-> "live", parentId |-> q.to, path |-> q.path, level |-> q.level]
  <1>1. EndsAt(q.path, q.to) /\ Resolves(q.path, storages)
    BY RequestFacts DEF CreateInsert
  <1>2. storages' = [storages EXCEPT ![q.id] = row] /\ Ends(r)
    BY DEF CreateInsert
  <1>3. row.path = q.path /\ row.parentId = q.to /\ row.state # "absent"
    OBVIOUS
  <1> HIDE DEF q, row
  <1>4. \A s \in StorageIds : storages'[s] = IF s = q.id THEN row ELSE storages[s]
    BY <1>2 DEF ParentInv, LevelInv, StoragesTypeOK, TablesType
  <1>5. \A s \in StorageIds : Exists(storages, s) => Exists(storages', s)
    BY <1>3, <1>4 DEF Exists
  <1>6. ASSUME NEW s \in StorageIds
        PROVE  EndsAt(storages'[s].path, storages'[s].parentId) /\ Resolves(storages'[s].path, storages')
    <2>1. CASE s = q.id
      BY <2>1, <1>1, <1>3, <1>4, <1>5, ResolvesForever
    <2>2. CASE s # q.id
      <3>1. storages[s].path \in Paths
        BY DEF ParentInv, LevelInv, StoragesTypeOK, TablesType, Row
      <3>2. EndsAt(storages[s].path, storages[s].parentId) /\ Resolves(storages[s].path, storages)
        BY <3>1, AncestorsOfPath DEF ParentInv, PathEndsAtParent, BreadcrumbsResolve
      <3> QED BY <2>2, <3>2, <1>4, <1>5, ResolvesForever
    <2> QED BY <2>1, <2>2
  <1> QED BY <1>2, <1>5, <1>6, TablesWrittenParent

LEMMA UpdateBeginParent ==
  ASSUME PatchIds = FALSE, ParentInv, LevelInv', NEW r \in StorageRequests, NEW s \in StorageIds,
         NEW to \in MaybeStorage, NEW newId \in MaybeStorage, UpdateBegin(r, s, to, newId)
  PROVE  ParentInv'
  <1> DEFINE isMove == to # storages[s].parentId
             pc == IF isMove THEN "update.parent" ELSE "update.write"
             q == [StorageIdle EXCEPT !.pc = pc, !.id = s, !.snap = Snapshot(storages[s]),
                     !.to = to, !.move = isMove, !.newId = newId]
  <1>1. q.newId = NoStorage
    BY DEF UpdateBegin, StorageIdle
  <1>2. q.pc = pc /\ q.move = isMove
    BY DEF StorageIdle
  <1>3. Goes(r, q) /\ UNCHANGED tables
    BY DEF UpdateBegin
  <1> HIDE DEF q
  <1>4. q.pc = "update.parent" \/ (q.pc = "update.write" /\ ~q.move)
    BY <1>2
  <1> HIDE DEF pc, isMove
  <1>5. RequestParented(q)
    BY <1>1, <1>4 DEF RequestParented
  <1> QED BY <1>3, <1>5, OnlyRequestParent

LEMMA UpdateParentParent ==
  ASSUME ParentInv, LevelInv', NEW r \in StorageRequests, UpdateParent(r)
  PROVE  ParentInv'
  <1> DEFINE q == storageReq[r]
  <1>1. q \in StorageRequest /\ q.newId = NoStorage
    BY DEF ParentInv, RequestParented, LevelInv, StoragesTypeOK
  <1>2. ASSUME NEW path \in Paths, NEW level, EndsAt(path, q.to), Resolves(path, storages),
               Goes(r, [q EXCEPT !.pc = "update.depth", !.path = path, !.level = level])
        PROVE  ParentInv'
    <2> DEFINE nq == [q EXCEPT !.pc = "update.depth", !.path = path, !.level = level]
    <2>1. nq.newId = NoStorage /\ nq.path = path /\ nq.to = q.to
      BY <1>1 DEF StorageRequest
    <2>2. RequestParented(nq)
      BY <1>2, <2>1, AncestorsOfPath DEF RequestParented
    <2> QED BY <1>2, <2>2, OnlyRequestParent DEF UpdateParent
  <1>3. CASE q.to = NoStorage
    <2>1. /\ <<>> \in Paths /\ EndsAt(<<>>, q.to) /\ Resolves(<<>>, storages)
          /\ Goes(r, [q EXCEPT !.pc = "update.depth", !.path = <<>>, !.level = 0])
      BY <1>3, EmptySeq, StorageAssumption DEF Paths, EndsAt, Resolves, UpdateParent, Live
    <2> QED BY <1>2, <2>1
  <1>4. CASE q.to # NoStorage
    <2> DEFINE path == SubtreePrefix(q.to, storages[q.to])
    <2>1. /\ Exists(storages, q.to)
          /\ Goes(r, [q EXCEPT !.pc = "update.depth", !.path = path,
                        !.level = storages[q.to].level + 1])
      BY <1>4 DEF UpdateParent, Live, Exists
    <2>2. path \in Paths /\ EndsAt(path, q.to) /\ Resolves(path, storages)
      BY <2>1, ParentFacts, LiveRow DEF ParentInv
    <2> HIDE DEF path
    <2> QED BY <1>2, <2>1, <2>2
  <1> QED BY <1>3, <1>4

LEMMA UpdateDepthParent ==
  ASSUME ParentInv, LevelInv', NEW r \in StorageRequests, UpdateDepth(r)
  PROVE  ParentInv'
  <1> DEFINE q == storageReq[r]
             nq == [q EXCEPT !.pc = "update.write"]
  <1>1. q \in StorageRequest /\ q.newId = NoStorage
    BY DEF ParentInv, RequestParented, LevelInv, StoragesTypeOK
  <1>2. q.path \in Paths /\ EndsAt(q.path, q.to) /\ Resolves(q.path, storages)
    BY RequestFacts DEF UpdateDepth
  <1>3. nq.newId = NoStorage /\ nq.path = q.path /\ nq.to = q.to
    BY <1>1 DEF StorageRequest
  <1>4. RequestParented(nq)
    BY <1>2, <1>3, AncestorsOfPath DEF RequestParented
  <1> QED BY <1>4, OnlyRequestParent DEF UpdateDepth

LEMMA UpdateWriteParent ==
  ASSUME ParentInv, LevelInv', NEW r \in StorageRequests, UpdateWrite(r)
  PROVE  ParentInv'
  <1> DEFINE q == storageReq[r]
             moved == IF q.move THEN Reparented(storages, q.id, q.snap, q.to, q.path, q.level)
                      ELSE storages
  <1>1. /\ q \in StorageRequest /\ q.newId = NoStorage /\ q.id \in StorageIds
        /\ Exists(storages, q.id) /\ Ends(r) /\ storages' = moved
    BY DEF UpdateWrite, ParentInv, RequestParented, LevelInv, StoragesTypeOK, Exists
  <1>2. ASSUME NEW s \in StorageIds
        PROVE  /\ storages[s] \in Row /\ storages[s].path \in Paths
               /\ EndsAt(storages[s].path, storages[s].parentId)
               /\ Resolves(storages[s].path, storages)
    <2>1. storages[s] \in Row /\ storages[s].path \in Paths
      BY DEF ParentInv, LevelInv, StoragesTypeOK, TablesType, Row
    <2> QED BY <2>1, AncestorsOfPath DEF ParentInv, PathEndsAtParent, BreadcrumbsResolve
  <1>3. CASE ~q.move
    <2>1. storages' = storages
      BY <1>1, <1>3
    <2> QED BY <1>1, <1>2, <2>1, TablesWrittenParent
  <1>4. CASE q.move
    <2> DEFINE old == Append(q.snap.path, q.id)
               new == Append(q.path, q.id)
               shift == q.level - q.snap.level
               first == MovedRow(storages, q.id, q.to, q.path, q.level)
    <2>1. /\ q.path \in Paths /\ EndsAt(q.path, q.to) /\ Resolves(q.path, storages)
          /\ q.snap.path \in Paths /\ shift \in Int /\ q.to \in MaybeStorage /\ q.level \in Int
      BY <1>1, <1>4, RequestFacts DEF UpdateWrite, StorageRequest
    <2>2. storages' = [s \in StorageIds |-> Reprefixed(first[s], old, new, shift)]
      BY <1>1, <1>4 DEF Reparented, SubtreePrefix
    <2>3. ASSUME NEW s \in StorageIds
          PROVE  /\ first[s] \in Row /\ first[s].state = storages[s].state
                 /\ EndsAt(first[s].path, first[s].parentId)
                 /\ Resolves(first[s].path, storages)
      <3>1. storages \in [StorageIds -> Row]
        BY DEF ParentInv, LevelInv, StoragesTypeOK, TablesType
      <3>2. first[s] = IF s = q.id
                       THEN [state |-> storages[s].state, parentId |-> q.to,
                             path |-> q.path, level |-> q.level]
                       ELSE storages[s]
        BY <3>1 DEF MovedRow
      <3> HIDE DEF first
      <3>3. CASE s = q.id
        BY <1>2, <2>1, <3>2, <3>3 DEF Row
      <3>4. CASE s # q.id
        BY <1>2, <3>2, <3>4
      <3> QED BY <3>3, <3>4
    <2> HIDE DEF first, shift
    <2>4. ASSUME NEW s \in StorageIds
          PROVE  /\ EndsAt(storages'[s].path, storages'[s].parentId)
                 /\ Resolves(storages'[s].path, storages)
      <3>1. storages'[s] = Reprefixed(first[s], old, new, shift)
        BY <2>2
      <3> QED BY <1>1, <2>1, <2>3, <3>1, ReprefixParent
    <2>5. ASSUME NEW s \in StorageIds PROVE Exists(storages, s) => Exists(storages', s)
      <3>1. storages'[s] = Reprefixed(first[s], old, new, shift)
        BY <2>2
      <3>2. old \in Paths /\ new \in Paths
        BY <1>1, <2>1, PrefixExtended
      <3> HIDE DEF old, new
      <3>3. storages'[s].state = first[s].state
        BY <2>3, <3>1 DEF Reprefixed
      <3> QED BY <2>3, <3>3 DEF Exists
    <2> QED BY <1>1, <2>4, <2>5, ResolvesForever, TablesWrittenParent
  <1> QED BY <1>3, <1>4

LEMMA RemoveBeginParent ==
  ASSUME ParentInv, LevelInv', NEW r \in StorageRequests, NEW s \in StorageIds, RemoveBegin(r, s)
  PROVE  ParentInv'
  <1> DEFINE q == [StorageIdle EXCEPT !.pc = "remove.subtree", !.id = s,
                     !.snap = Snapshot(storages[s])]
  <1>1. q.newId = NoStorage /\ q.pc = "remove.subtree"
    BY DEF StorageIdle
  <1>2. RequestParented(q)
    BY <1>1 DEF RequestParented
  <1> QED BY <1>2, OnlyRequestParent DEF RemoveBegin

LEMMA RemoveSubtreeParent ==
  ASSUME ParentInv, LevelInv', NEW r \in StorageRequests, RemoveSubtree(r)
  PROVE  ParentInv'
  <1> DEFINE id == storageReq[r].id
             q == [StorageIdle EXCEPT !.pc = "remove.items", !.id = id,
                     !.ids = {id} \cup LiveDescendants(storages, id, storageReq[r].snap)]
  <1>1. q.newId = NoStorage /\ q.pc = "remove.items"
    BY DEF StorageIdle
  <1>2. RequestParented(q)
    BY <1>1 DEF RequestParented
  <1> QED BY <1>2, OnlyRequestParent DEF RemoveSubtree

LEMMA RemoveItemsParent ==
  ASSUME ParentInv, LevelInv', NEW r \in StorageRequests, RemoveItems(r)
  PROVE  ParentInv'
  <1> DEFINE q == storageReq[r]
             nq == [q EXCEPT !.pc = "remove.write",
                      !.held = {<<i, items[i].storageId>> : i \in ItemsIn(q.ids)}]
  <1>1. q \in StorageRequest /\ q.newId = NoStorage
    BY DEF ParentInv, RequestParented, LevelInv, StoragesTypeOK
  <1>2. nq.newId = NoStorage /\ nq.pc = "remove.write"
    BY <1>1 DEF StorageRequest
  <1>3. RequestParented(nq)
    BY <1>2 DEF RequestParented
  <1> QED BY <1>3, OnlyRequestParent DEF RemoveItems

LEMMA RemoveWriteParent ==
  ASSUME ParentInv, LevelInv', NEW r \in StorageRequests, RemoveWrite(r)
  PROVE  ParentInv'
  <1>1. storages' = SoftDeleted(storages, storageReq[r].ids) /\ Ends(r)
    BY DEF RemoveWrite
  <1>2. ASSUME NEW s \in StorageIds
        PROVE  /\ storages'[s].path = storages[s].path
               /\ storages'[s].parentId = storages[s].parentId
               /\ Exists(storages, s) => Exists(storages', s)
               /\ EndsAt(storages[s].path, storages[s].parentId)
               /\ Resolves(storages[s].path, storages)
    <2>1. storages[s] \in Row /\ storages[s].path \in Paths
      BY DEF ParentInv, LevelInv, StoragesTypeOK, TablesType, Row
    <2>2. EndsAt(storages[s].path, storages[s].parentId) /\ Resolves(storages[s].path, storages)
      BY <2>1, AncestorsOfPath DEF ParentInv, PathEndsAtParent, BreadcrumbsResolve
    <2> QED BY <1>1, <2>1, <2>2 DEF SoftDeleted, Exists, Row
  <1> QED BY <1>1, <1>2, ResolvesForever, TablesWrittenParent

LEMMA InitParent == StoragesInit => ParentInv
  <1> SUFFICES ASSUME StoragesInit PROVE ParentInv
    OBVIOUS
  <1>1. LevelInv
    BY InitLevel
  <1>2. PathEndsAtParent /\ BreadcrumbsResolve
    BY DEF StoragesInit, TablesInit, AbsentRow, PathEndsAtParent, EndsAt, BreadcrumbsResolve,
           AncestorIds
  <1> QED BY <1>1, <1>2, IdleParented DEF StoragesInit, ParentInv

LEMMA NextParent ==
  ASSUME PatchIds = FALSE
  PROVE  ParentInv /\ [StoragesNext]_storageVars => ParentInv'
  <1> SUFFICES ASSUME ParentInv, [StoragesNext]_storageVars PROVE ParentInv'
    OBVIOUS
  <1>1. LevelInv'
    BY NextLevel DEF ParentInv
  <1>2. CASE UNCHANGED storageVars
    BY <1>1, <1>2
    DEF storageVars, ParentInv, PathEndsAtParent, BreadcrumbsResolve, RequestParented
  <1>3. ASSUME NEW r \in StorageRequests, StorageArrives(r) PROVE ParentInv'
    BY <1>1, <1>3, CreateBeginParent, UpdateBeginParent, RemoveBeginParent DEF StorageArrives
  <1>4. ASSUME NEW r \in StorageRequests, StorageStep(r) PROVE ParentInv'
    <2>1. CASE StorageFails(r)
      BY <1>1, <2>1, IdleParented, OnlyRequestParent DEF StorageFails, Ends
    <2> QED
      BY <1>1, <1>4, <2>1, CreateInsertParent, UpdateParentParent, UpdateDepthParent,
         UpdateWriteParent, RemoveSubtreeParent, RemoveItemsParent, RemoveWriteParent
      DEF StorageStep
  <1> QED BY <1>2, <1>3, <1>4 DEF StoragesNext

\* While clients patch no ids, a row, or a request about to write one, has a path
\* that ends at the parent and names rows only.
THEOREM ParentInvariant ==
  ASSUME PatchIds = FALSE
  PROVE  StoragesSpec => []ParentInv
  <1>1. StoragesInit => ParentInv
    BY InitParent
  <1>2. ParentInv /\ [StoragesNext]_storageVars => ParentInv'
    BY NextParent
  <1> QED BY <1>1, <1>2, PTL DEF StoragesSpec

\* While clients patch no ids, the path of every row ends at the row's parent,
\* however many requests overlap and whichever of them fail.
THEOREM PathAlwaysEndsAtParent ==
  ASSUME PatchIds = FALSE
  PROVE  StoragesSpec => []PathEndsAtParent
  <1>1. ParentInv => PathEndsAtParent
    BY DEF ParentInv
  <1> QED BY <1>1, ParentInvariant, PTL

\* While clients patch no ids, every ancestor a breadcrumb looks up has a row.
THEOREM BreadcrumbsAlwaysResolve ==
  ASSUME PatchIds = FALSE
  PROVE  StoragesSpec => []BreadcrumbsResolve
  <1>1. ParentInv => BreadcrumbsResolve
    BY DEF ParentInv
  <1> QED BY <1>1, ParentInvariant, PTL

-----------------------------------------------------------------------------
(* Ancestry, under AncestryInv.                                            *)

-----------------------------------------------------------------------------
(* Paths.                                                                  *)

LEMMA LeastNumber ==
  ASSUME NEW S \in SUBSET Nat, S # {}
  PROVE  \E x \in S : \A y \in S : x <= y
  <1>1. PICK x \in S : \A y \in S : ~(<<y, x>> \in OpToRel(<, Nat))
    BY NatLessThanWellFounded, WFMin
  <1>2. \A y \in Nat : y < x => <<y, x>> \in OpToRel(<, Nat)
    BY DEF OpToRel
  <1>3. \A y \in S : ~(y < x)
    BY <1>1, <1>2
  <1> QED BY <1>3

LEMMA GreatestNumber ==
  ASSUME NEW S \in SUBSET Nat, S # {}, NEW n \in Nat, \A x \in S : x <= n
  PROVE  Max(S) \in S /\ \A x \in S : x <= Max(S)
  <1> DEFINE B == {b \in Nat : \A x \in S : x <= b}
  <1>1. PICK m \in B : \A b \in B : m <= b
    <2>1. n \in B /\ B \in SUBSET Nat
      OBVIOUS
    <2> HIDE DEF B
    <2> QED BY <2>1, LeastNumber
  <1>2. m \in S
    <2>1. CASE m = 0
      <3>1. PICK x \in S : TRUE
        OBVIOUS
      <3>2. x = 0
        BY <1>1, <2>1
      <3> QED BY <2>1, <3>2
    <2>2. CASE m # 0 /\ m \notin S
      <3>1. m - 1 \in B
        BY <1>1, <2>2
      <3> QED BY <1>1, <3>1
    <2> QED BY <2>1, <2>2
  <1>3. \E x \in S : \A y \in S : x >= y
    BY <1>1, <1>2
  <1> QED BY <1>3 DEF Max

\* Two paths are the same when they agree at every position.
LEMMA SamePath ==
  ASSUME NEW p \in Paths, NEW q \in Paths, Len(p) = Len(q),
         \A k \in 1 .. Len(p) : p[k] = q[k]
  PROVE  p = q
BY SeqEqual, LenProperties DEF Paths

\* IsPrefix, position by position.
LEMMA PrefixPositions ==
  ASSUME NEW p \in Paths, NEW q \in Paths
  PROVE  IsPrefix(p, q) <=> Len(p) <= Len(q) /\ \A k \in 1 .. Len(p) : p[k] = q[k]
  <1>1. Len(p) \in Nat /\ Len(q) \in Nat
    BY LenProperties DEF Paths
  <1>2. ASSUME Len(p) <= Len(q)
        PROVE  SubSeq(p, 1, Len(p)) = SubSeq(q, 1, Len(p))
               <=> \A k \in 1 .. Len(p) : p[k] = q[k]
    <2> DEFINE a == SubSeq(p, 1, Len(p))
               b == SubSeq(q, 1, Len(p))
    <2>1. /\ a \in Paths /\ Len(a) = Len(p) /\ \A k \in 1 .. Len(p) : a[k] = p[k]
          /\ b \in Paths /\ Len(b) = Len(p) /\ \A k \in 1 .. Len(p) : b[k] = q[k]
      BY <1>1, <1>2, SubSeqProperties DEF Paths
    <2> HIDE DEF a, b
    <2> QED BY <2>1, SamePath
  <1> QED BY <1>1, <1>2 DEF IsPrefix

\* Append, position by position.
LEMMA AppendPositions ==
  ASSUME NEW p \in Paths, NEW s \in StorageIds
  PROVE  /\ Append(p, s) \in Paths
         /\ Len(p) \in Nat /\ Len(Append(p, s)) = Len(p) + 1
         /\ \A k \in 1 .. Len(p) : Append(p, s)[k] = p[k]
         /\ Append(p, s)[Len(p) + 1] = s
BY AppendProperties, LenProperties DEF Paths

\* path is p with its part that reads `from' replaced by `to'.
Regrafted(p, from, to, path) ==
  /\ Len(path) = (Len(p) - Len(from)) + Len(to)
  /\ \A k \in 1 .. Len(to) : path[k] = to[k]
  /\ \A k \in Len(from) + 1 .. Len(p) : path[(k - Len(from)) + Len(to)] = p[k]

\* The path that a move from under `from' to under `to' gives the rows below x.
LEMMA ReprefixPath ==
  ASSUME NEW p \in Paths, NEW from \in Paths, NEW to \in Paths, NEW x \in StorageIds,
         IsPrefix(Append(from, x), p)
  PROVE  Regrafted(p, from, to, Append(to, x) \o SubSeq(p, Len(Append(from, x)) + 1, Len(p)))
  <1> DEFINE old == Append(from, x)
             new == Append(to, x)
             tail == SubSeq(p, Len(old) + 1, Len(p))
             path == new \o tail
  <1>1. Len(p) \in Nat /\ Len(from) \in Nat /\ Len(to) \in Nat
    BY LenProperties DEF Paths
  <1>2. /\ old \in Paths /\ Len(old) = Len(from) + 1 /\ old[Len(from) + 1] = x
        /\ new \in Paths /\ Len(new) = Len(to) + 1 /\ new[Len(to) + 1] = x
        /\ \A k \in 1 .. Len(to) : new[k] = to[k]
    BY AppendPositions
  <1>3. IsPrefix(old, p)
    OBVIOUS
  <1> HIDE DEF old, new
  <1>4. Len(from) + 1 <= Len(p) /\ p[Len(from) + 1] = x
    BY <1>1, <1>2, <1>3, PrefixPositions
  <1>5. /\ tail \in Paths /\ Len(tail) = Len(p) - (Len(from) + 1)
        /\ \A k \in 1 .. Len(p) - (Len(from) + 1) : tail[k] = p[(Len(from) + 1) + k]
    BY <1>1, <1>2, <1>4, SubSeqProperties DEF Paths
  <1> HIDE DEF tail
  <1>6. /\ Len(path) = (Len(p) - Len(from)) + Len(to)
        /\ \A k \in 1 .. (Len(p) - Len(from)) + Len(to) :
             path[k] = IF k <= Len(to) + 1 THEN new[k] ELSE tail[k - (Len(to) + 1)]
    <2>1. Len(new) + Len(tail) = (Len(p) - Len(from)) + Len(to)
      BY <1>1, <1>2, <1>5
    <2>2. new \in Paths /\ tail \in Paths
      BY <1>2, <1>5
    <2>3. /\ Len(path) = Len(new) + Len(tail)
          /\ \A k \in 1 .. Len(new) + Len(tail) :
               path[k] = IF k <= Len(new) THEN new[k] ELSE tail[k - Len(new)]
      BY <2>2, ConcatProperties DEF Paths
    <2> HIDE DEF path
    <2> QED BY <1>2, <2>1, <2>3
  <1> HIDE DEF path
  <1>7. \A k \in 1 .. Len(to) : path[k] = to[k]
    BY <1>1, <1>2, <1>4, <1>6
  <1>8. ASSUME NEW k \in Len(from) + 1 .. Len(p)
        PROVE  path[(k - Len(from)) + Len(to)] = p[k]
    <2>1. (k - Len(from)) + Len(to) \in 1 .. (Len(p) - Len(from)) + Len(to)
      BY <1>1
    <2>2. CASE k = Len(from) + 1
      BY <1>1, <1>2, <1>4, <1>6, <2>1, <2>2
    <2>3. CASE k > Len(from) + 1
      <3>1. path[(k - Len(from)) + Len(to)] = tail[k - (Len(from) + 1)]
        BY <1>1, <1>6, <2>1, <2>3
      <3>2. k - (Len(from) + 1) \in 1 .. Len(p) - (Len(from) + 1)
        BY <1>1, <2>3
      <3> QED BY <1>1, <1>5, <3>1, <3>2
    <2> QED BY <1>1, <2>2, <2>3
  <1>9. path = Append(to, x) \o SubSeq(p, Len(Append(from, x)) + 1, Len(p))
    BY DEF path, new, tail, old
  <1>10. \A k \in Len(from) + 1 .. Len(p) : path[(k - Len(from)) + Len(to)] = p[k]
    BY <1>8
  <1>11. Regrafted(p, from, to, path)
    BY <1>6, <1>7, <1>10 DEF Regrafted
  <1> QED BY <1>9, <1>11

\* The same of the row that the second statement of a move writes.
LEMMA ReprefixPositions ==
  ASSUME NEW row \in Row, NEW from \in Paths, NEW to \in Paths, NEW x \in StorageIds, NEW shift
  PROVE  LET r == Reprefixed(row, Append(from, x), Append(to, x), shift) IN
         /\ r.state = row.state /\ r.parentId = row.parentId
         /\ IF row.state # "absent" /\ UnderPrefix(Append(from, x), row)
            THEN Regrafted(row.path, from, to, r.path) /\ r.level = row.level + shift
            ELSE r.path = row.path /\ r.level = row.level
  <1>1. CASE row.state # "absent" /\ UnderPrefix(Append(from, x), row)
    <2>1. row.path \in Paths /\ IsPrefix(Append(from, x), row.path)
      BY <1>1 DEF Row, UnderPrefix
    <2> DEFINE path == Append(to, x) \o SubSeq(row.path, Len(Append(from, x)) + 1, Len(row.path))
    <2>2. Regrafted(row.path, from, to, path)
      BY <2>1, ReprefixPath
    <2>3. Reprefixed(row, Append(from, x), Append(to, x), shift)
          = [state |-> row.state, parentId |-> row.parentId, path |-> path,
             level |-> row.level + shift]
      BY <1>1 DEF Reprefixed
    <2> HIDE DEF path
    <2> QED BY <1>1, <2>2, <2>3
  <1>2. CASE ~(row.state # "absent" /\ UnderPrefix(Append(from, x), row))
    BY <1>2 DEF Reprefixed
  <1> QED BY <1>1, <1>2

-----------------------------------------------------------------------------
(* Trees of paths: P gives the path of each storage, and parent its parent. *)

Ancestral(P, parent) ==
  \A s \in StorageIds :
    IF parent[s] = NoStorage THEN P[s] = <<>>
    ELSE P[s] = Append(P[parent[s]], parent[s])

\* The path of a child, position by position.
LEMMA ChildPath ==
  ASSUME NEW P \in [StorageIds -> Paths], NEW parent \in [StorageIds -> MaybeStorage],
         Ancestral(P, parent), NEW s \in StorageIds
  PROVE  /\ Len(P[s]) \in Nat
         /\ parent[s] = NoStorage => Len(P[s]) = 0
         /\ parent[s] # NoStorage =>
              /\ parent[s] \in StorageIds
              /\ Len(P[parent[s]]) \in Nat /\ Len(P[s]) = Len(P[parent[s]]) + 1
              /\ P[s][Len(P[s])] = parent[s]
              /\ \A k \in 1 .. Len(P[parent[s]]) : P[s][k] = P[parent[s]][k]
  <1>1. \A p \in Paths : Len(p) \in Nat
    BY LenProperties DEF Paths
  <1>2. CASE parent[s] = NoStorage
    <2>1. P[s] = <<>>
      BY <1>2 DEF Ancestral
    <2> QED BY <1>1, <1>2, <2>1, EmptySeq
  <1>3. CASE parent[s] # NoStorage
    <2>1. parent[s] \in StorageIds
      BY <1>3 DEF MaybeStorage
    <2>2. P[s] = Append(P[parent[s]], parent[s])
      BY <1>3 DEF Ancestral
    <2> QED BY <1>1, <1>3, <2>1, <2>2, AppendPositions
  <1> QED BY <1>2, <1>3

\* Whoever is named in a path has the part of it before the name as its own.
LEMMA PathsNest ==
  ASSUME NEW P \in [StorageIds -> Paths], NEW parent \in [StorageIds -> MaybeStorage],
         Ancestral(P, parent), NEW s \in StorageIds, NEW i \in 1 .. Len(P[s])
  PROVE  /\ P[s][i] \in StorageIds
         /\ Len(P[P[s][i]]) = i - 1
         /\ \A k \in 1 .. i - 1 : P[P[s][i]][k] = P[s][k]
  <1> DEFINE Nests(t, j) == /\ P[t][j] \in StorageIds
                            /\ Len(P[P[t][j]]) = j - 1
                            /\ \A k \in 1 .. j - 1 : P[P[t][j]][k] = P[t][k]
             Bad == {t \in StorageIds : \E j \in 1 .. Len(P[t]) : ~Nests(t, j)}
             Lengths == {Len(P[t]) : t \in Bad}
  <1>1. SUFFICES ASSUME Bad # {} PROVE FALSE
    OBVIOUS
  <1>2. \A t \in StorageIds : Len(P[t]) \in Nat
    BY ChildPath
  <1>3. PICK t \in Bad : \A u \in Bad : Len(P[t]) <= Len(P[u])
    <2>1. Lengths \in SUBSET Nat /\ Lengths # {}
      BY <1>1, <1>2
    <2> HIDE DEF Bad
    <2>2. PICK n \in Lengths : \A m \in Lengths : n <= m
      BY <2>1, LeastNumber
    <2> QED BY <2>2
  <1>4. PICK j \in 1 .. Len(P[t]) : ~Nests(t, j)
    OBVIOUS
  <1> DEFINE p == parent[t]
  <1>5. /\ t \in StorageIds /\ p \in StorageIds /\ Len(P[p]) \in Nat /\ Len(P[t]) = Len(P[p]) + 1
        /\ P[t][Len(P[t])] = p /\ \A k \in 1 .. Len(P[p]) : P[t][k] = P[p][k]
    BY <1>4, ChildPath
  <1>6. p \notin Bad
    BY <1>3, <1>5
  <1> HIDE DEF p
  <1>7. CASE j = Len(P[t])
    BY <1>4, <1>5, <1>7
  <1>8. CASE j # Len(P[t])
    <2>1. j \in 1 .. Len(P[p])
      BY <1>4, <1>5, <1>8
    <2>2. Nests(p, j)
      BY <1>5, <1>6, <2>1
    <2>3. \A k \in 1 .. j : P[t][k] = P[p][k]
      BY <1>5, <2>1
    <2> QED BY <1>4, <2>1, <2>2, <2>3
  <1> QED BY <1>7, <1>8

\* No storage is named in its own path.
LEMMA NotOwnAncestor ==
  ASSUME NEW P \in [StorageIds -> Paths], NEW parent \in [StorageIds -> MaybeStorage],
         Ancestral(P, parent), NEW s \in StorageIds, NEW i \in 1 .. Len(P[s])
  PROVE  P[s][i] # s
  <1>1. Len(P[P[s][i]]) = i - 1 /\ Len(P[s]) \in Nat
    BY ChildPath, PathsNest
  <1> QED BY <1>1

\* Nobody is named twice in a path.
LEMMA NamedOnce ==
  ASSUME NEW P \in [StorageIds -> Paths], NEW parent \in [StorageIds -> MaybeStorage],
         Ancestral(P, parent), NEW s \in StorageIds,
         NEW i \in 1 .. Len(P[s]), NEW j \in 1 .. Len(P[s]), P[s][i] = P[s][j]
  PROVE  i = j
  <1>1. Len(P[P[s][i]]) = i - 1 /\ Len(P[P[s][j]]) = j - 1
    BY PathsNest
  <1> QED BY <1>1

\* A storage lies below another, by the prefix that the queries compare, exactly
\* when its path names the other.
LEMMA BelowIsNamed ==
  ASSUME NEW P \in [StorageIds -> Paths], NEW parent \in [StorageIds -> MaybeStorage],
         Ancestral(P, parent), NEW s \in StorageIds, NEW d \in StorageIds
  PROVE  IsPrefix(Append(P[s], s), P[d]) <=> \E i \in 1 .. Len(P[d]) : P[d][i] = s
  <1>1. /\ Append(P[s], s) \in Paths /\ Len(P[s]) \in Nat /\ Len(P[d]) \in Nat
        /\ Len(Append(P[s], s)) = Len(P[s]) + 1
        /\ \A k \in 1 .. Len(P[s]) : Append(P[s], s)[k] = P[s][k]
        /\ Append(P[s], s)[Len(P[s]) + 1] = s
    BY AppendPositions, ChildPath
  <1>2. IsPrefix(Append(P[s], s), P[d])
        <=> /\ Len(P[s]) + 1 <= Len(P[d])
            /\ \A k \in 1 .. Len(P[s]) + 1 : Append(P[s], s)[k] = P[d][k]
    <2> DEFINE old == Append(P[s], s)
    <2>1. old \in Paths /\ P[d] \in Paths /\ Len(old) = Len(P[s]) + 1
      BY <1>1
    <2> HIDE DEF old
    <2>2. IsPrefix(old, P[d]) <=> Len(old) <= Len(P[d]) /\ \A k \in 1 .. Len(old) : old[k] = P[d][k]
      BY <2>1, PrefixPositions
    <2>3. IsPrefix(old, P[d])
          <=> Len(P[s]) + 1 <= Len(P[d]) /\ \A k \in 1 .. Len(P[s]) + 1 : old[k] = P[d][k]
      BY <2>1, <2>2
    <2> USE DEF old
    <2> QED BY <2>3
  <1>3. ASSUME IsPrefix(Append(P[s], s), P[d])
        PROVE  \E i \in 1 .. Len(P[d]) : P[d][i] = s
    <2>1. /\ Len(P[s]) + 1 <= Len(P[d])
          /\ \A k \in 1 .. Len(P[s]) + 1 : Append(P[s], s)[k] = P[d][k]
      BY <1>2, <1>3
    <2>2. Len(P[s]) + 1 \in 1 .. Len(P[s]) + 1 /\ Len(P[s]) + 1 \in 1 .. Len(P[d])
      <3>1. Len(P[s]) \in Nat /\ Len(P[d]) \in Nat /\ Len(P[s]) + 1 <= Len(P[d])
        BY <1>1, <2>1
      <3> QED BY <3>1
    <2>3. P[d][Len(P[s]) + 1] = s
      BY <1>1, <2>1, <2>2
    <2> QED BY <2>2, <2>3
  <1>4. ASSUME NEW i \in 1 .. Len(P[d]), P[d][i] = s
        PROVE  IsPrefix(Append(P[s], s), P[d])
    <2>1. Len(P[s]) = i - 1 /\ \A k \in 1 .. i - 1 : P[s][k] = P[d][k]
      BY <1>4, PathsNest
    <2>2. \A k \in 1 .. i : Append(P[s], s)[k] = P[d][k]
      BY <1>1, <1>4, <2>1
    <2> QED BY <1>1, <1>2, <2>1, <2>2
  <1> QED BY <1>3, <1>4

\* The heart of a move: with s and what lies below it under another parent, every
\* path is again the ancestry that following parents gives.
LEMMA MoveKeepsAncestry ==
  ASSUME NEW P \in [StorageIds -> Paths], NEW parent \in [StorageIds -> MaybeStorage],
         Ancestral(P, parent), NEW s \in StorageIds, NEW to \in MaybeStorage, NEW path \in Paths,
         \/ to = NoStorage /\ path = <<>>
         \/ /\ to \in StorageIds \ {s} /\ path = Append(P[to], to)
            /\ \A i \in 1 .. Len(P[to]) : P[to][i] # s,
         NEW Q \in [StorageIds -> Paths], Q[s] = path,
         \A d \in StorageIds \ {s} :
           IF IsPrefix(Append(P[s], s), P[d]) THEN Regrafted(P[d], P[s], path, Q[d])
           ELSE Q[d] = P[d]
  PROVE  Ancestral(Q, [parent EXCEPT ![s] = to])
  <1> DEFINE named(d) == \E i \in 1 .. Len(P[d]) : P[d][i] = s
  <1>1. /\ Len(path) \in Nat /\ Len(P[s]) \in Nat
        /\ \A d \in StorageIds : Len(P[d]) \in Nat /\ Len(Q[d]) \in Nat
    BY LenProperties DEF Paths
  <1>2. ASSUME NEW d \in StorageIds \ {s}, named(d)
        PROVE  /\ Len(Q[d]) = (Len(P[d]) - Len(P[s])) + Len(path)
               /\ Len(P[s]) + 1 <= Len(P[d])
               /\ \A k \in 1 .. Len(path) : Q[d][k] = path[k]
               /\ \A k \in Len(P[s]) + 1 .. Len(P[d]) :
                    Q[d][(k - Len(P[s])) + Len(path)] = P[d][k]
    <2>1. IsPrefix(Append(P[s], s), P[d])
      BY <1>2, BelowIsNamed
    <2>2. Len(P[s]) + 1 <= Len(P[d])
      <3>1. PICK i \in 1 .. Len(P[d]) : P[d][i] = s
        BY <1>2
      <3>2. Len(P[s]) = i - 1
        BY <3>1, PathsNest
      <3>3. Len(P[d]) \in Nat /\ Len(P[s]) \in Nat
        BY <1>1
      <3> QED BY <3>2, <3>3
    <2> QED BY <2>1, <2>2 DEF Regrafted
  <1>3. ASSUME NEW d \in StorageIds \ {s}, ~named(d)
        PROVE  Q[d] = P[d]
    <2>1. ~IsPrefix(Append(P[s], s), P[d])
      BY <1>3, BelowIsNamed
    <2> QED BY <2>1
  <1> DEFINE later == [parent EXCEPT ![s] = to]
  <1>4. SUFFICES ASSUME NEW d \in StorageIds
                 PROVE  IF later[d] = NoStorage THEN Q[d] = <<>>
                        ELSE Q[d] = Append(Q[later[d]], later[d])
    BY DEF Ancestral
  <1>5. CASE d = s
    <2>1. later[d] = to
      BY <1>5
    <2>2. CASE to = NoStorage
      BY <1>5, <2>1, <2>2, StorageAssumption
    <2>3. CASE to # NoStorage
      <3>1. /\ to \in StorageIds \ {s} /\ path = Append(P[to], to)
            /\ \A i \in 1 .. Len(P[to]) : P[to][i] # s
        BY <2>3
      <3>2. Q[to] = P[to]
        BY <1>3, <3>1
      <3> QED BY <1>5, <2>1, <2>3, <3>1, <3>2
    <2> QED BY <2>2, <2>3
  <1>6. CASE d # s
    <2> DEFINE p == parent[d]
    <2>1. later[d] = p /\ d \in StorageIds \ {s}
      BY <1>6
    <2>2. CASE p = NoStorage
      <3>1. Len(P[d]) = 0 /\ P[d] = <<>>
        BY <2>2, ChildPath DEF Ancestral
      <3>2. ~named(d)
        BY <3>1
      <3> QED BY <1>3, <2>1, <2>2, <3>1, <3>2
    <2>3. CASE p # NoStorage
      <3>1. /\ p \in StorageIds /\ Len(P[p]) \in Nat /\ Len(P[d]) = Len(P[p]) + 1
            /\ P[d][Len(P[p]) + 1] = p /\ \A k \in 1 .. Len(P[p]) : P[d][k] = P[p][k]
        BY <2>3, ChildPath
      <3> HIDE DEF p
      <3> DEFINE q == Append(Q[p], p)
      <3>2. /\ q \in Paths /\ Len(q) = Len(Q[p]) + 1 /\ q[Len(Q[p]) + 1] = p
            /\ \A k \in 1 .. Len(Q[p]) : q[k] = Q[p][k]
        BY <3>1, AppendPositions
      <3> HIDE DEF q
      <3>3. CASE p = s
        <4>1. Len(P[d]) = Len(P[s]) + 1 /\ P[d][Len(P[s]) + 1] = s
          BY <3>1, <3>3
        <4>2. Len(P[s]) + 1 \in 1 .. Len(P[d])
          BY <1>1, <4>1
        <4>3. named(d)
          BY <4>1, <4>2
        <4>4. /\ Len(Q[d]) = Len(path) + 1
              /\ \A k \in 1 .. Len(path) : Q[d][k] = path[k]
              /\ Q[d][Len(path) + 1] = s
          <5>1. /\ Len(Q[d]) = (Len(P[d]) - Len(P[s])) + Len(path)
                /\ \A k \in 1 .. Len(path) : Q[d][k] = path[k]
                /\ \A k \in Len(P[s]) + 1 .. Len(P[d]) :
                     Q[d][(k - Len(P[s])) + Len(path)] = P[d][k]
            BY <1>2, <2>1, <4>3
          <5>2. Len(P[s]) + 1 \in Len(P[s]) + 1 .. Len(P[d])
                /\ ((Len(P[s]) + 1) - Len(P[s])) + Len(path) = Len(path) + 1
                /\ (Len(P[d]) - Len(P[s])) + Len(path) = Len(path) + 1
            BY <1>1, <4>1
          <5>3. Q[d][((Len(P[s]) + 1) - Len(P[s])) + Len(path)] = P[d][Len(P[s]) + 1]
            BY <5>1, <5>2
          <5> QED BY <4>1, <5>1, <5>2, <5>3
        <4>5. Q[d] = q
          <5>1. Len(q) = Len(path) + 1 /\ q[Len(path) + 1] = s /\ \A k \in 1 .. Len(path) : q[k] = path[k]
            BY <3>2, <3>3
          <5>2. \A k \in 1 .. Len(path) + 1 : Q[d][k] = q[k]
            BY <1>1, <4>4, <5>1
          <5> QED BY <3>2, <4>4, <5>1, <5>2, SamePath
        <4> QED BY <2>1, <2>3, <4>5 DEF q, p
      <3>4. CASE p # s /\ named(p)
        <4>1. p \in StorageIds \ {s} /\ named(d)
          <5>1. PICK i \in 1 .. Len(P[p]) : P[p][i] = s
            BY <3>4
          <5>2. i \in 1 .. Len(P[d]) /\ P[d][i] = s
            BY <3>1, <5>1
          <5> QED BY <3>1, <3>4, <5>2
        <4>2. /\ Len(Q[p]) = (Len(P[p]) - Len(P[s])) + Len(path)
              /\ Len(P[s]) + 1 <= Len(P[p])
              /\ \A k \in 1 .. Len(path) : Q[p][k] = path[k]
              /\ \A k \in Len(P[s]) + 1 .. Len(P[p]) :
                   Q[p][(k - Len(P[s])) + Len(path)] = P[p][k]
          BY <1>2, <3>4, <4>1
        <4>3. /\ Len(Q[d]) = (Len(P[d]) - Len(P[s])) + Len(path)
              /\ \A k \in 1 .. Len(path) : Q[d][k] = path[k]
              /\ \A k \in Len(P[s]) + 1 .. Len(P[d]) :
                   Q[d][(k - Len(P[s])) + Len(path)] = P[d][k]
          BY <1>2, <2>1, <4>1
        <4>4. Len(Q[d]) = Len(Q[p]) + 1 /\ Len(Q[p]) \in Nat /\ Len(Q[p]) > Len(path)
          BY <1>1, <3>1, <4>2, <4>3
        <4>5. ASSUME NEW k \in 1 .. Len(Q[p]) + 1 PROVE Q[d][k] = q[k]
          <5>1. CASE k <= Len(path)
            <6>1. k \in 1 .. Len(path) /\ k \in 1 .. Len(Q[p])
              BY <1>1, <4>4, <4>5, <5>1
            <6> QED BY <3>2, <4>2, <4>3, <6>1
          <5>2. CASE k > Len(path) /\ k <= Len(Q[p])
            <6> DEFINE j == (k - Len(path)) + Len(P[s])
            <6>1. /\ j \in Len(P[s]) + 1 .. Len(P[p]) /\ j \in Len(P[s]) + 1 .. Len(P[d])
                  /\ j \in 1 .. Len(P[p]) /\ (j - Len(P[s])) + Len(path) = k
              BY <1>1, <3>1, <4>2, <4>5, <5>2
            <6> HIDE DEF j
            <6>2. Q[p][k] = P[p][j] /\ Q[d][k] = P[d][j]
              BY <4>2, <4>3, <6>1
            <6>3. k \in 1 .. Len(Q[p])
              BY <4>4, <4>5, <5>2
            <6> QED BY <3>1, <3>2, <6>1, <6>2, <6>3
          <5>3. CASE k = Len(Q[p]) + 1
            <6>1. /\ Len(P[d]) \in Len(P[s]) + 1 .. Len(P[d])
                  /\ (Len(P[d]) - Len(P[s])) + Len(path) = k
              BY <1>1, <3>1, <4>2, <5>3
            <6>2. Q[d][k] = P[d][Len(P[d])]
              BY <4>3, <6>1
            <6> QED BY <3>1, <3>2, <5>3, <6>2
          <5>4. k <= Len(path) \/ (k > Len(path) /\ k <= Len(Q[p])) \/ k = Len(Q[p]) + 1
            <6>1. Len(path) \in Nat /\ Len(Q[p]) \in Nat
              BY <1>1, <4>4
            <6>2. \A a, b \in Nat : \A j \in 1 .. b + 1 : j <= a \/ (j > a /\ j <= b) \/ j = b + 1
              OBVIOUS
            <6> QED BY <6>1, <6>2
          <5> QED BY <5>1, <5>2, <5>3, <5>4
        <4>6. Q[d] = q
          BY <3>2, <4>4, <4>5, SamePath
        <4> QED BY <2>1, <2>3, <4>6 DEF q, p
      <3>5. CASE p # s /\ ~named(p)
        <4>1. ~named(d)
          BY <3>1, <3>5
        <4>2. Q[d] = P[d] /\ Q[p] = P[p]
          BY <1>3, <2>1, <3>1, <3>5, <4>1
        <4>3. P[d] = Append(P[p], p)
          BY <2>3 DEF Ancestral, p
        <4> QED BY <2>1, <2>3, <4>2, <4>3 DEF p
      <3> QED BY <3>3, <3>4, <3>5
    <2> QED BY <2>2, <2>3
  <1> QED BY <1>5, <1>6

-----------------------------------------------------------------------------
(* The same of a table.                                                    *)

PathsIn(table) == [s \in StorageIds |-> table[s].path]
ParentsIn(table) == [s \in StorageIds |-> table[s].parentId]

LEMMA Columns ==
  ASSUME NEW table \in [StorageIds -> Row]
  PROVE  /\ PathsIn(table) \in [StorageIds -> Paths]
         /\ ParentsIn(table) \in [StorageIds -> MaybeStorage]
         /\ \A s \in StorageIds : /\ PathsIn(table)[s] = table[s].path
                                  /\ ParentsIn(table)[s] = table[s].parentId
                                  /\ table[s].path \in Paths
                                  /\ table[s].parentId \in MaybeStorage
BY DEF PathsIn, ParentsIn, Row

LEMMA AncestryOfTable ==
  ASSUME NEW table \in [StorageIds -> Row]
  PROVE  (\A s \in StorageIds :
            IF table[s].parentId = NoStorage THEN table[s].path = <<>>
            ELSE /\ Exists(table, table[s].parentId)
                 /\ table[s].path = SubtreePrefix(table[s].parentId, table[table[s].parentId]))
         <=> /\ Ancestral(PathsIn(table), ParentsIn(table))
             /\ \A s \in StorageIds :
                  table[s].parentId # NoStorage => Exists(table, table[s].parentId)
  <1>1. \A s \in StorageIds : table[s].parentId # NoStorage => table[s].parentId \in StorageIds
    BY Columns DEF MaybeStorage
  <1> QED BY <1>1, Columns DEF Ancestral, SubtreePrefix, Exists

\* What the path of a row says of the tree.
LEMMA TreeFacts ==
  ASSUME NEW table \in [StorageIds -> Row], Ancestral(PathsIn(table), ParentsIn(table)),
         NEW s \in StorageIds
  PROVE  /\ \A d \in StorageIds :
              UnderPrefix(SubtreePrefix(s, table[s]), table[d]) <=> s \in AncestorIds(table[d])
         /\ AncestorIds(table[s]) \subseteq StorageIds \ {s}
         /\ table[s].parentId = NoStorage => AncestorIds(table[s]) = {}
         /\ table[s].parentId # NoStorage =>
              AncestorIds(table[s]) = AncestorIds(table[table[s].parentId]) \cup {table[s].parentId}
  <1> DEFINE P == PathsIn(table)
             parent == ParentsIn(table)
             named(d) == {P[d][i] : i \in 1 .. Len(P[d])}
  <1>1. /\ P \in [StorageIds -> Paths] /\ parent \in [StorageIds -> MaybeStorage]
        /\ Ancestral(P, parent)
    BY Columns
  <1>2. ASSUME NEW d \in StorageIds PROVE AncestorIds(table[d]) = named(d)
    <2>1. P[d] = table[d].path /\ P[d] \in Paths
      BY <1>1, Columns
    <2>2. DOMAIN P[d] = 1 .. Len(P[d])
      BY <2>1, LenProperties DEF Paths
    <2> HIDE DEF P
    <2> QED BY <2>1, <2>2 DEF AncestorIds
  <1>3. ASSUME NEW d \in StorageIds
        PROVE  UnderPrefix(SubtreePrefix(s, table[s]), table[d]) <=> s \in AncestorIds(table[d])
    <2>1. UnderPrefix(SubtreePrefix(s, table[s]), table[d]) <=> IsPrefix(Append(P[s], s), P[d])
      BY Columns DEF UnderPrefix, SubtreePrefix
    <2> HIDE DEF P, parent
    <2>2. IsPrefix(Append(P[s], s), P[d]) <=> \E i \in 1 .. Len(P[d]) : P[d][i] = s
      BY <1>1, BelowIsNamed
    <2> QED BY <1>2, <2>1, <2>2
  <1>4. AncestorIds(table[s]) \subseteq StorageIds \ {s}
    <2>1. \A i \in 1 .. Len(P[s]) : P[s][i] \in StorageIds /\ P[s][i] # s
      BY <1>1, PathsNest, NotOwnAncestor
    <2> QED BY <1>2, <2>1
  <1>5. table[s].parentId = NoStorage => AncestorIds(table[s]) = {}
    <2>1. parent[s] = NoStorage => Len(P[s]) = 0
      BY <1>1, ChildPath
    <2> QED BY <1>2, <2>1, Columns
  <1>6. ASSUME table[s].parentId # NoStorage
        PROVE  AncestorIds(table[s]) = AncestorIds(table[table[s].parentId]) \cup {table[s].parentId}
    <2> DEFINE p == parent[s]
    <2>1. p = table[s].parentId
      BY Columns
    <2>2. /\ p \in StorageIds /\ Len(P[p]) \in Nat /\ Len(P[s]) = Len(P[p]) + 1
          /\ P[s][Len(P[p]) + 1] = p /\ \A k \in 1 .. Len(P[p]) : P[s][k] = P[p][k]
      BY <1>1, <1>6, <2>1, ChildPath
    <2> HIDE DEF p, P
    <2>3. ASSUME NEW a PROVE a \in named(s) <=> a \in named(p) \cup {p}
      <3>1. ASSUME NEW i \in 1 .. Len(P[s]), a = P[s][i] PROVE a \in named(p) \cup {p}
        <4>1. i \in 1 .. Len(P[p]) \/ i = Len(P[p]) + 1
          BY <2>2
        <4> QED BY <2>2, <3>1, <4>1
      <3>2. ASSUME NEW i \in 1 .. Len(P[p]), a = P[p][i] PROVE a \in named(s)
        <4>1. i \in 1 .. Len(P[s])
          BY <2>2
        <4> QED BY <2>2, <3>2, <4>1
      <3>3. p \in named(s)
        <4>1. Len(P[p]) + 1 \in 1 .. Len(P[s])
          BY <2>2
        <4> QED BY <2>2, <4>1
      <3> QED BY <3>1, <3>2, <3>3
    <2> QED BY <1>2, <2>1, <2>2, <2>3
  <1> QED BY <1>3, <1>4, <1>5, <1>6

\* Whose ancestors' ancestors are one's own.
LEMMA AncestorsNest ==
  ASSUME NEW table \in [StorageIds -> Row], Ancestral(PathsIn(table), ParentsIn(table)),
         NEW s \in StorageIds, NEW a \in AncestorIds(table[s])
  PROVE  AncestorIds(table[a]) \subseteq AncestorIds(table[s])
  <1> DEFINE P == PathsIn(table)
             parent == ParentsIn(table)
  <1>1. /\ P \in [StorageIds -> Paths] /\ parent \in [StorageIds -> MaybeStorage]
        /\ \A d \in StorageIds : table[d].path = P[d]
    BY Columns
  <1>2. \A d \in StorageIds : AncestorIds(table[d]) = {P[d][i] : i \in 1 .. Len(P[d])}
    <2> SUFFICES ASSUME NEW d \in StorageIds
                 PROVE  AncestorIds(table[d]) = {P[d][i] : i \in 1 .. Len(P[d])}
      OBVIOUS
    <2>1. DOMAIN P[d] = 1 .. Len(P[d]) /\ P[d] = table[d].path
      BY <1>1, LenProperties DEF Paths
    <2> HIDE DEF P
    <2> QED BY <2>1 DEF AncestorIds
  <1>3. PICK i \in 1 .. Len(P[s]) : a = P[s][i]
    BY <1>2
  <1>4. a \in StorageIds /\ Len(P[a]) = i - 1 /\ \A k \in 1 .. i - 1 : P[a][k] = P[s][k]
    BY <1>1, <1>3, PathsNest
  <1>5. Len(P[s]) \in Nat
    BY <1>1, ChildPath
  <1> HIDE DEF P
  <1>6. \A k \in 1 .. i - 1 : k \in 1 .. Len(P[s])
    BY <1>5
  <1> QED BY <1>2, <1>4, <1>6

\* What reparent writes when what it read is still so.
LEMMA MovedTable ==
  ASSUME NEW table \in [StorageIds -> Row], Ancestral(PathsIn(table), ParentsIn(table)),
         NEW s \in StorageIds, NEW to \in MaybeStorage, NEW path \in Paths, NEW level \in Int,
         \/ to = NoStorage /\ path = <<>>
         \/ /\ to \in StorageIds \ {s} /\ path = SubtreePrefix(to, table[to])
            /\ s \notin AncestorIds(table[to]),
         \A d \in StorageIds : table[d].state = "absent" => s \notin AncestorIds(table[d]),
         NEW moved \in [StorageIds -> Row],
         moved = Reparented(table, s, Snapshot(table[s]), to, path, level)
  PROVE  /\ Ancestral(PathsIn(moved), ParentsIn(moved))
         /\ \A d \in StorageIds :
              /\ moved[d].state = table[d].state
              /\ moved[d].parentId = IF d = s THEN to ELSE table[d].parentId
              /\ moved[d].level = IF d = s THEN level
                                  ELSE IF s \in AncestorIds(table[d])
                                  THEN table[d].level + (level - table[s].level)
                                  ELSE table[d].level
  <1> DEFINE P == PathsIn(table)
             parent == ParentsIn(table)
             Q == PathsIn(moved)
             first == MovedRow(table, s, to, path, level)
             old == Append(P[s], s)
             shift == level - table[s].level
  <1>1. /\ P \in [StorageIds -> Paths] /\ parent \in [StorageIds -> MaybeStorage]
        /\ Ancestral(P, parent) /\ Q \in [StorageIds -> Paths]
        /\ \A d \in StorageIds : P[d] = table[d].path /\ Q[d] = moved[d].path
    BY Columns
  <1>2. \A d \in StorageIds :
          /\ UnderPrefix(old, table[d]) <=> s \in AncestorIds(table[d])
          /\ IsPrefix(old, P[d]) <=> s \in AncestorIds(table[d])
    BY <1>1, TreeFacts DEF SubtreePrefix, UnderPrefix
  <1>3. ASSUME NEW d \in StorageIds
        PROVE  moved[d] = Reprefixed(first[d], Append(P[s], s), Append(path, s), shift)
    BY <1>1 DEF Reparented, SubtreePrefix, Snapshot
  <1>4. /\ first[s] = [state |-> table[s].state, parentId |-> to, path |-> path, level |-> level]
        /\ \A d \in StorageIds \ {s} : first[d] = table[d]
    BY DEF MovedRow
  <1>5. first \in [StorageIds -> Row]
    BY DEF MovedRow, Row
  <1>6. \/ to = NoStorage /\ path = <<>>
        \/ /\ to \in StorageIds \ {s} /\ path = Append(P[to], to)
           /\ \A i \in 1 .. Len(P[to]) : P[to][i] # s
    <2>1. CASE to = NoStorage /\ path = <<>>
      BY <2>1
    <2>2. CASE to \in StorageIds \ {s} /\ path = SubtreePrefix(to, table[to])
               /\ s \notin AncestorIds(table[to])
      <3>1. ~IsPrefix(old, P[to])
        BY <1>2, <2>2
      <3>2. \A i \in 1 .. Len(P[to]) : P[to][i] # s
        BY <1>1, <2>2, <3>1, BelowIsNamed
      <3> QED BY <1>1, <2>2, <3>2 DEF SubtreePrefix
    <2> QED BY <2>1, <2>2
  <1> HIDE DEF first, P, parent, Q, shift
  <1>7. ~UnderPrefix(old, first[s])
    <2>1. \A i \in 1 .. Len(path) : path[i] # s
      <3>1. CASE to = NoStorage /\ path = <<>>
        BY <3>1, EmptySeq
      <3>2. CASE to \in StorageIds \ {s} /\ path = Append(P[to], to)
                 /\ \A i \in 1 .. Len(P[to]) : P[to][i] # s
        <4>1. /\ Len(P[to]) \in Nat /\ Len(path) = Len(P[to]) + 1 /\ path[Len(P[to]) + 1] = to
              /\ \A k \in 1 .. Len(P[to]) : path[k] = P[to][k]
          BY <1>1, <3>2, AppendPositions
        <4>2. \A i \in 1 .. Len(P[to]) + 1 : i \in 1 .. Len(P[to]) \/ i = Len(P[to]) + 1
          BY <4>1
        <4> QED BY <3>2, <4>1, <4>2
      <3> QED BY <1>6, <3>1, <3>2
    <2>2. /\ old \in Paths /\ Len(P[s]) \in Nat /\ Len(old) = Len(P[s]) + 1
          /\ old[Len(P[s]) + 1] = s
      BY <1>1, AppendPositions
    <2> HIDE DEF old
    <2>3. ASSUME IsPrefix(old, path) PROVE FALSE
      <3>1. Len(old) <= Len(path) /\ \A k \in 1 .. Len(old) : old[k] = path[k]
        BY <2>2, <2>3, PrefixPositions
      <3>2. Len(path) \in Nat /\ Len(P[s]) \in Nat /\ Len(P[s]) + 1 <= Len(path)
        BY <2>2, <3>1, LenProperties DEF Paths
      <3>3. Len(P[s]) + 1 \in 1 .. Len(path) /\ Len(P[s]) + 1 \in 1 .. Len(P[s]) + 1
        BY <3>2
      <3>4. old[Len(P[s]) + 1] = path[Len(P[s]) + 1]
        BY <2>2, <3>1, <3>3
      <3> QED BY <2>1, <2>2, <3>3, <3>4
    <2> QED BY <1>4, <2>3 DEF UnderPrefix
  <1>8. moved[s] = first[s]
    BY <1>3, <1>5, <1>7 DEF Reprefixed
  <1>9. ASSUME NEW d \in StorageIds \ {s}
        PROVE  /\ moved[d].state = table[d].state /\ moved[d].parentId = table[d].parentId
               /\ IF s \in AncestorIds(table[d])
                  THEN Regrafted(P[d], P[s], path, Q[d]) /\ moved[d].level = table[d].level + shift
                  ELSE Q[d] = P[d] /\ moved[d].level = table[d].level
    <2> DEFINE row == table[d]
               r == Reprefixed(row, Append(P[s], s), Append(path, s), shift)
    <2>1. /\ row \in Row /\ P[s] \in Paths /\ moved[d] = r
          /\ Q[d] = moved[d].path /\ P[d] = row.path
      BY <1>1, <1>3, <1>4
    <2>2. /\ r.state = row.state /\ r.parentId = row.parentId
          /\ IF row.state # "absent" /\ UnderPrefix(Append(P[s], s), row)
             THEN Regrafted(row.path, P[s], path, r.path) /\ r.level = row.level + shift
             ELSE r.path = row.path /\ r.level = row.level
      <3> HIDE DEF row
      <3> QED BY <2>1, ReprefixPositions
    <2>3. (row.state # "absent" /\ UnderPrefix(old, row)) <=> s \in AncestorIds(row)
      BY <1>2
    <2> HIDE DEF r
    <2> QED BY <2>1, <2>2, <2>3
  <1>10. Q[s] = path /\ \A d \in StorageIds \ {s} :
           IF IsPrefix(Append(P[s], s), P[d]) THEN Regrafted(P[d], P[s], path, Q[d])
           ELSE Q[d] = P[d]
    <2>1. Q[s] = path
      BY <1>1, <1>4, <1>8
    <2> QED BY <1>2, <1>9, <2>1
  <1>11. Ancestral(Q, [parent EXCEPT ![s] = to])
    BY <1>1, <1>6, <1>10, MoveKeepsAncestry
  <1>12. ParentsIn(moved) = [parent EXCEPT ![s] = to]
    BY <1>4, <1>8, <1>9 DEF ParentsIn, parent
  <1>13. Ancestral(PathsIn(moved), ParentsIn(moved))
    BY <1>11, <1>12 DEF Q
  <1> QED BY <1>4, <1>8, <1>9, <1>13 DEF shift

-----------------------------------------------------------------------------
(* Requests that do not overlap.                                           *)

\* No request but r is in flight.
Alone(r) == \A q \in StorageRequests \ {r} : storageReq[q].pc = "idle"

\* What AncestryInv says of the rows.
RowsInv == PathIsAncestry /\ AbsentUnparented /\ SubtreesDieTogether /\ DepthCapped

LEMMA RowFacts ==
  ASSUME AncestryInv
  PROVE  /\ LevelInv /\ RowsInv
         /\ storages \in [StorageIds -> Row]
         /\ Ancestral(PathsIn(storages), ParentsIn(storages))
         /\ \A s \in StorageIds :
              storages[s].parentId # NoStorage => Exists(storages, storages[s].parentId)
         /\ \A s \in StorageIds : storages[s].state = "absent" => AncestorIds(storages[s]) = {}
         /\ \A r \in StorageRequests : storageReq[r] \in StorageRequest
  <1>1. /\ LevelInv /\ RowsInv /\ storages \in [StorageIds -> Row]
        /\ \A r \in StorageRequests : storageReq[r] \in StorageRequest
    BY DEF AncestryInv, RowsInv, LevelInv, StoragesTypeOK, TablesType
  <1>2. /\ Ancestral(PathsIn(storages), ParentsIn(storages))
        /\ \A s \in StorageIds :
             storages[s].parentId # NoStorage => Exists(storages, storages[s].parentId)
    BY <1>1, AncestryOfTable DEF RowsInv, PathIsAncestry
  <1>3. ASSUME NEW s \in StorageIds, storages[s].state = "absent"
        PROVE  AncestorIds(storages[s]) = {}
    BY <1>1, <1>2, <1>3, TreeFacts DEF RowsInv, AbsentUnparented
  <1> QED BY <1>1, <1>2, <1>3

\* A request that has read the rows, and nothing was written.
LEMMA ReadKeeps ==
  ASSUME AncestryInv, LevelInv', NEW r \in StorageRequests, NEW q, RequestCurrent(q),
         Goes(r, q), UNCHANGED tables
  PROVE  AncestryInv'
  <1>1. UNCHANGED storages /\ storageReq' = [storageReq EXCEPT ![r] = q]
    BY DEF tables, Goes
  <1>2. ASSUME NEW p, RequestCurrent(p) PROVE RequestCurrent(p)'
    BY <1>1, <1>2
    DEF RequestCurrent, SnapshotCurrent, DerivedCurrent, MoveCurrent, SubtreeOf, Live,
        LiveDescendants, LiveIn
  <1>3. RowsInv'
    BY <1>1
    DEF AncestryInv, RowsInv, PathIsAncestry, AbsentUnparented, SubtreesDieTogether, DepthCapped,
        Exists, Live, LiveIn
  <1>4. ASSUME NEW p \in StorageRequests PROVE RequestCurrent(storageReq'[p])
    BY <1>1 DEF AncestryInv, LevelInv, StoragesTypeOK
  <1>5. \A p \in StorageRequests : RequestCurrent(storageReq[p])'
    BY <1>1, <1>2, <1>4
    DEF RequestCurrent, SnapshotCurrent, DerivedCurrent, MoveCurrent, SubtreeOf, Live,
        LiveDescendants, LiveIn
  <1> QED BY <1>3, <1>5 DEF AncestryInv, RowsInv

\* A request that has written, and nothing else was in flight.
LEMMA WriteKeeps ==
  ASSUME AncestryInv, LevelInv', RowsInv', NEW r \in StorageRequests, Alone(r), Ends(r)
  PROVE  AncestryInv'
  <1>1. ASSUME NEW p \in StorageRequests
        PROVE  storageReq'[p].newId = NoStorage /\ storageReq'[p].pc = "idle"
    BY DEF AncestryInv, LevelInv, StoragesTypeOK, Ends, Goes, Alone, StorageIdle, RequestCurrent
  <1>2. \A p \in StorageRequests : RequestCurrent(storageReq[p])'
    BY <1>1 DEF RequestCurrent
  <1> QED BY <1>2 DEF AncestryInv, RowsInv

LEMMA CreateBeginAncestry ==
  ASSUME AncestryInv, NEW r \in StorageRequests, NEW s \in StorageIds, NEW parent \in MaybeStorage,
         CreateBegin(r, s, parent)
  PROVE  AncestryInv'
  <1>1. LevelInv'
    BY RowFacts, CreateBeginLevel
  <1>2. CASE parent = NoStorage /\ Goes(r, [StorageIdle EXCEPT !.pc = "create.insert", !.id = s])
    <2>1. RequestCurrent([StorageIdle EXCEPT !.pc = "create.insert", !.id = s])
      BY StorageAssumption DEF StorageIdle, RequestCurrent, DerivedCurrent
    <2> QED BY <1>1, <1>2, <2>1, ReadKeeps DEF CreateBegin
  <1>3. CASE /\ Live(storages, parent) /\ storages[parent].level + 1 <= MAX_DEPTH
             /\ Goes(r, [StorageIdle EXCEPT !.pc = "create.insert", !.id = s, !.to = parent,
                           !.path = SubtreePrefix(parent, storages[parent]),
                           !.level = storages[parent].level + 1])
    <2> DEFINE q == [StorageIdle EXCEPT !.pc = "create.insert", !.id = s, !.to = parent,
                       !.path = SubtreePrefix(parent, storages[parent]),
                       !.level = storages[parent].level + 1]
    <2>1. RequestCurrent(q)
      BY <1>3 DEF StorageIdle, RequestCurrent, DerivedCurrent
    <2> QED BY <1>1, <1>3, <2>1, ReadKeeps DEF CreateBegin
  <1> QED BY <1>2, <1>3 DEF CreateBegin

LEMMA CreateInsertAncestry ==
  ASSUME AncestryInv, NEW r \in StorageRequests, Alone(r), CreateInsert(r)
  PROVE  AncestryInv'
  <1> DEFINE q == storageReq[r]
             row == [state |-> "live", parentId |-> q.to, path |-> q.path, level |-> q.level]
  <1>1. LevelInv'
    BY RowFacts, CreateInsertLevel
  <1>2. /\ q.id \in StorageIds /\ storages[q.id].state = "absent"
        /\ DerivedCurrent(q) /\ q.level <= MAX_DEPTH
    BY DEF CreateInsert, AncestryInv, LevelInv, RequestConsistent, RequestCurrent, Exists
  <1>3. storages' = [storages EXCEPT ![q.id] = row] /\ Ends(r)
    BY DEF CreateInsert
  <1>4. storages \in [StorageIds -> Row] /\ RowsInv
    BY RowFacts
  <1>5. \/ q.to = NoStorage /\ q.path = <<>>
        \/ /\ q.to # q.id /\ q.to \in StorageIds /\ storages[q.to].state = "live"
           /\ q.path = SubtreePrefix(q.to, storages[q.to])
    BY <1>2 DEF DerivedCurrent, Live
  <1> HIDE DEF q
  <1>6. storages'[q.id] = row /\ \A s \in StorageIds \ {q.id} : storages'[s] = storages[s]
    BY <1>2, <1>3, <1>4
  <1>7. PathIsAncestry'
    <2> SUFFICES ASSUME NEW s \in StorageIds
                 PROVE  IF storages'[s].parentId = NoStorage THEN storages'[s].path = <<>>
                        ELSE /\ Exists(storages', storages'[s].parentId)
                             /\ storages'[s].path = SubtreePrefix(storages'[s].parentId,
                                                                 storages'[storages'[s].parentId])
      BY DEF PathIsAncestry
    <2>1. CASE s = q.id
      <3>1. storages'[s].parentId = q.to /\ storages'[s].path = q.path
        BY <1>6, <2>1
      <3> HIDE DEF row
      <3> QED BY <1>5, <1>6, <3>1, StorageAssumption DEF Exists
    <2>2. CASE s # q.id
      <3>1. /\ storages'[s] = storages[s]
            /\ IF storages[s].parentId = NoStorage THEN storages[s].path = <<>>
               ELSE /\ Exists(storages, storages[s].parentId)
                    /\ storages[s].path = SubtreePrefix(storages[s].parentId,
                                                        storages[storages[s].parentId])
        BY <1>4, <1>6, <2>2 DEF RowsInv, PathIsAncestry
      <3> HIDE DEF row
      <3> QED BY <1>2, <1>6, <3>1 DEF Exists
    <2> QED BY <2>1, <2>2
  <1>8. AbsentUnparented'
    BY <1>4, <1>6 DEF RowsInv, AbsentUnparented
  <1>9. SubtreesDieTogether' /\ DepthCapped'
    BY <1>2, <1>4, <1>5, <1>6 DEF RowsInv, SubtreesDieTogether, DepthCapped, LiveIn, Live
  <1> QED BY <1>1, <1>3, <1>7, <1>8, <1>9, WriteKeeps DEF RowsInv

LEMMA UpdateBeginAncestry ==
  ASSUME AncestryInv, NEW r \in StorageRequests, NEW s \in StorageIds,
         NEW to \in MaybeStorage, NEW newId \in MaybeStorage, UpdateBegin(r, s, to, newId),
         PatchIds = FALSE \/ storageReq'[r].newId = NoStorage
  PROVE  AncestryInv'
  <1> DEFINE isMove == to # storages[s].parentId
             q == [StorageIdle EXCEPT !.pc = IF isMove THEN "update.parent" ELSE "update.write",
                     !.id = s, !.snap = Snapshot(storages[s]), !.to = to, !.move = isMove,
                     !.newId = newId]
  <1>1. LevelInv'
    BY RowFacts, UpdateBeginLevel
  <1>2. Goes(r, q) /\ UNCHANGED tables /\ Live(storages, s) /\ newId = NoStorage
    <2>1. Goes(r, q) /\ UNCHANGED tables /\ Live(storages, s) /\ (newId # NoStorage => PatchIds)
      BY DEF UpdateBegin
    <2>2. q.newId = newId
      BY DEF StorageIdle
    <2> HIDE DEF q
    <2>3. storageReq'[r] = q
      BY <2>1 DEF Goes, AncestryInv, LevelInv, StoragesTypeOK
    <2> QED BY <2>1, <2>2, <2>3
  <1>3. RequestCurrent(q)
    BY <1>2 DEF StorageIdle, RequestCurrent, SnapshotCurrent
  <1> QED BY <1>1, <1>2, <1>3, ReadKeeps

LEMMA UpdateParentAncestry ==
  ASSUME AncestryInv, NEW r \in StorageRequests, UpdateParent(r)
  PROVE  AncestryInv'
  <1> DEFINE q == storageReq[r]
  <1>1. LevelInv'
    BY RowFacts, UpdateParentLevel
  <1>2. /\ q \in StorageRequest /\ q.id \in StorageIds /\ RequestCurrent(q)
        /\ SnapshotCurrent(q) /\ q.move /\ UNCHANGED tables
    BY RowFacts
    DEF UpdateParent, AncestryInv, LevelInv, RequestConsistent, RequestCurrent
  <1>3. CASE /\ q.to = NoStorage
             /\ Goes(r, [q EXCEPT !.pc = "update.depth", !.path = <<>>, !.level = 0])
    <2> DEFINE nq == [q EXCEPT !.pc = "update.depth", !.path = <<>>, !.level = 0]
    <2> HIDE DEF q
    <2>1. RequestCurrent(nq)
      BY <1>2, <1>3, StorageAssumption
      DEF StorageRequest, RequestCurrent, SnapshotCurrent, MoveCurrent, DerivedCurrent
    <2> QED BY <1>1, <1>2, <1>3, <2>1, ReadKeeps
  <1>4. CASE /\ Live(storages, q.to) /\ q.to # q.id /\ q.id \notin AncestorIds(storages[q.to])
             /\ Goes(r, [q EXCEPT !.pc = "update.depth",
                           !.path = SubtreePrefix(q.to, storages[q.to]),
                           !.level = storages[q.to].level + 1])
    <2> DEFINE nq == [q EXCEPT !.pc = "update.depth",
                        !.path = SubtreePrefix(q.to, storages[q.to]),
                        !.level = storages[q.to].level + 1]
    <2> HIDE DEF q
    <2>1. RequestCurrent(nq)
      BY <1>2, <1>4
      DEF StorageRequest, RequestCurrent, SnapshotCurrent, MoveCurrent, DerivedCurrent
    <2> QED BY <1>1, <1>2, <1>4, <2>1, ReadKeeps
  <1> QED BY <1>3, <1>4 DEF UpdateParent

\* A storage that lies below another lies deeper.
LEMMA BelowIsDeeper ==
  ASSUME LevelInv, NEW s \in StorageIds, NEW d \in StorageIds,
         UnderPrefix(SubtreePrefix(s, storages[s]), storages[d])
  PROVE  /\ storages[s].level \in Nat /\ storages[d].level \in Nat
         /\ storages[s].level < storages[d].level
  <1> DEFINE P == PathsIn(storages)
  <1>1. /\ storages \in [StorageIds -> Row] /\ storages[s].level = Len(storages[s].path)
        /\ storages[d].level = Len(storages[d].path)
    BY DEF LevelInv, StoragesTypeOK, TablesType, LevelIsDepth
  <1>2. /\ P \in [StorageIds -> Paths] /\ storages[s].level = Len(P[s])
        /\ storages[d].level = Len(P[d]) /\ IsPrefix(Append(P[s], s), P[d])
    BY <1>1, Columns DEF UnderPrefix, SubtreePrefix
  <1> HIDE DEF P
  <1> DEFINE old == Append(P[s], s)
  <1>3. old \in Paths /\ Len(old) = Len(P[s]) + 1 /\ Len(P[s]) \in Nat /\ Len(P[d]) \in Nat
    BY <1>2, AppendPositions, LenProperties DEF Paths
  <1> HIDE DEF old
  <1>4. Len(old) <= Len(P[d])
    BY <1>2, <1>3, PrefixPositions DEF old
  <1>5. Len(P[s]) < Len(P[d])
    BY <1>3, <1>4
  <1> QED BY <1>2, <1>3, <1>5

LEMMA UpdateDepthAncestry ==
  ASSUME AncestryInv, NEW r \in StorageRequests, UpdateDepth(r)
  PROVE  AncestryInv'
  <1> DEFINE q == storageReq[r]
             nq == [q EXCEPT !.pc = "update.write"]
             below == LiveDescendants(storages, q.id, storages[q.id])
             levels == {storages[d].level : d \in below}
  <1>1. LevelInv'
    BY RowFacts, UpdateDepthLevel
  <1>2. /\ q \in StorageRequest /\ q.id \in StorageIds /\ RequestCurrent(q)
        /\ SnapshotCurrent(q) /\ MoveCurrent(q) /\ q.move
        /\ UNCHANGED tables /\ Goes(r, nq)
        /\ q.level + DepthBelow(storages, q.id, q.snap) <= MAX_DEPTH
    BY RowFacts
    DEF UpdateDepth, AncestryInv, LevelInv, RequestConsistent, RequestCurrent
  <1> HIDE DEF q
  <1>3. /\ q.level \in Int /\ storages[q.id].level \in Nat
    <2>1. storages[q.id] \in Row /\ storages[q.id].level = Len(storages[q.id].path)
      BY <1>2, RowFacts DEF LevelInv, LevelIsDepth
    <2>2. storages[q.id].path \in Paths
      BY <2>1 DEF Row
    <2> QED BY <1>2, <2>1, <2>2, LenProperties DEF StorageRequest, Paths
  <1>4. /\ q.snap.level = storages[q.id].level
        /\ LiveDescendants(storages, q.id, q.snap) = below
    BY <1>2 DEF SnapshotCurrent, Snapshot, LiveDescendants, SubtreePrefix
  <1>5. \A d \in below : /\ storages[d].level \in Nat /\ storages[d].level <= MAX_DEPTH
                         /\ storages[q.id].level < storages[d].level
    BY <1>2, RowFacts, BelowIsDeeper DEF LiveDescendants, LiveIn, RowsInv, DepthCapped
  <1>6. \A d \in SubtreeOf(q.id) : storages[d].level + (q.level - storages[q.id].level) <= MAX_DEPTH
    <2>1. SubtreeOf(q.id) = {q.id} \cup below
      BY DEF SubtreeOf
    <2>2. CASE below = {}
      <3>1. DepthBelow(storages, q.id, q.snap) = 0
        BY <1>4, <2>2 DEF DepthBelow
      <3>2. q.level <= MAX_DEPTH
        BY <1>2, <1>3, <3>1
      <3> QED BY <1>3, <2>1, <2>2, <3>2, StorageAssumption
    <2>3. CASE below # {}
      <3>1. DepthBelow(storages, q.id, q.snap) = Max(levels) - storages[q.id].level
        BY <1>4, <2>3 DEF DepthBelow
      <3>2. Max(levels) \in levels /\ \A x \in levels : x <= Max(levels)
        <4>1. levels \in SUBSET Nat /\ levels # {} /\ \A x \in levels : x <= MAX_DEPTH
          BY <1>5, <2>3
        <4> HIDE DEF levels
        <4> QED BY <4>1, GreatestNumber, StorageAssumption
      <3> DEFINE most == Max(levels)
      <3>3. /\ most \in Nat /\ \A d \in below : storages[d].level <= most
            /\ storages[q.id].level < most
        BY <1>5, <3>2
      <3>4. q.level + (most - storages[q.id].level) <= MAX_DEPTH
        BY <1>2, <3>1
      <3> HIDE DEF most, below
      <3>5. \A x, a, b, m \in Int : b + (m - a) <= MAX_DEPTH /\ x <= m => x + (b - a) <= MAX_DEPTH
        BY StorageAssumption
      <3>6. SUFFICES ASSUME NEW d \in SubtreeOf(q.id)
                     PROVE  storages[d].level + (q.level - storages[q.id].level) <= MAX_DEPTH
        OBVIOUS
      <3>7. storages[d].level \in Int /\ storages[d].level <= most
        BY <1>3, <1>5, <2>1, <3>3
      <3>8. most \in Int /\ storages[q.id].level \in Int /\ q.level \in Int
        BY <1>3, <3>3
      <3> QED BY <3>4, <3>5, <3>7, <3>8
    <2> QED BY <2>2, <2>3
  <1>7. RequestCurrent(nq)
    <2>1. /\ nq.pc = "update.write" /\ nq.id = q.id /\ nq.level = q.level /\ nq.to = q.to
          /\ nq.path = q.path /\ nq.newId = q.newId /\ nq.snap = q.snap
      BY <1>2 DEF StorageRequest
    <2> HIDE DEF nq
    <2> QED BY <1>2, <1>6, <2>1
        DEF RequestCurrent, SnapshotCurrent, MoveCurrent, DerivedCurrent
  <1> QED BY <1>1, <1>2, <1>7, ReadKeeps

\* What the write of a move makes of the rows.
LEMMA MoveWritten ==
  ASSUME AncestryInv, NEW r \in StorageRequests, UpdateWrite(r), storageReq[r].move
  PROVE  LET q == storageReq[r] IN
         /\ q.id \in StorageIds /\ Live(storages, q.id)
         /\ q.to \in MaybeStorage /\ q.level \in Int /\ MoveCurrent(q)
         /\ \A d \in SubtreeOf(q.id) :
              storages[d].level + (q.level - storages[q.id].level) <= MAX_DEPTH
         /\ storages' \in [StorageIds -> Row]
         /\ Ancestral(PathsIn(storages'), ParentsIn(storages'))
         /\ \A d \in StorageIds :
              /\ storages'[d].state = storages[d].state
              /\ storages'[d].parentId = IF d = q.id THEN q.to ELSE storages[d].parentId
              /\ storages'[d].level = IF d = q.id THEN q.level
                                      ELSE IF q.id \in AncestorIds(storages[d])
                                      THEN storages[d].level + (q.level - storages[q.id].level)
                                      ELSE storages[d].level
  <1> DEFINE q == storageReq[r]
  <1>1. LevelInv'
    BY RowFacts, UpdateWriteLevel
  <1>2. /\ q \in StorageRequest /\ q.id \in StorageIds /\ RequestCurrent(q) /\ q.newId = NoStorage
        /\ q.pc = "update.write" /\ SnapshotCurrent(q)
        /\ storages' = IF q.move THEN Reparented(storages, q.id, q.snap, q.to, q.path, q.level)
                       ELSE storages
    BY RowFacts DEF UpdateWrite, AncestryInv, LevelInv, RequestConsistent, RequestCurrent
  <1>3. q.move
    OBVIOUS
  <1> HIDE DEF q
  <1>4. /\ storages \in [StorageIds -> Row] /\ storages' \in [StorageIds -> Row]
        /\ Ancestral(PathsIn(storages), ParentsIn(storages)) /\ RowsInv
    BY <1>1, RowFacts DEF LevelInv, StoragesTypeOK, TablesType
  <1>5. /\ storages' = Reparented(storages, q.id, Snapshot(storages[q.id]), q.to, q.path, q.level)
        /\ q.to \in MaybeStorage /\ q.path \in Paths /\ q.level \in Int
        /\ Live(storages, q.id)
    BY <1>2, <1>3 DEF SnapshotCurrent, StorageRequest
  <1>6. /\ MoveCurrent(q)
        /\ \A d \in SubtreeOf(q.id) :
             storages[d].level + (q.level - storages[q.id].level) <= MAX_DEPTH
    BY <1>2, <1>3 DEF RequestCurrent
  <1>7. \/ q.to = NoStorage /\ q.path = <<>>
        \/ /\ q.to \in StorageIds \ {q.id} /\ q.path = SubtreePrefix(q.to, storages[q.to])
           /\ q.id \notin AncestorIds(storages[q.to])
    BY <1>6, StorageAssumption DEF MoveCurrent, DerivedCurrent, Live
  <1>8. \A d \in StorageIds : storages[d].state = "absent" => q.id \notin AncestorIds(storages[d])
    BY RowFacts
  <1>9. /\ Ancestral(PathsIn(storages'), ParentsIn(storages'))
        /\ \A d \in StorageIds :
             /\ storages'[d].state = storages[d].state
             /\ storages'[d].parentId = IF d = q.id THEN q.to ELSE storages[d].parentId
             /\ storages'[d].level = IF d = q.id THEN q.level
                                     ELSE IF q.id \in AncestorIds(storages[d])
                                     THEN storages[d].level + (q.level - storages[q.id].level)
                                     ELSE storages[d].level
    <2> DEFINE s == q.id
               to == q.to
               path == q.path
               level == q.level
               moved == storages'
    <2>1. /\ s \in StorageIds /\ to \in MaybeStorage /\ path \in Paths /\ level \in Int
          /\ moved \in [StorageIds -> Row]
          /\ moved = Reparented(storages, s, Snapshot(storages[s]), to, path, level)
          /\ \/ to = NoStorage /\ path = <<>>
             \/ /\ to \in StorageIds \ {s} /\ path = SubtreePrefix(to, storages[to])
                /\ s \notin AncestorIds(storages[to])
          /\ \A d \in StorageIds : storages[d].state = "absent" => s \notin AncestorIds(storages[d])
      BY <1>2, <1>4, <1>5, <1>7, <1>8
    <2> HIDE DEF s, to, path, level, moved
    <2>2. /\ Ancestral(PathsIn(moved), ParentsIn(moved))
          /\ \A d \in StorageIds :
               /\ moved[d].state = storages[d].state
               /\ moved[d].parentId = IF d = s THEN to ELSE storages[d].parentId
               /\ moved[d].level = IF d = s THEN level
                                   ELSE IF s \in AncestorIds(storages[d])
                                   THEN storages[d].level + (level - storages[s].level)
                                   ELSE storages[d].level
      BY <1>4, <2>1, MovedTable
    <2> QED BY <2>2 DEF s, to, path, level, moved
  <1> QED BY <1>2, <1>4, <1>5, <1>6, <1>9 DEF q

LEMMA UpdateWriteAncestry ==
  ASSUME AncestryInv, NEW r \in StorageRequests, Alone(r), UpdateWrite(r)
  PROVE  AncestryInv'
  <1> DEFINE q == storageReq[r]
  <1>1. LevelInv'
    BY RowFacts, UpdateWriteLevel
  <1>2. /\ q \in StorageRequest /\ q.id \in StorageIds /\ RequestCurrent(q) /\ q.newId = NoStorage
        /\ q.pc = "update.write" /\ SnapshotCurrent(q) /\ Ends(r)
        /\ storages' = IF q.move THEN Reparented(storages, q.id, q.snap, q.to, q.path, q.level)
                       ELSE storages
    BY RowFacts DEF UpdateWrite, AncestryInv, LevelInv, RequestConsistent, RequestCurrent
  <1> HIDE DEF q
  <1>3. CASE ~q.move
    <2>1. UNCHANGED storages
      BY <1>2, <1>3
    <2>2. RowsInv'
      BY <2>1, RowFacts
      DEF RowsInv, PathIsAncestry, AbsentUnparented, SubtreesDieTogether, DepthCapped,
          Exists, Live, LiveIn
    <2> QED BY <1>1, <1>2, <2>2, WriteKeeps
  <1>4. CASE q.move
    <2>1. /\ storages \in [StorageIds -> Row] /\ RowsInv
          /\ Ancestral(PathsIn(storages), ParentsIn(storages))
      BY RowFacts
    <2>2. /\ storages' \in [StorageIds -> Row] /\ q.to \in MaybeStorage /\ q.level \in Int
          /\ Live(storages, q.id)
      BY <1>4, MoveWritten DEF q
    <2>3. /\ MoveCurrent(q)
          /\ \A d \in SubtreeOf(q.id) :
               storages[d].level + (q.level - storages[q.id].level) <= MAX_DEPTH
      BY <1>4, MoveWritten DEF q
    <2>4. /\ Ancestral(PathsIn(storages'), ParentsIn(storages'))
          /\ \A d \in StorageIds :
               /\ storages'[d].state = storages[d].state
               /\ storages'[d].parentId = IF d = q.id THEN q.to ELSE storages[d].parentId
               /\ storages'[d].level = IF d = q.id THEN q.level
                                       ELSE IF q.id \in AncestorIds(storages[d])
                                       THEN storages[d].level + (q.level - storages[q.id].level)
                                       ELSE storages[d].level
      BY <1>4, MoveWritten DEF q
    <2>5. q.to # NoStorage => Live(storages, q.to)
      BY <2>3 DEF MoveCurrent, DerivedCurrent
    <2>6. PathIsAncestry'
      <3>1. \A s \in StorageIds :
              storages'[s].parentId # NoStorage => Exists(storages', storages'[s].parentId)
        BY <1>2, <2>4, <2>5, RowFacts DEF Exists, Live
      <3> QED BY <2>2, <2>4, <3>1, AncestryOfTable DEF PathIsAncestry
    <2>7. AbsentUnparented'
      BY <2>1, <2>2, <2>4 DEF RowsInv, AbsentUnparented, Live
    <2>8. SubtreesDieTogether'
      BY <2>1, <2>4, <2>5 DEF RowsInv, SubtreesDieTogether, LiveIn, Live
    <2>9. ASSUME NEW d \in LiveIn(storages') PROVE storages'[d].level <= MAX_DEPTH
      <3>1. d \in StorageIds /\ d \in LiveIn(storages)
        BY <2>4 DEF LiveIn, Live
      <3>2. CASE d = q.id
        <4>1. /\ storages'[d].level = q.level
              /\ storages[q.id].level + (q.level - storages[q.id].level) <= MAX_DEPTH
          BY <2>3, <2>4, <3>2, <1>2 DEF SubtreeOf
        <4>2. storages[q.id].level \in Int
          BY <1>2, <2>1 DEF Row
        <4>3. \A a, b \in Int : a + (b - a) = b
          OBVIOUS
        <4> QED BY <2>2, <4>1, <4>2, <4>3
      <3>3. CASE d # q.id /\ q.id \in AncestorIds(storages[d])
        <4>1. UnderPrefix(SubtreePrefix(q.id, storages[q.id]), storages[d])
          BY <1>2, <2>1, <3>1, <3>3, TreeFacts
        <4>2. d \in SubtreeOf(q.id)
          BY <3>1, <4>1 DEF SubtreeOf, LiveDescendants
        <4> QED BY <2>3, <2>4, <3>1, <3>3, <4>2
      <3>4. CASE d # q.id /\ q.id \notin AncestorIds(storages[d])
        BY <2>1, <2>4, <3>1, <3>4 DEF RowsInv, DepthCapped
      <3> QED BY <3>2, <3>3, <3>4
    <2>10. DepthCapped'
      BY <2>9 DEF DepthCapped
    <2> QED BY <1>1, <1>2, <2>6, <2>7, <2>8, <2>10, WriteKeeps DEF RowsInv
  <1> QED BY <1>3, <1>4

LEMMA RemoveBeginAncestry ==
  ASSUME AncestryInv, NEW r \in StorageRequests, NEW s \in StorageIds, RemoveBegin(r, s)
  PROVE  AncestryInv'
  <1> DEFINE q == [StorageIdle EXCEPT !.pc = "remove.subtree", !.id = s, !.snap = Snapshot(storages[s])]
  <1>1. LevelInv'
    BY RowFacts, RemoveBeginLevel
  <1>2. Goes(r, q) /\ UNCHANGED tables /\ Live(storages, s)
    BY DEF RemoveBegin
  <1>3. RequestCurrent(q)
    BY <1>2 DEF StorageIdle, RequestCurrent, SnapshotCurrent
  <1> QED BY <1>1, <1>2, <1>3, ReadKeeps

LEMMA RemoveSubtreeAncestry ==
  ASSUME AncestryInv, NEW r \in StorageRequests, RemoveSubtree(r)
  PROVE  AncestryInv'
  <1> DEFINE q == storageReq[r]
             ids == {q.id} \cup LiveDescendants(storages, q.id, q.snap)
             nq == [StorageIdle EXCEPT !.pc = "remove.items", !.id = q.id, !.ids = ids]
  <1>1. LevelInv'
    BY RowFacts, RemoveSubtreeLevel
  <1>2. Goes(r, nq) /\ UNCHANGED tables /\ SnapshotCurrent(q)
    BY DEF RemoveSubtree, AncestryInv, RequestCurrent
  <1>3. ids = SubtreeOf(q.id) /\ Live(storages, q.id)
    BY <1>2 DEF SnapshotCurrent, Snapshot, SubtreeOf, LiveDescendants, SubtreePrefix
  <1> HIDE DEF ids
  <1>4. RequestCurrent(nq)
    BY <1>3 DEF StorageIdle, RequestCurrent
  <1> QED BY <1>1, <1>2, <1>4, ReadKeeps

LEMMA RemoveItemsAncestry ==
  ASSUME AncestryInv, NEW r \in StorageRequests, RemoveItems(r)
  PROVE  AncestryInv'
  <1> DEFINE q == storageReq[r]
             held == {<<i, items[i].storageId>> : i \in ItemsIn(q.ids)}
             nq == [q EXCEPT !.pc = "remove.write", !.held = held]
  <1>1. LevelInv'
    BY RowFacts, RemoveItemsLevel
  <1>2. /\ q \in StorageRequest /\ RequestCurrent(q) /\ q.pc = "remove.items"
        /\ Goes(r, nq) /\ UNCHANGED tables
    BY RowFacts DEF RemoveItems, AncestryInv
  <1> HIDE DEF q, held
  <1>3. RequestCurrent(nq)
    BY <1>2 DEF StorageRequest, RequestCurrent
  <1> QED BY <1>1, <1>2, <1>3, ReadKeeps

\* Soft-deleting a storage with what lies below it leaves no live row under a
\* deleted one.
LEMMA SubtreeDeleted ==
  ASSUME AncestryInv, NEW s \in StorageIds,
         storages' = SoftDeleted(storages, SubtreeOf(s))
  PROVE  RowsInv'
  <1>1. /\ RowsInv /\ storages \in [StorageIds -> Row]
        /\ Ancestral(PathsIn(storages), ParentsIn(storages))
    BY RowFacts
  <1> DEFINE ids == SubtreeOf(s)
  <1>2. \A d \in StorageIds :
          /\ storages'[d].parentId = storages[d].parentId
          /\ storages'[d].path = storages[d].path
          /\ storages'[d].level = storages[d].level
          /\ storages'[d].state = IF d \in ids /\ storages[d].state # "absent" THEN "deleted"
                                  ELSE storages[d].state
    BY <1>1 DEF SoftDeleted, Row
  <1>3. \A d \in StorageIds : /\ Exists(storages', d) <=> Exists(storages, d)
                              /\ Live(storages', d) <=> Live(storages, d) /\ d \notin ids
    BY <1>2 DEF Exists, Live
  <1>4. PathIsAncestry'
    <2> SUFFICES ASSUME NEW d \in StorageIds
                 PROVE  IF storages'[d].parentId = NoStorage THEN storages'[d].path = <<>>
                        ELSE /\ Exists(storages', storages'[d].parentId)
                             /\ storages'[d].path = SubtreePrefix(storages'[d].parentId,
                                                                 storages'[storages'[d].parentId])
      BY DEF PathIsAncestry
    <2>1. IF storages[d].parentId = NoStorage THEN storages[d].path = <<>>
          ELSE /\ Exists(storages, storages[d].parentId)
               /\ storages[d].path = SubtreePrefix(storages[d].parentId, storages[storages[d].parentId])
      BY <1>1 DEF RowsInv, PathIsAncestry
    <2>2. storages'[d].parentId = storages[d].parentId /\ storages'[d].path = storages[d].path
      BY <1>2
    <2>3. CASE storages[d].parentId # NoStorage
      <3>1. storages[d].parentId \in StorageIds
        BY <2>1, <2>3 DEF Exists
      <3>2. /\ Exists(storages', storages[d].parentId)
            /\ storages'[storages[d].parentId].path = storages[storages[d].parentId].path
        BY <1>2, <1>3, <2>1, <2>3, <3>1
      <3> QED BY <2>1, <2>2, <2>3, <3>2 DEF SubtreePrefix
    <2> QED BY <2>1, <2>2, <2>3
  <1>5. AbsentUnparented'
    BY <1>1, <1>2 DEF RowsInv, AbsentUnparented
  <1>6. DepthCapped'
    BY <1>1, <1>2, <1>3 DEF RowsInv, DepthCapped, LiveIn
  <1>7. ASSUME NEW d \in LiveIn(storages'), storages'[d].parentId # NoStorage
        PROVE  Live(storages', storages'[d].parentId)
    <2> DEFINE p == storages[d].parentId
    <2>1. d \in StorageIds /\ Live(storages, d) /\ d \notin ids /\ Live(storages, p) /\ p \in StorageIds
          /\ storages'[d].parentId = p
      BY <1>1, <1>2, <1>3, <1>7 DEF RowsInv, SubtreesDieTogether, LiveIn, Live
    <2>2. s \notin AncestorIds(storages[d])
      BY <1>1, <2>1, TreeFacts DEF SubtreeOf, LiveDescendants, LiveIn
    <2>3. p # s /\ s \notin AncestorIds(storages[p])
      BY <1>1, <1>7, <2>1, <2>2, TreeFacts
    <2>4. p \notin ids
      BY <1>1, <2>1, <2>3, TreeFacts DEF SubtreeOf, LiveDescendants
    <2> QED BY <1>3, <2>1, <2>4
  <1>8. SubtreesDieTogether'
    BY <1>7 DEF SubtreesDieTogether
  <1> QED BY <1>4, <1>5, <1>6, <1>8 DEF RowsInv

LEMMA RemoveWriteAncestry ==
  ASSUME AncestryInv, NEW r \in StorageRequests, Alone(r), RemoveWrite(r)
  PROVE  AncestryInv'
  <1>1. LevelInv'
    BY RowFacts, RemoveWriteLevel
  <1>2. /\ storageReq[r].id \in StorageIds /\ Ends(r)
        /\ storages' = SoftDeleted(storages, SubtreeOf(storageReq[r].id))
    BY DEF RemoveWrite, AncestryInv, LevelInv, RequestConsistent, RequestCurrent
  <1>3. RowsInv'
    BY <1>2, SubtreeDeleted
  <1> QED BY <1>1, <1>2, <1>3, WriteKeeps

LEMMA StorageFailsAncestry ==
  ASSUME AncestryInv, NEW r \in StorageRequests, StorageFails(r)
  PROVE  AncestryInv'
  <1>1. LevelInv'
    BY RowFacts, StorageFailsLevel
  <1>2. RequestCurrent(StorageIdle)
    BY DEF StorageIdle, RequestCurrent
  <1> QED BY <1>1, <1>2, ReadKeeps DEF StorageFails, Ends

\* The steps of a request that is alone in flight.
LEMMA StorageStepAncestry ==
  ASSUME AncestryInv, NEW r \in StorageRequests, Alone(r), StorageArrives(r) \/ StorageStep(r),
         PatchIds = FALSE \/ storageReq'[r].newId = NoStorage
  PROVE  AncestryInv'
  <1>1. CASE StorageArrives(r)
    BY <1>1, CreateBeginAncestry, UpdateBeginAncestry, RemoveBeginAncestry DEF StorageArrives
  <1>2. CASE StorageStep(r)
    BY <1>2, CreateInsertAncestry, UpdateParentAncestry, UpdateDepthAncestry, UpdateWriteAncestry,
       RemoveSubtreeAncestry, RemoveItemsAncestry, RemoveWriteAncestry, StorageFailsAncestry
    DEF StorageStep
  <1> QED BY <1>1, <1>2

LEMMA InitAncestry == StoragesInit => AncestryInv
  <1> SUFFICES ASSUME StoragesInit PROVE AncestryInv
    OBVIOUS
  <1>1. LevelInv
    BY InitLevel
  <1>2. \A s \in StorageIds : storages[s] = AbsentRow
    BY DEF StoragesInit, TablesInit
  <1>3. RowsInv
    BY <1>2
    DEF AbsentRow, RowsInv, PathIsAncestry, AbsentUnparented, SubtreesDieTogether, DepthCapped,
        LiveIn, Live
  <1>4. \A r \in StorageRequests : RequestCurrent(storageReq[r])
    BY DEF StoragesInit, StorageIdle, RequestCurrent
  <1> QED BY <1>1, <1>3, <1>4 DEF AncestryInv, RowsInv

LEMMA NextAncestry ==
  ASSUME PatchIds = FALSE, \A p, q \in StorageRequests : p = q,
         AncestryInv, [StoragesNext]_storageVars
  PROVE  AncestryInv'
  <1>1. CASE UNCHANGED storageVars
    <2>1. LevelInv'
      BY RowFacts, NextLevel
    <2>2. CASE StorageRequests = {}
      <3>1. RowsInv'
        BY <1>1, RowFacts
        DEF storageVars, RowsInv, PathIsAncestry, AbsentUnparented, SubtreesDieTogether,
            DepthCapped, Exists, Live, LiveIn
      <3> QED BY <2>1, <2>2, <3>1 DEF AncestryInv, RowsInv
    <2>3. CASE StorageRequests # {}
      <3>1. PICK r \in StorageRequests : TRUE
        BY <2>3
      <3>2. /\ Goes(r, storageReq[r]) /\ UNCHANGED tables /\ RequestCurrent(storageReq[r])
        BY <1>1 DEF storageVars, Goes, tables, AncestryInv, LevelInv, StoragesTypeOK
      <3> QED BY <2>1, <3>2, ReadKeeps
    <2> QED BY <2>2, <2>3
  <1>2. ASSUME NEW r \in StorageRequests, StorageArrives(r) \/ StorageStep(r) PROVE AncestryInv'
    BY <1>2, StorageStepAncestry DEF Alone
  <1> QED BY <1>1, <1>2 DEF StoragesNext

\* Without ids in PATCH bodies, and one request after the other, what a handler
\* read is still so when it writes, and the rows form a tree.
THEOREM AncestryInvariant ==
  ASSUME PatchIds = FALSE, \A p, q \in StorageRequests : p = q
  PROVE  StoragesSpec => []AncestryInv
  <1>1. AncestryInv /\ [StoragesNext]_storageVars => AncestryInv'
    BY NextAncestry
  <1> QED BY <1>1, InitAncestry, PTL DEF StoragesSpec

\* While requests do not overlap, the path of every row is the ancestry that
\* following parentId gives.
THEOREM PathIsAlwaysAncestry ==
  ASSUME PatchIds = FALSE, \A p, q \in StorageRequests : p = q
  PROVE  StoragesSpec => []PathIsAncestry
  <1>1. AncestryInv => PathIsAncestry
    BY DEF AncestryInv
  <1> QED BY <1>1, AncestryInvariant, PTL

\* Creates and moves of whole subtrees, in any sequence, never nest a live
\* storage deeper than MAX_DEPTH.
THEOREM DepthIsAlwaysCapped ==
  ASSUME PatchIds = FALSE, \A p, q \in StorageRequests : p = q
  PROVE  StoragesSpec => []DepthCapped
  <1>1. AncestryInv => DepthCapped
    BY DEF AncestryInv
  <1> QED BY <1>1, AncestryInvariant, PTL

\* No live storage is ever left under a deleted one, or inside itself.
THEOREM LiveUnderLive ==
  ASSUME PatchIds = FALSE, \A p, q \in StorageRequests : p = q
  PROVE  StoragesSpec => [](SubtreesDieTogether /\ NeverInsideItself)
  <1>1. AncestryInv => SubtreesDieTogether /\ NeverInsideItself
    <2> SUFFICES ASSUME AncestryInv PROVE NeverInsideItself
      BY DEF AncestryInv
    <2> QED BY RowFacts, TreeFacts DEF NeverInsideItself, LiveIn
  <1> QED BY <1>1, AncestryInvariant, PTL

\* tree() loses nothing: if it did, take what it leaves out at the least level;
\* it is no root, so its parent is live, a level above it, and shown.
LEMMA TreeShowsEachRow == AncestryInv => TreeShowsAll
  <1> SUFFICES ASSUME AncestryInv PROVE TreeShown = LiveIn(storages)
    BY DEF TreeShowsAll
  <1> DEFINE live == LiveIn(storages)
             closed(set) == TreeRoots \subseteq set /\ HoldsChildren(storages, set)
  <1>1. live \in SUBSET StorageIds /\ closed(live)
    BY DEF LiveIn, TreeRoots, HoldsChildren
  <1>2. TreeShown \subseteq live
    BY <1>1 DEF TreeShown, Nested
  <1>3. ASSUME NEW set \in SUBSET StorageIds, closed(set)
        PROVE  live \subseteq set
    <2> DEFINE lost == live \ set
               levels == {storages[s].level : s \in lost}
    <2>1. SUFFICES ASSUME lost # {} PROVE FALSE
      OBVIOUS
    <2>2. \A s \in StorageIds : storages[s].level \in Nat
      BY RowFacts, LenProperties DEF LevelInv, LevelIsDepth, Row, Paths
    <2>3. PICK s \in lost : \A t \in lost : storages[s].level <= storages[t].level
      <3>1. levels \in SUBSET Nat /\ levels # {}
        BY <1>1, <2>1, <2>2
      <3> HIDE DEF lost
      <3>2. PICK x \in levels : \A y \in levels : x <= y
        BY <3>1, LeastNumber
      <3> QED BY <3>2
    <2> DEFINE p == storages[s].parentId
    <2>4. s \in live /\ s \notin set /\ s \notin TreeRoots
      BY <1>3
    <2>5. Live(storages, p) /\ p \in StorageIds
      BY <2>4 DEF TreeRoots, Live
    <2>6. p # NoStorage
      BY <2>5, StorageAssumption
    <2>7. p \notin set
      BY <1>3, <2>4 DEF HoldsChildren
    <2>8. p \in lost
      BY <2>5, <2>7 DEF LiveIn
    <2>9. storages[s].level = storages[p].level + 1
      <3>1. storages[s].path = SubtreePrefix(p, storages[p])
        BY <1>1, <2>4, <2>6 DEF AncestryInv, PathIsAncestry
      <3>2. Len(SubtreePrefix(p, storages[p])) = storages[p].level + 1
        BY <2>5, RowFacts, LiveRow DEF Live, Exists
      <3>3. storages[s].level = Len(storages[s].path)
        BY <1>1, <2>4, RowFacts DEF LevelInv, LevelIsDepth
      <3> QED BY <3>1, <3>2, <3>3
    <2> QED BY <2>2, <2>3, <2>5, <2>8, <2>9
  <1>4. live \subseteq TreeShown
    BY <1>1, <1>3 DEF TreeShown, Nested
  <1> QED BY <1>2, <1>4

\* While requests do not overlap, the nested tree of a place shows each of its
\* live storages.
THEOREM TreeAlwaysShowsAll ==
  ASSUME PatchIds = FALSE, \A p, q \in StorageRequests : p = q
  PROVE  StoragesSpec => []TreeShowsAll
BY TreeShowsEachRow, AncestryInvariant, PTL

-----------------------------------------------------------------------------
(* The storages implement the forest.                                      *)

\* A storage without the property Good and of least level has a parent with it.
LEMMA ForestAncestry ==
  ASSUME AncestryInv, NEW s \in StorageIds
  PROVE  /\ Forest!Ancestors(s) = AncestorIds(storages[s])
         /\ Forest!Depth(s) = storages[s].level
  <1> DEFINE up(t) == AncestorIds(storages[t])
             parent == [t \in StorageIds |-> storages[t].parentId]
             holds(t, set) == \A u \in set \cup {t} : parent[u] # NoStorage => parent[u] \in set
             good(t) == /\ \A set \in SUBSET StorageIds : holds(t, set) => up(t) \subseteq set
                        /\ IsFiniteSet(up(t)) /\ Cardinality(up(t)) = storages[t].level
             bad == {t \in StorageIds : ~good(t)}
             levels == {storages[t].level : t \in bad}
  <1>1. \A t \in StorageIds :
          /\ storages[t].level \in Nat /\ up(t) \subseteq StorageIds \ {t}
          /\ parent[t] = NoStorage => up(t) = {} /\ storages[t].level = 0
          /\ parent[t] # NoStorage =>
               /\ parent[t] \in StorageIds /\ up(t) = up(parent[t]) \cup {parent[t]}
               /\ storages[t].level = storages[parent[t]].level + 1
    <2> SUFFICES ASSUME NEW t \in StorageIds
                 PROVE  /\ storages[t].level \in Nat /\ up(t) \subseteq StorageIds \ {t}
                        /\ parent[t] = NoStorage => up(t) = {} /\ storages[t].level = 0
                        /\ parent[t] # NoStorage =>
                             /\ parent[t] \in StorageIds /\ up(t) = up(parent[t]) \cup {parent[t]}
                             /\ storages[t].level = storages[parent[t]].level + 1
      OBVIOUS
    <2>1. storages[t].level \in Nat /\ storages[t].level = Len(storages[t].path)
      BY RowFacts, LenProperties DEF LevelInv, LevelIsDepth, Row, Paths
    <2>2. /\ up(t) \subseteq StorageIds \ {t}
          /\ parent[t] = NoStorage => up(t) = {}
          /\ parent[t] # NoStorage => up(t) = up(parent[t]) \cup {parent[t]}
      BY RowFacts, TreeFacts
    <2>3. CASE parent[t] = NoStorage
      <3>1. storages[t].path = <<>>
        BY <2>3 DEF AncestryInv, PathIsAncestry
      <3>2. storages[t].level = 0
        BY <2>1, <3>1, EmptySeq
      <3> QED BY <2>1, <2>2, <2>3, <3>2
    <2>4. CASE parent[t] # NoStorage
      <3> DEFINE p == parent[t]
      <3>1. Exists(storages, p) /\ storages[t].path = SubtreePrefix(p, storages[p])
        BY <2>4 DEF AncestryInv, PathIsAncestry
      <3>2. p \in StorageIds /\ Len(SubtreePrefix(p, storages[p])) = storages[p].level + 1
        BY <3>1, RowFacts, LiveRow
      <3> QED BY <2>1, <2>2, <2>4, <3>1, <3>2
    <2> QED BY <2>3, <2>4
  <1>2. bad = {}
    <2> SUFFICES ASSUME bad # {} PROVE FALSE
      OBVIOUS
    <2>1. PICK t \in bad : \A u \in bad : storages[t].level <= storages[u].level
      <3>1. levels \in SUBSET Nat /\ levels # {}
        <4>1. bad \in SUBSET StorageIds
          OBVIOUS
        <4> HIDE DEF bad, up, parent
        <4> QED BY <1>1, <4>1
      <3> HIDE DEF bad
      <3>2. PICK x \in levels : \A y \in levels : x <= y
        BY <3>1, LeastNumber
      <3> QED BY <3>2
    <2>2. t \in StorageIds /\ ~good(t)
      OBVIOUS
    <2>3. CASE parent[t] = NoStorage
      <3>1. up(t) = {} /\ storages[t].level = 0
        BY <1>1, <2>2, <2>3
      <3>2. IsFiniteSet({}) /\ Cardinality({}) = 0
        BY FS_EmptySet
      <3> HIDE DEF up
      <3> QED BY <2>2, <3>1, <3>2
    <2>4. CASE parent[t] # NoStorage
      <3> DEFINE p == parent[t]
      <3>1. /\ p \in StorageIds /\ up(t) = up(p) \cup {p} /\ p \notin up(p)
            /\ storages[t].level = storages[p].level + 1
            /\ storages[p].level \in Nat
        BY <1>1, <2>2, <2>4
      <3>2. good(p)
        <4>1. p \notin bad
          <5> HIDE DEF bad, p
          <5>1. storages[t].level = storages[p].level + 1 /\ storages[p].level \in Nat
            BY <3>1
          <5>2. ~(storages[t].level <= storages[p].level)
            BY <5>1
          <5> QED BY <2>1, <5>2
        <4> HIDE DEF p, good
        <4> QED BY <3>1, <4>1
      <3> HIDE DEF p, up
      <3>3. IsFiniteSet(up(t)) /\ Cardinality(up(t)) = storages[t].level
        BY <3>1, <3>2, FS_AddElement
      <3>4. ASSUME NEW set \in SUBSET StorageIds, holds(t, set) PROVE up(t) \subseteq set
        <4>1. p \in set
          BY <2>4, <3>4 DEF p
        <4>2. holds(p, set)
          BY <3>4, <4>1
        <4> QED BY <3>1, <3>2, <4>1, <4>2
      <3> QED BY <2>2, <3>3, <3>4
    <2> QED BY <2>3, <2>4
  <1>3. good(s)
    BY <1>2
  <1>4. holds(s, up(s))
    <2>1. \A u \in up(s) : up(u) \subseteq up(s) /\ u \in StorageIds
      BY <1>1, RowFacts, AncestorsNest
    <2> HIDE DEF up, parent
    <2> QED BY <1>1, <2>1
  <1>5. Forest!Ancestors(s) = up(s)
    <2>1. Forest!Ancestors(s)
          = {t \in StorageIds : \A set \in SUBSET StorageIds : holds(s, set) => t \in set}
      BY DEF Forest!Ancestors, Forest!HoldsParents
    <2> HIDE DEF up, holds
    <2> QED BY <1>1, <1>3, <1>4, <2>1
  <1>6. Forest!Depth(s) = storages[s].level
    <2>1. \A set : Forest!Cardinality(set) = Cardinality(set)
      BY DEF Forest!Cardinality, Cardinality
    <2> HIDE DEF up, holds
    <2> QED BY <1>3, <1>5, <2>1 DEF Forest!Depth
  <1> QED BY <1>5, <1>6

LEMMA ForestSubtree ==
  ASSUME AncestryInv, NEW s \in StorageIds, Live(storages, s)
  PROVE  Forest!Subtree(s) = SubtreeOf(s)
  <1>1. \A t \in StorageIds :
          s \in Forest!Ancestors(t) <=> UnderPrefix(SubtreePrefix(s, storages[s]), storages[t])
    BY RowFacts, ForestAncestry, TreeFacts
  <1>2. Forest!Subtree(s) = {t \in LiveIn(storages) : t = s \/ s \in Forest!Ancestors(t)}
    BY DEF Forest!Subtree
  <1> QED BY <1>1, <1>2 DEF SubtreeOf, LiveDescendants, LiveIn

\* What a request is about to write as the level is the level under that parent.
LEMMA ForestLevel ==
  ASSUME AncestryInv, NEW q, DerivedCurrent(q)
  PROVE  Forest!LevelUnder(q.to) = q.level /\ q.to \in LiveIn(storages) \cup {NoStorage}
  <1>1. CASE q.to = NoStorage /\ q.level = 0
    BY <1>1 DEF Forest!LevelUnder
  <1>2. CASE Live(storages, q.to) /\ q.level = storages[q.to].level + 1
    <2>1. q.to \in StorageIds /\ q.to # NoStorage
      BY <1>2, StorageAssumption DEF Live
    <2>2. Forest!Depth(q.to) = storages[q.to].level
      BY <2>1, ForestAncestry
    <2> QED BY <1>2, <2>1, <2>2 DEF Forest!LevelUnder, LiveIn
  <1> QED BY <1>1, <1>2 DEF DerivedCurrent

LEMMA CreateInsertPlants ==
  ASSUME AncestryInv, NEW r \in StorageRequests, CreateInsert(r)
  PROVE  \E s \in StorageIds, p \in MaybeStorage : Forest!Plant(s, p)
  <1> DEFINE q == storageReq[r]
             row == [state |-> "live", parentId |-> q.to, path |-> q.path, level |-> q.level]
  <1>1. /\ q.id \in StorageIds /\ storages[q.id].state = "absent" /\ q.to \in MaybeStorage
        /\ DerivedCurrent(q) /\ q.level <= MAX_DEPTH
    BY RowFacts
    DEF CreateInsert, AncestryInv, LevelInv, RequestConsistent, RequestCurrent, Exists,
        StorageRequest
  <1>2. storages \in [StorageIds -> Row] /\ storages' = [storages EXCEPT ![q.id] = row]
    BY RowFacts DEF CreateInsert
  <1>3. Forest!LevelUnder(q.to) = q.level /\ q.to \in LiveIn(storages) \cup {NoStorage}
    BY <1>1, ForestLevel
  <1> HIDE DEF q
  <1>4. /\ [s \in StorageIds |-> storages'[s].parentId]
           = [[s \in StorageIds |-> storages[s].parentId] EXCEPT ![q.id] = q.to]
        /\ {s \in StorageIds : storages'[s].state # "absent"}
           = {s \in StorageIds : storages[s].state # "absent"} \cup {q.id}
        /\ LiveIn(storages') = LiveIn(storages) \cup {q.id}
    BY <1>1, <1>2 DEF LiveIn, Live
  <1>5. PICK s \in StorageIds, p \in MaybeStorage : s = q.id /\ p = q.to
    BY <1>1
  <1>6. Forest!Plant(s, p)
    BY <1>1, <1>3, <1>4, <1>5 DEF Forest!Plant
  <1> QED BY <1>6

LEMMA MoveGrafts ==
  ASSUME AncestryInv, NEW r \in StorageRequests, UpdateWrite(r), storageReq[r].move
  PROVE  \E s \in StorageIds, p \in MaybeStorage : Forest!Graft(s, p)
  <1> DEFINE q == storageReq[r]
  <1>1. /\ q.id \in StorageIds /\ Live(storages, q.id) /\ q.to \in MaybeStorage
        /\ q.level \in Int /\ MoveCurrent(q)
        /\ \A d \in SubtreeOf(q.id) :
             storages[d].level + (q.level - storages[q.id].level) <= MAX_DEPTH
        /\ \A d \in StorageIds :
             /\ storages'[d].state = storages[d].state
             /\ storages'[d].parentId = IF d = q.id THEN q.to ELSE storages[d].parentId
    BY MoveWritten
  <1> HIDE DEF q
  <1>2. Forest!LevelUnder(q.to) = q.level /\ q.to \in LiveIn(storages) \cup {NoStorage}
    BY <1>1, ForestLevel DEF MoveCurrent
  <1>3. Forest!Subtree(q.id) = SubtreeOf(q.id)
    BY <1>1, ForestSubtree
  <1>4. q.to \in (LiveIn(storages) \ Forest!Subtree(q.id)) \cup {NoStorage}
    <2>1. CASE q.to # NoStorage
      <3>1. q.to \in StorageIds /\ q.to # q.id /\ q.id \notin AncestorIds(storages[q.to])
        BY <1>1, <1>2, <2>1 DEF MoveCurrent, LiveIn
      <3>2. q.to \notin Forest!Subtree(q.id)
        BY <3>1, ForestAncestry DEF Forest!Subtree
      <3> QED BY <1>2, <3>2
    <2> QED BY <2>1
  <1>5. ASSUME NEW t \in SubtreeOf(q.id)
        PROVE  Forest!LevelUnder(q.to) + Forest!Depth(t) - Forest!Depth(q.id) <= MAX_DEPTH
    <2>1. t \in StorageIds /\ storages[t].level \in Int /\ storages[q.id].level \in Int
      BY <1>1, RowFacts DEF SubtreeOf, LiveDescendants, LiveIn, Row
    <2>2. Forest!Depth(t) = storages[t].level /\ Forest!Depth(q.id) = storages[q.id].level
      BY <1>1, <2>1, ForestAncestry
    <2>3. storages[t].level + (q.level - storages[q.id].level) <= MAX_DEPTH
      BY <1>1
    <2>4. \A a, b, c \in Int : b + (a - c) <= MAX_DEPTH => a + b - c <= MAX_DEPTH
      BY StorageAssumption
    <2>5. q.level + storages[t].level - storages[q.id].level <= MAX_DEPTH
      BY <1>1, <2>1, <2>3, <2>4
    <2> QED BY <1>2, <2>2, <2>5
  <1>6. /\ [s \in StorageIds |-> storages'[s].parentId]
           = [[s \in StorageIds |-> storages[s].parentId] EXCEPT ![q.id] = q.to]
        /\ {s \in StorageIds : storages'[s].state # "absent"}
           = {s \in StorageIds : storages[s].state # "absent"}
        /\ LiveIn(storages') = LiveIn(storages) /\ q.id \in LiveIn(storages)
    <2> DEFINE from == [s \in StorageIds |-> storages[s].parentId]
               onto == [s \in StorageIds |-> storages'[s].parentId]
    <2>1. \A s \in StorageIds : /\ onto[s] = IF s = q.id THEN q.to ELSE from[s]
                                /\ from[s] = storages[s].parentId
      BY <1>1
    <2>2. onto = [from EXCEPT ![q.id] = q.to]
      BY <2>1
    <2>3. q.id \in LiveIn(storages)
      BY <1>1 DEF LiveIn
    <2> QED BY <1>1, <2>2, <2>3 DEF LiveIn, Live
  <1>7. PICK s \in StorageIds, p \in MaybeStorage : s = q.id /\ p = q.to
    BY <1>1
  <1>8. Forest!Graft(s, p)
    BY <1>3, <1>4, <1>5, <1>6, <1>7 DEF Forest!Graft
  <1> QED BY <1>8

LEMMA RemoveWriteFells ==
  ASSUME AncestryInv, NEW r \in StorageRequests, RemoveWrite(r)
  PROVE  \E s \in StorageIds : Forest!Fell(s)
  <1> DEFINE s == storageReq[r].id
  <1>1. /\ s \in StorageIds /\ Live(storages, s)
        /\ storages' = SoftDeleted(storages, SubtreeOf(s))
    BY DEF RemoveWrite, AncestryInv, LevelInv, RequestConsistent, RequestCurrent
  <1> HIDE DEF s
  <1>2. Forest!Subtree(s) = SubtreeOf(s)
    BY <1>1, ForestSubtree
  <1>3. \A d \in StorageIds :
          /\ storages'[d].parentId = storages[d].parentId
          /\ storages'[d].state = IF d \in SubtreeOf(s) /\ storages[d].state # "absent"
                                  THEN "deleted" ELSE storages[d].state
    BY <1>1, RowFacts DEF SoftDeleted, Row
  <1>4. /\ [t \in StorageIds |-> storages'[t].parentId] = [t \in StorageIds |-> storages[t].parentId]
        /\ {t \in StorageIds : storages'[t].state # "absent"}
           = {t \in StorageIds : storages[t].state # "absent"}
        /\ LiveIn(storages') = LiveIn(storages) \ SubtreeOf(s) /\ s \in LiveIn(storages)
    BY <1>1, <1>3 DEF LiveIn, Live
  <1>5. Forest!Fell(s)
    BY <1>2, <1>4 DEF Forest!Fell
  <1> QED BY <1>1, <1>5

LEMMA ForestInit == StoragesInit => Forest!Init
  <1> SUFFICES ASSUME StoragesInit PROVE Forest!Init
    OBVIOUS
  <1>1. \A s \in StorageIds : storages[s] = AbsentRow
    BY DEF StoragesInit, TablesInit
  <1> QED BY <1>1 DEF Forest!Init, AbsentRow, LiveIn, Live

LEMMA ForestNext ==
  ASSUME PatchIds = FALSE, AncestryInv, [StoragesNext]_storageVars
  PROVE  [Forest!Next]_Forest!vars
  <1>1. ASSUME UNCHANGED storages PROVE UNCHANGED Forest!vars
    BY <1>1 DEF Forest!vars, LiveIn, Live
  <1>2. CASE UNCHANGED storageVars
    BY <1>1, <1>2 DEF storageVars
  <1>3. ASSUME NEW r \in StorageRequests, StorageArrives(r) PROVE UNCHANGED storages
    BY <1>3 DEF StorageArrives, CreateBegin, UpdateBegin, RemoveBegin, tables
  <1>4. ASSUME NEW r \in StorageRequests, StorageStep(r) PROVE [Forest!Next]_Forest!vars
    <2>1. CASE CreateInsert(r)
      BY <2>1, CreateInsertPlants DEF Forest!Next, MaybeStorage
    <2>2. CASE UpdateWrite(r) /\ storageReq[r].move
      BY <2>2, MoveGrafts DEF Forest!Next, MaybeStorage
    <2>3. CASE UpdateWrite(r) /\ ~storageReq[r].move
      <3>1. storageReq[r].newId = NoStorage
        BY DEF AncestryInv, RequestCurrent
      <3>2. UNCHANGED storages
        BY <2>3, <3>1 DEF UpdateWrite
      <3> QED BY <1>1, <3>2
    <2>4. CASE RemoveWrite(r)
      BY <2>4, RemoveWriteFells DEF Forest!Next
    <2>5. CASE UpdateParent(r) \/ UpdateDepth(r) \/ RemoveSubtree(r) \/ RemoveItems(r) \/ StorageFails(r)
      BY <1>1, <2>5 DEF UpdateParent, UpdateDepth, RemoveSubtree, RemoveItems, StorageFails, tables
    <2> QED BY <1>4, <2>1, <2>2, <2>3, <2>4, <2>5 DEF StorageStep
  <1> QED BY <1>1, <1>2, <1>3, <1>4 DEF StoragesNext

\* While requests do not overlap, the rows with their paths are a forest: every
\* step of a request plants a storage, grafts one with what lies in it, fells a
\* subtree, or changes nothing of the forest.
THEOREM StoragesAreAForest ==
  ASSUME PatchIds = FALSE, \A p, q \in StorageRequests : p = q
  PROVE  StoragesSpec => ImplementsForest
  <1>1. AncestryInv /\ [StoragesNext]_storageVars => [Forest!Next]_Forest!vars
    BY ForestNext
  <1> QED BY <1>1, AncestryInvariant, ForestInit, PTL DEF StoragesSpec, ImplementsForest, Forest!Spec

=============================================================================
