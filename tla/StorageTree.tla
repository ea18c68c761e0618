---------------------------- MODULE StorageTree ----------------------------
(***************************************************************************)
(* The storage tree of one place as the table "storages" holds it: every   *)
(* row names its parent, and also carries the materialised path of its     *)
(* ancestors (root first) and its level.  This module has the pure part of *)
(* storages.service.ts: how a path is derived, how a subtree is selected   *)
(* by its path, and what a move writes.                                    *)
(*                                                                         *)
(* A path "a/b" is the sequence <<a, b>>: ids are UUIDs, which contain     *)
(* neither the separator nor a LIKE wildcard, so splitting on "/" and      *)
(* matching "prefix/%" are exactly the sequence operations below.          *)
(***************************************************************************)
EXTENDS Integers, Sequences, FiniteSets, FiniteSetsExt, SequencesExt

CONSTANTS
  StorageIds,   \* the ids a storage row may have, server- or client-made
  NoStorage,    \* NULL in parentId and storageId
  MAX_DEPTH     \* the depth cap (10 in the code, small when model-checked)

ASSUME StorageAssumption ==
  /\ NoStorage \notin StorageIds
  /\ MAX_DEPTH \in Nat

MaybeStorage == StorageIds \cup {NoStorage}
Paths == Seq(StorageIds)

\* "absent": no such row.  Rows are only ever soft-deleted.
Row == [state : {"absent", "live", "deleted"}, parentId : MaybeStorage,
        path : Paths, level : Int]

AbsentRow == [state |-> "absent", parentId |-> NoStorage, path |-> <<>>, level |-> 0]

Exists(table, s) == s \in StorageIds /\ table[s].state # "absent"
Live(table, s) == s \in StorageIds /\ table[s].state = "live"
LiveIn(table) == {s \in StorageIds : Live(table, s)}

-----------------------------------------------------------------------------
\* Mutant: the parent's id in place of s's own.
SubtreePrefixByParent(s, row) == Append(row.path, row.parentId)

\* The path that the direct children of s carry.
SubtreePrefix(s, row) == Append(row.path, s)

\* Ancestor ids of a row.
AncestorIds(row) == {row.path[i] : i \in DOMAIN row.path}

\* Mutant: only the LIKE, which leaves the direct children out.
UnderPrefixBelow(prefix, row) == IsStrictPrefix(prefix, row.path)

\* path = prefix OR path LIKE prefix/%
UnderPrefix(prefix, row) == IsPrefix(prefix, row.path)

\* The live rows that descendantWhere selects for the snapshot `row' of s.
LiveDescendants(table, s, row) ==
  {d \in LiveIn(table) : UnderPrefix(SubtreePrefix(s, row), table[d])}

\* Mutant: one level short.
DepthBelowShort(table, s, row) ==
  IF LiveDescendants(table, s, row) = {} THEN 0
  ELSE Max({table[d].level : d \in LiveDescendants(table, s, row)}) - row.level - 1

\* How far the deepest live descendant lies below s: _max.level over the
\* selected rows, or nothing when there are none.
DepthBelow(table, s, row) ==
  IF LiveDescendants(table, s, row) = {} THEN 0
  ELSE Max({table[d].level : d \in LiveDescendants(table, s, row)}) - row.level

\* What tree() nests under the storages of a set, those included: the least
\* set that holds them and the live children of its members.
HoldsChildren(table, set) ==
  \A d \in LiveIn(table) : table[d].parentId \in set => d \in set

Nested(table, roots) ==
  {s \in StorageIds :
     \A set \in SUBSET StorageIds : roots \subseteq set /\ HoldsChildren(table, set) => s \in set}

-----------------------------------------------------------------------------
\* Mutant: the first statement leaves parentId alone.
MovedRowParentKept(table, s, to, newPath, newLevel) ==
  [table EXCEPT ![s] = [state |-> table[s].state, parentId |-> table[s].parentId,
                        path |-> newPath, level |-> newLevel]]

\* Mutant: the second statement rewrites the path and forgets the level.
ReprefixedLevelKept(row, oldPrefix, newPrefix, shift) ==
  IF row.state # "absent" /\ UnderPrefix(oldPrefix, row)
  THEN [row EXCEPT !.path =
          newPrefix \o SubSeq(row.path, Len(oldPrefix) + 1, Len(row.path))]
  ELSE row

\* What reparent writes: first the moved row, then one statement that gives
\* every row found under the old prefix, deleted rows included, the new prefix
\* and the shift of level.  `row' is the snapshot the handler read earlier.
MovedRow(table, s, to, newPath, newLevel) ==
  [table EXCEPT ![s] = [state |-> table[s].state, parentId |-> to,
                        path |-> newPath, level |-> newLevel]]

Reprefixed(row, oldPrefix, newPrefix, shift) ==
  IF row.state # "absent" /\ UnderPrefix(oldPrefix, row)
  THEN [state |-> row.state, parentId |-> row.parentId,
        path |-> newPrefix \o SubSeq(row.path, Len(oldPrefix) + 1, Len(row.path)),
        level |-> row.level + shift]
  ELSE row

Reparented(table, s, row, to, newPath, newLevel) ==
  LET moved == MovedRow(table, s, to, newPath, newLevel)
  IN  [d \in StorageIds |->
         Reprefixed(moved[d], SubtreePrefix(s, row), Append(newPath, s), newLevel - row.level)]

-----------------------------------------------------------------------------
\* A PATCH body that carries an id changes the primary key: the foreign keys
\* are ON UPDATE CASCADE, so parentId follows, and the text in path does not.
Renamed(table, s, id) ==
  LET moved == [table EXCEPT ![id] = table[s], ![s] = AbsentRow]
  IN  [d \in StorageIds |->
         IF moved[d].parentId = s THEN [moved[d] EXCEPT !.parentId = id] ELSE moved[d]]

\* Mutant: deletes the rows for good.
HardDeleted(table, ids) ==
  [d \in StorageIds |-> IF d \in ids THEN AbsentRow ELSE table[d]]

\* Soft-deletes the rows of a set of ids.
SoftDeleted(table, ids) ==
  [d \in StorageIds |->
     IF d \in ids /\ table[d].state # "absent"
     THEN [table[d] EXCEPT !.state = "deleted"] ELSE table[d]]

=============================================================================
