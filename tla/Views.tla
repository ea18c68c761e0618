------------------------------- MODULE Views -------------------------------
(***************************************************************************)
(* What the screens show a member of the place: the list of items and the  *)
(* list under a storage, the search, the storage tree with its counts, the *)
(* cards of the home screen, the reminders, and the photos of items that   *)
(* the reader did not upload.  Each is a query of its own with its own     *)
(* filters, in Prisma or in raw SQL, over the tables that the handlers of  *)
(* Inventory write.  Text, dates, quantities and statuses are left out:    *)
(* every item matches, expires and runs low, and none is DISCARDED or      *)
(* CONSUMED, which the search hides unless it is asked not to; no photo is *)
(* also a cover.                                                           *)
(***************************************************************************)
EXTENDS Inventory

Visible(u) == {i \in LiveItems : VisibleTo(items[i], u)}

\* PlaceMemberGuard, and place: {deletedAt: null} where no guard stands.
PlaceShown == place # "deleted"

\* GET items; the count of GET places and of GET places/:placeId is taken with
\* the same filter.
ListedItems(u) == IF PlaceShown THEN Visible(u) ELSE {}

\* GET items?storageId=s: with what is in the storages whose path names s.
ListedUnder(u, s) ==
  {i \in Visible(u) :
     items[i].storageId \in {s} \cup LiveDescendants(storages, s, storages[s])}

\* GET search: the joins of its raw SQL.
FoundItems(u) ==
  {i \in ItemIds : /\ PlaceShown
                   /\ items[i].state = "live"
                   /\ items[i].visibility = "SHARED" \/ items[i].owner = u}

\* GET search, the storages.
FoundStorages == IF PlaceShown THEN LiveIn(storages) ELSE {}

\* assertReadable: the items through which somebody who did not upload their
\* photos may read them.
PhotosReadable(u) ==
  {i \in ItemIds : /\ items[i].state = "live"
                   /\ PlaceShown
                   /\ items[i].visibility = "SHARED" \/ items[i].owner = u}

\* itemCounts: of a storage, without what is nested in it.  The search counts
\* the items of the storages it finds in the same way.
CountedIn(u, s) == {i \in Visible(u) : items[i].storageId = s}

\* The storages that tree() nests under s.
SubtreeShown(s) == Nested(storages, {s})

\* Mutant: the raw SQL forgets who may see what.
LowStockOfAll(u) == {i \in ItemIds : items[i].state = "live"}

\* attention: items that run low, by a raw query that asks for the membership
\* and for the item, not for the place.
LowStock(u) ==
  {i \in ItemIds : items[i].state = "live"
                   /\ (items[i].visibility = "SHARED" \/ items[i].owner = u)}

\* A place's storageCount on its card counts rows, on its own page live rows.
StorageCountOnCard == Cardinality({s \in StorageIds : Exists(storages, s)})
StorageCountOnPage == Cardinality(LiveIn(storages))

-----------------------------------------------------------------------------
\* The search, the reminders and the photos show a member the items the lists
\* show, all of them and none of a deleted place or of somebody else's.
SearchAndRemindersAgree ==
  \A u \in Users : /\ FoundItems(u) = ListedItems(u)
                   /\ LowStock(u) = ListedItems(u)
                   /\ PhotosReadable(u) = ListedItems(u)

\* Each of those is in no storage, or counted at a storage the tree shows, and
\* the search finds the storages of the tree.
TreeCountsItems ==
  PlaceShown =>
    /\ FoundStorages = TreeShown
    /\ \A u \in Users :
         ListedItems(u) = {i \in Visible(u) : items[i].storageId = NoStorage}
                          \cup UNION {CountedIn(u, s) : s \in TreeShown}

\* The list under a storage, chosen by path, is what the tree, nested by
\* parentId, counts there and below.
NestedListIsSubtree ==
  \A u \in Users, s \in LiveIn(storages) :
    ListedUnder(u, s) = UNION {CountedIn(u, d) : d \in SubtreeShown(s)}

ViewsAgree == SearchAndRemindersAgree /\ TreeCountsItems /\ NestedListIsSubtree

\* The card of a place and its page count the same storages.
StorageCountsAgree == StorageCountOnCard = StorageCountOnPage

=============================================================================
