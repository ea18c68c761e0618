------------------------------- MODULE Sync -------------------------------
(***************************************************************************)
(* SyncService: one user's offline copy of the places that user is a       *)
(* member of, brought up to date by GET /sync with a timestamp as cursor,  *)
(* while everybody's writes go on.                                         *)
(*                                                                         *)
(* Time is counted in milliseconds, the precision of updatedAt.  The six   *)
(* lists of a response are six queries in no transaction, in any order,    *)
(* and the server's time is read after the last of them.  Of a row, rev    *)
(* counts the changes of its contents, which is what a copy can lack.      *)
(***************************************************************************)
EXTENDS Naturals, FiniteSets, FiniteSetsExt

CONSTANTS
  Places, Storages, Items,   \* the ids of the rows of each kind
  PAGE_CAP,                  \* the rows a list may have (1000 in the code)
  BatchBound,                \* bound: rows of a kind that one statement writes
  MaxTime,                   \* bound: the last millisecond
  Span,                      \* bound: the milliseconds in which one write records times
  MaxRev,                    \* bound: the changes of a row
  Allowed                    \* which of the behaviours below may happen

\* "overlap": a write commits while a sync reads, or in a millisecond already
\* used.  "late": it commits after the millisecond it is stamped with.
\* "race": writes run at the same time as each other, so that others commit
\* after a removal took its deletedAt, and a write by id reaches a row deleted
\* since it was read.  "join": the user is added to a place that has contents.
\* "move": a storage is moved with what is below it.
ASSUME SyncAssumption ==
  /\ IsFiniteSet(Places) /\ IsFiniteSet(Storages) /\ IsFiniteSet(Items)
  /\ Places # {} /\ Places \cap Storages = {} /\ (Places \cup Storages) \cap Items = {}
  /\ PAGE_CAP \in Nat \ {0}
  /\ BatchBound \in Nat /\ MaxTime \in Nat /\ Span \in Nat /\ MaxRev \in Nat
  /\ Allowed \subseteq {"overlap", "late", "race", "join", "move"}

VARIABLES
  rows,      \* the three tables
  member,    \* where the user's membership is ACTIVE
  now,       \* the server's clock
  sync,      \* the request in flight
  client     \* the copy, and the cursor stored with it

vars == <<rows, member, now, sync, client>>

Ids == Places \cup Storages \cup Items
Kinds == {Places, Storages, Items}
Lists == {"live", "deleted"} \X Kinds
Times == 0 .. MaxTime

\* hidden: a PRIVATE item of somebody else.
Row == [state : {"absent", "live", "deleted"}, place : Places, hidden : BOOLEAN,
        updatedAt : Times, deletedAt : Times, rev : 0 .. MaxRev]

AbsentRow == [state |-> "absent", place |-> CHOOSE p \in Places : TRUE, hidden |-> FALSE,
              updatedAt |-> 0, deletedAt |-> 0, rev |-> 0]

\* upserts: the rev of each row in the response, or 0.
Idle == [pc |-> "idle", since |-> 0, live |-> {}, withDeleted |-> {}, todo |-> {},
         upserts |-> [x \in Ids |-> 0], gone |-> {}, cutoffs |-> {}, quiet |-> FALSE]

Reading == [pc : {"idle", "reading"}, since : Times, live : SUBSET Places,
            withDeleted : SUBSET Places, todo : SUBSET Lists, upserts : [Ids -> 0 .. MaxRev],
            gone : SUBSET Ids, cutoffs : SUBSET Times, quiet : BOOLEAN]
Client == [cursor : Times, copy : [Ids -> 0 .. MaxRev], quiet : BOOLEAN]

TypeOK ==
  /\ rows \in [Ids -> Row]
  /\ member \in [Places -> BOOLEAN]
  /\ now \in Times
  /\ sync \in Reading
  /\ client \in Client

\* quiet: nothing was written since the last completed sync began.
Init ==
  /\ rows = [x \in Ids |-> AbsentRow]
  /\ member \in [Places -> BOOLEAN]
  /\ now = 0
  /\ sync = Idle
  /\ client = [cursor |-> 0, copy |-> [x \in Ids |-> 0], quiet |-> FALSE]

-----------------------------------------------------------------------------
(* The writes of the other services, as far as a sync can tell them apart. *)

Live(x) == rows[x].state = "live"
LiveIn(p, ids) == {x \in ids : Live(x) /\ rows[x].place = p}

\* What a handler that has read a row may find when it writes it by its id.
Reached(x) == Live(x) \/ ("race" \in Allowed /\ rows[x].state = "deleted")
ReachedIn(p, ids) == {x \in ids : Reached(x) /\ rows[x].place = p}

\* When the last statement of a write that commits now may be built.
Moments == {t \in Times : t <= now + Span /\ now <= t + 1}

\* Prisma stamps every statement when it is built, the first of a write with
\* `first' and the last with `last'; the deletedAt of a removal, d, is taken
\* before them.
Timed(d, first, last) ==
  /\ 0 < d /\ d <= first /\ first <= last /\ last \in Moments
  /\ \/ first > now
     \/ first = last /\ last = now /\ "overlap" \in Allowed
     \/ first = last /\ last + 1 = now /\ "late" \in Allowed
  /\ \/ d > now \/ d = first
     \/ "race" \in Allowed /\ (d > client.cursor \/ "overlap" \in Allowed)
  /\ sync.pc = "idle" \/ "overlap" \in Allowed

\* The clock has reached the last stamp when the write commits.
Committed(last) ==
  /\ \A x \in Ids : rows'[x].rev <= MaxRev
  /\ now' = IF last > now THEN last ELSE now
  /\ sync' = [sync EXCEPT !.quiet = FALSE]
  /\ client' = [client EXCEPT !.quiet = FALSE]
  /\ UNCHANGED member

Touched(row, t) == [row EXCEPT !.updatedAt = t, !.rev = @ + 1]
Deleted(row, d, t) == [row EXCEPT !.state = "deleted", !.updatedAt = t, !.deletedAt = d]

Create(x, p, hidden, t) ==
  /\ rows[x].state = "absent"
  /\ x = p \/ (x \notin Places /\ Live(p))
  /\ hidden => x \in Items
  /\ rows' = [rows EXCEPT ![x] = [AbsentRow EXCEPT !.state = "live", !.place = p, !.hidden = hidden,
                                                   !.updatedAt = t, !.rev = 1]]

\* An edit of one row; of an item, perhaps of its visibility.
Edit(x, hidden, t) ==
  /\ Reached(x)
  /\ hidden # rows[x].hidden => x \in Items
  /\ rows' = [rows EXCEPT ![x] = Touched([@ EXCEPT !.hidden = hidden], t)]

RemoveItem(x, d, t) ==
  /\ Reached(x)
  /\ rows' = [rows EXCEPT ![x] = Deleted(@, d, t)]

\* A storage goes with its subtree, after the items in it became unassigned.
RemoveStorage(subtree, contents, d, i, t) ==
  /\ subtree # {} /\ Cardinality(subtree) <= BatchBound /\ Cardinality(contents) <= BatchBound
  /\ rows' = [x \in Ids |-> IF x \in subtree THEN Deleted(rows[x], d, t)
                            ELSE IF x \in contents THEN Touched(rows[x], i) ELSE rows[x]]

\* The items, the storages, the place: three statements, the last by id.
RemovePlace(p, d, i, s, t) ==
  /\ Reached(p)
  /\ \A kind \in Kinds : Cardinality(LiveIn(p, kind)) <= BatchBound
  /\ rows' = [x \in Ids |-> IF x = p THEN Deleted(rows[x], d, t)
                            ELSE IF x \in LiveIn(p, Storages) THEN Deleted(rows[x], d, s)
                            ELSE IF x \in LiveIn(p, Items) THEN Deleted(rows[x], d, i) ELSE rows[x]]

\* reparent: Prisma stamps the storage moved; the raw UPDATE that rewrites path
\* and level of what is below stamps nothing.
MoveStorage(x, below, t) ==
  /\ "move" \in Allowed
  /\ x \notin below
  /\ rows' = [y \in Ids |-> IF y = x THEN Touched(rows[y], t)
                            ELSE IF y \in below THEN [rows[y] EXCEPT !.rev = @ + 1] ELSE rows[y]]

Leave(p) ==
  /\ member[p]
  /\ member' = [member EXCEPT ![p] = FALSE]
  /\ UNCHANGED <<rows, now, sync, client>>

Join(p) ==
  /\ ~member[p]
  /\ "join" \in Allowed
  /\ member' = [member EXCEPT ![p] = TRUE]
  /\ sync' = [sync EXCEPT !.quiet = FALSE]
  /\ client' = [client EXCEPT !.quiet = FALSE]
  /\ UNCHANGED <<rows, now>>

-----------------------------------------------------------------------------
\* Mutant: deletions, too, are looked for in the places that are left.
ResolvePlaceIdsLive ==
  LET live == {p \in Places : member[p] /\ Live(p)}
  IN  [live |-> live, withDeleted |-> live]

\* resolvePlaceIds: the places of the user that are not deleted, and all.
ResolvePlaceIds ==
  [live |-> {p \in Places : member[p] /\ Live(p)},
   withDeleted |-> {p \in Places : member[p] /\ rows[p].state # "absent"}]

SyncBegin ==
  /\ sync.pc = "idle"
  /\ LET ids == ResolvePlaceIds
     IN sync' = [Idle EXCEPT !.pc = "reading", !.since = client.cursor, !.live = ids.live,
                   !.withDeleted = ids.withDeleted,
                   !.todo = IF ids.withDeleted = {} THEN {} ELSE Lists, !.quiet = TRUE]
  /\ UNCHANGED <<rows, member, now, client>>

\* Mutant: "since" is taken to be inclusive.
MatchingSince(list) ==
  {x \in list[2] :
     /\ ~rows[x].hidden
     /\ IF list[1] = "live"
        THEN Live(x) /\ rows[x].place \in sync.live /\ rows[x].updatedAt >= sync.since
        ELSE rows[x].state = "deleted" /\ rows[x].place \in sync.withDeleted
             /\ rows[x].deletedAt >= sync.since}

\* The rows a list is taken from: changedPlaces, changedStorages, changedItems,
\* deletedIds and deletedItemIds.
Matching(list) ==
  {x \in list[2] :
     /\ ~rows[x].hidden
     /\ IF list[1] = "live"
        THEN Live(x) /\ rows[x].place \in sync.live /\ rows[x].updatedAt > sync.since
        ELSE rows[x].state = "deleted" /\ rows[x].place \in sync.withDeleted
             /\ rows[x].deletedAt > sync.since}

\* Mutant: the plain cut.
CapSplitting(matching) ==
  LET upTo(t) == {x \in matching : rows[x].updatedAt <= t}
      last == Min({t \in Times : Cardinality(upTo(t)) >= PAGE_CAP})
  IN  IF Cardinality(matching) <= PAGE_CAP THEN {[page |-> matching, truncatedAt |-> {}]}
      ELSE {[page |-> s, truncatedAt |-> {last}] : s \in kSubset(PAGE_CAP, upTo(last))}

\* cap: in the order of updatedAt, up to PAGE_CAP rows, but none of a group of
\* equal times that does not fit as a whole, unless the page is that group: then
\* which of it, the order of the ids decides.
Cap(matching) ==
  LET upTo(t) == {x \in matching : rows[x].updatedAt <= t}
      last == Min({t \in Times : Cardinality(upTo(t)) >= PAGE_CAP})
      before == {x \in matching : rows[x].updatedAt < last}
  IN  IF Cardinality(matching) <= PAGE_CAP THEN {[page |-> matching, truncatedAt |-> {}]}
      ELSE IF Cardinality(upTo(last)) = PAGE_CAP THEN {[page |-> upTo(last), truncatedAt |-> {last}]}
      ELSE IF before # {}
      THEN {[page |-> before, truncatedAt |-> {Max({rows[x].updatedAt : x \in before})}]}
      ELSE {[page |-> s, truncatedAt |-> {last}] : s \in kSubset(PAGE_CAP, upTo(last))}

\* With no write in between, the order of the queries makes no difference, and
\* one order is explored.
SyncQuery(list) ==
  /\ sync.pc = "reading"
  /\ list \in sync.todo
  /\ "overlap" \in Allowed \/ list = (CHOOSE first \in sync.todo : TRUE)
  /\ \E capped \in Cap(Matching(list)) :
       sync' = [sync EXCEPT
                  !.todo = @ \ {list},
                  !.upserts = [x \in Ids |-> IF list[1] = "live" /\ x \in capped.page
                                             THEN rows[x].rev ELSE @[x]],
                  !.gone = IF list[1] = "deleted" THEN @ \cup capped.page ELSE @,
                  !.cutoffs = @ \cup capped.truncatedAt]
  /\ UNCHANGED <<rows, member, now, client>>

\* serverTime: the earliest cutoff, or the time it is by now.
ServerTime == IF sync.cutoffs # {} THEN Min(sync.cutoffs) ELSE now

\* The response, and the client that applies it as FRONTEND.md tells it to:
\* upserts, then deletions, and the cursor with them.
SyncEnd ==
  /\ sync.pc = "reading" /\ sync.todo = {}
  /\ client' = [cursor |-> ServerTime,
                copy |-> [x \in Ids |-> IF x \in sync.gone THEN 0
                                        ELSE IF sync.upserts[x] # 0 THEN sync.upserts[x]
                                        ELSE client.copy[x]],
                quiet |-> sync.quiet /\ sync.cutoffs = {}]
  /\ sync' = Idle
  /\ UNCHANGED <<rows, member, now>>

\* The request fails, or its response is lost.
SyncFails ==
  /\ sync.pc = "reading"
  /\ sync' = Idle
  /\ UNCHANGED <<rows, member, now, client>>

-----------------------------------------------------------------------------
\* The statements of one write, of which d, i and t are the times.
Statements(d, i, t) ==
  \/ /\ d = t
     /\ \/ \E x \in Ids, hidden \in BOOLEAN : Edit(x, hidden, t)
        \/ \E x \in Ids, p \in Places, hidden \in BOOLEAN : Create(x, p, hidden, t)
        \/ \E p \in Places :
             \E x \in ReachedIn(p, Storages), below \in SUBSET LiveIn(p, Storages) :
               MoveStorage(x, below, t)
  \/ i = t /\ \E x \in Items : RemoveItem(x, d, t)
  \/ \E p \in Places :
       \E subtree \in SUBSET ReachedIn(p, Storages), contents \in SUBSET ReachedIn(p, Items) :
         RemoveStorage(subtree, contents, d, i, t)
  \/ \E p \in Places, s \in i .. t : RemovePlace(p, d, i, s, t)

Write ==
  \E t \in Moments : \E d \in 1 .. t : \E i \in d .. t :
    Timed(d, i, t) /\ Statements(d, i, t) /\ Committed(t)

Next ==
  \/ Write
  \/ \E p \in Places : Leave(p) \/ Join(p)
  \/ SyncBegin \/ SyncEnd \/ SyncFails
  \/ \E list \in Lists : SyncQuery(list)

Spec == Init /\ [][Next]_vars

-----------------------------------------------------------------------------
\* The copy agrees with a row the user may see.  FRONTEND.md, 16.4, says that
\* rows which leave the user's view stay in the copy.
InView(x) == member[rows[x].place] /\ ~rows[x].hidden
Agrees(x) == client.copy[x] = IF Live(x) THEN rows[x].rev ELSE 0

\* When nothing has changed since a sync began and it was not truncated, the
\* copy is what the user may see.
CaughtUp == client.quiet => \A x \in Ids : InView(x) => Agrees(x)

\* The cursor never passes a change the client has not got (FRONTEND.md: "a
\* cutoff up to which every list is complete"), however pages are cut, requests
\* fail and other lists run ahead of the one that was truncated.
CompleteUpToCursor ==
  \A x \in Ids : InView(x) /\ rows[x].updatedAt <= client.cursor => Agrees(x)

\* Of what is not deleted this is so even when removals race with each other and
\* with edits by id: the live lists are filtered, cut and followed by one time.
ContentsComplete ==
  \A x \in Ids : Live(x) /\ InView(x) /\ rows[x].updatedAt <= client.cursor => Agrees(x)

\* cap: "nothing is ever silently skipped".  The lists of deletions are filtered
\* by deletedAt, but cut and followed by updatedAt.
NoDeletionSkipped ==
  \A x \in Ids : rows[x].state = "deleted" /\ InView(x) /\ rows[x].updatedAt <= client.cursor
                  => Agrees(x)

\* Calling again after a truncated response gets the client further
\* (sync-response.dto.ts: "always makes progress"), so that a loop of calls ends.
PagesAdvance ==
  [][SyncEnd /\ sync.cutoffs # {} => client'.cursor > client.cursor]_vars

=============================================================================
