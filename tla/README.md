# FindMyStuff: a TLA+ development

FindMyStuff is a NestJS API over PostgreSQL (Prisma) for a household's places,
the storages nested in them, the items kept there, and the people who share
them.  These modules model what the service code under `src/src/` does to its
tables, request by request and await by await, check it with TLC on small
instances and prove all but liveness with TLAPS for every instance.

The code is short on loops and long on one pattern: *read a row, await, decide,
await, write by id*.  Between the awaits other requests run.  Most of what is
below is about which properties survive that pattern and which do not.

## 1. Inventory

Paths are relative to `src/src/`.

| part | state it keeps | operations that change it | what makes it correct |
|---|---|---|---|
| storages (`storages/`) | `storages` rows: `parentId`, materialised `path`, `level`, `deletedAt` | create, update (edit, move, `id` in the body), remove | path, level, parentId and the tree describe one forest of bounded depth |
| items (`items/`) | `items` rows, `item_movements` | create, update, move, lend, return, remove | an item is in a live storage or none; the log is a chain; a loan ends in a return; a PRIVATE item is written by its owner |
| places (`places/`) | `places` rows | create, update, remove | removing a place leaves nothing of it live |
| members and invites (`members/`) | `place_members`, `place_invites` | add, updateRole, remove, leave, createInvite, revokeInvite, acceptInvite | one owner; codes are single-use, addressed and revocable; roles change by the owner |
| membership guard (`common/guards/place-member.guard.ts`) | none | reads role and membership once per request | the role each route asks for |
| friendships (`friendships/`) | `friendships` rows, directed | sendRequest, respond, remove, block | one row a pair; friends by consent of both; blocks hold |
| idempotency (`common/idempotency/`) | `idempotency_keys` rows | reserve, replay, clear, complete, release, hourly sweep | one handler per key at a time; replays are faithful; done again only after a failure |
| tokens and sessions (`auth/`, `users/`) | `refresh_tokens`, `users` | login, refresh, logout, logout-all, password change, deactivate | one live token per sign-in; revocation is final; a password change ends sessions |
| sync (`sync/`) | none on the server; copy and cursor on the client | GET /sync | nothing is lost behind the cursor; truncated pages advance |
| media (`media/`, and the images of items) | `media` rows, files of two drivers, `item_media` rows | upload, link to an item, remove; restart, other driver | a row has its two files or lost them with the server's disk; an upload hands back what can be served; one row a photo; covers stay |
| search and the other read paths (`search/`, `findAll`, `attention`, `tree`) | none | - | five sets of filters show a member the same items |
| activity log, configuration, bootstrap, OpenAPI, Prisma connection | - | append-only log, wiring | not modelled: nothing is decided by them |

How they interact: every place-scoped route passes the guard, which reads the
membership; items and storages share the tables of one place and refer to each
other by foreign key; the removal of a place writes to both; `members.add` rests
on a friendship; the idempotency interceptor wraps any mutating handler; items,
places, storages and profiles upload their images through media; sync, search
and the lists read what all the others write.  There are no locks, no `SELECT ... FOR UPDATE`
and no raised isolation level anywhere, and no message queue: what interleaves
is requests on one event loop (or several instances of it), and two scheduled
sweeps.  What can fail: a query, the process between two queries, the response
on its way.

The hard behaviours, each at its line, are the `hazards` of `PROJECT.json`.

## 2. Modules

| module | models | state, and its counterpart |
|---|---|---|
| `StorageTree` | the pure part of `storages.service.ts`: prefix, subtree selection, what a move writes; what the tree nests | rows as records; a path is a sequence of ids (ids are UUIDs, so splitting on `/` and `LIKE 'prefix/%'` are sequence operations) |
| `PlaceTables` | the tables storages and items share | `storages`, `items`, `movements` (the newest entry of each item) |
| `Storages` | `StoragesService` as concurrent requests | `storageReq[r]`: the locals a handler holds across awaits; `pc` names the next await |
| `Forest` | the abstract promise of storages: a forest that is planted, grafted and felled | no path, no level |
| `Items` | `ItemsService` as concurrent requests | `itemReq[r]`, the same way |
| `Inventory` | composes `Storages` and `Items` over one place with `PlacesService.remove` | `place` |
| `Views` | the read paths over the tables of `Inventory`: lists, nested list, search, tree counts, reminders, photos of items, counts of a place | none of its own |
| `Media` | `MediaService`, `uploadImages` and the links of `ItemsService`, the two storage drivers, restarts | `media`, `files`, `links`, `items`, `writer` (MEDIA_DRIVER), `requests` and their `uploads` |
| `MediaLibrary` | the abstract promise of media: an id is nothing or one photo of one user, whole until a disk is wiped | no rows, files or uploads |
| `Idempotency` | `IdempotencyInterceptor` and its cleanup, for one user and key | `row`, `attempts`, and `saved` (history: whose handler committed) |
| `Sessions` | `TokensService` and its callers, for one user | `tokens`, `account`, `requests` |
| `Sync` | `SyncService` and a client that follows FRONTEND.md section 16, against abstract writes of the other services | `rows`, `member`, `now`, `sync`, `client` |
| `Friendships` | `FriendshipsService` | `rows`, `requests`, and `asked` (history: who asked or accepted whom) |
| `Members` | `MembersService` and the guard, for one place | `members`, `invites`, `requests`, `redeemed` (history) |
| `MC*` | constants, symmetry, and a history variable | see section 3 |
| `*Proofs` | theorems | see section 5 |

**Steps.**  An action is one Prisma call, or everything between two awaits that
touches shared state.  A transaction is modelled at READ COMMITTED, the level
PostgreSQL runs at: its reads are actions of their own, as they are not
repeatable, and its writes are one action, since the rows they touch stay locked
until the commit and a statement that waits for a lock evaluates its `WHERE`
again on the committed row.  Every request can also fail at any await (`Fails`,
`StorageFails`, `ItemFails`, `Interrupted`, `SyncFails`, `Crash`): it has then
written all of its transaction or nothing.

**Names.**  Actions carry the handler's name and the point reached in it:
`UpdateParent`, `UpdateDepth`, `UpdateWrite` are `update` and `reparent` at
their successive queries.  Definitions whose comment begins with "Mutant" are
the ways a definition above or below them could be wrong; they are used by the
mutants of `PROJECT.json` and by no specification.

**No recursion.**  What the code does with a loop over parents, children or
successors (`Nested`, `SubtreeShown`, and the properties' `Ancestors` and
`Successors`) is the least set closed under one step of that loop: `s` belongs to
it if it belongs to every closed set.  TLC evaluates that over the subsets of a
few ids, and the proofs use it directly: to show that something is in the set,
take any closed one; to show that it is not, exhibit a closed one without it.

**Times in `Sync`.**  A removal takes its `deletedAt` in JavaScript before its
transaction (`storages.service.ts:334`, `places.service.ts:183`,
`items.service.ts:467`), and Prisma stamps `updatedAt` when it builds each statement.
A write therefore has several times, in this order: `deletedAt` (`d`), the first
statement (`i`, for the items of a storage or place), the last (`t`).  The lists of
deletions select by the first and are ordered, cut and followed by the cursor by the
last.  A write that runs alone has all of its times after the writes before it.
Under `"race"` others may commit after a removal took its `deletedAt`, and an edit
or a removal by id may reach a row deleted since it was read, whose tombstone then
gets a later `updatedAt`, or a second `deletedAt`.

**The end of an attempt.**  In `Idempotency` what an attempt does to the database and
the sending of what it will answer are two steps: after the update that stores the
answer, or the deletion that releases the key, it is at `"answer"`, and `Crash`
leaves it at `"lost"` with its client told nothing.  A response lost on its way is
the same to the client; nothing in the database tells the two apart.

**What is abstracted.**  Labels (`createWithUniqueLabel` retries change only the
code), names, notes, images outside `Media` (their upload is a window between
read and write that the models have anyway), the activity log, `lastLoginAt`, terms of use, the
narrowing of a sync to one place, an `id` in the PATCH body of an item, and the
profile.  Signup is a sign-in to an account that did not exist.  In `Members` the place
is not deleted; its removal is in `Inventory`.  A role is read once, by the
guard, as in the code.  In `Inventory` the members and roles are fixed.  In
`Items`, `Storages` and `Sync` one place is all a handler can reach, because every
query names it (`Sync` can have several and is checked with one).  In `Views`
every item matches the text, expires and runs low, so that what the queries differ
in is visibility, deletion and nesting.  In `Media` a photo is its bytes and its
checksum; decoding and the thumbnail can only fail; `randomUUID` gives an id never
used before; covers of places and storages and avatars are uploads that link to
nothing.

## 3. Runs

`overlapped` (`disturbed` in `MCSessions`, with `patched` beside it in
`MCInventory`) is a history variable of the MC
modules: it becomes true once a request is served during another one (for
sessions, or once one is cut short between its writes).  Properties called
`Serial...` promise nothing after that.  So one run shows both what holds one
request at a time, over any sequence of requests, and what holds under every
interleaving; section 4 lists what goes wrong in between.

| run | instance | shows |
|---|---|---|
| `storages_serial` | 5 storages, cap 3, 1 request | `PathIsAncestry`, `DepthCapped`, `TreeShowsAll`; every step is one of `Forest` (`ImplementsForest`), so no storage comes to be inside itself and subtrees go as a whole |
| `storages_concurrent` | 3 storages, cap 1, 2 requests | `LevelIsDepth`, `PathEndsAtParent`, `BreadcrumbsResolve` survive all races |
| `inventory` | 2 storages, 1 item, 3 users of which 1 viewer, 2 borrowers, 2 requests at once, ids in PATCH bodies | `TombstonesStay` under races; `SerialItemsInLiveStorages`, `SerialMovesAreRecorded`, and `SerialViewsAgree`: lists, search, reminders, tree and photos show a member the same items |
| `media` | 2 ids, 2 photos, 2 users, 1 item, 2 requests of at most 2 photos, 2 uploads at once, puts that fail, stops at any point, restarts with a wiped disk or the other driver | `MediaInv`, `HandedBackIsStored` and the refinement `ImplementsLibrary` under all of it; `SerialOneRowPerPhoto`, `SerialCoverStays` |
| `idempotency` | 4 attempts, 2 bodies, faults crash, store, late | `OneRunner`, `ReplaysFaithful`, and the inductive `KeyInv`; `SavedOnce`: no two attempts save and succeed, so that a second save needs a first that failed after its commit and released the key |
| `idempotency_live` | 3 attempts, 1 body, all faults | `EveryAttemptEnds`, `PendingIsTemporary` |
| `sessions` | 4 tokens, 2 requests, 1 password change | `RotationChains`, `RevokedForGood` under races and interruptions; `SerialOneLivePerLogin`, `SerialPasswordEndsSessions` |
| `sync_pages` | 1 storage, 3 items, 1 place, pages of 2 | `CaughtUp`, `CompleteUpToCursor` while writes keep out of a running sync and of each other; a removal may take its `deletedAt` milliseconds before the rows are stamped |
| `sync_races` | 2 storages, 1 place, pages of 1, every behaviour but `"race"` | `PagesAdvance` whatever overlaps, commits late, joins or moves |
| `friends` | 3 users, 2 rows, 2 requests | `FriendsConsented` under races (with `ConsentInv`); `SerialOneRowPerPair`, `SerialBlocksHold` |
| `members` | 2 users, 1 invite, 2 requests | `OwnerUnlessRedeemed` (with `OwnerInv`) and `AddresseeOnly` under races; `SerialRolesChangedByOwner` |
| `sync_join` | violation: `CaughtUp` | contents of a place the user joins are never sent |

**Bounds.**  Five storages give chains below and above a moved subtree, and a
deepest leaf that decides the cap; `MAX_DEPTH` is 1 or 3 in place of 10 so that
the cap is met.  `PathBound` stops new moves once racing moves have made a path
longer than the number of storages (a cycle makes paths grow without end).  Two
requests in flight suffice for every race of section 4; the theorems lift
the bound.  Two bodies make a mismatch, four attempts a stale row cleared twice
while a third reserves.  `MaxPasswords` 1 and four tokens give two rotations
after a sign-in that raced with a password change.  In `Sync`, `MaxTime` counts
the milliseconds in which something is written, `Span` how many of them one write's
times are spread over, `MaxRev` the changes of one row,
`BatchBound` how many rows of a kind one statement stamps with the same
millisecond; a page of two with three items is truncated with a tie at the
cut once a removed storage has released two of them, and a page of one puts
every pair of rows on different pages.  A span of two lets a
removal take its `deletedAt`, stamp its items and stamp itself at three times;
`sync_races` and `sync_join` have a span of one, as what they show is about other
behaviours.  `Allowed` names the behaviours that break
the cursor's promise, so that each can be studied alone.

In `Media` two ids are two rows of one photo or two photos of one item,
two drivers and a restart make a row that another driver must not hand back, and
items may be there without a photo, so that two first photos can meet.

**Deadlock** is checked in the storages runs.  In the others the system may
stop: attempts, tokens, milliseconds and invites are used up, a deleted
place admits nobody, and media ids run out.

**Fairness.**  Only `idempotency_live` assumes any (`FairSpec`): a request that
has arrived is served to its end (the event loop runs what is ready, and an
awaited query returns or throws), the key's day passes, and the hourly sweep
runs.  Nobody has to send anything and no fault has to happen or to stop
happening, except that `Serve` is fair only while the process lives: a crash
ends the attempt.  `Serve` includes the sending of the answer, and
`EveryAttemptEnds` says that it is sent or lost.  Weak fairness is enough, as each
step of an attempt stays enabled until it is taken, or until the row's
disappearance enables another step of the same attempt.

## 4. Known races and divergences

Each of these is a counterexample of the model.  To replay one, take the
configuration named, change it as the third column says, and check the property
without its `Serial` guard: as an `INVARIANT`, or as `[][...]_vars` where it is
a step predicate.  `sync_join` is a run of its own.  `MAX_DEPTH` and the like are
constants of the configuration.

| what happens | property | configuration |
|---|---|---|
| two moves, each of a storage under the other, close a cycle | `NeverInsideItself` | `storages_concurrent`, `MAX_DEPTH = 2` |
| a move commits between the read and the write of another request, whose path is then stale | `PathIsAncestry` | the same |
| a PATCH whose body carries an `id` renames a storage, while the paths below it keep the old id; no concurrency needed, and FRONTEND.md, line 222, says an `id` is not accepted | `PathIsAncestry` | `storages_serial`, `PatchIds = TRUE` |
| the list under such a storage then misses what the tree nests in it | `NestedListIsSubtree` | `inventory`, 3 storages, `Concurrency = 1` |
| a create and a move nest deeper than the cap | `DepthCapped` | `storages_concurrent`, 4 storages, `PathBound = 4` |
| an item is put into a storage that is being removed | `ItemsInLiveStorages` | `inventory` |
| two moves of an item record one origin | `MoveIsRecorded` | `inventory`, two item requests |
| two loans both find the item available | `LoanEndsInReturn` | the same |
| an edit lands on an item made PRIVATE meanwhile | `PrivateIsWrittenByOwner` | the same |
| a row is created in a place just deleted | `NothingLeftInDeletedPlace` | `inventory` |
| the reminders show items created late in a deleted place, as the query for low stock does not ask for the place | `SearchAndRemindersAgree` | `inventory` |
| the card of a place counts deleted storages, its page does not (`places.service.ts`, lines 79 and 132); no concurrency needed | `StorageCountsAgree` | `inventory` |
| one photo twice in a body, or in two requests at once, becomes two rows | `OneRowPerPhoto` | `media` |
| two requests add the first photos of an item with the same number, and the cover is undecided | `CoverStays` | `media` |
| after a crash a key answers "already being processed" though nothing runs | `BusyMeansRunning` | `idempotency`, `Faults = {"crash"}` |
| a handler fails after its commit, answers 5xx, and has saved | `FailureSavedNothing` | `idempotency`, `Faults = {"late"}` |
| the answer cannot be recorded after the commit; the retry runs the handler again | `RunsOnce` | `idempotency`, `Faults = {"store"}` |
| a handler fails after its commit, the key is released, and the process dies before the answer: a client that was told nothing retries and saves again | `ToldOrOnce` | `idempotency`, `Faults = {"crash", "late"}` or `{"crash", "store"}` |
| one key and body sent for two resources: the second gets the first's answer, as the recorded path is the route pattern | `ReplayIsSameRequest` | `idempotency`, two targets |
| two refreshes with one token leave two live tokens | `OneLivePerLogin` | `sessions` |
| a sign-in or rotation in flight inserts its token after a password change | `PasswordEndsSessions` | `sessions` |
| a password change cut short keeps the old sessions | `PasswordEndsSessions` | `sessions`, one slot |
| a write commits between a sync's queries and the reading of its clock | `CompleteUpToCursor` | `sync_join` with `Allowed = {"overlap"}`, `MaxTime = 3` |
| a write commits after the millisecond it is stamped with | `CompleteUpToCursor` | the same, `{"late"}` |
| a removal's `deletedAt` is older than another's, its `updatedAt` newer: a page cut between them loses it, and a later sync that is not truncated does not bring it back | `NoDeletionSkipped`, `CompleteUpToCursor`, `CaughtUp` | `sync_pages` with `Allowed = {"race"}`, two items, `PAGE_CAP = 1`, `BatchBound = 1`, `MaxTime = 5` |
| an edit stamped before a removal reaches its tombstone by id after it, and sets `updatedAt` back below `deletedAt`; once the cursor is between the two, a page cut there sets it to where it was, or before | `PagesAdvance` | `sync_races`, `Allowed = {"race", "late"}`, `MaxTime = 3` |
| more rows of one statement than a page holds are split at the cut | `CompleteUpToCursor` | `sync_pages`, `PAGE_CAP = 1` |
| the storages below a moved one change without a new `updatedAt` | `CaughtUp` | `sync_join` with `Allowed = {"move"}`, two storages, `MaxTime = 4`, `MaxRev = 2` |
| an acceptance overwrites a block written meanwhile | `BlockHolds` | `friends` |
| an acceptance and a rejection both find the request pending | `AnswerStands` | `friends` |
| two opposite first requests leave two rows of one pair | `OneRowPerPair` | `friends` |
| the owner redeems an invite to the own place and is its owner no longer | `OwnerStays` | `members` |
| two users redeem one code | `SingleUse` | `members` |
| a code revoked between check and transaction admits | `RevokedAdmitsNone` | `members` |
| `add` changes the role of somebody who became a member meanwhile | `RoleChangesByOwner` | `members`, three users |

Seen while modelling, without a property: a body with one photo twice, when that
photo is stored already, fails `POST items` (the link is a primary key) where
`PATCH` skips it; a skipped photo uses up its number, so later numbers can collide behind
the cover; a removed photo stays linked and its reader gets 404; with the driver
`local` an upload after the disk was wiped hands back the row whose files are gone
(`HandedBackIsStored` promises the files for `s3` only); files of failed uploads
and of removed rows stay, as the sweep that a comment of `remove` mentions is not in
the repository.

## 5. Proofs

All for any sets of storages, items, requests, attempts, tokens, users, rows,
invites, media ids, photos and places, any depth cap, page size, clock bound and
number of images a body.  Each module proves `Init => Inv`, one lemma per action
for the step, and combines them with PTL.  Constants are assumed to be what their
modules' `ASSUME` says and, where it is said below, one thing more.

**Whatever interleaves**

- `StoragesProofs`: `StoragesTypeOK`, then `LevelIsDepth` from `LevelInv`.  A move
  shifts path and level by what one stale snapshot says of both, so the
  invariant has to say the equation of what requests *hold* as well: their
  snapshot and the path and level they have derived (`RequestConsistent`).
  Under `PatchIds = FALSE` (section 4 has the counterexample without it) also
  `PathEndsAtParent` and `BreadcrumbsResolve` from `ParentInv`: `RequestParented`
  says that a path about to be written ends at the parent about to be written.
  Rewriting a prefix keeps the last id because the old prefix is never the whole
  of a longer path.
- `InventoryProofs`: `TypeOK` and `TombstonesStay` from `InventoryInv`, over both
  services, the removal of the place and any ids in PATCH bodies.  An id is patched
  onto an absent one only, an insertion needs an absent one, and every other write
  leaves the state of a row or deletes it.
- `IdempotencyProofs`: `OneRunner`, `ReplaysFaithful` and `SavedOnce`, under
  `"slow" \notin Faults`: a handler ends within its key's day.  `KeyInv`
  rests on `RunnerOwnsRow` (whoever holds the key has the row pending and
  unexpired, which is what makes writing by key instead of by id safe) and on
  `ClearsStale` (what somebody is about to clear is the row of an attempt that is
  settled: nothing but an answer is left of it).  `SavedInv` adds that whoever saved
  and has not failed since is the row's author; only a failure releases the key.
  `RunsOnce` follows from it when `Faults` has nothing but crashes, for then whoever
  saved has succeeded.  It is false with `"late"` or `"store"`, and `SavedOnce` does
  not promise that the client of the attempt that failed was told so (`ToldOrOnce`,
  section 4).
- `FriendshipsProofs`: `FriendsConsented` from `ConsentInv`: a row never changes
  the pair it joins, and a request in flight has recorded the consent it will
  write.
- `MembersProofs`: `OwnerUnlessRedeemed` from `OwnerInv`: a request that has
  passed its check is not about the owner, and no route or invite carries the
  role OWNER.  `AddresseeOnly`, from the same invariant: who has passed the
  email check is the addressee, and an invite never changes its email.
- `SessionsProofs`: `TypeOK` and `RevokedForGood` from `ChainInv`: a replacement
  is a token of the same sign-in, and so are the two tokens a rotation in flight
  is about to link.  `RotationChains` from `OrderInv`, which adds that the tokens
  can be ranked so that a replacement always ranks higher than what it replaces; a
  token is issued before any link to it is written and gets the highest rank, so
  the links never close a circle even where racing rotations overwrite them.
- `SyncProofs`: `TypeOK` and `PagesAdvance` from `BaseInv`, whatever is written
  meanwhile, but for one combination, excluded by `Punctual`: writes that both
  commit late and race (section 4 has the counterexample).  Otherwise no tombstone
  has its `deletedAt` after its `updatedAt`, so what a list selects by either is stamped
  past the cursor, and so is every cutoff (`CursorInv`), because `cap` never cuts
  below the first row.
- `MediaProofs`: `MediaInv` is inductive as it stands; `HandedBackIsStored` follows
  with it, since a finished upload's row keeps its owner, photo and driver and only
  `local` files are ever lost; and each step of `Media` is one of `MediaLibrary` or
  a stutter (`MediaIsALibrary`): the row's insertion adds, the removal takes away,
  a restart with an empty disk wipes, all else shows nothing.

**One request after the other.**  These are the properties that section 4 refutes
under races, and the argument is the same each time: what a request has read is
still so when it writes.  The invariant says this of every point of every handler,
under the condition that the history variable is still false; a step that keeps it
false leaves no second request in flight.  Each is proved of the specification that
the run of section 3 checks; where that has the history variable, for any number of
slots and without any assumption besides.

- `StoragesProofs`: `PathIsAncestry`, `DepthCapped`, `TreeShowsAll`, that no live
  storage is inside itself or under a deleted one (`LiveUnderLive`), and the
  refinement of `Forest` (`StoragesAreAForest`), all from `AncestryInv`, under
  `PatchIds = FALSE` and at most one request in flight (the constants of
  `storages_serial`).  `PathIsAncestry` says that the path of a row is its parent's
  path and the parent; hence selecting a subtree by prefix is selecting it by
  ancestry, which is what lets a move rewrite the right rows, the depth check see
  the deepest of them, and a removal take the whole subtree.  For the refinement,
  the ids of a path are shown to be the ancestors (`Forest!Ancestors`), so that the
  length of a path is their number and level, cap and subtree mean the same on both
  sides.
- `InventoryProofs`: `SerialItemsInLiveStorages` and `SerialMovesAreRecorded` from
  `SerialInv`.  It holds with patched ids, too: a removal finds the items by the
  subtree it has read, and the foreign keys follow a patched id.
  `SerialViewsAgree` takes `AncestryInv` besides, for it is the paths that the
  nested list reads and the parents that the tree nests; the lemma that both select
  one set is `NestedIsSubtree`.
- `FriendshipsProofs`: `SerialOneRowPerPair` and `SerialBlocksHold`; the row that a
  request found, or the absence of one in either direction, is still there.
- `MembersProofs`: `SerialRolesChangedByOwner`; whom `add` is about to insert is
  still no member.
- `SessionsProofs`: `SerialOneLivePerLogin` and `SerialPasswordEndsSessions`; two
  live tokens of a sign-in are those of the rotation in flight (`LivePairs`), and the
  password a request has verified is still the account's.
- `MediaProofs`: `SerialOneRowPerPhoto`, where "one after the other" is asked only of
  uploads of one user's photo (an upload on its way has found no row, and none has
  come: `StillNotStored`), and `SerialCoverStays`, where it is asked only of requests
  for one item (requests without an item do not count; what was counted is still the
  number of links, and of an item's links exactly one is number 0: `OneFirst`).
- `SyncProofs`: `ContentsComplete` under `Undisturbed` (`Allowed \subseteq {"race"}`
  and `BatchBound <= PAGE_CAP`): of what is not deleted no page loses a change, though
  removals race with each other and edits by id reach tombstones;
  `CompleteUpToCursor` and `CaughtUp` under `Undisturbed` and `"race" \notin Allowed`
  (`sync_pages`).  `SerialInv` speaks of a row's `Mark`, the time by which a list
  selects it, and of the rows it can vouch for (`Certain`: those not deleted, and all
  when nothing races): of these the client has every row whose mark is not past the
  cursor (`MarksComplete`).  The rows of a kind that share a millisecond were written by one
  statement and fit a page (`GroupsFit`), so what `cap` returns holds every row up to
  its cutoff (`CapFacts`), and the lists read so far hold every change up to all the
  cutoffs so far (`ReadSoFar`).  That is the argument the comments of `cap` give; for
  deletions it needs one fact more, as their mark is not what they are cut by:
  nothing else of the kind was stamped while the removal was under way (`Apart`),
  so a cutoff past a tombstone's `deletedAt` is past its `updatedAt`.  `Apart` is what
  racing removals break.

**Only model-checked**: the liveness of a key (`EveryAttemptEnds`,
`PendingIsTemporary`) and the absence of deadlock, as liveness under fairness and
`ENABLED` are out of the prover's reach.  Every other property of a passing run is
stated by a theorem.  Two theorems state properties that no run lists: `RunsAtMostOnce`
(`RunsOnce`) and `ContentsCompleteAlways` (`ContentsComplete`).  TLC agrees with them in
the configuration `idempotency` with `Faults = {"crash"}`, and in that of section 4 in
which `NoDeletionSkipped` fails.

## 6. Not modelled

- An `id` in the PATCH body of an item: like that of a storage, of which
  section 4 shows what it does; nothing derived from it depends on an item's id.
- Access inside `Inventory` is by fixed members; that the guard reads the role
  once, before the handler, is in `Members`.
- Covers and avatars as columns, and the right to read a photo through them.
- Sign-up and terms: a user who does not exist yet has no sessions to race with,
  and acceptance of terms is written once and read by a guard of its own.
- Matching and ranking of the search, pagination, filters by date, tag, status and
  quantity: pure queries whose text the models do not have.
- The activity log: append-only rows whose failure is swallowed, and which nothing
  reads to decide; notes, labels, QR codes and profile fields likewise.
- Throttling, configuration, environment validation, OpenAPI, the seed and the
  retries of the first database connection: wiring outside the request handlers.
