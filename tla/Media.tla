------------------------------- MODULE Media -------------------------------
(***************************************************************************)
(* MediaService: photos that come in one or several to a request, each in  *)
(* an upload of its own, stored as two files by the configured driver and  *)
(* then as a row; the requests that link them to an item; the removal of   *)
(* a photo; and the restarts of the server, which end what is in flight,   *)
(* may wipe its own disk and may switch MEDIA_DRIVER.                      *)
(*                                                                         *)
(* A photo stands for its bytes, so for its checksum too.  A request       *)
(* awaits its uploads with Promise.all: the first failure answers it, and  *)
(* the other uploads run on.                                               *)
(***************************************************************************)
EXTENDS Naturals, FiniteSets, Sequences

CONSTANTS
  MediaIds,    \* the ids randomUUID may give
  Null,        \* no id
  Users, Photos,
  Items,       \* the ids an item row may have
  Requests,    \* slots for requests in flight
  MaxImages,   \* the photos a body may carry (6 in the code)
  MaxUploads   \* bound: the uploads in flight at once

ASSUME MediaAssumption == Null \notin MediaIds /\ MaxImages \in Nat \ {0} /\ MaxUploads \in Nat

VARIABLES
  media,     \* the media table
  files,     \* the files there are: driver, media id and variant
  links,     \* the item_media table
  items,     \* the items that have a row
  writer,    \* MEDIA_DRIVER of the running server
  requests,  \* the requests in flight
  uploads    \* their uploads, up to MaxImages a request

vars == <<media, files, links, items, writer, requests, uploads>>

Drivers == {"local", "s3"}
Variants == {"original", "thumbnail"}
Slots == Requests \X (1 .. MaxImages)

MediaRow == [state : {"live", "deleted"}, owner : Users, photo : Photos, driver : Drivers]
NoRow == [state |-> "absent"]

\* puts: how far each of the two writer.put calls is.
Upload == [pc : {"find", "put", "done", "failed"}, user : Users, photo : Photos,
           id : MediaIds \cup {Null}, puts : [Variants -> {"running", "stored", "failed"}]]
NoUpload == [pc |-> "none", id |-> Null]
NewUpload(u, p) == [pc |-> "find", user |-> u, photo |-> p, id |-> Null,
                    puts |-> [v \in Variants |-> "running"]]

\* Without an item a request is POST /media, or one with a cover or an avatar.
RequestIdle == [pc |-> "idle", item |-> Null, images |-> 0, existing |-> 0]

\* Some items are there already, made without a photo.
Init ==
  /\ media = [m \in MediaIds |-> NoRow]
  /\ files = {}
  /\ links = {}
  /\ items \in SUBSET Items
  /\ writer \in Drivers
  /\ requests = [r \in Requests |-> RequestIdle]
  /\ uploads = [s \in Slots |-> NoUpload]

-----------------------------------------------------------------------------
(* createFromBase64 *)

HasRow(m) == media[m].state # "absent"
FilesOf(m, driver) == {v \in Variants : <<driver, m, v>> \in files}

\* Promise.all rejects with the first put that fails; the other one goes on.
Rejected(up) == up.pc = "failed" \/ (up.pc = "put" /\ \E v \in Variants : up.puts[v] = "failed")
Settled(up) ==
  up.pc \in {"none", "done", "failed"} \/ (Rejected(up) /\ \A v \in Variants : up.puts[v] # "running")

\* An upload whose request has been answered is forgotten when it settles.
Advances(s, record) ==
  uploads' = [uploads EXCEPT
                ![s] = IF requests[s[1]].pc = "idle" /\ Settled(record) THEN NoUpload ELSE record]

\* randomUUID gives an id nobody has ever had.
Fresh(m) ==
  /\ ~HasRow(m)
  /\ \A d \in Drivers : FilesOf(m, d) = {}
  /\ \A s \in Slots : uploads[s].id # m

\* Mutant: whatever driver stored it.
SameStoredAnywhere(up) ==
  {m \in MediaIds : media[m].state = "live" /\ media[m].photo = up.photo
                    /\ media[m].owner = up.user}

\* Mutant: nothing is.
SameStoredNever(up) == {}

\* The rows that may be handed back instead: the uploader's, of the same
\* checksum, not removed, and stored by the current driver.
SameStored(up) ==
  {m \in MediaIds : media[m].state = "live" /\ media[m].photo = up.photo
                    /\ media[m].owner = up.user /\ media[m].driver = writer}

UploadFind(s) ==
  LET up == uploads[s] IN
  /\ up.pc = "find"
  /\ \/ \E m \in SameStored(up) : Advances(s, [up EXCEPT !.pc = "done", !.id = m])
     \/ /\ SameStored(up) = {}
        /\ \E m \in MediaIds :
             /\ Fresh(m)
             /\ Advances(s, [up EXCEPT !.pc = "put", !.id = m])
  /\ UNCHANGED <<media, files, links, items, writer, requests>>

UploadPut(s, v) ==
  LET up == uploads[s] IN
  /\ up.pc = "put" /\ up.puts[v] = "running"
  /\ files' = files \cup {<<writer, up.id, v>>}
  /\ Advances(s, [up EXCEPT !.puts[v] = "stored"])
  /\ UNCHANGED <<media, links, items, writer, requests>>

UploadPutFails(s, v) ==
  LET up == uploads[s] IN
  /\ up.pc = "put" /\ up.puts[v] = "running"
  /\ Advances(s, [up EXCEPT !.puts[v] = "failed"])
  /\ UNCHANGED <<media, files, links, items, writer, requests>>

\* Mutant: the thumbnail is not waited for.
UploadCreateRowEarly(s) ==
  LET up == uploads[s] IN
  /\ up.pc = "put" /\ up.puts["original"] = "stored"
  /\ media' = [media EXCEPT ![up.id] = [state |-> "live", owner |-> up.user,
                                        photo |-> up.photo, driver |-> writer]]
  /\ Advances(s, [up EXCEPT !.pc = "done"])
  /\ UNCHANGED <<files, links, items, writer, requests>>

\* The row, once both files are there.
UploadCreateRow(s) ==
  LET up == uploads[s] IN
  /\ up.pc = "put" /\ \A v \in Variants : up.puts[v] = "stored"
  /\ media' = [media EXCEPT ![up.id] = [state |-> "live", owner |-> up.user,
                                        photo |-> up.photo, driver |-> writer]]
  /\ Advances(s, [up EXCEPT !.pc = "done"])
  /\ UNCHANGED <<files, links, items, writer, requests>>

\* A body that is no image, or a statement the database refuses.
UploadFails(s) ==
  LET up == uploads[s] IN
  /\ up.pc = "find" \/ (up.pc = "put" /\ \A v \in Variants : up.puts[v] = "stored")
  /\ Advances(s, [up EXCEPT !.pc = "failed"])
  /\ UNCHANGED <<media, files, links, items, writer, requests>>

UploadStep(s) ==
  \/ UploadFind(s) \/ UploadCreateRow(s) \/ UploadFails(s)
  \/ \E v \in Variants : UploadPut(s, v) \/ UploadPutFails(s, v)

-----------------------------------------------------------------------------
(* The requests that carry photos. *)

SlotsOf(r) == {r} \X (1 .. MaxImages)
Bodies == UNION {[1 .. n -> Photos] : n \in 1 .. MaxImages}
IdOf(r, n) == uploads[<<r, n>>].id

\* A PATCH has read its item by now; a POST may find its id taken later, while one
\* whose id is taken from the start does no more than POST /media.  The uploads
\* start together: uploadImages maps them before it awaits.
RequestBegin(r, kind, u, item, photos) ==
  /\ Cardinality({s \in Slots : uploads[s] # NoUpload}) + Len(photos) <= MaxUploads
  /\ kind = "update" => item \in items
  /\ kind = "create" => item \notin items
  /\ requests' = [requests EXCEPT ![r] = [pc |-> kind, item |-> item, images |-> Len(photos),
                                          existing |-> 0]]
  /\ uploads' = [s \in Slots |->
                   IF s[1] = r /\ s[2] \in DOMAIN photos THEN NewUpload(u, photos[s[2]])
                   ELSE uploads[s]]
  /\ UNCHANGED <<media, files, links, items, writer>>

\* POST /media, or a cover; POST items; PATCH items/:itemId.
RequestArrives(r) ==
  /\ requests[r].pc = "idle"
  /\ \A s \in SlotsOf(r) : uploads[s] = NoUpload
  /\ \E u \in Users :
       \/ \E p \in Photos : RequestBegin(r, "media", u, Null, <<p>>)
       \/ \E kind \in {"create", "update"}, item \in Items, photos \in Bodies :
            RequestBegin(r, kind, u, item, photos)

Answers(r) ==
  /\ requests' = [requests EXCEPT ![r] = RequestIdle]
  /\ uploads' = [s \in Slots |-> IF s[1] = r /\ Settled(uploads[s]) THEN NoUpload ELSE uploads[s]]
AllDone(r) == \A n \in 1 .. requests[r].images : uploads[<<r, n>>].pc = "done"

\* POST /media, and a cover: the id is the answer.
RequestAnswer(r) ==
  /\ requests[r].pc = "media" /\ AllDone(r)
  /\ Answers(r)
  /\ UNCHANGED <<media, files, links, items, writer>>

\* The photos of an upload list that get a link, each at its first place in it.
NewlyLinked(r, taken) ==
  {n \in 1 .. requests[r].images :
     IdOf(r, n) \notin taken /\ \A k \in 1 .. n - 1 : IdOf(r, k) # IdOf(r, n)}
Linked(item) == {l.media : l \in {k \in links : k.item = item}}

\* The item with its links, in one statement: the same photo twice fails it,
\* as a taken id does.
RequestCreateItem(r) ==
  LET q == requests[r] IN
  /\ q.pc = "create" /\ AllDone(r)
  /\ q.item \notin items
  /\ \A n, k \in 1 .. q.images : IdOf(r, n) = IdOf(r, k) => n = k
  /\ items' = items \cup {q.item}
  /\ links' = links \cup {[item |-> q.item, media |-> IdOf(r, n), sortOrder |-> n - 1] :
                            n \in 1 .. q.images}
  /\ Answers(r)
  /\ UNCHANGED <<media, files, writer>>

\* update, inside its transaction: the links are counted...
RequestCount(r) ==
  LET q == requests[r] IN
  /\ q.pc = "update" /\ AllDone(r)
  /\ requests' = [requests EXCEPT ![r].pc = "link", ![r].existing = Cardinality(Linked(q.item))]
  /\ UNCHANGED <<media, files, links, items, writer, uploads>>

\* Mutant: numbered from the start.
RequestLinkFromZero(r) ==
  LET q == requests[r] IN
  /\ q.pc = "link"
  /\ links' = links \cup {[item |-> q.item, media |-> IdOf(r, n), sortOrder |-> n - 1] :
                            n \in NewlyLinked(r, Linked(q.item))}
  /\ Answers(r)
  /\ UNCHANGED <<media, files, items, writer>>

\* ... and the new ones numbered from there, a photo the item has already being
\* skipped together with its number.
RequestLink(r) ==
  LET q == requests[r] IN
  /\ q.pc = "link"
  /\ links' = links \cup {[item |-> q.item, media |-> IdOf(r, n),
                           sortOrder |-> q.existing + n - 1] :
                            n \in NewlyLinked(r, Linked(q.item))}
  /\ Answers(r)
  /\ UNCHANGED <<media, files, items, writer>>

\* An upload is rejected, or a later statement fails.
RequestFails(r) ==
  /\ requests[r].pc # "idle"
  /\ AllDone(r) \/ \E s \in SlotsOf(r) : Rejected(uploads[s])
  /\ Answers(r)
  /\ UNCHANGED <<media, files, links, items, writer>>

-----------------------------------------------------------------------------
\* Mutant: the files go at once.
RemoveSwept(u, m) ==
  /\ media[m].state = "live" /\ media[m].owner = u
  /\ media' = [media EXCEPT ![m].state = "deleted"]
  /\ files' = {f \in files : f[2] # m}
  /\ UNCHANGED <<links, items, writer, requests, uploads>>

\* remove: the row of one's own photo; its files and its links stay.
Remove(u, m) ==
  /\ media[m].state = "live" /\ media[m].owner = u
  /\ media' = [media EXCEPT ![m].state = "deleted"]
  /\ UNCHANGED <<files, links, items, writer, requests, uploads>>

\* A deploy, a crash or the sleep of the server ends what is in flight...
Stop ==
  /\ requests' = [r \in Requests |-> RequestIdle]
  /\ uploads' = [s \in Slots |-> NoUpload]
  /\ UNCHANGED <<media, files, links, items, writer>>

\* ... and it may come back with another driver, or with an empty disk
\* (local-media.storage.ts: "wiped on every deploy, restart and wake from sleep").
Start(driver) ==
  /\ \A r \in Requests : requests[r].pc = "idle"
  /\ \A s \in Slots : uploads[s] = NoUpload
  /\ writer' = driver
  /\ files' \in {files, {f \in files : f[1] # "local"}}
  /\ UNCHANGED <<media, links, items, requests, uploads>>

RequestStep(r) ==
  \/ RequestArrives(r)
  \/ RequestAnswer(r) \/ RequestCreateItem(r) \/ RequestCount(r) \/ RequestLink(r)
  \/ RequestFails(r)

Next ==
  \/ \E s \in Slots : UploadStep(s)
  \/ \E r \in Requests : RequestStep(r)
  \/ \E u \in Users, m \in MediaIds : Remove(u, m)
  \/ Stop \/ \E driver \in Drivers : Start(driver)

Spec == Init /\ [][Next]_vars

-----------------------------------------------------------------------------
\* What the rows, the files and the uploads in flight are to each other: a row
\* never precedes its files and is never left with one of the two, an upload has
\* put its files under an id that is its own, and only the wiped disk of the
\* server ever parts a row from its files.
MediaTypeOK ==
  /\ media \in [MediaIds -> MediaRow \cup {NoRow}]
  /\ files \subseteq Drivers \X MediaIds \X Variants
  /\ writer \in Drivers
  /\ uploads \in [Slots -> Upload \cup {NoUpload}]

RowsHaveFiles ==
  \A m \in MediaIds : HasRow(m) =>
    LET there == FilesOf(m, media[m].driver)
    IN  there = Variants \/ (media[m].driver = "local" /\ there = {})

UploadsOwnTheirFiles ==
  \A s \in Slots : LET up == uploads[s] IN
    /\ up.pc = "find" => \A v \in Variants : up.puts[v] = "running"
    /\ up.pc = "put" =>
         /\ up.id \in MediaIds
         /\ ~HasRow(up.id)
         /\ \A v \in Variants : up.puts[v] = "stored" => <<writer, up.id, v>> \in files
         /\ \A t \in Slots : t # s => uploads[t].id # up.id

MediaInv == MediaTypeOK /\ RowsHaveFiles /\ UploadsOwnTheirFiles

\* What an upload hands back is that user's row of that photo, stored where new
\* uploads go now, however rows of the same photo came to be there before, under
\* another driver or by other users (media.service.ts, the comment above the
\* query: "only one stored by the CURRENT driver").  Hence a photo uploaded to
\* the object store can be served, whatever became of earlier copies of it.
HandedBackIsStored ==
  \A s \in Slots : LET up == uploads[s] IN up.pc = "done" =>
    /\ up.id \in MediaIds /\ HasRow(up.id)
    /\ media[up.id].owner = up.user /\ media[up.id].photo = up.photo
    /\ media[up.id].driver = writer
    /\ writer = "s3" => FilesOf(up.id, "s3") = Variants

\* A media id as its users know it.
LibraryEntry(m) ==
  IF ~HasRow(m) THEN [bytes |-> "none"]
  ELSE [bytes |-> IF \A v \in Variants : <<media[m].driver, m, v>> \in files THEN "whole"
                  ELSE "lost",
        state |-> media[m].state, owner |-> media[m].owner,
        photo |-> media[m].photo, driver |-> media[m].driver]

Entries == [m \in MediaIds |-> LibraryEntry(m)]

Library == INSTANCE MediaLibrary WITH library <- Entries

\* Whatever uploads, failures, removals and restarts do to rows and files, a
\* media id behaves as one photo that is whole from the start and is lost to a
\* wiped disk only.
ImplementsLibrary == Library!Spec

\* The same photo uploaded twice is one row (FRONTEND.md: "deduplicated by
\* checksum and returns the existing id").
OneRowPerPhoto ==
  \A m, n \in MediaIds :
    /\ media[m].state = "live" /\ media[n].state = "live"
    /\ media[m].owner = media[n].owner /\ media[m].photo = media[n].photo
    /\ media[m].driver = media[n].driver
    => m = n

\* The photo that comes first in sortOrder, the one the search shows, stays: it
\* is the first of the body that brought photos to the item
\* (create-item.dto.ts: "First one becomes the cover"), and none added later,
\* with whatever repetitions, comes before it or beside it.
CoversOf(item) ==
  {l \in links : l.item = item /\ \A k \in links : k.item = item => l.sortOrder <= k.sortOrder}
CoverStays ==
  \A item \in Items :
    /\ CoversOf(item) # {} => CoversOf(item)' = CoversOf(item)
    /\ Cardinality(CoversOf(item)') <= 1

=============================================================================
