---------------------------- MODULE MediaProofs ----------------------------
(***************************************************************************)
(* Rows and files of the photos, for any number of users, photos, requests *)
(* and uploads in flight: the invariant that relates them, what an upload  *)
(* hands back, and that Media implements MediaLibrary.  Besides, while     *)
(* uploads of one photo, or requests for one item, are not in flight       *)
(* together: one row a photo, and the cover of an item stays.              *)
(***************************************************************************)
EXTENDS MCMedia, FiniteSetTheorems, TLAPS

\* The record of an upload that one step makes of another, or of none.
LEMMA Advanced ==
  ASSUME MediaTypeOK, NEW s \in Slots, NEW record \in Upload, Advances(s, record)
  PROVE  /\ uploads' \in [Slots -> Upload \cup {NoUpload}]
         /\ uploads'[s] \in {record, NoUpload}
         /\ \A t \in Slots \ {s} : uploads'[t] = uploads[t]
BY DEF MediaTypeOK, Advances

LEMMA InFlight ==
  ASSUME MediaTypeOK, NEW s \in Slots, uploads[s].pc # "none"
  PROVE  uploads[s] \in Upload
BY DEF MediaTypeOK, NoUpload

\* A step of one upload that leaves rows and files alone keeps the invariant if
\* what the upload is then is in order.
LEMMA OnlyUpload ==
  ASSUME MediaInv, NEW s \in Slots, NEW record \in Upload, Advances(s, record),
         media' = media, files' = files, writer' = writer, record.pc # "find",
         record.pc = "put" =>
           /\ record.id \in MediaIds /\ ~HasRow(record.id)
           /\ \A v \in Variants : record.puts[v] = "stored" => <<writer, record.id, v>> \in files
           /\ \A t \in Slots \ {s} : uploads[t].id # record.id,
         \A t \in Slots \ {s} : uploads[t].pc = "put" => record.id # uploads[t].id
  PROVE  MediaInv'
<1>1. MediaTypeOK'
  BY Advanced DEF MediaInv, MediaTypeOK
<1>2. RowsHaveFiles'
  BY DEF MediaInv, RowsHaveFiles, HasRow, FilesOf
<1>3. ASSUME NEW t \in Slots, uploads'[t].pc = "put"
      PROVE  /\ uploads'[t].id \in MediaIds /\ ~HasRow(uploads'[t].id)
             /\ \A v \in Variants : uploads'[t].puts[v] = "stored" => <<writer, uploads'[t].id, v>> \in files
             /\ \A o \in Slots \ {t} : uploads'[o].id # uploads'[t].id
  <2>0. MediaTypeOK /\ Null \notin MediaIds
    BY MediaAssumption DEF MediaInv
  <2>1. uploads'[s] \in {record, NoUpload} /\ \A o \in Slots \ {s} : uploads'[o] = uploads[o]
    BY <2>0, Advanced
  <2>2. NoUpload.pc = "none" /\ NoUpload.id = Null
    BY DEF NoUpload
  <2>3. CASE t = s
    BY <1>3, <2>1, <2>2, <2>3
  <2>4. CASE t # s
    <3>1. /\ uploads[t].pc = "put" /\ uploads'[t] = uploads[t]
          /\ uploads[t].id \in MediaIds /\ ~HasRow(uploads[t].id)
          /\ \A v \in Variants : uploads[t].puts[v] = "stored" => <<writer, uploads[t].id, v>> \in files
          /\ \A o \in Slots \ {t} : uploads[o].id # uploads[t].id
      BY <1>3, <2>1, <2>4 DEF MediaInv, UploadsOwnTheirFiles
    <3> QED BY <2>0, <2>1, <2>2, <2>4, <3>1
  <2> QED BY <2>3, <2>4
<1>4. ASSUME NEW t \in Slots, uploads'[t].pc = "find"
      PROVE  \A v \in Variants : uploads'[t].puts[v] = "running"
  <2>1. uploads'[s] \in {record, NoUpload} /\ \A o \in Slots \ {s} : uploads'[o] = uploads[o]
    BY Advanced DEF MediaInv
  <2>2. uploads'[t] = uploads[t]
    BY <1>4, <2>1 DEF NoUpload
  <2> QED BY <1>4, <2>2 DEF MediaInv, UploadsOwnTheirFiles
<1>5. UploadsOwnTheirFiles'
  BY <1>3, <1>4 DEF UploadsOwnTheirFiles, HasRow
<1> QED BY <1>1, <1>2, <1>5 DEF MediaInv

\* A step that takes uploads out of flight, or puts new ones in, and leaves rows
\* and files alone.
LEMMA OnlyRequests ==
  ASSUME MediaInv, media' = media, files' = files, writer' = writer,
         uploads' \in [Slots -> Upload \cup {NoUpload}],
         \A s \in Slots :
           \/ uploads'[s] = uploads[s]
           \/ uploads'[s] = NoUpload
           \/ \E u \in Users, p \in Photos : uploads'[s] = NewUpload(u, p)
  PROVE  MediaInv'
<1>1. MediaTypeOK'
  BY DEF MediaInv, MediaTypeOK
<1>2. RowsHaveFiles'
  BY DEF MediaInv, RowsHaveFiles, HasRow, FilesOf
<1>3. \A s \in Slots : uploads'[s] = uploads[s]
                        \/ /\ uploads'[s].pc # "put" /\ uploads'[s].id = Null
                           /\ uploads'[s].pc = "find" =>
                                \A v \in Variants : uploads'[s].puts[v] = "running"
  BY DEF NewUpload, NoUpload
<1>4. UploadsOwnTheirFiles'
  BY <1>3, MediaAssumption DEF MediaInv, UploadsOwnTheirFiles, HasRow
<1> QED BY <1>1, <1>2, <1>4 DEF MediaInv

LEMMA MediaInit == Init => MediaInv
BY DEF Init, MediaInv, MediaTypeOK, NoRow, NoUpload, RowsHaveFiles, HasRow, UploadsOwnTheirFiles

LEMMA Find ==
  ASSUME MediaInv, NEW s \in Slots, UploadFind(s)
  PROVE  MediaInv'
<1>1. PICK up \in Upload : up = uploads[s] /\ up.pc = "find"
  BY InFlight DEF UploadFind, MediaInv
<1>2. media' = media /\ files' = files /\ writer' = writer
  BY DEF UploadFind
<1>3. ASSUME NEW m \in SameStored(up), Advances(s, [up EXCEPT !.pc = "done", !.id = m])
      PROVE  MediaInv'
  <2>1. m \in MediaIds /\ HasRow(m)
    BY <1>3 DEF SameStored, HasRow
  <2>2. [up EXCEPT !.pc = "done", !.id = m] \in Upload
    BY <2>1 DEF Upload
  <2>3. [up EXCEPT !.pc = "done", !.id = m].pc = "done" /\ [up EXCEPT !.pc = "done", !.id = m].id = m
    BY DEF Upload
  <2>4. \A t \in Slots : uploads[t].pc = "put" => uploads[t].id # m
    BY <2>1 DEF MediaInv, UploadsOwnTheirFiles
  <2> QED BY <1>2, <1>3, <2>2, <2>3, <2>4, OnlyUpload
<1>4. ASSUME NEW m \in MediaIds, Fresh(m), Advances(s, [up EXCEPT !.pc = "put", !.id = m])
      PROVE  MediaInv'
  <2> DEFINE n == [up EXCEPT !.pc = "put", !.id = m]
  <2>1. n \in Upload /\ n.pc = "put" /\ n.id = m /\ n.puts = up.puts
    BY DEF Upload
  <2>2. ~HasRow(m) /\ \A t \in Slots : uploads[t].id # m
    BY <1>4 DEF Fresh
  <2>3. Advances(s, n) /\ \A v \in Variants : up.puts[v] # "stored"
    BY <1>1, <1>4 DEF MediaInv, UploadsOwnTheirFiles
  <2> HIDE DEF n
  <2> QED BY <1>2, <2>1, <2>2, <2>3, OnlyUpload
<1> QED BY <1>1, <1>3, <1>4 DEF UploadFind

\* A put leaves every row's files as they are, for its id has no row yet.
LEMMA Put ==
  ASSUME MediaInv, NEW s \in Slots, NEW v \in Variants, UploadPut(s, v)
  PROVE  MediaInv'
<1>1. PICK up \in Upload : up = uploads[s] /\ up.pc = "put"
  BY InFlight DEF UploadPut, MediaInv
<1>2. /\ up.id \in MediaIds /\ ~HasRow(up.id)
      /\ \A w \in Variants : up.puts[w] = "stored" => <<writer, up.id, w>> \in files
      /\ \A t \in Slots : t # s => uploads[t].id # up.id
  BY <1>1 DEF MediaInv, UploadsOwnTheirFiles
<1> DEFINE n == [up EXCEPT !.puts[v] = "stored"]
<1>3. /\ n \in Upload /\ n.pc = "put" /\ n.id = up.id
      /\ \A w \in Variants : n.puts[w] = "stored" => w = v \/ up.puts[w] = "stored"
  BY <1>1 DEF Upload
<1>4. /\ Advances(s, n) /\ media' = media /\ writer' = writer
      /\ files' = files \cup {<<writer, up.id, v>>}
  BY <1>1 DEF UploadPut
<1> HIDE DEF n
<1>5. MediaTypeOK'
  BY <1>2, <1>3, <1>4, Advanced DEF MediaInv, MediaTypeOK
<1>6. \A m \in MediaIds, d \in Drivers : m # up.id => FilesOf(m, d)' = FilesOf(m, d)
  BY <1>4 DEF FilesOf
<1>7. RowsHaveFiles'
  <2> SUFFICES ASSUME NEW m \in MediaIds, HasRow(m)
               PROVE  FilesOf(m, media[m].driver)' = FilesOf(m, media[m].driver)
    BY <1>4 DEF MediaInv, RowsHaveFiles, HasRow, FilesOf
  <2>1. m # up.id /\ media[m].driver \in Drivers
    BY <1>2 DEF HasRow, NoRow, MediaInv, MediaTypeOK, MediaRow
  <2> QED BY <2>1, <1>6, <1>4 DEF FilesOf
<1>8. UploadsOwnTheirFiles'
  <2> SUFFICES ASSUME NEW t \in Slots
               PROVE  /\ uploads'[t].pc = "find" =>
                           \A w \in Variants : uploads'[t].puts[w] = "running"
                      /\ uploads'[t].pc = "put" =>
                           /\ uploads'[t].id \in MediaIds /\ ~HasRow(uploads'[t].id)
                           /\ \A w \in Variants : uploads'[t].puts[w] = "stored" =>
                                <<writer, uploads'[t].id, w>> \in files'
                           /\ \A o \in Slots : o # t => uploads'[o].id # uploads'[t].id
    BY <1>4 DEF UploadsOwnTheirFiles, HasRow
  <2>1. uploads'[s] \in {n, NoUpload} /\ \A o \in Slots \ {s} : uploads'[o] = uploads[o]
    BY <1>3, <1>4, Advanced DEF MediaInv
  <2>2. NoUpload.pc = "none" /\ NoUpload.id \notin MediaIds
    BY MediaAssumption DEF NoUpload
  <2>3. CASE t = s
    BY <1>2, <1>3, <1>4, <2>1, <2>2, <2>3
  <2>4. CASE t # s
    <3>1. /\ uploads[t].pc = "find" => \A w \in Variants : uploads[t].puts[w] = "running"
          /\ uploads[t].pc = "put" =>
               /\ uploads[t].id \in MediaIds /\ ~HasRow(uploads[t].id)
               /\ \A w \in Variants : uploads[t].puts[w] = "stored" =>
                    <<writer, uploads[t].id, w>> \in files
               /\ \A o \in Slots : o # t => uploads[o].id # uploads[t].id
      BY DEF MediaInv, UploadsOwnTheirFiles
    <3>2. uploads'[t] = uploads[t] /\ uploads[s].id = n.id
      BY <2>1, <2>4, <1>1, <1>3
    <3> QED BY <1>4, <2>1, <2>2, <2>4, <3>1, <3>2
  <2> QED BY <2>3, <2>4
<1> QED BY <1>5, <1>7, <1>8 DEF MediaInv

LEMMA PutFails ==
  ASSUME MediaInv, NEW s \in Slots, NEW v \in Variants, UploadPutFails(s, v)
  PROVE  MediaInv'
<1>1. PICK up \in Upload : up = uploads[s] /\ up.pc = "put"
  BY InFlight DEF UploadPutFails, MediaInv
<1>2. /\ up.id \in MediaIds /\ ~HasRow(up.id)
      /\ \A w \in Variants : up.puts[w] = "stored" => <<writer, up.id, w>> \in files
      /\ \A t \in Slots : t # s => uploads[t].id # up.id
  BY <1>1 DEF MediaInv, UploadsOwnTheirFiles
<1> DEFINE n == [up EXCEPT !.puts[v] = "failed"]
<1>3. /\ n \in Upload /\ n.pc = "put" /\ n.id = up.id
      /\ \A w \in Variants : n.puts[w] = "stored" => up.puts[w] = "stored"
  BY <1>1 DEF Upload
<1>4. Advances(s, n) /\ media' = media /\ writer' = writer /\ files' = files
  BY <1>1 DEF UploadPutFails
<1> HIDE DEF n
<1> QED BY <1>2, <1>3, <1>4, OnlyUpload

LEMMA FailsUpload ==
  ASSUME MediaInv, NEW s \in Slots, UploadFails(s)
  PROVE  MediaInv'
<1>1. PICK up \in Upload : up = uploads[s] /\ up.pc \in {"find", "put"}
  BY InFlight DEF UploadFails, MediaInv
<1> DEFINE n == [up EXCEPT !.pc = "failed"]
<1>2. n \in Upload /\ n.pc = "failed" /\ n.id = up.id
  BY <1>1 DEF Upload
<1>3. Advances(s, n) /\ media' = media /\ writer' = writer /\ files' = files
  BY <1>1 DEF UploadFails
<1>4. \A t \in Slots \ {s} : uploads[t].pc = "put" => uploads[t].id # up.id
  BY <1>1 DEF MediaInv, UploadsOwnTheirFiles
<1> HIDE DEF n
<1> QED BY <1>2, <1>3, <1>4, OnlyUpload

\* The row comes with both files in place, and no other upload has its id.
LEMMA CreateRow ==
  ASSUME MediaInv, NEW s \in Slots, UploadCreateRow(s)
  PROVE  MediaInv'
<1>1. PICK up \in Upload : up = uploads[s] /\ up.pc = "put" /\ \A v \in Variants : up.puts[v] = "stored"
  BY InFlight DEF UploadCreateRow, MediaInv
<1>2. /\ up.id \in MediaIds /\ ~HasRow(up.id)
      /\ \A v \in Variants : <<writer, up.id, v>> \in files
      /\ \A t \in Slots : t # s => uploads[t].id # up.id
  BY <1>1 DEF MediaInv, UploadsOwnTheirFiles
<1> DEFINE n == [up EXCEPT !.pc = "done"]
           row == [state |-> "live", owner |-> up.user, photo |-> up.photo, driver |-> writer]
<1>3. n \in Upload /\ n.pc = "done" /\ n.id = up.id /\ row \in MediaRow
  BY <1>1 DEF Upload, MediaRow, MediaInv, MediaTypeOK
<1>4. /\ Advances(s, n) /\ writer' = writer /\ files' = files
      /\ media' = [media EXCEPT ![up.id] = row]
  BY <1>1 DEF UploadCreateRow
<1>5. row.state = "live" /\ row.driver = writer
  OBVIOUS
<1> HIDE DEF n, row
<1>6. /\ media'[up.id] = row /\ \A m \in MediaIds \ {up.id} : media'[m] = media[m]
      /\ media' \in [MediaIds -> MediaRow \cup {NoRow}]
  BY <1>2, <1>3, <1>4 DEF MediaInv, MediaTypeOK
<1>7. MediaTypeOK'
  BY <1>3, <1>4, <1>6, Advanced DEF MediaInv, MediaTypeOK
<1>8. RowsHaveFiles'
  BY <1>2, <1>4, <1>5, <1>6 DEF MediaInv, RowsHaveFiles, HasRow, FilesOf
<1>9. UploadsOwnTheirFiles'
  <2>1. uploads'[s] \in {n, NoUpload} /\ \A o \in Slots \ {s} : uploads'[o] = uploads[o]
    BY <1>3, <1>4, Advanced DEF MediaInv
  <2>2. NoUpload.pc = "none" /\ NoUpload.id \notin MediaIds
    BY MediaAssumption DEF NoUpload
  <2> QED BY <1>1, <1>2, <1>3, <1>4, <1>6, <2>1, <2>2 DEF MediaInv, UploadsOwnTheirFiles, HasRow
<1> QED BY <1>7, <1>8, <1>9 DEF MediaInv

\* What a request does: it brings uploads in, or takes the settled ones out.
LEMMA AnswersKept ==
  ASSUME MediaInv, NEW r \in Requests, Answers(r),
         media' = media, files' = files, writer' = writer
  PROVE  MediaInv'
<1>1. uploads' \in [Slots -> Upload \cup {NoUpload}]
      /\ \A s \in Slots : uploads'[s] = uploads[s] \/ uploads'[s] = NoUpload
  BY DEF Answers, MediaInv, MediaTypeOK
<1> QED BY <1>1, OnlyRequests

LEMMA BodyType == \A photos \in Bodies : \A n \in DOMAIN photos : photos[n] \in Photos
BY DEF Bodies

LEMMA Begins ==
  ASSUME MediaInv, NEW r \in Requests, NEW kind, NEW u \in Users, NEW item, NEW photos,
         \A n \in DOMAIN photos : photos[n] \in Photos, RequestBegin(r, kind, u, item, photos)
  PROVE  MediaInv'
<1>1. media' = media /\ files' = files /\ writer' = writer
  BY DEF RequestBegin
<1>2. ASSUME NEW s \in Slots
      PROVE  \/ uploads'[s] = uploads[s]
             \/ \E p \in Photos : uploads'[s] = NewUpload(u, p)
  BY DEF RequestBegin
<1>3. \A p \in Photos : NewUpload(u, p) \in Upload
  BY DEF NewUpload, Upload
<1>4. uploads' = [s \in Slots |-> uploads'[s]]
  BY DEF RequestBegin
<1>5. uploads' \in [Slots -> Upload \cup {NoUpload}]
  BY <1>2, <1>3, <1>4 DEF MediaInv, MediaTypeOK
<1> QED BY <1>1, <1>2, <1>5, OnlyRequests

LEMMA Requested ==
  ASSUME MediaInv, NEW r \in Requests, RequestStep(r)
  PROVE  MediaInv'
<1>1. ASSUME RequestArrives(r)
      PROVE  MediaInv'
  <2>1. ASSUME NEW u \in Users, NEW p \in Photos, RequestBegin(r, "media", u, Null, <<p>>)
        PROVE  MediaInv'
    <3>1. \A n \in DOMAIN <<p>> : <<p>>[n] \in Photos
      OBVIOUS
    <3> QED BY <2>1, <3>1, Begins
  <2>2. ASSUME NEW u \in Users, NEW kind, NEW item, NEW photos \in Bodies,
               RequestBegin(r, kind, u, item, photos)
        PROVE  MediaInv'
    BY <2>2, BodyType, Begins
  <2> QED BY <1>1, <2>1, <2>2 DEF RequestArrives
<1>2. CASE RequestAnswer(r) \/ RequestCreateItem(r) \/ RequestLink(r) \/ RequestFails(r)
  BY <1>2, AnswersKept DEF RequestAnswer, RequestCreateItem, RequestLink, RequestFails
<1>3. CASE RequestCount(r)
  BY <1>3, OnlyRequests DEF RequestCount, MediaInv, MediaTypeOK
<1> QED BY <1>1, <1>2, <1>3 DEF RequestStep

LEMMA Removed ==
  ASSUME MediaInv, NEW u \in Users, NEW m \in MediaIds, Remove(u, m)
  PROVE  MediaInv'
<1>1. PICK row \in MediaRow : row = media[m] /\ row.state = "live"
  BY DEF Remove, MediaInv, MediaTypeOK, NoRow
<1> DEFINE gone == [row EXCEPT !.state = "deleted"]
<1>2. /\ gone \in MediaRow /\ gone.state = "deleted" /\ gone.driver = row.driver
      /\ media' = [media EXCEPT ![m] = gone]
      /\ files' = files /\ writer' = writer /\ uploads' = uploads
  BY <1>1 DEF Remove, MediaRow
<1> HIDE DEF gone
<1>3. /\ media'[m] = gone /\ \A n \in MediaIds \ {m} : media'[n] = media[n]
      /\ media' \in [MediaIds -> MediaRow \cup {NoRow}]
  BY <1>2 DEF MediaInv, MediaTypeOK
<1>4. \A n \in MediaIds : HasRow(n)' <=> HasRow(n)
  BY <1>1, <1>2, <1>3 DEF HasRow
<1>5. MediaTypeOK'
  BY <1>2, <1>3 DEF MediaInv, MediaTypeOK
<1>6. RowsHaveFiles'
  BY <1>1, <1>2, <1>3, <1>4 DEF MediaInv, RowsHaveFiles, FilesOf
<1>7. UploadsOwnTheirFiles'
  BY <1>2, <1>4 DEF MediaInv, UploadsOwnTheirFiles
<1> QED BY <1>5, <1>6, <1>7 DEF MediaInv

\* A wiped disk takes both files of a local row, and none of another.
LEMMA Started ==
  ASSUME MediaInv, NEW driver \in Drivers, Start(driver)
  PROVE  MediaInv'
<1>1. /\ media' = media /\ writer' = driver /\ uploads' = uploads
      /\ files' \in {files, {f \in files : f[1] # "local"}}
      /\ \A s \in Slots : uploads[s] = NoUpload
  BY DEF Start
<1>2. MediaTypeOK'
  BY <1>1 DEF MediaInv, MediaTypeOK
<1>3. \A m \in MediaIds, d \in Drivers :
        FilesOf(m, d)' = FilesOf(m, d) \/ (d = "local" /\ FilesOf(m, d)' = {})
  BY <1>1 DEF FilesOf, Drivers
<1>4. RowsHaveFiles'
  <2> SUFFICES ASSUME NEW m \in MediaIds, HasRow(m)
               PROVE  \/ FilesOf(m, media[m].driver)' = Variants
                      \/ media[m].driver = "local" /\ FilesOf(m, media[m].driver)' = {}
    BY <1>1 DEF RowsHaveFiles, HasRow, FilesOf
  <2>1. media[m].driver \in Drivers
    BY DEF HasRow, NoRow, MediaInv, MediaTypeOK, MediaRow
  <2> QED BY <1>1, <1>3, <2>1 DEF MediaInv, RowsHaveFiles, FilesOf
<1>5. UploadsOwnTheirFiles'
  BY <1>1 DEF UploadsOwnTheirFiles, NoUpload
<1> QED BY <1>2, <1>4, <1>5 DEF MediaInv

LEMMA MediaStep == MediaInv /\ [Next]_vars => MediaInv'
<1> SUFFICES ASSUME MediaInv, [Next]_vars PROVE MediaInv'
  OBVIOUS
<1>1. ASSUME NEW s \in Slots, UploadStep(s) PROVE MediaInv'
  BY <1>1, Find, Put, PutFails, FailsUpload, CreateRow DEF UploadStep
<1>2. ASSUME Stop PROVE MediaInv'
  <2>1. uploads' \in [Slots -> Upload \cup {NoUpload}] /\ \A s \in Slots : uploads'[s] = NoUpload
    BY <1>2 DEF Stop
  <2> QED BY <1>2, <2>1, OnlyRequests DEF Stop
<1>3. CASE UNCHANGED vars
  BY <1>3, OnlyRequests DEF vars, MediaInv, MediaTypeOK
<1> QED BY <1>1, <1>2, <1>3, Requested, Removed, Started DEF Next

\* A row never precedes its files, is never left with one of the two, and is
\* parted from them by the wiped disk only.
THEOREM MediaInvariant == Spec => []MediaInv
BY MediaInit, MediaStep, PTL DEF Spec

-----------------------------------------------------------------------------
(* Rows are never another photo's, and no step makes one but UploadCreateRow. *)

LEMMA RowsKept ==
  ASSUME MediaInv, [Next]_vars, NEW m \in MediaIds, HasRow(m)
  PROVE  /\ HasRow(m)'
         /\ media'[m].owner = media[m].owner /\ media'[m].photo = media[m].photo
         /\ media'[m].driver = media[m].driver
<1>1. media[m] \in MediaRow
  BY DEF HasRow, NoRow, MediaInv, MediaTypeOK
<1>2. CASE media' = media
  BY <1>2 DEF HasRow
<1>3. ASSUME NEW s \in Slots, UploadCreateRow(s)
      PROVE  media'[m] = media[m]
  BY <1>3 DEF UploadCreateRow, MediaInv, UploadsOwnTheirFiles
<1>4. ASSUME NEW u \in Users, NEW n \in MediaIds, Remove(u, n)
      PROVE  /\ HasRow(m)'
             /\ media'[m].owner = media[m].owner /\ media'[m].photo = media[m].photo
             /\ media'[m].driver = media[m].driver
  <2>1. media'[m] = media[m] \/ media'[m] = [media[m] EXCEPT !.state = "deleted"]
    BY <1>4 DEF Remove, MediaInv, MediaTypeOK
  <2> QED BY <1>1, <2>1 DEF HasRow, MediaRow
<1>5. \/ media' = media
      \/ \E s \in Slots : UploadCreateRow(s)
      \/ \E u \in Users, n \in MediaIds : Remove(u, n)
  BY DEF Next, vars, UploadStep, UploadFind, UploadPut, UploadPutFails, UploadFails,
         RequestStep, RequestArrives, RequestBegin, RequestAnswer, RequestCreateItem,
         RequestCount, RequestLink, RequestFails, Stop, Start
<1> QED BY <1>2, <1>3, <1>4, <1>5 DEF HasRow

\* What an upload that is done names, but for the files of the row.
NamesItsRow(up) ==
  up.pc = "done" =>
    /\ up.id \in MediaIds /\ HasRow(up.id)
    /\ media[up.id].owner = up.user /\ media[up.id].photo = up.photo
    /\ media[up.id].driver = writer
DoneUploads == \A s \in Slots : NamesItsRow(uploads[s])

\* A done upload that was there before still names its row.
LEMMA StillNamed ==
  ASSUME MediaInv, [Next]_vars, writer' = writer, NEW s \in Slots, NamesItsRow(uploads[s]),
         uploads'[s] = uploads[s]
  PROVE  NamesItsRow(uploads[s])'
BY RowsKept DEF NamesItsRow

LEMMA DoneStep ==
  ASSUME MediaInv, DoneUploads, [Next]_vars
  PROVE  DoneUploads'
<1>1. ASSUME NEW s \in Slots, UploadFind(s)
      PROVE  DoneUploads'
  <2>1. PICK up \in Upload : up = uploads[s] /\ up.pc = "find"
    BY <1>1, InFlight DEF UploadFind, MediaInv
  <2>2. media' = media /\ writer' = writer
    BY <1>1 DEF UploadFind
  <2>3. ASSUME NEW m \in SameStored(up), Advances(s, [up EXCEPT !.pc = "done", !.id = m])
        PROVE  DoneUploads'
    <3> DEFINE n == [up EXCEPT !.pc = "done", !.id = m]
    <3>1. m \in MediaIds /\ HasRow(m) /\ media[m].photo = up.photo /\ media[m].owner = up.user
          /\ media[m].driver = writer
      BY <2>3 DEF SameStored, HasRow
    <3>2. n \in Upload /\ n.id = m /\ n.user = up.user /\ n.photo = up.photo
      BY <3>1 DEF Upload
    <3>3. Advances(s, n)
      BY <2>3
    <3> HIDE DEF n
    <3>4. uploads'[s] \in {n, NoUpload} /\ \A t \in Slots \ {s} : uploads'[t] = uploads[t]
      BY <3>2, <3>3, Advanced DEF MediaInv
    <3>5. NamesItsRow(uploads[s])'
      BY <2>2, <3>1, <3>2, <3>4 DEF NamesItsRow, HasRow, NoUpload
    <3> QED BY <2>2, <3>4, <3>5, StillNamed DEF DoneUploads
  <2>4. ASSUME NEW m \in MediaIds, Advances(s, [up EXCEPT !.pc = "put", !.id = m])
        PROVE  DoneUploads'
    <3> DEFINE n == [up EXCEPT !.pc = "put", !.id = m]
    <3>1. n \in Upload /\ n.pc = "put" /\ Advances(s, n)
      BY <2>4 DEF Upload
    <3> HIDE DEF n
    <3>2. uploads'[s] \in {n, NoUpload} /\ \A t \in Slots \ {s} : uploads'[t] = uploads[t]
      BY <3>1, Advanced DEF MediaInv
    <3>3. NamesItsRow(uploads[s])'
      BY <3>1, <3>2 DEF NamesItsRow, NoUpload
    <3> QED BY <2>2, <3>2, <3>3, StillNamed DEF DoneUploads
  <2> QED BY <1>1, <2>1, <2>3, <2>4 DEF UploadFind
<1>2. ASSUME NEW s \in Slots, UploadCreateRow(s)
      PROVE  DoneUploads'
  <2>1. PICK up \in Upload : up = uploads[s] /\ up.pc = "put" /\ up.id \in MediaIds
    BY <1>2, InFlight DEF UploadCreateRow, MediaInv, UploadsOwnTheirFiles
  <2> DEFINE n == [up EXCEPT !.pc = "done"]
  <2>2. n \in Upload /\ n.id = up.id /\ n.user = up.user /\ n.photo = up.photo
    BY <2>1 DEF Upload
  <2>3. Advances(s, n) /\ writer' = writer
    BY <1>2, <2>1 DEF UploadCreateRow
  <2>4. media'[up.id] = [state |-> "live", owner |-> up.user, photo |-> up.photo, driver |-> writer]
    BY <1>2, <2>1 DEF UploadCreateRow, MediaInv, MediaTypeOK
  <2> HIDE DEF n
  <2>5. uploads'[s] \in {n, NoUpload} /\ \A t \in Slots \ {s} : uploads'[t] = uploads[t]
    BY <2>2, <2>3, Advanced DEF MediaInv
  <2>6. NamesItsRow(uploads[s])'
    BY <2>1, <2>2, <2>3, <2>4, <2>5 DEF NamesItsRow, HasRow, NoUpload
  <2> QED BY <2>3, <2>5, <2>6, StillNamed DEF DoneUploads
<1>3. ASSUME NEW s \in Slots,
             \/ UploadFails(s)
             \/ \E v \in Variants : UploadPut(s, v) \/ UploadPutFails(s, v)
      PROVE  DoneUploads'
  <2>1. PICK up \in Upload : up = uploads[s]
    BY <1>3, InFlight DEF MediaInv, UploadFails, UploadPut, UploadPutFails
  <2>2. PICK n \in Upload : n.pc # "done" /\ Advances(s, n)
    <3>1. CASE UploadFails(s)
      <4>1. [up EXCEPT !.pc = "failed"] \in Upload /\ [up EXCEPT !.pc = "failed"].pc # "done"
        BY DEF Upload
      <4> QED BY <2>1, <3>1, <4>1 DEF UploadFails
    <3>2. ASSUME NEW v \in Variants, UploadPut(s, v) \/ UploadPutFails(s, v)
          PROVE  \E n \in Upload : n.pc # "done" /\ Advances(s, n)
      <4>1. up.pc = "put"
        BY <2>1, <3>2 DEF UploadPut, UploadPutFails
      <4>2. \A k \in {"stored", "failed"} :
              [up EXCEPT !.puts[v] = k] \in Upload /\ [up EXCEPT !.puts[v] = k].pc = "put"
        BY <4>1 DEF Upload
      <4> QED BY <2>1, <3>2, <4>2 DEF UploadPut, UploadPutFails
    <3> QED BY <1>3, <3>1, <3>2
  <2>3. uploads'[s] \in {n, NoUpload} /\ \A t \in Slots \ {s} : uploads'[t] = uploads[t]
    BY <2>2, Advanced DEF MediaInv
  <2>4. writer' = writer
    BY <1>3 DEF UploadFails, UploadPut, UploadPutFails
  <2>5. NamesItsRow(uploads[s])'
    BY <2>2, <2>3 DEF NamesItsRow, NoUpload
  <2> QED BY <2>3, <2>4, <2>5, StillNamed DEF DoneUploads
<1>4. ASSUME writer' = writer,
             \A s \in Slots : uploads'[s] = uploads[s] \/ uploads'[s].pc \in {"none", "find"}
      PROVE  DoneUploads'
  <2>1. ASSUME NEW s \in Slots PROVE NamesItsRow(uploads[s])'
    <3>1. CASE uploads'[s] = uploads[s]
      BY <1>4, <3>1, StillNamed DEF DoneUploads
    <3>2. CASE uploads'[s].pc \in {"none", "find"}
      BY <3>2 DEF NamesItsRow
    <3> QED BY <1>4, <3>1, <3>2
  <2> QED BY <2>1 DEF DoneUploads
<1>5. ASSUME NEW r \in Requests, RequestStep(r)
      PROVE  DoneUploads'
  <2>1. ASSUME RequestArrives(r)
        PROVE  DoneUploads'
    <3>1. ASSUME NEW kind, NEW u, NEW item, NEW photos, RequestBegin(r, kind, u, item, photos)
          PROVE  DoneUploads'
      <4>1. writer' = writer
            /\ \A s \in Slots : uploads'[s] = uploads[s] \/ uploads'[s] = NewUpload(u, photos[s[2]])
        BY <3>1 DEF RequestBegin
      <4>2. \A p : NewUpload(u, p).pc = "find"
        BY DEF NewUpload
      <4>3. \A s \in Slots : uploads'[s] = uploads[s] \/ uploads'[s].pc \in {"none", "find"}
        BY <4>1, <4>2
      <4> QED BY <1>4, <4>1, <4>3
    <3> QED BY <2>1, <3>1 DEF RequestArrives
  <2>2. CASE RequestAnswer(r) \/ RequestCreateItem(r) \/ RequestLink(r) \/ RequestFails(r)
    BY <1>4, <2>2 DEF RequestAnswer, RequestCreateItem, RequestLink, RequestFails, Answers, NoUpload
  <2>3. CASE RequestCount(r)
    BY <1>4, <2>3 DEF RequestCount
  <2> QED BY <1>5, <2>1, <2>2, <2>3 DEF RequestStep
<1>6. ASSUME NEW u \in Users, NEW m \in MediaIds, Remove(u, m)
      PROVE  DoneUploads'
  BY <1>4, <1>6 DEF Remove
<1>7. CASE Stop
  BY <1>4, <1>7 DEF Stop, NoUpload
<1>8. ASSUME NEW driver \in Drivers, Start(driver)
      PROVE  DoneUploads'
  BY <1>8 DEF Start, DoneUploads, NamesItsRow, NoUpload
<1>9. CASE UNCHANGED vars
  BY <1>4, <1>9 DEF vars
<1> QED BY <1>1, <1>2, <1>3, <1>5, <1>6, <1>7, <1>8, <1>9 DEF Next, UploadStep

\* What an upload hands back is its user's row of its photo, in the current
\* store: the files of a row of the object store are never parted from it.
THEOREM HandedBack == Spec => []HandedBackIsStored
<1>1. Init => DoneUploads
  BY DEF Init, DoneUploads, NamesItsRow, NoUpload
<1>2. MediaInv /\ DoneUploads => HandedBackIsStored
  BY DEF MediaInv, DoneUploads, NamesItsRow, HandedBackIsStored, RowsHaveFiles
<1>3. MediaInv /\ DoneUploads /\ [Next]_vars => DoneUploads'
  BY DoneStep
<1> QED BY <1>1, <1>2, <1>3, MediaInvariant, PTL DEF Spec

-----------------------------------------------------------------------------
(* Media implements MediaLibrary.  An entry is there from UploadCreateRow on:  *)
(* the files put before belong to no row, so they change no entry.             *)

LEMMA EntryKept ==
  ASSUME NEW m \in MediaIds, media'[m] = media[m],
         HasRow(m) => \A v \in Variants :
           <<media[m].driver, m, v>> \in files' <=> <<media[m].driver, m, v>> \in files
  PROVE  LibraryEntry(m)' = LibraryEntry(m)
BY DEF LibraryEntry, HasRow

LEMMA StutterKept ==
  ASSUME \A m \in MediaIds : LibraryEntry(m)' = LibraryEntry(m)
  PROVE  Entries' = Entries
BY DEF Entries

LEMMA Adds ==
  ASSUME MediaInv, NEW s \in Slots, UploadCreateRow(s)
  PROVE  Library!Next
<1>1. PICK up \in Upload : up = uploads[s] /\ up.pc = "put" /\ up.id \in MediaIds
                           /\ \A v \in Variants : up.puts[v] = "stored"
  BY InFlight DEF UploadCreateRow, MediaInv, UploadsOwnTheirFiles
<1>2. ~HasRow(up.id) /\ \A v \in Variants : <<writer, up.id, v>> \in files
  BY <1>1 DEF MediaInv, UploadsOwnTheirFiles
<1>3. /\ media' = [media EXCEPT ![up.id] = [state |-> "live", owner |-> up.user,
                                            photo |-> up.photo, driver |-> writer]]
      /\ files' = files
  BY <1>1 DEF UploadCreateRow
<1> DEFINE e == [bytes |-> "whole", state |-> "live", owner |-> up.user,
                 photo |-> up.photo, driver |-> writer]
<1>4. LibraryEntry(up.id) = Library!Nothing
  BY <1>2 DEF LibraryEntry, Library!Nothing
<1>5. LibraryEntry(up.id)' = e
  <2>1. media'[up.id] = [state |-> "live", owner |-> up.user, photo |-> up.photo, driver |-> writer]
    BY <1>1, <1>3 DEF MediaInv, MediaTypeOK
  <2> QED BY <1>2, <1>3, <2>1 DEF LibraryEntry, HasRow
<1>6. e \in Library!Whole
  BY <1>1 DEF Library!Whole, Upload, MediaInv, MediaTypeOK, Drivers, Library!Drivers
<1>7. \A m \in MediaIds \ {up.id} : LibraryEntry(m)' = LibraryEntry(m)
  BY <1>1, <1>3, EntryKept DEF MediaInv, MediaTypeOK
<1> HIDE DEF e
<1>8. Entries[up.id] = Library!Nothing /\ Entries'[up.id] \in Library!Whole
  BY <1>1, <1>4, <1>5, <1>6 DEF Entries
<1>9. Entries' = [Entries EXCEPT ![up.id] = Entries'[up.id]]
  BY <1>1, <1>7 DEF Entries
<1> QED BY <1>1, <1>8, <1>9 DEF Library!Next, Library!Add

LEMMA TakesAway ==
  ASSUME MediaInv, NEW u \in Users, NEW m \in MediaIds, Remove(u, m)
  PROVE  Library!Next
<1>1. PICK row \in MediaRow : row = media[m] /\ row.state = "live"
  BY DEF Remove, MediaInv, MediaTypeOK, NoRow
<1>2. /\ media'[m] = [row EXCEPT !.state = "deleted"] /\ files' = files
      /\ \A n \in MediaIds \ {m} : media'[n] = media[n]
  BY <1>1 DEF Remove, MediaInv, MediaTypeOK
<1> DEFINE bytes == IF \A v \in Variants : <<row.driver, m, v>> \in files THEN "whole" ELSE "lost"
           e(state) == [bytes |-> bytes, state |-> state, owner |-> row.owner,
                          photo |-> row.photo, driver |-> row.driver]
<1>3. LibraryEntry(m) = e("live")
  BY <1>1 DEF LibraryEntry, HasRow
<1>4. LibraryEntry(m)' = e("deleted")
  <2>1. /\ media'[m].state = "deleted" /\ media'[m].owner = row.owner
        /\ media'[m].photo = row.photo /\ media'[m].driver = row.driver
    BY <1>2 DEF MediaRow
  <2> QED BY <1>2, <2>1 DEF LibraryEntry, HasRow
<1>5. e("deleted") = [e("live") EXCEPT !.state = "deleted"] /\ e("live").bytes # "none"
  <2>1. bytes # "none"
    OBVIOUS
  <2> HIDE DEF bytes
  <2> QED BY <2>1
<1> HIDE DEF e
<1>6. \A n \in MediaIds \ {m} : LibraryEntry(n)' = LibraryEntry(n)
  BY <1>2, EntryKept
<1>7. Entries[m] # Library!Nothing
  BY <1>3, <1>5 DEF Entries, Library!Nothing
<1>8. Entries' = [Entries EXCEPT ![m].state = "deleted"]
  BY <1>3, <1>4, <1>5, <1>6 DEF Entries
<1> QED BY <1>7, <1>8 DEF Library!Next, Library!TakeAway

LEMMA Wipes ==
  ASSUME MediaInv, NEW driver \in Drivers, Start(driver)
  PROVE  Library!Next \/ Entries' = Entries
<1>1. media' = media
  BY DEF Start
<1>2. CASE files' = files
  BY <1>1, <1>2, EntryKept, StutterKept
<1>3. CASE files' = {f \in files : f[1] # "local"}
  <2>1. ASSUME NEW m \in MediaIds
        PROVE  LibraryEntry(m)' =
                 IF LibraryEntry(m) # Library!Nothing /\ LibraryEntry(m).driver = "local"
                 THEN [LibraryEntry(m) EXCEPT !.bytes = "lost"] ELSE LibraryEntry(m)
    <3>1. CASE ~HasRow(m)
      BY <1>1, <3>1 DEF LibraryEntry, HasRow, Library!Nothing
    <3>2. CASE HasRow(m) /\ media[m].driver # "local"
      <4>1. LibraryEntry(m)' = LibraryEntry(m)
        BY <1>1, <1>3, <3>2, EntryKept
      <4>2. LibraryEntry(m).driver # "local"
        BY <3>2 DEF LibraryEntry
      <4> QED BY <4>1, <4>2
    <3>3. CASE HasRow(m) /\ media[m].driver = "local"
      <4>1. "original" \in Variants /\ <<"local", m, "original">> \notin files'
        BY <1>3 DEF Variants
      <4>2. LibraryEntry(m)' = [bytes |-> "lost", state |-> media[m].state,
                                owner |-> media[m].owner, photo |-> media[m].photo,
                                driver |-> media[m].driver]
        BY <1>1, <3>3, <4>1 DEF LibraryEntry, HasRow
      <4>3. LibraryEntry(m) # Library!Nothing /\ LibraryEntry(m).driver = "local"
        BY <3>3 DEF LibraryEntry, Library!Nothing
      <4>4. [LibraryEntry(m) EXCEPT !.bytes = "lost"] =
              [bytes |-> "lost", state |-> media[m].state,
               owner |-> media[m].owner, photo |-> media[m].photo, driver |-> media[m].driver]
        <5>1. PICK b : LibraryEntry(m) = [bytes |-> b, state |-> media[m].state,
                                         owner |-> media[m].owner, photo |-> media[m].photo,
                                         driver |-> media[m].driver]
          BY <3>3 DEF LibraryEntry
        <5> QED BY <5>1
      <4> QED BY <4>2, <4>3, <4>4
    <3> QED BY <3>1, <3>2, <3>3
  <2>2. \A m \in MediaIds : Entries[m] = LibraryEntry(m)
    BY DEF Entries
  <2>3. Entries' = [m \in MediaIds |->
                      IF Entries[m] # Library!Nothing /\ Entries[m].driver = "local"
                      THEN [Entries[m] EXCEPT !.bytes = "lost"] ELSE Entries[m]]
    BY <2>1, <2>2 DEF Entries
  <2> QED BY <2>3 DEF Library!Next, Library!Wipe
<1> QED BY <1>2, <1>3 DEF Start

LEMMA LibraryStep == MediaInv /\ [Next]_vars => Library!Next \/ Entries' = Entries
<1> SUFFICES ASSUME MediaInv, [Next]_vars PROVE Library!Next \/ Entries' = Entries
  OBVIOUS
<1>1. CASE media' = media /\ files' = files
  BY <1>1, EntryKept, StutterKept
<1>2. ASSUME NEW s \in Slots, NEW v \in Variants, UploadPut(s, v)
      PROVE  Entries' = Entries
  <2>1. uploads[s].id \in MediaIds /\ ~HasRow(uploads[s].id)
    BY <1>2 DEF UploadPut, MediaInv, UploadsOwnTheirFiles
  <2>2. media' = media /\ files' = files \cup {<<writer, uploads[s].id, v>>}
    BY <1>2 DEF UploadPut
  <2> QED BY <2>1, <2>2, EntryKept, StutterKept
<1>3. \/ media' = media /\ files' = files
      \/ \E s \in Slots : UploadCreateRow(s) \/ \E v \in Variants : UploadPut(s, v)
      \/ \E u \in Users, m \in MediaIds : Remove(u, m)
      \/ \E driver \in Drivers : Start(driver)
  BY DEF Next, vars, UploadStep, UploadFind, UploadPutFails, UploadFails,
         RequestStep, RequestArrives, RequestBegin, RequestAnswer, RequestCreateItem,
         RequestCount, RequestLink, RequestFails, Stop
<1> QED BY <1>1, <1>2, <1>3, Adds, TakesAway, Wipes

\* Rows, files and uploads in flight behave as a library of photos each whole
\* from the start, taken away by its owner and lost to a wiped disk only.
THEOREM MediaIsALibrary == Spec => ImplementsLibrary
<1>1. Init => Library!Init
  BY DEF Init, Library!Init, Library!Nothing, Entries, LibraryEntry, HasRow, NoRow
<1>2. MediaInv /\ [Next]_vars => [Library!Next]_Entries
  BY LibraryStep
<1> QED BY <1>1, <1>2, MediaInvariant, PTL DEF Spec, ImplementsLibrary, Library!Spec

-----------------------------------------------------------------------------
(* Uploads of one user's photo that are never in flight together.           *)

\* Uploads on their way to a row.
Building(up) == up.pc = "put" /\ ~Settled(up)

UploadsApart ==
  \A s, t \in Slots : s # t /\ Running(s) /\ Running(t) =>
    uploads[s].user # uploads[t].user \/ uploads[s].photo # uploads[t].photo

\* An upload on its way has found no row to hand back, and none has come.
StillNotStored == \A s \in Slots : Building(uploads[s]) => SameStored(uploads[s]) = {}

SerialInv == MediaInv /\ (~overlapped => UploadsApart /\ StillNotStored /\ OneRowPerPhoto)

\* A step that adds no row, and sets no upload on its way that has not looked.
LEMMA SerialKept ==
  ASSUME StillNotStored, OneRowPerPhoto, writer' = writer,
         \A m \in MediaIds : media'[m].state = "live" => media'[m] = media[m],
         \A s \in Slots : Building(uploads'[s]) =>
           \/ /\ Building(uploads[s])
              /\ uploads'[s].user = uploads[s].user /\ uploads'[s].photo = uploads[s].photo
           \/ SameStored(uploads'[s]) = {}
  PROVE  StillNotStored' /\ OneRowPerPhoto'
<1>1. ASSUME NEW s \in Slots, Building(uploads[s])' PROVE SameStored(uploads[s])' = {}
  <2>1. Building(uploads'[s])
    BY <1>1 DEF Building, Settled, Rejected
  <2>2. SameStored(uploads'[s]) = {}
    BY <2>1 DEF StillNotStored, SameStored
  <2> QED BY <2>2 DEF SameStored
<1>2. OneRowPerPhoto'
  BY DEF OneRowPerPhoto
<1> QED BY <1>1, <1>2 DEF StillNotStored

LEMMA SerialFind ==
  ASSUME MediaInv, StillNotStored, OneRowPerPhoto, NEW s \in Slots, UploadFind(s)
  PROVE  StillNotStored' /\ OneRowPerPhoto'
<1>1. PICK up \in Upload : up = uploads[s] /\ up.pc = "find"
  BY InFlight DEF UploadFind, MediaInv
<1>2. media' = media /\ writer' = writer
  BY DEF UploadFind
<1>3. ASSUME NEW n \in Upload, Advances(s, n), Building(n) => SameStored(n) = {}
      PROVE  StillNotStored' /\ OneRowPerPhoto'
  <2>1. uploads'[s] \in {n, NoUpload} /\ \A t \in Slots \ {s} : uploads'[t] = uploads[t]
    BY <1>3, Advanced DEF MediaInv
  <2>2. ~Building(NoUpload)
    BY DEF Building, NoUpload
  <2> QED BY <1>2, <1>3, <2>1, <2>2, SerialKept
<1>4. ASSUME NEW m \in SameStored(up), Advances(s, [up EXCEPT !.pc = "done", !.id = m])
      PROVE  StillNotStored' /\ OneRowPerPhoto'
  <2> DEFINE n == [up EXCEPT !.pc = "done", !.id = m]
  <2>1. n \in Upload /\ n.pc = "done" /\ Advances(s, n)
    BY <1>4 DEF Upload, SameStored
  <2> HIDE DEF n
  <2>2. ~Building(n)
    BY <2>1 DEF Building
  <2> QED BY <1>3, <2>1, <2>2
<1>5. ASSUME NEW m \in MediaIds, SameStored(up) = {}, Advances(s, [up EXCEPT !.pc = "put", !.id = m])
      PROVE  StillNotStored' /\ OneRowPerPhoto'
  <2> DEFINE n == [up EXCEPT !.pc = "put", !.id = m]
  <2>1. n \in Upload /\ n.user = up.user /\ n.photo = up.photo /\ Advances(s, n)
    BY <1>5 DEF Upload
  <2> HIDE DEF n
  <2>2. SameStored(n) = {}
    BY <1>5, <2>1 DEF SameStored
  <2> QED BY <1>3, <2>1, <2>2
<1> QED BY <1>1, <1>4, <1>5 DEF UploadFind

LEMMA SerialPut ==
  ASSUME MediaInv, StillNotStored, OneRowPerPhoto, NEW s \in Slots,
         UploadFails(s) \/ \E v \in Variants : UploadPut(s, v) \/ UploadPutFails(s, v)
  PROVE  StillNotStored' /\ OneRowPerPhoto'
<1>1. PICK up \in Upload : up = uploads[s]
  BY InFlight DEF UploadFails, UploadPut, UploadPutFails, MediaInv
<1>2. media' = media /\ writer' = writer
  BY DEF UploadFails, UploadPut, UploadPutFails
<1>3. ASSUME NEW n \in Upload, Advances(s, n),
             Building(n) => Building(up) /\ n.user = up.user /\ n.photo = up.photo
      PROVE  StillNotStored' /\ OneRowPerPhoto'
  <2>1. uploads'[s] \in {n, NoUpload} /\ \A t \in Slots \ {s} : uploads'[t] = uploads[t]
    BY <1>3, Advanced DEF MediaInv
  <2>2. ~Building(NoUpload)
    BY DEF Building, NoUpload
  <2> QED BY <1>1, <1>2, <1>3, <2>1, <2>2, SerialKept
<1>4. CASE UploadFails(s)
  <2> DEFINE n == [up EXCEPT !.pc = "failed"]
  <2>1. n \in Upload /\ n.pc = "failed" /\ Advances(s, n)
    BY <1>1, <1>4 DEF Upload, UploadFails
  <2> HIDE DEF n
  <2> QED BY <1>3, <2>1 DEF Building
<1>5. ASSUME NEW v \in Variants, NEW how \in {"stored", "failed"},
             up.pc = "put", up.puts[v] = "running", Advances(s, [up EXCEPT !.puts[v] = how])
      PROVE  StillNotStored' /\ OneRowPerPhoto'
  <2> DEFINE n == [up EXCEPT !.puts[v] = how]
  <2>1. n \in Upload /\ n.user = up.user /\ n.photo = up.photo /\ Advances(s, n)
    BY <1>5 DEF Upload
  <2> HIDE DEF n
  <2>2. Building(up)
    BY <1>5 DEF Building, Settled
  <2> QED BY <1>3, <2>1, <2>2
<1>6. ASSUME NEW v \in Variants, UploadPut(s, v) \/ UploadPutFails(s, v)
      PROVE  StillNotStored' /\ OneRowPerPhoto'
  BY <1>1, <1>5, <1>6 DEF UploadPut, UploadPutFails
<1> QED BY <1>4, <1>6

\* The row comes where there was none of the photo, and no other upload is on
\* its way to one.
LEMMA SerialCreateRow ==
  ASSUME MediaInv, UploadsApart, StillNotStored, OneRowPerPhoto, NEW s \in Slots, UploadCreateRow(s)
  PROVE  StillNotStored' /\ OneRowPerPhoto'
<1>1. PICK up \in Upload : up = uploads[s] /\ up.pc = "put" /\ \A v \in Variants : up.puts[v] = "stored"
  BY InFlight DEF UploadCreateRow, MediaInv
<1>2. up.id \in MediaIds /\ ~Settled(up) /\ SameStored(up) = {}
  BY <1>1 DEF MediaInv, UploadsOwnTheirFiles, Settled, Rejected, StillNotStored, Building
<1> DEFINE n == [up EXCEPT !.pc = "done"]
           row == [state |-> "live", owner |-> up.user, photo |-> up.photo, driver |-> writer]
<1>3. /\ n \in Upload /\ n.pc = "done"
      /\ row.owner = up.user /\ row.photo = up.photo /\ row.driver = writer
  BY <1>1 DEF Upload
<1>4. Advances(s, n) /\ writer' = writer /\ media' = [media EXCEPT ![up.id] = row]
  BY <1>1 DEF UploadCreateRow
<1> HIDE DEF n, row
<1>5. media'[up.id] = row /\ \A m \in MediaIds \ {up.id} : media'[m] = media[m]
  BY <1>2, <1>4 DEF MediaInv, MediaTypeOK
<1>6. uploads'[s] \in {n, NoUpload} /\ \A t \in Slots \ {s} : uploads'[t] = uploads[t]
  BY <1>3, <1>4, Advanced DEF MediaInv
<1>7. \A m \in MediaIds \ {up.id} : media[m].state = "live" =>
        media[m].owner # up.user \/ media[m].photo # up.photo \/ media[m].driver # writer
  BY <1>2 DEF SameStored
<1>8. OneRowPerPhoto'
  <2> SUFFICES ASSUME NEW m \in MediaIds, NEW k \in MediaIds,
                      media'[m].state = "live", media'[k].state = "live",
                      media'[m].owner = media'[k].owner, media'[m].photo = media'[k].photo,
                      media'[m].driver = media'[k].driver
               PROVE  m = k
    BY DEF OneRowPerPhoto
  <2>1. CASE m # up.id /\ k # up.id
    BY <1>5, <2>1 DEF OneRowPerPhoto
  <2>2. CASE m = up.id /\ k # up.id
    BY <1>3, <1>5, <1>7, <2>2
  <2>3. CASE k = up.id /\ m # up.id
    BY <1>3, <1>5, <1>7, <2>3
  <2> QED BY <2>1, <2>2, <2>3
<1>9. ASSUME NEW t \in Slots, Building(uploads[t])' PROVE SameStored(uploads[t])' = {}
  <2>1. t # s /\ uploads'[t] = uploads[t]
    BY <1>3, <1>6, <1>9 DEF Building, NoUpload
  <2>2. Building(uploads[t])
    BY <1>9, <2>1 DEF Building, Settled, Rejected
  <2>3. uploads[t].user # up.user \/ uploads[t].photo # up.photo
    BY <1>1, <1>2, <2>1, <2>2 DEF UploadsApart, Running, Building
  <2>4. SameStored(uploads[t]) = {}
    BY <2>2 DEF StillNotStored
  <2> QED BY <1>3, <1>4, <1>5, <2>1, <2>3, <2>4 DEF SameStored
<1> QED BY <1>8, <1>9 DEF StillNotStored

LEMMA SerialStep == SerialInv /\ [MCNext]_<<vars, overlapped>> => SerialInv'
<1> SUFFICES ASSUME SerialInv, [MCNext]_<<vars, overlapped>>, ~overlapped'
             PROVE  UploadsApart' /\ StillNotStored' /\ OneRowPerPhoto'
  BY MediaStep DEF SerialInv, MCNext, vars
<1>0. ~overlapped
  BY DEF MCNext
<1>1. MediaInv /\ MediaTypeOK /\ UploadsApart /\ StillNotStored /\ OneRowPerPhoto
  BY <1>0 DEF SerialInv, MediaInv
<1>2. UploadsApart'
  <2>1. CASE MCNext
    <3>1. ~Overlap'
      BY <2>1 DEF MCNext
    <3> QED BY <3>1 DEF Overlap, UploadsApart
  <2>2. CASE UNCHANGED <<vars, overlapped>>
    BY <1>1, <2>2 DEF vars, UploadsApart, Running, Settled, Rejected
  <2> QED BY <2>1, <2>2
<1>3. ASSUME media' = media, writer' = writer,
             \A s \in Slots : uploads'[s] = uploads[s] \/ uploads'[s].pc \in {"none", "find"}
      PROVE  StillNotStored' /\ OneRowPerPhoto'
  BY <1>1, <1>3, SerialKept DEF Building
<1>4. ASSUME NEW s \in Slots, UploadStep(s) PROVE StillNotStored' /\ OneRowPerPhoto'
  BY <1>1, <1>4, SerialFind, SerialPut, SerialCreateRow DEF UploadStep
<1>5. ASSUME NEW r \in Requests, RequestStep(r) PROVE StillNotStored' /\ OneRowPerPhoto'
  <2>1. ASSUME NEW kind, NEW u, NEW item, NEW photos, RequestBegin(r, kind, u, item, photos)
        PROVE  StillNotStored' /\ OneRowPerPhoto'
    <3>1. \A s \in Slots : uploads'[s] = uploads[s] \/ uploads'[s] = NewUpload(u, photos[s[2]])
      BY <2>1 DEF RequestBegin
    <3>2. \A p : NewUpload(u, p).pc = "find"
      BY DEF NewUpload
    <3> QED BY <1>3, <2>1, <3>1, <3>2 DEF RequestBegin
  <2>2. CASE RequestAnswer(r) \/ RequestCreateItem(r) \/ RequestLink(r) \/ RequestFails(r)
    BY <1>3, <2>2 DEF RequestAnswer, RequestCreateItem, RequestLink, RequestFails, Answers, NoUpload
  <2>3. CASE RequestCount(r)
    BY <1>3, <2>3 DEF RequestCount
  <2> QED BY <1>5, <2>1, <2>2, <2>3 DEF RequestStep, RequestArrives
<1>6. ASSUME NEW u \in Users, NEW m \in MediaIds, Remove(u, m) PROVE StillNotStored' /\ OneRowPerPhoto'
  <2>1. media'[m].state = "deleted" /\ \A k \in MediaIds \ {m} : media'[k] = media[k]
    BY <1>1, <1>6 DEF Remove, MediaTypeOK, MediaRow, NoRow
  <2> QED BY <1>1, <1>6, <2>1, SerialKept DEF Remove
<1>7. CASE Stop
  <2>1. \A s \in Slots : uploads'[s].pc = "none"
    BY <1>7 DEF Stop, NoUpload
  <2>2. media' = media /\ writer' = writer
    BY <1>7 DEF Stop
  <2> QED BY <1>2, <1>3, <2>1, <2>2
<1>8. ASSUME NEW driver \in Drivers, Start(driver) PROVE StillNotStored' /\ OneRowPerPhoto'
  <2>1. media' = media /\ \A s \in Slots : uploads'[s].pc = "none"
    BY <1>8 DEF Start, NoUpload
  <2> QED BY <1>1, <2>1 DEF StillNotStored, OneRowPerPhoto, Building
<1>9. CASE UNCHANGED <<vars, overlapped>>
  <2>1. media' = media /\ writer' = writer /\ uploads' = uploads
    BY <1>9 DEF vars
  <2> QED BY <1>2, <1>3, <2>1
<1> QED BY <1>2, <1>4, <1>5, <1>6, <1>7, <1>8, <1>9 DEF MCNext, Next

\* As long as uploads of one user's photo are not in flight together, it has one
\* live row in each store, across failures, removals and restarts.
THEOREM OneRowPerPhotoSerially == MCSpec => []SerialOneRowPerPhoto
<1>1. MCInit => SerialInv
  <2> SUFFICES ASSUME MCInit PROVE SerialInv
    OBVIOUS
  <2>1. \A s \in Slots : uploads[s].pc = "none"
    BY DEF MCInit, Init, NoUpload
  <2>2. \A m \in MediaIds : media[m].state = "absent"
    BY DEF MCInit, Init, NoRow
  <2>3. UploadsApart
    BY <2>1 DEF UploadsApart, Running, Settled
  <2>4. StillNotStored /\ OneRowPerPhoto
    BY <2>1, <2>2 DEF StillNotStored, OneRowPerPhoto, Building
  <2> QED BY <2>3, <2>4, MediaInit DEF MCInit, SerialInv
<1>2. SerialInv => SerialOneRowPerPhoto
  BY DEF SerialInv, SerialOneRowPerPhoto
<1> QED BY <1>1, <1>2, SerialStep, PTL DEF MCSpec

-----------------------------------------------------------------------------
(* Requests for one item that are never in flight together.                 *)

RequestRow == [pc : {"idle", "media", "create", "update", "link"}, item : Items \cup {Null},
               images : Nat, existing : Nat]

\* A request for an item brings photos, and an update is of an item with a row.
Sound(q, rows) ==
  /\ q.pc \in {"create", "update", "link"} => q.item \in Items /\ q.images # 0
  /\ q.pc \in {"update", "link"} => q.item \in rows

LinksTyped ==
  /\ requests \in [Requests -> RequestRow]
  /\ \A r \in Requests : Sound(requests[r], items)
  /\ \A l \in links : l.item \in items /\ l.sortOrder \in Nat
  /\ \A item \in Items : IsFiniteSet(Linked(item))

ItemsApart ==
  \A q, r \in Requests : q # r /\ requests[q].pc # "idle" /\ requests[r].pc # "idle" =>
    requests[q].item \notin Items \/ requests[q].item # requests[r].item

\* What an update has counted is still so when it links.
CountCurrent ==
  \A r \in Requests : requests[r].pc = "link" =>
    requests[r].existing = Cardinality(Linked(requests[r].item))

\* An item with photos has exactly one that is number 0.
OneFirst ==
  /\ \A l \in links : \E k \in links : k.item = l.item /\ k.sortOrder = 0
  /\ \A l, k \in links : l.item = k.item /\ l.sortOrder = 0 /\ k.sortOrder = 0 => l = k

CoverInv == LinksTyped /\ (~overlapped => ItemsApart /\ CountCurrent /\ OneFirst)


LEMMA ImageFinite ==
  ASSUME NEW k \in Nat, NEW S \in SUBSET (1 .. k), NEW f
  PROVE  IsFiniteSet({f[n] : n \in S})
<1> DEFINE T == {f[n] : n \in S}
           g == [n \in S |-> f[n]]
<1>1. IsFiniteSet(S)
  <2>1. IsFiniteSet(1 .. k)
    BY FS_Interval
  <2> QED BY <2>1, FS_Subset
<1>2. g \in Surjection(S, T)
  BY DEF Surjection
<1> HIDE DEF g
<1>3. IsFiniteSet(T)
  <2> HIDE DEF T
  <2> QED BY <1>1, <1>2, FS_Surjection
<1> QED BY <1>3

\* Photos of one upload list that get a link to one item, numbered from c.
LinksTo(r, i, c, S) ==
  {[item |-> i, media |-> IdOf(r, n), sortOrder |-> c + n - 1] : n \in S}

LEMMA LinksAdded ==
  ASSUME LinksTyped, NEW r \in Requests, NEW i \in Items, i \in items', items \subseteq items',
         NEW c \in Nat, NEW k \in Nat, NEW S \in SUBSET (1 .. k),
         links' = links \cup LinksTo(r, i, c, S)
  PROVE  /\ \A l \in links' : l.item \in items' /\ l.sortOrder \in Nat
         /\ \A item \in Items : item # i => Linked(item)' = Linked(item)
         /\ \A item \in Items : IsFiniteSet(Linked(item)')
<1>1. ASSUME NEW l \in LinksTo(r, i, c, S)
      PROVE  l.item = i /\ l.sortOrder \in Nat
  BY <1>1 DEF LinksTo
<1>2. \A l \in links' : l.item \in items' /\ l.sortOrder \in Nat
  BY <1>1 DEF LinksTyped
<1>3. \A item \in Items : item # i => Linked(item)' = Linked(item)
  BY <1>1 DEF Linked
<1> DEFINE f == [n \in S |-> IdOf(r, n)]
           T == {f[n] : n \in S}
<1>4. ASSUME NEW l \in LinksTo(r, i, c, S)
      PROVE  l.media \in T
  BY <1>4 DEF LinksTo
<1>5. IsFiniteSet(T)
  <2> HIDE DEF f
  <2> QED BY ImageFinite
<1> HIDE DEF T
<1>6. Linked(i)' \subseteq Linked(i) \cup T
  BY <1>4 DEF Linked
<1>7. IsFiniteSet(Linked(i)')
  <2> DEFINE A == Linked(i)
             B == Linked(i)'
  <2>1. IsFiniteSet(A) /\ B \subseteq A \cup T
    BY <1>6 DEF LinksTyped
  <2> HIDE DEF A, B
  <2>2. IsFiniteSet(A \cup T)
    BY <1>5, <2>1, FS_Union
  <2>3. IsFiniteSet(B)
    BY <2>1, <2>2, FS_Subset
  <2> QED BY <2>3 DEF B
<1> QED BY <1>2, <1>3, <1>7 DEF LinksTyped

\* Links to an item that has some are numbered from one at least; the first
\* link of an item is number 0.
LEMMA FirstAdded ==
  ASSUME LinksTyped, OneFirst, NEW r \in Requests, NEW i \in Items,
         NEW c \in Nat, NEW k \in Nat, NEW S \in SUBSET (1 .. k),
         links' = links \cup LinksTo(r, i, c, S),
         \/ c # 0 /\ \E l \in links : l.item = i
         \/ c = 0 /\ 1 \in S /\ \A l \in links : l.item # i
  PROVE  OneFirst'
<1>1. ASSUME NEW l \in LinksTo(r, i, c, S)
      PROVE  /\ l.item = i
             /\ \E n \in S : l = [item |-> i, media |-> IdOf(r, n), sortOrder |-> c + n - 1]
  BY DEF LinksTo
<1>2. CASE c # 0 /\ \E l \in links : l.item = i
  <2>1. \A l \in LinksTo(r, i, c, S) : l.sortOrder # 0
    BY <1>1, <1>2
  <2> QED BY <1>1, <1>2, <2>1 DEF OneFirst
<1>3. CASE c = 0 /\ 1 \in S /\ \A l \in links : l.item # i
  <2> DEFINE first == [item |-> i, media |-> IdOf(r, 1), sortOrder |-> c + 1 - 1]
  <2>1. first \in LinksTo(r, i, c, S) /\ first.item = i /\ first.sortOrder = 0
    BY <1>3 DEF LinksTo
  <2>2. ASSUME NEW l \in LinksTo(r, i, c, S), l.sortOrder = 0
        PROVE  l = first
    <3>1. PICK n \in S : l = [item |-> i, media |-> IdOf(r, n), sortOrder |-> c + n - 1]
      BY <1>1
    <3>2. l.sortOrder = c + n - 1
      BY <3>1
    <3>3. n = 1
      BY <1>3, <2>2, <3>2
    <3> QED BY <3>1, <3>3
  <2> HIDE DEF first
  <2> QED BY <1>1, <1>3, <2>1, <2>2 DEF OneFirst
<1> QED BY <1>2, <1>3

\* Where an item has one link with number 0, that one is its cover.
LEMMA FirstIsCover ==
  ASSUME NEW L, NEW item, \A l \in L : l.sortOrder \in Nat,
         \A l \in L : \E k \in L : k.item = l.item /\ k.sortOrder = 0
  PROVE  {l \in L : l.item = item /\ \A k \in L : k.item = item => l.sortOrder <= k.sortOrder}
           = {l \in L : l.item = item /\ l.sortOrder = 0}
<1>1. ASSUME NEW l \in L, l.item = item, \A k \in L : k.item = item => l.sortOrder <= k.sortOrder
      PROVE  l.sortOrder = 0
  <2>1. PICK k \in L : k.item = item /\ k.sortOrder = 0
    BY <1>1
  <2>2. l.sortOrder <= 0 /\ l.sortOrder \in Nat
    BY <1>1, <2>1
  <2> QED BY <2>2
<1>2. ASSUME NEW l \in L, l.sortOrder = 0, NEW k \in L PROVE l.sortOrder <= k.sortOrder
  BY <1>2
<1> QED BY <1>1, <1>2

LEMMA FirstStays ==
  ASSUME LinksTyped, OneFirst, LinksTyped', OneFirst', links \subseteq links'
  PROVE  CoverStays
<1> SUFFICES ASSUME NEW item \in Items
             PROVE  /\ CoversOf(item) # {} => CoversOf(item)' = CoversOf(item)
                    /\ Cardinality(CoversOf(item)') <= 1
  BY DEF CoverStays
<1>1. CoversOf(item) = {l \in links : l.item = item /\ l.sortOrder = 0}
  BY FirstIsCover DEF CoversOf, LinksTyped, OneFirst
<1>2. CoversOf(item)' = {l \in links' : l.item = item /\ l.sortOrder = 0}
  BY FirstIsCover DEF CoversOf, LinksTyped, OneFirst
<1>3. \A l, k \in CoversOf(item)' : l = k
  BY <1>2 DEF OneFirst
<1>4. CoversOf(item) # {} => CoversOf(item)' = CoversOf(item)
  BY <1>1, <1>2, <1>3
<1>5. Cardinality(CoversOf(item)') <= 1
  <2> DEFINE C == CoversOf(item)'
  <2>1. C = {} \/ \E l : C = {l}
    BY <1>3
  <2> HIDE DEF C
  <2>2. Cardinality(C) \in {0, 1}
    BY <2>1, FS_EmptySet, FS_Singleton
  <2> QED BY <2>2 DEF C
<1> QED BY <1>4, <1>5


\* What a step does to the order of an item's photos.
OrderKept == ItemsApart /\ CountCurrent /\ OneFirst => CountCurrent' /\ OneFirst' /\ links \subseteq links'

\* A step that sets one request and makes no link.
LEMMA RequestSet ==
  ASSUME LinksTyped, NEW r \in Requests, NEW q \in RequestRow, Sound(q, items),
         requests' = [requests EXCEPT ![r] = q], links' = links, items' = items,
         q.pc = "link" => q.existing = Cardinality(Linked(q.item))
  PROVE  LinksTyped' /\ OrderKept
<1>1. requests'[r] = q /\ \A p \in Requests \ {r} : requests'[p] = requests[p]
  BY DEF LinksTyped
<1>2. \A item : Linked(item)' = Linked(item)
  BY DEF Linked
<1>3. LinksTyped'
  BY <1>1, <1>2 DEF LinksTyped, Sound
<1>4. CountCurrent => CountCurrent'
  BY <1>1, <1>2 DEF CountCurrent
<1>5. OneFirst => OneFirst'
  BY DEF OneFirst
<1> QED BY <1>3, <1>4, <1>5 DEF OrderKept

LEMMA RequestIdles ==
  ASSUME LinksTyped, NEW r \in Requests, Answers(r), links' = links, items' = items
  PROVE  LinksTyped' /\ OrderKept
<1>1. RequestIdle \in RequestRow /\ Sound(RequestIdle, items) /\ RequestIdle.pc # "link"
  BY DEF RequestIdle, RequestRow, Sound
<1> QED BY <1>1, RequestSet DEF Answers

LEMMA BeginsOrder ==
  ASSUME LinksTyped, NEW r \in Requests, NEW kind \in {"media", "create", "update"}, NEW u,
         NEW item \in Items \cup {Null}, NEW photos, Len(photos) \in Nat,
         kind # "media" => item \in Items /\ Len(photos) # 0,
         RequestBegin(r, kind, u, item, photos)
  PROVE  LinksTyped' /\ OrderKept
<1> DEFINE q == [pc |-> kind, item |-> item, images |-> Len(photos), existing |-> 0]
<1>1. q \in RequestRow /\ q.pc = kind /\ q.item = item /\ q.images = Len(photos)
  BY DEF RequestRow
<1>2. requests' = [requests EXCEPT ![r] = q] /\ links' = links /\ items' = items
  BY DEF RequestBegin
<1>3. kind = "update" => item \in items
  BY DEF RequestBegin
<1> HIDE DEF q
<1>4. Sound(q, items) /\ q.pc # "link"
  BY <1>1, <1>3 DEF Sound
<1> QED BY <1>1, <1>2, <1>4, RequestSet

LEMMA ArrivesOrder ==
  ASSUME LinksTyped, NEW r \in Requests, RequestArrives(r)
  PROVE  LinksTyped' /\ OrderKept
<1>1. ASSUME NEW u \in Users, NEW p \in Photos, RequestBegin(r, "media", u, Null, <<p>>)
      PROVE  LinksTyped' /\ OrderKept
  <2>1. Len(<<p>>) \in Nat
    OBVIOUS
  <2> QED BY <1>1, <2>1, BeginsOrder
<1>2. ASSUME NEW u \in Users, NEW kind \in {"create", "update"}, NEW item \in Items,
             NEW photos \in Bodies, RequestBegin(r, kind, u, item, photos)
      PROVE  LinksTyped' /\ OrderKept
  <2>1. PICK n \in 1 .. MaxImages : photos \in [1 .. n -> Photos]
    BY DEF Bodies
  <2>2. n \in Nat /\ n # 0
    BY <2>1, MediaAssumption
  <2>3. photos \in Seq(Photos) /\ DOMAIN photos = 1 .. n
    BY <2>1, <2>2
  <2>4. Len(photos) = n
    BY <2>2, <2>3
  <2> QED BY <1>2, <2>2, <2>4, BeginsOrder
<1> QED BY <1>1, <1>2 DEF RequestArrives

LEMMA CountOrder ==
  ASSUME LinksTyped, NEW r \in Requests, RequestCount(r)
  PROVE  LinksTyped' /\ OrderKept
<1> DEFINE item == requests[r].item
           c == Cardinality(Linked(item))
           q == [requests[r] EXCEPT !.pc = "link", !.existing = c]
<1>1. requests[r] \in RequestRow /\ item \in Items /\ item \in items /\ requests[r].images # 0
  BY DEF LinksTyped, Sound, RequestCount
<1>2. IsFiniteSet(Linked(item))
  BY <1>1 DEF LinksTyped
<1>3. c \in Nat
  BY <1>2, FS_CardinalityType
<1>4. requests' = [requests EXCEPT ![r] = q] /\ links' = links /\ items' = items
  BY <1>1 DEF RequestCount, LinksTyped
<1> HIDE DEF c
<1>5. /\ q \in RequestRow /\ q.pc = "link" /\ q.existing = c
      /\ q.item = item /\ q.images = requests[r].images
  BY <1>1, <1>3 DEF RequestRow
<1> HIDE DEF q, item
<1>6. Sound(q, items) /\ q.existing = Cardinality(Linked(q.item))
  BY <1>1, <1>5 DEF Sound, c
<1> QED BY <1>4, <1>5, <1>6, RequestSet

\* The request that makes links to an item ends; those of other items have
\* counted what they still have.
LEMMA LinkingOrder ==
  ASSUME LinksTyped, NEW r \in Requests, Answers(r), NEW i \in Items, i \in items', items \subseteq items',
         NEW c \in Nat, NEW k \in Nat, NEW S \in SUBSET (1 .. k),
         links' = links \cup LinksTo(r, i, c, S),
         ItemsApart => \A p \in Requests \ {r} : requests[p].pc = "link" => requests[p].item # i,
         CountCurrent /\ OneFirst =>
           \/ c # 0 /\ \E l \in links : l.item = i
           \/ c = 0 /\ 1 \in S /\ \A l \in links : l.item # i
  PROVE  LinksTyped' /\ OrderKept
<1>1. /\ \A l \in links' : l.item \in items' /\ l.sortOrder \in Nat
      /\ \A item \in Items : item # i => Linked(item)' = Linked(item)
      /\ \A item \in Items : IsFiniteSet(Linked(item)')
  BY LinksAdded
<1>2. RequestIdle \in RequestRow /\ Sound(RequestIdle, items') /\ RequestIdle.pc = "idle"
  BY DEF RequestIdle, RequestRow, Sound
<1>3. requests'[r] = RequestIdle /\ \A p \in Requests \ {r} : requests'[p] = requests[p]
  BY DEF Answers, LinksTyped
<1>4. requests' \in [Requests -> RequestRow]
  BY <1>2 DEF Answers, LinksTyped
<1>5. \A p \in Requests : Sound(requests'[p], items')
  BY <1>2, <1>3 DEF LinksTyped, Sound
<1>6. LinksTyped'
  BY <1>1, <1>4, <1>5 DEF LinksTyped
<1>7. ASSUME ItemsApart, CountCurrent
      PROVE  CountCurrent'
  <2> SUFFICES ASSUME NEW p \in Requests, requests'[p].pc = "link"
               PROVE  requests'[p].existing = Cardinality(Linked(requests[p].item)')
    BY DEF CountCurrent
  <2>1. p # r /\ requests'[p] = requests[p]
    BY <1>2, <1>3
  <2>2. PICK item \in Items : item = requests[p].item /\ item # i
    BY <1>7, <2>1 DEF LinksTyped, Sound
  <2>3. Linked(requests[p].item)' = Linked(item)'
    BY <2>1, <2>2 DEF Linked
  <2>4. requests[p].existing = Cardinality(Linked(item))
    BY <1>7, <2>1, <2>2 DEF CountCurrent
  <2>5. Linked(item)' = Linked(item)
    BY <1>1, <2>2
  <2> QED BY <2>1, <2>3, <2>4, <2>5
<1>8. CountCurrent /\ OneFirst => OneFirst'
  BY FirstAdded
<1> QED BY <1>6, <1>7, <1>8 DEF OrderKept

LEMMA CreateOrder ==
  ASSUME LinksTyped, NEW r \in Requests, RequestCreateItem(r)
  PROVE  LinksTyped' /\ OrderKept
<1> DEFINE i == requests[r].item
           k == requests[r].images
<1>1. i \in Items /\ k \in Nat /\ k # 0
  BY DEF LinksTyped, Sound, RequestRow, RequestCreateItem
<1>2. i \notin items /\ items' = items \cup {i} /\ Answers(r)
  BY DEF RequestCreateItem
<1>3. links' = links \cup {[item |-> i, media |-> IdOf(r, n), sortOrder |-> n - 1] : n \in 1 .. k}
  BY DEF RequestCreateItem
<1> HIDE DEF i, k
<1>4. \A n \in 1 .. k : 0 + n - 1 = n - 1
  BY <1>1
<1>5. links' = links \cup LinksTo(r, i, 0, 1 .. k)
  BY <1>3, <1>4 DEF LinksTo
<1>6. \A l \in links : l.item # i
  BY <1>2 DEF LinksTyped
<1>7. \A p \in Requests : requests[p].pc = "link" => requests[p].item # i
  BY <1>2 DEF LinksTyped, Sound
<1>8. 1 \in 1 .. k /\ 0 \in Nat
  BY <1>1
<1> QED BY <1>1, <1>2, <1>5, <1>6, <1>7, <1>8, LinkingOrder

LEMMA LinkOrder ==
  ASSUME LinksTyped, NEW r \in Requests, RequestLink(r)
  PROVE  LinksTyped' /\ OrderKept
<1> DEFINE i == requests[r].item
           k == requests[r].images
           c == requests[r].existing
           S == NewlyLinked(r, Linked(i))
<1>1. i \in Items /\ i \in items /\ k \in Nat /\ k # 0 /\ c \in Nat
  BY DEF LinksTyped, Sound, RequestRow, RequestLink
<1>2. items' = items /\ Answers(r) /\ links' = links \cup LinksTo(r, i, c, S)
  BY DEF RequestLink, LinksTo
<1>3. S \in SUBSET (1 .. k)
  BY DEF NewlyLinked
<1>4. ASSUME CountCurrent
      PROVE  \/ c # 0 /\ \E l \in links : l.item = i
             \/ c = 0 /\ 1 \in S /\ \A l \in links : l.item # i
  <2>1. c = Cardinality(Linked(i)) /\ IsFiniteSet(Linked(i))
    BY <1>1, <1>4 DEF CountCurrent, LinksTyped, RequestLink
  <2>2. c = 0 <=> Linked(i) = {}
    BY <2>1, FS_EmptySet
  <2>3. Linked(i) = {} <=> \A l \in links : l.item # i
    BY DEF Linked
  <2>4. Linked(i) = {} => 1 \in S
    BY <1>1 DEF NewlyLinked
  <2> QED BY <2>2, <2>3, <2>4
<1>5. ItemsApart => \A p \in Requests \ {r} : requests[p].pc = "link" => requests[p].item # i
  BY <1>1 DEF ItemsApart, RequestLink
<1> HIDE DEF i, k, c, S
<1> QED BY <1>1, <1>2, <1>3, <1>4, <1>5, LinkingOrder


LEMMA CoverStep ==
  ASSUME LinksTyped, [Next]_vars
  PROVE  LinksTyped' /\ OrderKept
<1>1. ASSUME requests' = requests, links' = links, items' = items
      PROVE  LinksTyped' /\ OrderKept
  BY <1>1 DEF LinksTyped, Sound, Linked, OrderKept, CountCurrent, OneFirst
<1>2. CASE Stop
  <2>1. RequestIdle \in RequestRow /\ Sound(RequestIdle, items) /\ RequestIdle.pc # "link"
    BY DEF RequestIdle, RequestRow, Sound
  <2>2. links' = links /\ items' = items /\ requests' = [r \in Requests |-> RequestIdle]
    BY <1>2 DEF Stop
  <2>3. LinksTyped'
    BY <2>1, <2>2 DEF LinksTyped, Linked
  <2> QED BY <2>1, <2>2, <2>3 DEF OrderKept, CountCurrent, OneFirst
<1>3. ASSUME NEW r \in Requests, RequestStep(r)
      PROVE  LinksTyped' /\ OrderKept
  <2>1. CASE RequestAnswer(r) \/ RequestFails(r)
    BY <2>1, RequestIdles DEF RequestAnswer, RequestFails
  <2> QED BY <1>3, <2>1, ArrivesOrder, CreateOrder, CountOrder, LinkOrder DEF RequestStep
<1>4. CASE \/ \E s \in Slots : UploadStep(s)
           \/ \E u \in Users, m \in MediaIds : Remove(u, m)
           \/ \E driver \in Drivers : Start(driver)
           \/ UNCHANGED vars
  BY <1>1, <1>4 DEF UploadStep, UploadFind, UploadPut, UploadPutFails, UploadCreateRow, UploadFails,
                    Remove, Start, vars
<1> QED BY <1>2, <1>3, <1>4 DEF Next

LEMMA CoverSerialStep ==
  ASSUME CoverInv, [MCNext]_<<vars, overlapped>>
  PROVE  CoverInv' /\ [~overlapped' => CoverStays]_vars
<1>1. LinksTyped' /\ OrderKept
  BY CoverStep DEF CoverInv, MCNext, vars
<1>2. ASSUME ~overlapped'
      PROVE  ItemsApart /\ CountCurrent /\ OneFirst
  BY <1>2 DEF CoverInv, MCNext
<1>3. ASSUME ~overlapped'
      PROVE  ItemsApart'
  <2>1. CASE MCNext
    <3>1. ~Overlap'
      BY <1>3, <2>1 DEF MCNext
    <3> QED BY <3>1 DEF Overlap, ItemsApart
  <2>2. CASE UNCHANGED <<vars, overlapped>>
    BY <1>2, <1>3, <2>2 DEF vars, ItemsApart
  <2> QED BY <2>1, <2>2
<1>4. ASSUME ~overlapped'
      PROVE  CountCurrent' /\ OneFirst' /\ links \subseteq links'
  BY <1>1, <1>2, <1>4 DEF OrderKept
<1>5. ~overlapped' => CoverStays
  BY <1>1, <1>2, <1>4, FirstStays DEF CoverInv
<1>6. CoverInv'
  BY <1>1, <1>3, <1>4 DEF CoverInv
<1> QED BY <1>5, <1>6

\* As long as requests for one item are not in flight together, the photo that
\* stands for it stays, whatever photos are added, uploaded twice or removed.
THEOREM CoverStaysSerially == MCSpec => SerialCoverStays
<1>1. MCInit => CoverInv
  <2> SUFFICES ASSUME MCInit PROVE CoverInv
    OBVIOUS
  <2>1. RequestIdle \in RequestRow /\ RequestIdle.pc = "idle" /\ Sound(RequestIdle, items)
    BY DEF RequestIdle, RequestRow, Sound
  <2>2. links = {} /\ requests = [r \in Requests |-> RequestIdle]
    BY DEF MCInit, Init
  <2>3. \A item \in Items : Linked(item) = {}
    BY <2>2 DEF Linked
  <2>4. LinksTyped
    BY <2>1, <2>2, <2>3, FS_EmptySet DEF LinksTyped
  <2>5. ItemsApart /\ CountCurrent /\ OneFirst
    BY <2>1, <2>2 DEF ItemsApart, CountCurrent, OneFirst
  <2> QED BY <2>4, <2>5 DEF CoverInv
<1> QED BY <1>1, CoverSerialStep, PTL DEF MCSpec, SerialCoverStays

=============================================================================
