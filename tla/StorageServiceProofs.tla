------------------------ MODULE StorageServiceProofs ------------------------
(***************************************************************************)
(* The storage service: types, that rows lead to files and URLs to the     *)
(* upload recorded last, that a deep file's bodies are not torn, and what a *)
(* client that asks for a part is sent, for any names, sizes, widths and   *)
(* numbers of uploads, downloads and crashes.                              *)
(***************************************************************************)
EXTENDS StorageService, TLAPS

\* What a handler has in hand between its two steps.
AtWork ==
    /\ pc = "stored" => req \in Upload /\ files[<<req.place, req.name>>] # None
    /\ pc = "found" => req \in Download /\ req.resume \in known \cup {None}
                     /\ downloads > 0

\* A temporary file has an inode of its own, that nothing is sent from until the
\* name is gone.
InodesAreOwn ==
    /\ \A n \in Names : temp[n] # None => temp[n].inode \in 1..inodes
    /\ \A m, n \in Names :
           temp[m] # None /\ temp[n] # None /\ temp[m].inode = temp[n].inode => m = n
    /\ \A t \in transfers : t.source[1] = "temp" =>
           /\ t.source[2] \in 1..inodes
           /\ \A n \in Names : temp[n] # None => temp[n].inode # t.source[2]

InTime == \A f \in Places \X Names : files[f] # None => files[f].mtime <= second

\* What stat says of a file, and a row and an ETag repeat.
StampOf(r) == [size |-> r.size, mtime |-> r.mtime]

\* Files, the rows of uploads that were recorded, and the ETags made of those rows
\* all show the stamp of the upload they stand for; and who resumes was sent his
\* ETag once.
Stamped ==
    /\ \A f \in Places \X Names : files[f] # None =>
           /\ files[f].ver <= uploads
           /\ stamps[files[f].ver] = [size |-> files[f].stored, mtime |-> files[f].mtime]
    /\ \A n \in Names : accepted[n] # 0 =>
           accepted[n] <= uploads /\ stamps[accepted[n]] = StampOf(rows[n])
    /\ \A k \in known : k.recorded =>
           k.ver <= uploads /\ stamps[k.ver] = StampOf(k.etag)
    /\ \A t \in transfers :
           /\ t.resume \in known \cup {None}
           /\ t.resume # None /\ t.recorded =>
                  t.ver <= uploads /\ stamps[t.ver] = StampOf(t.resume.etag)

IInv ==
    /\ TypeOK /\ AtWork /\ RowHasFile /\ UrlServesLatest
    /\ InodesAreOwn /\ DeepTransfersIntact
    /\ InTime /\ Stamped
    /\ PartEndsInFile

LEMMA Numbers ==
    ASSUME StorageAssumption
    PROVE  /\ \A s \in Sizes \cup {0, 1} : s \in Nat
           /\ \A s \in Sizes : s \in Int /\ s > 0
           /\ MaxUploads \in Nat /\ MaxDownloads \in Nat /\ MaxCrashes \in Nat
           /\ MaxSecond \in Nat /\ MaxSecond > 0
BY DEF StorageAssumption

LEMMA Width ==
    ASSUME StorageAssumption
    PROVE  \E limit \in Nat :
              limit = 2^SizeBits /\ limit > 1 /\ \A s \in Sizes : s < limit
BY DEF StorageAssumption

-----------------------------------------------------------------------------
(* The steps, by what they change                                           *)

\* A step that changes none of what the invariants are about, but may end the
\* work in hand or a body.
Quiet ==
    /\ UNCHANGED <<files, temp, rows, inodes, known, accepted, stamps, uploads>>
    /\ second' \in {second, second + 1}
    /\ transfers' \subseteq transfers
    /\ \/ /\ pc' \in {"idle", "down"}
          /\ req' = None \/ (pc = "down" /\ req' = req)
       \/ UNCHANGED <<pc, req>>

\* An upload's first step, with all its outcomes.
Writes(n, place, size, stored, whole) ==
    /\ WrittenOver(n, place, size, stored, whole)
    /\ UploadStored(n, place) \/ UNCHANGED <<pc, req>>

AnyWrite ==
    \E n \in Names, place \in Places, size \in Sizes, stored \in Sizes \cup {0, 1},
       whole \in BOOLEAN : Writes(n, place, size, stored, whole)

AnyAsIs ==
    \E n \in Names, range \in Ranges, resume \in known \cup {None} :
        DownloadAsIs(n, range, resume)

AnyUnpacks ==
    \E n \in Names, range \in Ranges, resume \in known \cup {None},
       size \in Sizes \cup {0} : DownloadUnpacks(n, range, resume, size)

LEMMA Steps ==
    ASSUME [Next]_vars
    PROVE  Quiet \/ AnyWrite \/ UploadRecord \/ AnyAsIs \/ AnyUnpacks \/ DownloadSends
<1>1. ASSUME UploadNext
      PROVE  Quiet \/ AnyWrite \/ UploadRecord
  <2>1. CASE \E n \in Names, place \in Places, size, stored \in Sizes :
                 UploadStore(n, place, size, stored)
    BY <2>1 DEF UploadStore, AnyWrite, Writes
  <2>2. CASE \E n \in Names, place \in Places, size \in Sizes, stored \in {0, 1} :
                \/ UploadStoreBreaksOff(n, place, size, stored)
                \/ UploadStoreUnnoticed(n, place, size, stored)
    BY <2>2, ZenonT(40) DEF UploadStoreBreaksOff, UploadStoreUnnoticed, AnyWrite, Writes
  <2>3. CASE UploadRefused \/ UploadStoreFails \/ UploadRecordFails
    BY <2>3 DEF UploadRefused, UploadStoreFails, UploadRecordFails, Quiet
  <2> QED
    BY <1>1, <2>1, <2>2, <2>3 DEF UploadNext
<1>2. ASSUME DownloadNext
      PROVE  Quiet \/ AnyAsIs \/ AnyUnpacks \/ DownloadSends
  <2>1. CASE DownloadRefused \/ DownloadMissing \/ DownloadUnsatisfiable \/ DownloadFails
    BY <2>1 DEF DownloadRefused, DownloadMissing, DownloadUnsatisfiable, DownloadFails,
                DownloadEnds, Quiet
  <2> QED
    BY <1>2, <2>1 DEF DownloadNext, AnyAsIs, AnyUnpacks
<1>3. ASSUME \/ ListShow \/ NotFound \/ Tick \/ ProcessEnds \/ Restart
             \/ \E t \in transfers : Sent(t)
             \/ UNCHANGED vars
      PROVE  Quiet
  BY <1>3 DEF ListShow, NotFound, Tick, ProcessEnds, Restart, Sent, vars, Quiet
<1> QED
  BY <1>1, <1>2, <1>3 DEF Next

\* A body that is torn is the same but for that.
LEMMA TornBodies ==
    ASSUME transfers \subseteq Transfer, NEW source, NEW t \in TornBy(source)
    PROVE  /\ t \in Transfer
           /\ \E u \in transfers :
                 /\ t = [u EXCEPT !.torn = t.torn]
                 /\ t.torn <=> u.torn \/ u.source = source
<1>1. PICK u \in transfers : t = [u EXCEPT !.torn = u.torn \/ u.source = source]
  BY DEF TornBy
<1> DEFINE torn == u.torn \/ u.source = source
<1>2. u \in Transfer /\ torn \in BOOLEAN
  BY DEF Transfer
<1>3. t = [u EXCEPT !.torn = torn]
  BY <1>1
<1> HIDE DEF torn
<1>4. t \in Transfer /\ t.torn = torn
  BY <1>2, <1>3 DEF Transfer
<1> QED
  BY <1>2, <1>3, <1>4 DEF torn

LEMMA SameBody ==
    ASSUME NEW u \in Transfer, NEW t \in Transfer, t = [u EXCEPT !.torn = t.torn]
    PROVE  /\ t.source = u.source /\ t.ver = u.ver /\ t.size = u.size
           /\ t.from = u.from /\ t.len = u.len /\ t.part = u.part
           /\ t.recorded = u.recorded /\ t.resume = u.resume
BY DEF Transfer

-----------------------------------------------------------------------------
(* What is served                                                           *)

LEMMA Serves ==
    ASSUME StorageAssumption, TypeOK, RowHasFile, NEW n \in Names, served(n) # None
    PROVE  /\ rows[n] \in Row /\ rows[n] # None
           /\ served(n).ver \in 1..MaxUploads /\ served(n).size \in Sizes \cup {0, 1}
           /\ \/ /\ isDeep(n) /\ temp[n] # None /\ served(n).ver = temp[n].ver
                 /\ served(n).source = <<"temp", temp[n].inode>>
                 /\ temp[n].inode \in 1..MaxDownloads
              \/ /\ ~isDeep(n) /\ rows[n].place = "low"
                 /\ served(n).ver = files[<<"low", n>>].ver
                 /\ served(n).source = <<"low", n>>
<1>1. rows[n] # None /\ rows[n] \in Row
  BY DEF served, getOneByURL, TypeOK
<1>2. CASE isDeep(n)
  <2>1. temp[n] # None /\ temp[n] \in Unpacked
    BY <1>1, <1>2 DEF served, getOneByURL, TypeOK
  <2>2. served(n) = [ver |-> temp[n].ver, size |-> temp[n].size,
                     source |-> <<"temp", temp[n].inode>>]
    BY <1>1, <1>2, <2>1 DEF served, getOneByURL
  <2>3. /\ temp[n].inode \in 1..MaxDownloads /\ temp[n].ver \in 1..MaxUploads
        /\ temp[n].size \in Sizes \cup {0}
    BY <2>1 DEF Unpacked
  <2> QED
    BY <1>1, <1>2, <2>1, <2>2, <2>3
<1>3. CASE ~isDeep(n)
  <2>1. rows[n].place = "low"
    BY <1>1, <1>3 DEF isDeep, getOneByURL, Row, Places
  <2>2. files[<<"low", n>>] \in File
    BY <1>1, <2>1 DEF RowHasFile, TypeOK, Places
  <2>3. served(n) = [ver |-> files[<<"low", n>>].ver, size |-> files[<<"low", n>>].stored,
                     source |-> <<"low", n>>]
    BY <1>1, <1>3 DEF served, getOneByURL
  <2>4. files[<<"low", n>>].ver \in 1..MaxUploads
        /\ files[<<"low", n>>].stored \in Sizes \cup {0, 1}
    BY <2>2 DEF File
  <2> QED
    BY <1>1, <1>3, <2>1, <2>3, <2>4
<1> QED
  BY <1>2, <1>3

\* The body that DownloadSends begins to send.
Body(n) ==
    LET s == served(n)
    IN  [id |-> downloads, source |-> s.source, ver |-> s.ver,
         size |-> s.size, from |-> range_start(req),
         len |-> content_length(req, s.size), torn |-> FALSE,
         recorded |-> s.ver = accepted[n],
         part |-> isRangeRequest(req) /\ InOrder(req.range),
         resume |-> IF isRangeRequest(req) THEN req.resume ELSE None]

LEMMA Sends ==
    ASSUME StorageAssumption, TypeOK, AtWork, RowHasFile, DownloadSends
    PROVE  /\ pc = "found" /\ pc' = "idle"
           /\ req \in Download /\ req.name \in Names
           /\ req.resume \in known \cup {None}
           /\ served(req.name) # None
           /\ ~unsatisfiable(req, served(req.name).size)
           /\ transfers' = transfers \cup {Body(req.name)}
           /\ known' = known \cup {[etag |-> getEtag(req.name),
                                    ver |-> served(req.name).ver,
                                    recorded |-> served(req.name).ver = accepted[req.name]]}
           /\ temp' = IF isDeep(req.name) THEN [temp EXCEPT ![req.name] = None] ELSE temp
           /\ UNCHANGED <<files, rows, inodes, accepted, stamps, uploads, second>>
<1>1. req \in Download /\ req.resume \in known \cup {None}
  BY DEF DownloadSends, AtWork
<1>2. req.name \in Names
  BY <1>1 DEF Download
<1> QED
  BY <1>1, <1>2 DEF DownloadSends, DownloadEnds, Body, clearTemp

LEMMA BodyTyped ==
    ASSUME StorageAssumption, TypeOK, AtWork, RowHasFile, DownloadSends
    PROVE  /\ Body(req.name) \in Transfer
           /\ Body(req.name).from < Body(req.name).size
           /\ [etag |-> getEtag(req.name), ver |-> served(req.name).ver,
               recorded |-> served(req.name).ver = accepted[req.name]] \in Known
<1> DEFINE n == req.name
           s == served(n)
<1>1. /\ pc = "found" /\ req \in Download /\ n \in Names /\ s # None
      /\ ~unsatisfiable(req, s.size)
  BY Sends
<1>2. /\ rows[n] \in Row
      /\ s.ver \in 1..MaxUploads /\ s.size \in Sizes \cup {0, 1}
      /\ \/ s.source = <<"temp", temp[n].inode>> /\ temp[n].inode \in 1..MaxDownloads
         \/ s.source = <<"low", n>>
  BY <1>1, Serves, Zenon
<1> HIDE DEF n, s
<1>3. [etag |-> getEtag(n), ver |-> s.ver, recorded |-> s.ver = accepted[n]] \in Known
  BY <1>1, <1>2 DEF getEtag, getOneByURL, Row, Known
<1>11. s.size \in Sizes \cup {0, 1}
  BY <1>2
<1>4. /\ req.range \in Ranges /\ req.resume \in Known \cup {None}
  BY <1>1 DEF Download
<1>5. range_start(req) \in Sizes \cup {0}
  BY <1>4 DEF range_start, isRangeRequest, Ranges
<1>12. range_start(req) \in Nat /\ s.size \in Nat
  BY <1>5, <1>11, Numbers
<1>6. range_start(req) < s.size
  BY <1>1, <1>12 DEF unsatisfiable
<1>7. content_length(req, s.size) \in 0..(2^SizeBits - 1)
  <2>1. /\ range_start(req) \in Int /\ s.size \in Int
    BY <1>12
  <2>2. range_end(req, s.size) \in Int
    <3>1. req.range # None => req.range.last \in Sizes \cup {0, None}
      BY <1>4 DEF Ranges
    <3>2. isRangeRequest(req) /\ req.range.last \notin {None, 0} => req.range.last \in Int
      <4> SUFFICES ASSUME isRangeRequest(req), req.range.last \notin {None, 0}
                   PROVE  req.range.last \in Int
        OBVIOUS
      <4>1. req.range.last \in Sizes
        BY <3>1 DEF isRangeRequest
      <4> QED
        BY <4>1, Numbers
    <3> QED
      BY <2>1, <3>2 DEF range_end
  <2>3. PICK limit \in Nat : limit = 2^SizeBits /\ limit > 1
    BY Width
  <2>4. \A x \in Int, m \in Nat : m > 1 => x % m \in 0..(m - 1)
    OBVIOUS
  <2>5. content_length(req, s.size) = (range_end(req, s.size) - range_start(req) + 1) % limit
    BY <2>3 DEF content_length
  <2>6. range_end(req, s.size) - range_start(req) + 1 \in Int
    BY <2>1, <2>2
  <2>7. content_length(req, s.size) \in 0..(limit - 1)
    BY <2>3, <2>4, <2>5, <2>6
  <2> QED
    BY <2>3, <2>7
<1>8. downloads \in 1..MaxDownloads
  BY <1>1, Numbers DEF TypeOK, AtWork
<1>9. (IF isRangeRequest(req) THEN req.resume ELSE None) \in Known \cup {None}
  BY <1>4 DEF Ranges
<1>10. Body(n) \in Transfer /\ Body(n).from < Body(n).size
  <2> DEFINE start == range_start(req)
             length == content_length(req, s.size)
             recorded == s.ver = accepted[n]
             part == isRangeRequest(req) /\ InOrder(req.range)
             resume == IF isRangeRequest(req) THEN req.resume ELSE None
  <2>1. Body(n) = [id |-> downloads, source |-> s.source, ver |-> s.ver, size |-> s.size,
                   from |-> start, len |-> length, torn |-> FALSE,
                   recorded |-> recorded, part |-> part, resume |-> resume]
    BY DEF Body, s
  <2>2. /\ recorded \in BOOLEAN /\ part \in BOOLEAN /\ resume \in Known \cup {None}
        /\ start \in Sizes \cup {0} /\ start < s.size
        /\ length \in 0..(2^SizeBits - 1)
    BY <1>4, <1>5, <1>6, <1>7, <1>9 DEF isRangeRequest, InOrder
  <2>3. s.source \in {<<"low", m>> : m \in Names}
                         \cup {<<"temp", i>> : i \in 1..MaxDownloads}
    BY <1>1, <1>2
  <2> HIDE DEF start, length, recorded, part, resume
  <2> QED
    BY <1>2, <1>8, <2>1, <2>2, <2>3 DEF Transfer
<1> QED
  BY <1>3, <1>10 DEF n, s

-----------------------------------------------------------------------------
(* Types                                                                    *)

LEMMA TypeInit ==
    ASSUME StorageAssumption, Init
    PROVE  TypeOK
BY Numbers DEF Init, TypeOK

Answered ==
    replies \in {<<>>, <<400, 500>>} \cup {<<a>> : a \in {200, 206, 400, 404, 416, 500}}

Counted ==
    /\ second \in 1..MaxSecond /\ uploads \in 0..MaxUploads
    /\ downloads \in 0..MaxDownloads /\ crashes \in 0..MaxCrashes

\* What a step answers and counts.
Books == Answered' /\ Counted' /\ downloads' \in {downloads, downloads + 1}

LEMMA BooksStep ==
    ASSUME StorageAssumption, TypeOK, [Next]_vars
    PROVE  Books
<1>1. Answered /\ Counted
  BY DEF TypeOK, Answered, Counted
<1>3. ASSUME UploadRefused
      PROVE  Books
  BY <1>1, <1>3, Numbers DEF UploadRefused, Books, Answered, Counted
<1>4. ASSUME UploadStoreFails
      PROVE  Books
  BY <1>1, <1>4, Numbers DEF UploadStoreFails, Books, Answered, Counted
<1>5. ASSUME UploadRecord
      PROVE  Books
  BY <1>1, <1>5, Numbers DEF UploadRecord, Books, Answered, Counted
<1>6. ASSUME UploadRecordFails
      PROVE  Books
  BY <1>1, <1>6, Numbers DEF UploadRecordFails, Books, Answered, Counted
<1>7. ASSUME NEW n, NEW range, NEW resume, DownloadBegins(n, range, resume)
      PROVE  Books
  BY <1>1, <1>7, Numbers, SMTT(40) DEF DownloadBegins, Books, Answered, Counted
<1>8. ASSUME DownloadRefused
      PROVE  Books
  BY <1>1, <1>8, Numbers DEF DownloadRefused, Books, Answered, Counted
<1>9. ASSUME NEW answer,
             answer \in {<<400, 500>>} \cup {<<a>> : a \in {200, 206, 416, 500}}, DownloadEnds(answer)
      PROVE  Books
  BY <1>1, <1>9, Numbers DEF DownloadEnds, Books, Answered, Counted
<1>10. ASSUME ListShow
      PROVE  Books
  BY <1>1, <1>10, Numbers DEF ListShow, Books, Answered, Counted
<1>11. ASSUME NotFound
      PROVE  Books
  BY <1>1, <1>11, Numbers DEF NotFound, Books, Answered, Counted
<1>12. ASSUME NEW t, Sent(t)
      PROVE  Books
  BY <1>1, <1>12, Numbers DEF Sent, Books, Answered, Counted
<1>13. ASSUME Tick
      PROVE  Books
  BY <1>1, <1>13, Numbers DEF Tick, Books, Answered, Counted
<1>14. ASSUME ProcessEnds
      PROVE  Books
  BY <1>1, <1>14, Numbers DEF ProcessEnds, Books, Answered, Counted
<1>15. ASSUME Restart
      PROVE  Books
  BY <1>1, <1>15, Numbers DEF Restart, Books, Answered, Counted
<1>16. CASE UNCHANGED vars
  BY <1>1, <1>16, Numbers DEF vars, Books, Answered, Counted
<1>17. CASE UploadNext
  <2>1. ASSUME NEW n, NEW place, NEW size, NEW stored, UploadStore(n, place, size, stored)
        PROVE  Books
    BY <1>1, <2>1, Numbers
       DEF UploadStore, UploadStored, WrittenOver, mayUpload, Books, Answered, Counted
  <2>2. ASSUME NEW n, NEW place, NEW size, NEW stored,
               UploadStoreBreaksOff(n, place, size, stored)
        PROVE  Books
    BY <1>1, <2>2, Numbers
       DEF UploadStoreBreaksOff, WrittenOver, mayUpload, Books, Answered, Counted
  <2>3. ASSUME NEW n, NEW place, NEW size, NEW stored,
               UploadStoreUnnoticed(n, place, size, stored)
        PROVE  Books
    BY <1>1, <2>3, Numbers
       DEF UploadStoreUnnoticed, UploadStored, WrittenOver, mayUpload, Books, Answered, Counted
  <2> QED
    BY <1>3, <1>4, <1>5, <1>6, <1>17, <2>1, <2>2, <2>3 DEF UploadNext
<1>18. CASE DownloadNext
  <2>1. ASSUME NEW n, NEW range, NEW resume,
               DownloadAsIs(n, range, resume)
                   \/ \E size \in Sizes \cup {0} : DownloadUnpacks(n, range, resume, size)
        PROVE  Books
    BY <1>7, <2>1 DEF DownloadAsIs, DownloadUnpacks
  <2>2. CASE DownloadMissing
    BY <1>9, <2>2 DEF DownloadMissing
  <2>3. CASE DownloadUnsatisfiable
    BY <1>9, <2>3 DEF DownloadUnsatisfiable
  <2>4. CASE DownloadFails
    BY <1>9, <2>4 DEF DownloadFails
  <2>5. CASE DownloadSends
    BY <1>9, <2>5 DEF DownloadSends
  <2> QED
    BY <1>8, <1>18, <2>1, <2>2, <2>3, <2>4, <2>5 DEF DownloadNext
<1> QED
  BY <1>10, <1>11, <1>12, <1>13, <1>14, <1>15, <1>16, <1>17, <1>18 DEF Next

\* The bodies that are being sent after a file was written over.
LEMMA StillBodies ==
    ASSUME TypeOK, NEW source, NEW t \in TornBy(source)
    PROVE  /\ t \in Transfer /\ t.from < t.size
           /\ \E u \in transfers :
                 /\ u \in Transfer
                 /\ t.source = u.source /\ t.ver = u.ver /\ t.size = u.size
                 /\ t.from = u.from /\ t.len = u.len
                 /\ t.part = u.part /\ t.recorded = u.recorded /\ t.resume = u.resume
                 /\ t.torn <=> u.torn \/ u.source = source
<1>1. transfers \subseteq Transfer /\ \A u \in transfers : u.from < u.size
  BY DEF TypeOK
<1>2. t \in Transfer
  BY <1>1, TornBodies
<1>3. PICK u \in transfers :
         /\ t = [u EXCEPT !.torn = t.torn]
         /\ t.torn <=> u.torn \/ u.source = source
  BY <1>1, TornBodies
<1>4. u \in Transfer
  BY <1>1
<1>5. /\ t.source = u.source /\ t.ver = u.ver /\ t.size = u.size
      /\ t.from = u.from /\ t.len = u.len /\ t.part = u.part
      /\ t.recorded = u.recorded /\ t.resume = u.resume
  BY <1>2, <1>3, <1>4, SameBody
<1> QED
  BY <1>1, <1>2, <1>3, <1>4, <1>5

LEMMA TypeStep ==
    ASSUME StorageAssumption, TypeOK, AtWork, RowHasFile, [Next]_vars
    PROVE  TypeOK'
<1>1. /\ Answered' /\ Counted' /\ downloads \in Nat
      /\ downloads' \in {downloads, downloads + 1}
  BY BooksStep, Numbers DEF TypeOK, Books
<1>2. /\ \A n \in Names, place \in Places :
            [name |-> n, place |-> place] \in Upload /\ [name |-> n, place |-> place] # None
      /\ \A n \in Names, range \in Ranges, resume \in known \cup {None} :
            /\ [name |-> n, range |-> range, resume |-> resume] \in Download
            /\ [name |-> n, range |-> range, resume |-> resume] # None
  <2>1. None \notin Upload \cup Download
    BY DEF StorageAssumption
  <2> QED
    BY <2>1 DEF TypeOK, Upload, Download
<1>3. CASE Quiet
  <2>1. /\ UNCHANGED <<files, temp, rows, inodes, known, accepted, stamps>>
        /\ transfers' \subseteq transfers
    BY <1>3 DEF Quiet
  <2>2. /\ pc' \in {"idle", "stored", "found", "down"}
        /\ req' \in Upload \cup Download \cup {None}
        /\ pc' \in {"stored", "found"} <=> req' # None
    BY <1>3 DEF Quiet, TypeOK
  <2>3. inodes \in 0..downloads'
    BY <1>1 DEF TypeOK
  <2> QED
    BY <1>1, <2>1, <2>2, <2>3 DEF TypeOK, Answered, Counted
<1>4. CASE AnyWrite
  <2>1. PICK n \in Names, place \in Places, size \in Sizes, stored \in Sizes \cup {0, 1},
             whole \in BOOLEAN : Writes(n, place, size, stored, whole)
    BY <1>4 DEF AnyWrite
  <2>2. uploads' \in 1..MaxUploads /\ second \in 1..MaxSecond
    BY <2>1, Numbers DEF Writes, WrittenOver, mayUpload, TypeOK
  <2> DEFINE file == [ver |-> uploads', size |-> size, stored |-> stored,
                      whole |-> whole, mtime |-> second]
  <2>3. file \in File
    BY <2>2 DEF File
  <2>4. files' = [files EXCEPT ![<<place, n>>] = file]
    BY <2>1 DEF Writes, WrittenOver
  <2> HIDE DEF file
  <2>5. files' \in [Places \X Names -> File \cup {None}]
    BY <2>3, <2>4 DEF TypeOK
  <2>6. /\ transfers' \subseteq Transfer
        /\ \A t \in transfers' : t.from < t.size
    BY <2>1, StillBodies DEF Writes, WrittenOver
  <2>7. accepted' \in [Names -> 0..MaxUploads]
    BY <2>1, Numbers DEF Writes, WrittenOver, Withdrawn, TypeOK
  <2>8. /\ pc' \in {"idle", "stored", "found", "down"}
        /\ req' \in Upload \cup Download \cup {None}
        /\ pc' \in {"stored", "found"} <=> req' # None
    BY <1>2, <2>1 DEF Writes, UploadStored, TypeOK
  <2>9. UNCHANGED <<temp, rows, inodes, known, downloads>>
    BY <2>1 DEF Writes, WrittenOver
  <2>10. stamps' \in [1..MaxUploads -> [size : Sizes \cup {0, 1}, mtime : 0..MaxSecond]]
    <3>1. stamps' = [stamps EXCEPT ![uploads'] = [size |-> stored, mtime |-> second]]
      BY <2>1 DEF Writes, WrittenOver
    <3>2. [size |-> stored, mtime |-> second] \in [size : Sizes \cup {0, 1}, mtime : 0..MaxSecond]
      BY <2>2, Numbers
    <3> QED
      BY <3>1, <3>2 DEF TypeOK
  <2> QED
    BY <1>1, <2>5, <2>6, <2>7, <2>8, <2>9, <2>10 DEF TypeOK, Answered, Counted
<1>5. CASE UploadRecord
  <2>1. req \in Upload /\ files[<<req.place, req.name>>] \in File
    BY <1>5 DEF UploadRecord, AtWork, TypeOK, Upload
  <2>2. req.name \in Names /\ req.place \in Places
    BY <2>1 DEF Upload
  <2>3. rowOf(req.name, req.place) \in Row /\ files[<<req.place, req.name>>].ver \in 0..MaxUploads
    BY <2>1, <2>2, Numbers DEF rowOf, File, Row
  <2>4. rows' \in [Names -> Row \cup {None}] /\ accepted' \in [Names -> 0..MaxUploads]
    BY <1>5, <2>3, ZenonT(40) DEF UploadRecord, insert, TypeOK
  <2> QED
    BY <1>1, <1>5, <2>4 DEF UploadRecord, TypeOK, Answered, Counted
<1>6. CASE AnyAsIs
  <2>1. PICK n \in Names, range \in Ranges, resume \in known \cup {None} :
           DownloadAsIs(n, range, resume)
    BY <1>6 DEF AnyAsIs
  <2>2. /\ pc' = "found" /\ req' = [name |-> n, range |-> range, resume |-> resume]
        /\ UNCHANGED <<files, temp, rows, transfers, inodes, known, accepted, stamps>>
    BY <2>1 DEF DownloadAsIs, DownloadBegins
  <2>3. req' \in Download /\ req' # None
    BY <1>2, <2>2
  <2>4. inodes \in 0..downloads'
    BY <1>1 DEF TypeOK
  <2> QED
    BY <1>1, <2>2, <2>3, <2>4 DEF TypeOK, Answered, Counted
<1>7. CASE AnyUnpacks
  <2>1. PICK n \in Names, range \in Ranges, resume \in known \cup {None},
             size \in Sizes \cup {0} : DownloadUnpacks(n, range, resume, size)
    BY <1>7 DEF AnyUnpacks
  <2> DEFINE f == files[<<"deep", n>>]
             inode == IF temp[n] = None THEN inodes + 1 ELSE temp[n].inode
  <2>2. /\ pc' = "found" /\ req' = [name |-> n, range |-> range, resume |-> resume]
        /\ UNCHANGED <<files, rows, known, accepted, stamps>>
        /\ downloads' = downloads + 1
        /\ isDeep(n)
        /\ temp' = [temp EXCEPT ![n] = [inode |-> inode, ver |-> f.ver, size |-> size]]
        /\ inodes' = IF temp[n] = None THEN inodes + 1 ELSE inodes
        /\ transfers' = TornBy(<<"temp", inode>>)
    BY <2>1 DEF DownloadUnpacks, DownloadBegins
  <2>3. req' \in Download /\ req' # None
    BY <1>2, <2>2
  <2>4. inodes' \in 0..downloads'
    BY <1>1, <2>2 DEF TypeOK
  <2>5. inode \in 1..MaxDownloads
    <3>1. CASE temp[n] = None
      BY <1>1, <2>2, <3>1, Numbers DEF TypeOK, Counted
    <3>2. CASE temp[n] # None
      BY <3>2 DEF TypeOK, Unpacked
    <3> QED
      BY <3>1, <3>2
  <2>6. f \in File
    BY <2>2 DEF isDeep, getOneByURL, RowHasFile, TypeOK, Places
  <2>7. f.ver \in 1..MaxUploads
    BY <2>6 DEF File
  <2> HIDE DEF f, inode
  <2>8. [inode |-> inode, ver |-> f.ver, size |-> size] \in Unpacked
    BY <2>5, <2>7 DEF Unpacked
  <2>9. temp' \in [Names -> Unpacked \cup {None}]
    BY <2>2, <2>8 DEF TypeOK
  <2>10. /\ transfers' \subseteq Transfer
         /\ \A t \in transfers' : t.from < t.size
    BY <2>2, StillBodies
  <2>11. /\ UNCHANGED <<files, rows, known, accepted, stamps>>
         /\ pc' = "found" /\ req' \in Upload \cup Download \cup {None} /\ req' # None
    BY <2>2, <2>3
  <2> QED
    BY <1>1, <2>4, <2>9, <2>10, <2>11 DEF TypeOK, Answered, Counted
<1>8. CASE DownloadSends
  <2>1. /\ pc' = "idle" /\ req' = None /\ downloads' = downloads
        /\ UNCHANGED <<files, rows, inodes, accepted, stamps>>
    BY <1>8 DEF DownloadSends, DownloadEnds
  <2>2. /\ transfers' \subseteq Transfer
        /\ \A t \in transfers' : t.from < t.size
        /\ known' \subseteq Known
    <3>1. /\ transfers \subseteq Transfer /\ known \subseteq Known
          /\ \A t \in transfers : t.from < t.size
      BY DEF TypeOK
    <3>2. /\ transfers' = transfers \cup {Body(req.name)}
          /\ known' = known \cup
                {[etag |-> getEtag(req.name), ver |-> served(req.name).ver,
                  recorded |-> served(req.name).ver = accepted[req.name]]}
      BY <1>8, Sends
    <3> QED
      BY <1>8, <3>1, <3>2, BodyTyped
  <2>3. temp' \in [Names -> Unpacked \cup {None}]
    <3>1. temp' = IF isDeep(req.name) THEN [temp EXCEPT ![req.name] = None] ELSE temp
      BY <1>8, Sends
    <3> HIDE <1>8
    <3> QED
      BY <3>1, ZenonT(40) DEF TypeOK
  <2> QED
    BY <1>1, <2>1, <2>2, <2>3 DEF TypeOK, Answered, Counted
<1> QED
  BY <1>3, <1>4, <1>5, <1>6, <1>7, <1>8, Steps

-----------------------------------------------------------------------------
(* Work in hand, rows and URLs                                              *)

LEMMA InvInit ==
    ASSUME StorageAssumption, Init
    PROVE  IInv
<1>1. TypeOK
  BY TypeInit
<1>2. /\ AtWork /\ RowHasFile /\ UrlServesLatest /\ InodesAreOwn /\ DeepTransfersIntact
      /\ PartEndsInFile
  BY DEF Init, AtWork, RowHasFile, UrlServesLatest, InodesAreOwn, DeepTransfersIntact,
         PartEndsInFile
<1>3. InTime /\ Stamped
  BY DEF Init, InTime, Stamped
<1> QED
  BY <1>1, <1>2, <1>3 DEF IInv

\* What writing over one file does, and to no other.
OneWritten(n, place) ==
    /\ pc = "idle" /\ temp' = temp /\ rows' = rows /\ second' = second
    /\ inodes' = inodes /\ known' = known /\ uploads' = uploads + 1
    /\ files'[<<place, n>>] # None /\ files'[<<place, n>>].mtime = second
    /\ files'[<<place, n>>].ver = uploads'
    /\ stamps'[uploads'] = [size |-> files'[<<place, n>>].stored, mtime |-> second]
    /\ \A u \in 1..uploads : stamps'[u] = stamps[u]
    /\ \A f \in Places \X Names : f # <<place, n>> => files'[f] = files[f]
    /\ transfers' = TornBy(<<place, n>>)
    /\ \A m \in Names :
          accepted'[m] = IF m = n /\ rows[n] # None /\ rows[n].place = place
                           THEN 0 ELSE accepted[m]

LEMMA Written ==
    ASSUME StorageAssumption, TypeOK, NEW n \in Names, NEW place \in Places,
           NEW size \in Sizes, NEW stored \in Sizes \cup {0, 1}, NEW whole \in BOOLEAN,
           Writes(n, place, size, stored, whole)
    PROVE  OneWritten(n, place)
<1> DEFINE file == [ver |-> uploads', size |-> size, stored |-> stored,
                    whole |-> whole, mtime |-> second]
<1>1. uploads' \in 1..MaxUploads /\ second \in 1..MaxSecond
  BY Numbers DEF Writes, WrittenOver, mayUpload, TypeOK
<1>2. /\ file \in File /\ file.mtime = second
      /\ file.ver = uploads' /\ file.stored = stored
  BY <1>1 DEF File
<1>3. file # None
  BY <1>2 DEF StorageAssumption
<1>4. files' = [files EXCEPT ![<<place, n>>] = file]
  BY DEF Writes, WrittenOver
<1> HIDE DEF file
<1>5. /\ files'[<<place, n>>] = file
      /\ \A f \in Places \X Names : f # <<place, n>> => files'[f] = files[f]
  BY <1>4 DEF TypeOK
<1>6. /\ uploads' = uploads + 1
      /\ stamps'[uploads'] = [size |-> stored, mtime |-> second]
      /\ \A u \in 1..uploads : stamps'[u] = stamps[u]
  <2>1. /\ uploads' = uploads + 1
        /\ stamps' = [stamps EXCEPT ![uploads'] = [size |-> stored, mtime |-> second]]
    BY DEF Writes, WrittenOver
  <2>2. \A u \in 1..uploads : u \in 1..MaxUploads /\ u # uploads'
    BY <1>1, <2>1, Numbers DEF TypeOK
  <2> QED
    BY <1>1, <2>1, <2>2 DEF TypeOK
<1>7. \A m \in Names :
         accepted'[m] = IF m = n /\ rows[n] # None /\ rows[n].place = place
                          THEN 0 ELSE accepted[m]
  BY SMTT(40) DEF Writes, WrittenOver, Withdrawn, TypeOK
<1>8. /\ pc = "idle" /\ UNCHANGED <<temp, rows, inodes, known, second>>
      /\ transfers' = TornBy(<<place, n>>)
  BY DEF Writes, WrittenOver, mayUpload
<1> QED
  BY <1>2, <1>3, <1>5, <1>6, <1>7, <1>8 DEF OneWritten

\* A row is recorded, of a file that is there.
LEMMA Recorded ==
    ASSUME StorageAssumption, TypeOK, AtWork, UploadRecord
    PROVE  /\ req.name \in Names /\ req.place \in Places
           /\ files[<<req.place, req.name>>] # None
           /\ rows'[req.name] # None /\ rows'[req.name].place = req.place
           /\ rows'[req.name].mtime = files[<<req.place, req.name>>].mtime
           /\ rows'[req.name].size = files[<<req.place, req.name>>].stored
           /\ accepted'[req.name] = files[<<req.place, req.name>>].ver
           /\ \A m \in Names \ {req.name} : rows'[m] = rows[m] /\ accepted'[m] = accepted[m]
           /\ pc = "stored" /\ pc' = "idle"
           /\ UNCHANGED <<files, temp, transfers, inodes, known, second, uploads, stamps>>
<1> DEFINE row == rowOf(req.name, req.place)
<1>1. /\ pc = "stored" /\ req \in Upload
      /\ files[<<req.place, req.name>>] # None
      /\ req.name \in Names /\ req.place \in Places
  BY DEF UploadRecord, AtWork, Upload
<1>2. files[<<req.place, req.name>>] \in File
  BY <1>1 DEF TypeOK
<1>3. row \in Row /\ row.place = req.place
      /\ row.mtime = files[<<req.place, req.name>>].mtime
      /\ row.size = files[<<req.place, req.name>>].stored
  BY <1>1, <1>2 DEF rowOf, File, Row
<1>4. row # None
  BY <1>3 DEF StorageAssumption
<1>5. rows' = [rows EXCEPT ![req.name] = row]
  BY DEF UploadRecord, insert
<1>6. accepted' = [accepted EXCEPT ![req.name] = files[<<req.place, req.name>>].ver]
  BY DEF UploadRecord
<1> HIDE DEF row
<1>7. /\ rows'[req.name] = row /\ accepted'[req.name] = files[<<req.place, req.name>>].ver
      /\ \A m \in Names \ {req.name} : rows'[m] = rows[m] /\ accepted'[m] = accepted[m]
  BY <1>1, <1>5, <1>6 DEF TypeOK
<1> QED
  BY <1>1, <1>3, <1>4, <1>7 DEF UploadRecord

LEMMA AtWorkStep ==
    ASSUME StorageAssumption, TypeOK, AtWork, [Next]_vars
    PROVE  AtWork'
<1>1. downloads \in Nat /\ downloads' \in {downloads, downloads + 1}
  BY BooksStep, Numbers DEF Books, TypeOK
<1>2. CASE Quiet
  BY <1>1, <1>2 DEF Quiet, AtWork
<1>3. CASE AnyWrite
  <2>1. PICK n \in Names, place \in Places, size \in Sizes, stored \in Sizes \cup {0, 1},
             whole \in BOOLEAN : Writes(n, place, size, stored, whole)
    BY <1>3 DEF AnyWrite
  <2>2. OneWritten(n, place)
    BY <2>1, Written
  <2>3. CASE UploadStored(n, place)
    BY <2>2, <2>3 DEF OneWritten, UploadStored, AtWork, Upload
  <2>4. CASE UNCHANGED <<pc, req>>
    BY <2>2, <2>4 DEF OneWritten, AtWork
  <2> QED
    BY <2>1, <2>3, <2>4 DEF Writes
<1>4. CASE AnyAsIs \/ AnyUnpacks
  <2>1. PICK n \in Names, range \in Ranges, resume \in known \cup {None} :
           DownloadBegins(n, range, resume)
    BY <1>4 DEF AnyAsIs, AnyUnpacks, DownloadAsIs, DownloadUnpacks
  <2> QED
    BY <1>1, <2>1 DEF DownloadBegins, AtWork, Download, TypeOK
<1>5. CASE UploadRecord \/ DownloadSends
  BY <1>5 DEF UploadRecord, DownloadSends, DownloadEnds, AtWork
<1> QED
  BY <1>2, <1>3, <1>4, <1>5, Steps

\* The steps of a download, and quiet ones, leave table and directories alone.
LEMMA DownloadsOnlyRead ==
    ASSUME Quiet \/ AnyAsIs \/ AnyUnpacks \/ DownloadSends
    PROVE  UNCHANGED <<files, rows, accepted>>
BY DEF Quiet, AnyAsIs, AnyUnpacks, DownloadSends, DownloadAsIs, DownloadUnpacks,
       DownloadBegins, DownloadEnds

LEMMA RowsStep ==
    ASSUME StorageAssumption, TypeOK, AtWork, RowHasFile, UrlServesLatest, InTime, [Next]_vars
    PROVE  RowHasFile' /\ UrlServesLatest'
<1>1. CASE UNCHANGED <<files, rows, accepted>>
  BY <1>1 DEF RowHasFile, UrlServesLatest
<1>2. CASE AnyWrite
  <2>1. PICK n \in Names, place \in Places, size \in Sizes, stored \in Sizes \cup {0, 1},
             whole \in BOOLEAN : Writes(n, place, size, stored, whole)
    BY <1>2 DEF AnyWrite
  <2> <<place, n>> \in Places \X Names
    OBVIOUS
  <2>2. OneWritten(n, place)
    BY <2>1, Written
  <2>3. /\ rows' = rows
        /\ files'[<<place, n>>] # None /\ files'[<<place, n>>].mtime = second
        /\ \A f \in Places \X Names : f # <<place, n>> => files'[f] = files[f]
        /\ \A m \in Names :
              accepted'[m] = IF m = n /\ rows[n] # None /\ rows[n].place = place
                               THEN 0 ELSE accepted[m]
    BY <2>2 DEF OneWritten
  <2>4. \A m \in Names : rows[m] # None => <<rows[m].place, m>> \in Places \X Names
    BY DEF TypeOK, Row
  <2>5. ASSUME NEW m \in Names, rows[m] # None
        PROVE  /\ files'[<<rows[m].place, m>>] # None
               /\ rows[m].mtime <= files'[<<rows[m].place, m>>].mtime
    <3>1. /\ files[<<rows[m].place, m>>] # None
          /\ rows[m].mtime <= files[<<rows[m].place, m>>].mtime
      BY <2>5 DEF RowHasFile
    <3>2. files[<<rows[m].place, m>>] \in File /\ rows[m] \in Row
      BY <2>4, <2>5, <3>1 DEF TypeOK
    <3>3. /\ files[<<rows[m].place, m>>].mtime \in Int /\ rows[m].mtime \in Int
          /\ second \in Int
      BY <3>2 DEF TypeOK, File, Row
    <3>4. files[<<rows[m].place, m>>].mtime <= second
      BY <2>4, <2>5, <3>1 DEF InTime
    <3>5. rows[m].mtime <= second
      BY <3>1, <3>3, <3>4
    <3> QED
      BY <2>3, <2>4, <2>5, <3>1, <3>5
  <2>6. ASSUME NEW m \in Names, accepted'[m] # 0
        PROVE  /\ rows[m] # None /\ files'[<<rows[m].place, m>>] # None
               /\ files'[<<rows[m].place, m>>].ver = accepted'[m]
    <3>1. /\ accepted'[m] = accepted[m] /\ rows[m] # None
          /\ ~(m = n /\ rows[m].place = place)
      BY <2>3, <2>6 DEF UrlServesLatest
    <3>2. files'[<<rows[m].place, m>>] = files[<<rows[m].place, m>>]
      BY <2>3, <2>4, <3>1
    <3> QED
      BY <2>6, <3>1, <3>2 DEF UrlServesLatest
  <2> QED
    BY <2>3, <2>5, <2>6 DEF RowHasFile, UrlServesLatest
<1>3. CASE UploadRecord
  <2>1. files[<<req.place, req.name>>].mtime <= files[<<req.place, req.name>>].mtime
    BY <1>3, Recorded DEF TypeOK, File
  <2> QED
    BY <1>3, <2>1, Recorded DEF RowHasFile, UrlServesLatest
<1> QED
  BY <1>1, <1>2, <1>3, Steps, DownloadsOnlyRead

-----------------------------------------------------------------------------
(* Temporary files and the bodies that are sent from them                   *)

\* What is unpacked into a temporary file.
LEMMA Unpacks ==
    ASSUME StorageAssumption, TypeOK, TypeOK', RowHasFile, InodesAreOwn,
           NEW n \in Names, NEW range, NEW resume, NEW size \in Sizes \cup {0},
           DownloadUnpacks(n, range, resume, size)
    PROVE  \E inode \in 1..inodes' :
              /\ inode = IF temp[n] = None THEN inodes + 1 ELSE temp[n].inode
              /\ temp'[n] # None /\ temp'[n].inode = inode
              /\ temp'[n].ver = files[<<"deep", n>>].ver
              /\ \A m \in Names \ {n} : temp'[m] = temp[m]
              /\ inodes' = IF temp[n] = None THEN inodes + 1 ELSE inodes
              /\ transfers' = TornBy(<<"temp", inode>>)
<1> DEFINE inode == IF temp[n] = None THEN inodes + 1 ELSE temp[n].inode
           unpacked == [inode |-> inode, ver |-> files[<<"deep", n>>].ver, size |-> size]
<1>1. /\ temp' = [temp EXCEPT ![n] = unpacked]
      /\ inodes' = IF temp[n] = None THEN inodes + 1 ELSE inodes
      /\ transfers' = TornBy(<<"temp", inode>>)
  BY DEF DownloadUnpacks
<1>2. inode \in 1..inodes'
  BY <1>1, Numbers DEF InodesAreOwn, TypeOK
<1>3. unpacked # None
  <2>1. files[<<"deep", n>>] \in File
    BY DEF DownloadUnpacks, isDeep, getOneByURL, RowHasFile, TypeOK, Places
  <2>2. files[<<"deep", n>>].ver \in 1..MaxUploads
    BY <2>1 DEF File
  <2>3. inode \in 1..MaxDownloads
    BY <1>2, Numbers, SMTT(40) DEF TypeOK
  <2> HIDE DEF inode
  <2>4. unpacked \in Unpacked
    BY <2>2, <2>3 DEF Unpacked
  <2> QED
    BY <2>4 DEF StorageAssumption
<1>4. unpacked.inode = inode /\ unpacked.ver = files[<<"deep", n>>].ver
  OBVIOUS
<1> HIDE DEF inode, unpacked
<1>5. temp'[n] = unpacked /\ \A m \in Names \ {n} : temp'[m] = temp[m]
  BY <1>1 DEF TypeOK
<1> QED
  BY <1>1, <1>2, <1>3, <1>4, <1>5 DEF inode

LEMMA InodesStep ==
    ASSUME StorageAssumption, TypeOK, TypeOK', AtWork, RowHasFile,
           InodesAreOwn, DeepTransfersIntact, [Next]_vars
    PROVE  InodesAreOwn' /\ DeepTransfersIntact'
<1>1. CASE Quiet \/ AnyAsIs \/ UploadRecord
  <2>1. temp' = temp /\ inodes' = inodes /\ transfers' \subseteq transfers
    BY <1>1 DEF Quiet, AnyAsIs, DownloadAsIs, UploadRecord
  <2> QED
    BY <2>1 DEF InodesAreOwn, DeepTransfersIntact
<1>2. CASE AnyWrite
  <2>1. PICK n \in Names, place \in Places, size \in Sizes, stored \in Sizes \cup {0, 1},
             whole \in BOOLEAN : Writes(n, place, size, stored, whole)
    BY <1>2 DEF AnyWrite
  <2>2. temp' = temp /\ inodes' = inodes /\ transfers' = TornBy(<<place, n>>)
    BY <2>1 DEF Writes, WrittenOver
  <2>3. ASSUME NEW t \in transfers', t.source[1] = "temp"
        PROVE  /\ ~t.torn /\ t.source[2] \in 1..inodes
               /\ \A m \in Names : temp[m] # None => temp[m].inode # t.source[2]
    <3>1. PICK u \in transfers : t.source = u.source /\ (t.torn <=> u.torn \/ u.source = <<place, n>>)
      BY <2>2, StillBodies
    <3>2. u.source # <<place, n>>
      BY <2>3, <3>1 DEF Places
    <3> QED
      BY <2>3, <3>1, <3>2 DEF InodesAreOwn, DeepTransfersIntact
  <2> QED
    BY <2>2, <2>3 DEF InodesAreOwn, DeepTransfersIntact
<1>3. CASE AnyUnpacks
  <2>1. PICK n \in Names, range \in Ranges, resume \in known \cup {None},
             size \in Sizes \cup {0} : DownloadUnpacks(n, range, resume, size)
    BY <1>3 DEF AnyUnpacks
  <2>2. PICK inode \in 1..inodes' :
              /\ inode = IF temp[n] = None THEN inodes + 1 ELSE temp[n].inode
              /\ temp'[n] # None /\ temp'[n].inode = inode
              /\ \A m \in Names \ {n} : temp'[m] = temp[m]
              /\ inodes' = IF temp[n] = None THEN inodes + 1 ELSE inodes
              /\ transfers' = TornBy(<<"temp", inode>>)
    BY <2>1, Unpacks
  <2>3. inodes \in Nat /\ inodes' \in Nat /\ inodes <= inodes'
    BY <2>2, Numbers DEF TypeOK
  <2>4. \A m \in Names \ {n} : temp[m] # None => temp[m].inode # inode
    BY <2>2, <2>3 DEF InodesAreOwn
  <2>5. ASSUME NEW t \in transfers', t.source[1] = "temp"
        PROVE  /\ ~t.torn /\ t.source[2] \in 1..inodes /\ t.source[2] # inode
               /\ \A m \in Names : temp[m] # None => temp[m].inode # t.source[2]
    <3>1. PICK u \in transfers :
             t.source = u.source /\ (t.torn <=> u.torn \/ u.source = <<"temp", inode>>)
      BY <2>2, StillBodies
    <3>2. /\ u.source[2] \in 1..inodes /\ ~u.torn
          /\ \A m \in Names : temp[m] # None => temp[m].inode # u.source[2]
      BY <2>5, <3>1 DEF InodesAreOwn, DeepTransfersIntact
    <3>3. u.source[2] # inode
      BY <2>2, <2>3, <3>2
    <3>4. u.source # <<"temp", inode>>
      BY <3>3
    <3> QED
      BY <3>1, <3>2, <3>3, <3>4
  <2>6. \A m \in Names : temp'[m] # None => temp'[m].inode \in 1..inodes'
    BY <2>2, <2>3 DEF InodesAreOwn
  <2>7. \A l, m \in Names :
           temp'[l] # None /\ temp'[m] # None /\ temp'[l].inode = temp'[m].inode => l = m
    BY <2>2, <2>4 DEF InodesAreOwn
  <2>8. \A t \in transfers' : t.source[1] = "temp" =>
           /\ t.source[2] \in 1..inodes'
           /\ \A m \in Names : temp'[m] # None => temp'[m].inode # t.source[2]
    BY <2>2, <2>3, <2>5
  <2> QED
    BY <2>5, <2>6, <2>7, <2>8 DEF InodesAreOwn, DeepTransfersIntact
<1>4. CASE DownloadSends
  <2> DEFINE n == req.name
             body == Body(n)
  <2>1. /\ n \in Names /\ served(n) # None
        /\ transfers' = transfers \cup {body}
        /\ temp' = IF isDeep(n) THEN [temp EXCEPT ![n] = None] ELSE temp
        /\ inodes' = inodes
    BY <1>4, Sends
  <2>2. body.source = served(n).source /\ body.torn = FALSE
    BY DEF Body
  <2>3. \A m \in Names : temp'[m] # None => temp'[m] = temp[m] /\ ~(isDeep(n) /\ m = n)
    BY <2>1 DEF TypeOK
  <2>4. \/ /\ isDeep(n) /\ temp[n] # None
           /\ body.source = <<"temp", temp[n].inode>>
        \/ body.source = <<"low", n>>
    BY <2>1, <2>2, Serves
  <2> HIDE DEF n, body
  <2>5. body.source[1] = "temp" =>
           /\ body.source[2] \in 1..inodes
           /\ \A m \in Names : temp'[m] # None => temp'[m].inode # body.source[2]
    BY <2>1, <2>3, <2>4 DEF InodesAreOwn
  <2> QED
    BY <2>1, <2>2, <2>3, <2>5 DEF InodesAreOwn, DeepTransfersIntact
<1> QED
  BY <1>1, <1>2, <1>3, <1>4, Steps

-----------------------------------------------------------------------------
(* The clock, and the stamps of uploads                                     *)

LEMMA InTimeStep ==
    ASSUME StorageAssumption, TypeOK, AtWork, RowHasFile, InTime, [Next]_vars
    PROVE  InTime'
<1>1. /\ second \in Int
      /\ \A f \in Places \X Names : files[f] # None => files[f].mtime \in Int
  BY DEF TypeOK, File
<1>2. CASE AnyWrite
  <2>1. PICK n \in Names, place \in Places, size \in Sizes, stored \in Sizes \cup {0, 1},
             whole \in BOOLEAN : Writes(n, place, size, stored, whole)
    BY <1>2 DEF AnyWrite
  <2>2. OneWritten(n, place)
    BY <2>1, Written
  <2> QED
    BY <1>1, <2>2 DEF OneWritten, InTime
<1>3. CASE ~AnyWrite
  <2>1. files' = files /\ second' \in {second, second + 1}
    BY <1>3, Steps
    DEF Quiet, UploadRecord, AnyAsIs, AnyUnpacks, DownloadAsIs, DownloadUnpacks,
        DownloadBegins, DownloadSends, DownloadEnds
  <2> QED
    BY <1>1, <2>1 DEF InTime
<1> QED
  BY <1>2, <1>3

LEMMA StampedWrite ==
    ASSUME StorageAssumption, TypeOK, UrlServesLatest, Stamped, AnyWrite
    PROVE  Stamped'
<1>1. PICK n \in Names, place \in Places, size \in Sizes, stored \in Sizes \cup {0, 1},
           whole \in BOOLEAN : Writes(n, place, size, stored, whole)
  BY DEF AnyWrite
<1>2. OneWritten(n, place)
  BY <1>1, Written
<1>3. /\ uploads \in Nat /\ uploads' = uploads + 1
      /\ \A u \in 1..uploads : stamps'[u] = stamps[u] /\ u <= uploads'
      /\ rows' = rows /\ known' = known
  BY <1>2, Numbers DEF OneWritten, TypeOK
<1>4. ASSUME NEW f \in Places \X Names, files'[f] # None
      PROVE  /\ files'[f].ver <= uploads'
             /\ stamps'[files'[f].ver] = [size |-> files'[f].stored, mtime |-> files'[f].mtime]
  <2>1. CASE f = <<place, n>>
    BY <1>2, <1>3, <2>1 DEF OneWritten
  <2>2. CASE f # <<place, n>>
    <3>1. files'[f] = files[f] /\ files[f] # None /\ files[f] \in File
      BY <1>2, <1>4, <2>2 DEF OneWritten, TypeOK
    <3>2. files[f].ver \in 1..uploads
      <4>1. files[f].ver \in 1..MaxUploads
        BY <3>1 DEF File
      <4>2. files[f].ver <= uploads
        BY <1>4, <3>1 DEF Stamped
      <4> QED
        BY <1>3, <4>1, <4>2
    <3> QED
      BY <1>3, <1>4, <3>1, <3>2 DEF Stamped
  <2> QED
    BY <2>1, <2>2
<1>5. ASSUME NEW m \in Names, accepted'[m] # 0
      PROVE  accepted'[m] <= uploads' /\ stamps'[accepted'[m]] = StampOf(rows'[m])
  <2>1. accepted'[m] = accepted[m]
    BY <1>2, <1>5 DEF OneWritten
  <2>2. accepted[m] \in 1..uploads
    BY <1>3, <1>5, <2>1 DEF Stamped, TypeOK
  <2> QED
    BY <1>3, <1>5, <2>1, <2>2 DEF Stamped
<1>6. ASSUME NEW k \in known', k.recorded
      PROVE  k.ver <= uploads' /\ stamps'[k.ver] = StampOf(k.etag)
  <2>1. k.ver \in 1..uploads
    BY <1>3, <1>6 DEF Stamped, TypeOK, Known
  <2> QED
    BY <1>3, <1>6, <2>1 DEF Stamped
<1>7. ASSUME NEW t \in transfers'
      PROVE  /\ t.resume \in known' \cup {None}
             /\ t.resume # None /\ t.recorded =>
                    t.ver <= uploads' /\ stamps'[t.ver] = StampOf(t.resume.etag)
  <2>1. PICK u \in transfers :
           u \in Transfer /\ t.ver = u.ver /\ t.recorded = u.recorded /\ t.resume = u.resume
    BY <1>2, StillBodies DEF OneWritten
  <2>2. u.resume # None /\ u.recorded => u.ver \in 1..uploads
    BY <1>3, <2>1 DEF Stamped, Transfer
  <2> QED
    BY <1>3, <2>1, <2>2 DEF Stamped
<1> QED
  BY <1>4, <1>5, <1>6, <1>7 DEF Stamped

LEMMA StampedSend ==
    ASSUME StorageAssumption, TypeOK, AtWork, RowHasFile, Stamped, DownloadSends
    PROVE  Stamped'
<1> DEFINE n == req.name
           s == served(n)
           new == [etag |-> getEtag(n), ver |-> s.ver, recorded |-> s.ver = accepted[n]]
<1>1. /\ n \in Names /\ s # None /\ req.resume \in known \cup {None}
      /\ transfers' = transfers \cup {Body(n)}
      /\ known' = known \cup {new}
      /\ UNCHANGED <<files, rows, accepted, stamps, uploads>>
  BY Sends
<1>2. s.ver \in 1..MaxUploads
  BY <1>1, Serves
<1>3. s.ver = accepted[n] => s.ver <= uploads /\ stamps[s.ver] = StampOf(getEtag(n))
  <2>1. StampOf(getEtag(n)) = StampOf(rows[n])
    BY DEF StampOf, getEtag, getOneByURL
  <2> QED
    BY <1>1, <1>2, <2>1 DEF Stamped
<1>4. /\ Body(n).ver = s.ver /\ Body(n).recorded = (s.ver = accepted[n])
      /\ Body(n).resume = IF isRangeRequest(req) THEN req.resume ELSE None
  BY DEF Body
<1>5. Body(n).resume # None => Body(n).resume.etag = getEtag(n)
  BY <1>4 DEF isRangeRequest
<1>6. new.etag = getEtag(n) /\ new.ver = s.ver /\ new.recorded = (s.ver = accepted[n])
  OBVIOUS
<1> HIDE DEF n, s, new
<1>7. \A k \in known' : k.recorded => k.ver <= uploads /\ stamps[k.ver] = StampOf(k.etag)
  BY <1>1, <1>3, <1>6 DEF Stamped
<1>8. \A t \in transfers' :
         /\ t.resume \in known' \cup {None}
         /\ t.resume # None /\ t.recorded =>
                t.ver <= uploads /\ stamps[t.ver] = StampOf(t.resume.etag)
  BY <1>1, <1>3, <1>4, <1>5 DEF Stamped
<1> QED
  BY <1>1, <1>7, <1>8 DEF Stamped

LEMMA StampedStep ==
    ASSUME StorageAssumption, TypeOK, AtWork, RowHasFile, UrlServesLatest, Stamped, [Next]_vars
    PROVE  Stamped'
<1>1. CASE Quiet \/ AnyAsIs
  <2>1. /\ UNCHANGED <<files, rows, known, accepted, stamps, uploads>>
        /\ transfers' \subseteq transfers
    BY <1>1 DEF Quiet, AnyAsIs, DownloadAsIs, DownloadBegins
  <2> QED
    BY <2>1 DEF Stamped
<1>2. CASE AnyUnpacks
  <2>1. /\ UNCHANGED <<files, rows, known, accepted, stamps, uploads>>
        /\ \E source : transfers' = TornBy(source)
    BY <1>2 DEF AnyUnpacks, DownloadUnpacks, DownloadBegins
  <2>2. \A t \in transfers' : \E u \in transfers :
           t.ver = u.ver /\ t.recorded = u.recorded /\ t.resume = u.resume
    BY <2>1, StillBodies
  <2> QED
    BY <2>1, <2>2 DEF Stamped
<1>3. CASE AnyWrite
  BY <1>3, StampedWrite
<1>4. CASE UploadRecord
  <2> DEFINE f == <<req.place, req.name>>
  <2>1. /\ req.name \in Names /\ f \in Places \X Names /\ files[f] # None
        /\ StampOf(rows'[req.name]) = [size |-> files[f].stored, mtime |-> files[f].mtime]
        /\ accepted'[req.name] = files[f].ver
        /\ \A m \in Names \ {req.name} : rows'[m] = rows[m] /\ accepted'[m] = accepted[m]
        /\ UNCHANGED <<files, transfers, known, uploads, stamps>>
    BY <1>4, Recorded DEF StampOf
  <2> QED
    BY <2>1 DEF Stamped
<1>5. CASE DownloadSends
  BY <1>5, StampedSend
<1> QED
  BY <1>1, <1>2, <1>3, <1>4, <1>5, Steps

-----------------------------------------------------------------------------
(* Parts                                                                    *)

LEMMA BodyIsPart ==
    ASSUME StorageAssumption, TypeOK, AtWork, RowHasFile, DownloadSends
    PROVE  LET t == Body(req.name)
           IN  t.part => t.len > 0 /\ t.from + t.len <= t.size
<1> DEFINE n == req.name
           t == Body(n)
           size == served(n).size
           start == range_start(req)
           end == range_end(req, size)
<1> SUFFICES ASSUME t.part
             PROVE  t.len > 0 /\ t.from + t.len <= t.size
  OBVIOUS
<1>1. /\ req \in Download /\ n \in Names /\ served(n) # None /\ ~(start >= size)
  BY Sends DEF unsatisfiable
<1>2. size \in Sizes \cup {0, 1}
  BY <1>1, Serves
<1>3. PICK limit \in Nat : limit = 2^SizeBits /\ limit > 1 /\ \A s \in Sizes : s < limit
  BY Width
<1>4. size \in Nat /\ size < limit
  <2>1. size \in Nat
    BY <1>2, Numbers
  <2>2. size \in Sizes \/ size = 0 \/ size = 1
    BY <1>2
  <2> HIDE DEF size
  <2> QED
    BY <1>3, <2>1, <2>2
<1>5. /\ t.part = (isRangeRequest(req) /\ InOrder(req.range))
      /\ t.from = start /\ t.size = size
      /\ t.len = (end - start + 1) % limit
  BY <1>3 DEF Body, content_length
<1>6. /\ isRangeRequest(req) /\ req.range # None
      /\ req.range.last = None \/ req.range.first <= req.range.last
  BY <1>5 DEF isRangeRequest, InOrder
<1>7. start = req.range.first /\ start \in Nat
  <2>1. req.range.first \in Sizes \cup {0}
    BY <1>1, <1>6 DEF Download, Ranges
  <2> QED
    BY <1>6, <2>1, Numbers DEF range_start
<1>8. end \in Nat /\ start <= end /\ end < size
  <2>1. req.range.last \in Sizes \cup {0, None}
    BY <1>1, <1>6 DEF Download, Ranges
  <2>2. CASE req.range.last \notin {None, 0} /\ req.range.last < size
    <3>1. req.range.last \in Sizes
      BY <2>1, <2>2
    <3>2. end = req.range.last
      BY <1>6, <2>2 DEF range_end
    <3>3. req.range.last \in Int /\ req.range.last > 0
      BY <3>1, Numbers
    <3>4. start <= req.range.last
      BY <1>6, <1>7, <2>2
    <3> QED
      BY <1>4, <1>7, <2>2, <3>2, <3>3, <3>4
  <2>3. CASE ~(req.range.last \notin {None, 0} /\ req.range.last < size)
    <3>1. end = size - 1
      BY <2>3 DEF range_end
    <3> QED
      BY <1>1, <1>4, <1>7, <3>1
  <2> QED
    BY <2>2, <2>3
<1> HIDE DEF t, size, start, end
<1>9. end - start + 1 \in Nat /\ end - start + 1 < limit /\ end - start + 1 > 0
  BY <1>4, <1>7, <1>8
<1>10. \A x \in Nat, m \in Nat : m > 1 /\ x < m => x % m = x
  OBVIOUS
<1>11. t.len = end - start + 1
  BY <1>3, <1>5, <1>9, <1>10
<1> QED
  BY <1>4, <1>5, <1>7, <1>8, <1>11

LEMMA PartStep ==
    ASSUME StorageAssumption, TypeOK, AtWork, RowHasFile, PartEndsInFile, [Next]_vars
    PROVE  PartEndsInFile'
<1>1. CASE Quiet \/ AnyAsIs \/ UploadRecord
  <2>1. transfers' \subseteq transfers
    BY <1>1 DEF Quiet, AnyAsIs, DownloadAsIs, UploadRecord
  <2> QED
    BY <2>1 DEF PartEndsInFile
<1>2. CASE AnyWrite \/ AnyUnpacks
  <2>1. \E source : transfers' = TornBy(source)
    BY <1>2 DEF AnyWrite, Writes, WrittenOver, AnyUnpacks, DownloadUnpacks
  <2> QED
    BY <2>1, StillBodies DEF PartEndsInFile
<1>3. CASE DownloadSends
  <2>1. transfers' = transfers \cup {Body(req.name)}
    BY <1>3, Sends
  <2> QED
    BY <1>3, <2>1, BodyIsPart DEF PartEndsInFile
<1> QED
  BY <1>1, <1>2, <1>3, Steps

-----------------------------------------------------------------------------

\* All of it together holds at first and is kept by every step.
THEOREM StorageInductive == Spec => []IInv
<1> USE StorageAssumption
<1>1. Init => IInv
  BY InvInit
<1>2. IInv /\ [Next]_vars => IInv'
  <2> SUFFICES ASSUME IInv, [Next]_vars
               PROVE  IInv'
    OBVIOUS
  <2>1. TypeOK'
    BY TypeStep DEF IInv
  <2>2. AtWork' /\ RowHasFile' /\ UrlServesLatest'
    BY AtWorkStep, RowsStep DEF IInv
  <2>3. InodesAreOwn' /\ DeepTransfersIntact'
    BY <2>1, InodesStep DEF IInv
  <2>4. InTime' /\ Stamped'
    BY <2>1, InTimeStep, StampedStep DEF IInv
  <2>5. PartEndsInFile'
    BY PartStep DEF IInv
  <2> QED
    BY <2>1, <2>2, <2>3, <2>4, <2>5 DEF IInv
<1> QED
  BY <1>1, <1>2, PTL DEF Spec

\* Types: a handler has a request in hand exactly while it is at work, and no body begins
\* at or beyond the end of its file.
THEOREM StorageTypeOK == Spec => []TypeOK
<1>1. IInv => TypeOK
  BY DEF IInv
<1> QED
  BY <1>1, StorageInductive, PTL

\* Whatever fails (setContent before insert), the row of a listed URL leads to a file
\* that exists and is no older than the row.
THEOREM StorageRowHasFile == Spec => []RowHasFile
<1>1. IInv => RowHasFile
  BY DEF IInv
<1> QED
  BY <1>1, StorageInductive, PTL

\* The row of a URL leads to the file of the upload that was recorded last, until that
\* file is written over.
THEOREM StorageUrlServesLatest == Spec => []UrlServesLatest
<1>1. IInv => UrlServesLatest
  BY DEF IInv
<1> QED
  BY <1>1, StorageInductive, PTL

\* A body that is sent from an unpacked file is not torn by a later uncompress.
THEOREM StorageDeepTransfersIntact == Spec => []DeepTransfersIntact
<1>1. IInv => DeepTransfersIntact
  BY DEF IInv
<1> QED
  BY <1>1, StorageInductive, PTL

\* If-Range: a client that was and is sent the upload recorded last is given, where it
\* resumes, the upload it began with, or one of the same size and second.
THEOREM StorageResumeIsSameVersion == Spec => []ResumeIsSameVersion
<1>1. IInv => ResumeIsSameVersion
  BY DEF IInv, Stamped, ResumeIsSameVersion
<1> QED
  BY <1>1, StorageInductive, PTL

\* The part that is sent for a range with its ends in order lies within the file.
THEOREM StoragePartEndsInFile == Spec => []PartEndsInFile
<1>1. IInv => PartEndsInFile
  BY DEF IInv
<1> QED
  BY <1>1, StorageInductive, PTL

=============================================================================
