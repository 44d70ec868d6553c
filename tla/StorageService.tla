--------------------------- MODULE StorageService ---------------------------
(***************************************************************************)
(* mystorage::Service with DataManager and FileUtil: uploads into a low or *)
(* a deep (compressed) directory, a table of what can be downloaded, and   *)
(* downloads with Range and If-Range, for which a deep file is unpacked    *)
(* into a temporary one.                                                   *)
(*                                                                         *)
(* One thread runs libevent's loop, so handlers do not overlap; but bodies *)
(* are sent long after their handler returned, reading files that later    *)
(* handlers write, and a handler may fail or the process end in its middle.*)
(* A handler is therefore one step up to its last point of no return and   *)
(* one after it.  A file's contents are the number of the upload they come *)
(* from; sizes are counted, bytes are not kept.                            *)
(***************************************************************************)
EXTENDS Integers, Sequences, FiniteSets

CONSTANTS
    Names,          \* file names; a URL is the configured prefix and a name
    None,           \* no file, no row, no range, no end of a range
    Sizes,          \* sizes of uploads, compressed ones included
    SizeBits,       \* width of size_t
    MaxUploads,     \* bound: uploads that get as far as writing a file
    MaxDownloads,   \* bound: downloads
    MaxSecond,      \* bound: the clock
    MaxCrashes      \* bound: ends of the process

Places == {"low", "deep"}

\* What `files`, `temp` and `rows` hold; what is asked and what is known of it.
File == [ver : 1..MaxUploads, size : Sizes, stored : Sizes \cup {0, 1},
         whole : BOOLEAN, mtime : 1..MaxSecond]
Unpacked == [inode : 1..MaxDownloads, ver : 1..MaxUploads, size : Sizes \cup {0}]
Row == [place : Places, size : Sizes \cup {0, 1}, mtime : 1..MaxSecond]

\* first-last; httpParseRange makes 0 of a missing last.
Ranges == [first : Sizes \cup {0}, last : Sizes \cup {0, None}] \cup {None}

Known == [etag : [name : Names, size : Sizes \cup {0, 1}, mtime : 1..MaxSecond],
          ver  : 1..MaxUploads, recorded : BOOLEAN]
Upload == [name : Names, place : Places]
Download == [name : Names, range : Ranges, resume : Known \cup {None}]

ASSUME StorageAssumption ==
    /\ Sizes \subseteq Nat \ {0}
    /\ SizeBits \in Nat
    /\ 2^SizeBits \in Nat /\ 2^SizeBits > 1 /\ \A s \in Sizes : s < 2^SizeBits
    /\ MaxUploads \in Nat /\ MaxDownloads \in Nat
    /\ MaxSecond \in Nat \ {0} /\ MaxCrashes \in Nat
    /\ None \notin Nat \cup File \cup Unpacked \cup Row \cup Upload \cup Download

VARIABLES
    files,      \* <<place, name>> -> [ver, size, stored, whole, mtime] or None
    temp,       \* temp_download_dir: name -> [inode, ver, size] or None
    rows,       \* tem_table: name -> [place, size, mtime] or None
    pc,         \* where the handler is: "idle", "stored", "found"; "down"
    req,        \* the request in hand
    replies,    \* what the current or last request was answered
    transfers,  \* bodies being sent
    second, uploads, downloads, crashes, inodes,
    known,      \* (history) ETags that clients were sent, and for what
    accepted,   \* (history) name -> the upload that was recorded last, until
                \* its file is written over; 0 for none
    stamps      \* (history) upload -> size and time of the file it wrote

vars == <<files, temp, rows, pc, req, replies, transfers, second,
          uploads, downloads, crashes, inodes, known, accepted, stamps>>

Init ==
    /\ files = [f \in Places \X Names |-> None]
    /\ temp = [n \in Names |-> None]
    /\ rows = [n \in Names |-> None]
    /\ pc = "idle" /\ req = None /\ replies = <<>>
    /\ transfers = {}
    /\ second = 1 /\ uploads = 0 /\ downloads = 0 /\ crashes = 0 /\ inodes = 0
    /\ known = {}
    /\ accepted = [n \in Names |-> 0]
    /\ stamps = [u \in 1..MaxUploads |-> [size |-> 0, mtime |-> 0]]

\* Writing over a file changes what is still to be sent from it.
TornBy(source) ==
    {[t EXCEPT !.torn = t.torn \/ t.source = source] : t \in transfers}

-----------------------------------------------------------------------------
(* upload                                                                   *)

\* An empty body or an unknown storage type.
UploadRefused ==
    /\ pc = "idle"
    /\ replies' = <<400>>
    /\ UNCHANGED <<files, temp, rows, pc, req, transfers, second,
                   uploads, downloads, crashes, inodes, known, accepted, stamps>>

mayUpload ==
    /\ pc = "idle"
    /\ uploads < MaxUploads

\* A recorded upload no longer stands once its file is written over.
Withdrawn(n, place) ==
    [accepted EXCEPT ![n] = IF rows[n] # None /\ rows[n].place = place THEN 0 ELSE @]

\* The file is written over in place.  `size` bytes were uploaded, `stored` are
\* written: the same ones into the low directory, packed ones into the deep one.
WrittenOver(n, place, size, stored, whole) ==
    /\ mayUpload
    /\ uploads' = uploads + 1
    /\ files' = [files EXCEPT ![<<place, n>>] =
                    [ver |-> uploads', size |-> size, stored |-> stored,
                     whole |-> whole, mtime |-> second]]
    /\ stamps' = [stamps EXCEPT ![uploads'] = [size |-> stored, mtime |-> second]]
    /\ transfers' = TornBy(<<place, n>>)
    /\ accepted' = Withdrawn(n, place)
    /\ UNCHANGED <<temp, rows, second, downloads, crashes, inodes,
                   known>>

UploadStored(n, place) ==
    /\ pc' = "stored"
    /\ req' = [name |-> n, place |-> place]
    /\ replies' = <<>>

UploadStore(n, place, size, stored) ==
    /\ place = "low" => stored = size
    /\ WrittenOver(n, place, size, stored, TRUE)
    /\ UploadStored(n, place)

\* The close of the file cannot write what was kept back; nobody looks.
UploadStoreUnnoticed(n, place, size, stored) ==
    /\ stored < size
    /\ WrittenOver(n, place, size, stored, FALSE)
    /\ UploadStored(n, place)

\* compress or the opening of the file fails: nothing is changed.
UploadStoreFails ==
    /\ pc = "idle"
    /\ replies' = <<500>>
    /\ UNCHANGED <<files, temp, rows, pc, req, transfers, second,
                   uploads, downloads, crashes, inodes, known, accepted, stamps>>

\* Faulty variant of UploadStoreBreaksOff: the row is written before the file.
UploadStoreBreaksOffButRecords(n, place, size, stored) ==
    /\ mayUpload
    /\ stored < size
    /\ uploads' = uploads + 1
    /\ rows' = [rows EXCEPT ![n] = [place |-> place, size |-> size, mtime |-> second]]
    /\ replies' = <<500>>
    /\ UNCHANGED <<files, temp, pc, req, transfers, second, downloads,
                   crashes, inodes, known, accepted, stamps>>

\* The write fails, and is seen to, after the old contents are gone.
UploadStoreBreaksOff(n, place, size, stored) ==
    /\ stored < size
    /\ WrittenOver(n, place, size, stored, FALSE)
    /\ replies' = <<500>>
    /\ UNCHANGED <<pc, req>>

\* newStorageInfo looks at the file, insert replaces the row with its URL.
rowOf(n, place) ==
    [place |-> place, size |-> files[<<place, n>>].stored,
     mtime |-> files[<<place, n>>].mtime]

\* Faulty variant of insert: `insert or ignore`.
insertIfAbsent(n, row) == [rows EXCEPT ![n] = IF @ = None THEN row ELSE @]

insert(n, row) == [rows EXCEPT ![n] = row]

UploadRecord ==
    /\ pc = "stored"
    /\ rows' = insert(req.name, rowOf(req.name, req.place))
    /\ accepted' = [accepted EXCEPT ![req.name] = files[<<req.place, req.name>>].ver]
    /\ replies' = <<200>>
    /\ pc' = "idle"
    /\ req' = None
    /\ UNCHANGED <<files, temp, transfers, second, uploads, downloads,
                   crashes, inodes, known, stamps>>

\* insert fails, which nobody notices: "Success".
UploadRecordFails ==
    /\ pc = "stored"
    /\ replies' = <<200>>
    /\ pc' = "idle"
    /\ req' = None
    /\ UNCHANGED <<files, temp, rows, transfers, second, uploads,
                   downloads, crashes, inodes, known, accepted, stamps>>

-----------------------------------------------------------------------------
(* downLoad, up to the test whether there is a file to send                 *)

DownloadBegins(n, range, resume) ==
    /\ pc = "idle"
    /\ downloads < MaxDownloads
    /\ downloads' = downloads + 1
    /\ pc' = "found"
    /\ req' = [name |-> n, range |-> range, resume |-> resume]
    /\ replies' = <<>>
    /\ UNCHANGED <<files, rows, second, uploads, crashes, known,
                   accepted, stamps>>

\* The table cannot be read.
DownloadRefused ==
    /\ pc = "idle"
    /\ replies' = <<400>>
    /\ UNCHANGED <<files, temp, rows, pc, req, transfers, second,
                   uploads, downloads, crashes, inodes, known, accepted, stamps>>

\* The row, or None for a URL that is not in the table: a success, too.
getOneByURL(n) == rows[n]

isDeep(n) == getOneByURL(n) # None /\ getOneByURL(n).place = "deep"

\* Nothing is unpacked for a low file or an unknown URL, nor from a deep file
\* that is damaged or cannot be read.
\* What an earlier request left in the temporary directory stays there.
DownloadAsIs(n, range, resume) ==
    /\ DownloadBegins(n, range, resume)
    /\ UNCHANGED <<temp, transfers, inodes>>

\* uncompress writes `size` bytes: all, or fewer, for its result is ignored.
\* A temporary file that is there already is written over.
DownloadUnpacks(n, range, resume, size) ==
    LET f     == files[<<"deep", n>>]
        inode == IF temp[n] = None THEN inodes + 1 ELSE temp[n].inode
    IN  /\ DownloadBegins(n, range, resume)
        /\ isDeep(n) /\ f.whole
        /\ size <= f.size
        /\ temp' = [temp EXCEPT ![n] = [inode |-> inode, ver |-> f.ver, size |-> size]]
        /\ inodes' = IF temp[n] = None THEN inodes + 1 ELSE inodes
        /\ transfers' = TornBy(<<"temp", inode>>)

-----------------------------------------------------------------------------
(* downLoad: the answer                                                     *)

\* What is at download_path: [ver, size, source] or None.
served(n) ==
    IF getOneByURL(n) = None
      THEN None
      ELSE IF isDeep(n)
        THEN IF temp[n] = None
               THEN None
               ELSE [ver |-> temp[n].ver, size |-> temp[n].size,
                     source |-> <<"temp", temp[n].inode>>]
        ELSE [ver |-> files[<<"low", n>>].ver, size |-> files[<<"low", n>>].stored,
              source |-> <<"low", n>>]

\* The ETag is made of the row, not of the file.
getEtag(n) ==
    [name |-> n, size |-> getOneByURL(n).size, mtime |-> getOneByURL(n).mtime]

\* Faulty variant of isRangeRequest: If-Range is not looked at.
isRangeRequestUnconditionally(r) == r.range # None

isRangeRequest(r) ==
    r.range # None /\ (r.resume = None \/ r.resume.etag = getEtag(r.name))

range_start(r) == IF isRangeRequest(r) THEN r.range.first ELSE 0

\* Faulty variant of range_end: what is asked beyond the end is not cut off.
range_endUnclamped(r, file_size) ==
    IF isRangeRequest(r) /\ r.range.last \notin {None, 0}
      THEN r.range.last
      ELSE file_size - 1

range_end(r, file_size) ==
    IF isRangeRequest(r) /\ r.range.last \notin {None, 0} /\ r.range.last < file_size
      THEN r.range.last
      ELSE file_size - 1

content_length(r, file_size) ==
    (range_end(r, file_size) - range_start(r) + 1) % 2^SizeBits

\* Faulty variant of unsatisfiable: `>` for `>=`.
unsatisfiableBeyondEnd(r, file_size) == range_start(r) > file_size

unsatisfiable(r, file_size) == range_start(r) >= file_size

\* The ends of a range, when both are given, are in order.
InOrder(range) == range.last = None \/ range.first <= range.last

DownloadEnds(answer) ==
    /\ pc = "found"
    /\ pc' = "idle"
    /\ req' = None
    /\ replies' = answer
    /\ UNCHANGED <<files, rows, second, uploads, downloads, crashes,
                   inodes, accepted, stamps>>

\* The request is refused and then handled all the same, until open fails.
DownloadMissing ==
    /\ pc = "found" /\ served(req.name) = None
    /\ DownloadEnds(<<400, 500>>)
    /\ UNCHANGED <<temp, transfers, known>>

DownloadUnsatisfiable ==
    /\ pc = "found" /\ served(req.name) # None
    /\ unsatisfiable(req, served(req.name).size)
    /\ DownloadEnds(<<416>>)
    /\ UNCHANGED <<temp, transfers, known>>

\* open fails, or evbuffer_add_file.
DownloadFails ==
    /\ pc = "found" /\ served(req.name) # None
    /\ ~unsatisfiable(req, served(req.name).size)
    /\ DownloadEnds(<<500>>)
    /\ UNCHANGED <<temp, transfers, known>>

\* Faulty variant of clearTemp: the temporary file stays.
clearTempNever(n) == temp

\* fs::remove takes the name; what is being sent from the file is not touched.
clearTemp(n) == [temp EXCEPT ![n] = None]

DownloadSends ==
    /\ pc = "found" /\ served(req.name) # None
    /\ LET s == served(req.name)
           n == req.name
       IN  /\ ~unsatisfiable(req, s.size)
           /\ DownloadEnds(<<IF isRangeRequest(req) THEN 206 ELSE 200>>)
           /\ transfers' = transfers \cup
                 {[id |-> downloads, source |-> s.source, ver |-> s.ver,
                   size |-> s.size, from |-> range_start(req),
                   len |-> content_length(req, s.size), torn |-> FALSE,
                   recorded |-> s.ver = accepted[n],
                   part |-> isRangeRequest(req) /\ InOrder(req.range),
                   resume |-> IF isRangeRequest(req) THEN req.resume ELSE None]}
           /\ known' = known \cup {[etag |-> getEtag(n), ver |-> s.ver,
                                   recorded |-> s.ver = accepted[n]]}
           /\ temp' = IF isDeep(n) THEN clearTemp(n) ELSE temp

-----------------------------------------------------------------------------
(* The rest of the service, and the world around it                         *)

\* listShow: getAll, the page; both may fail, neither changes anything.
ListShow ==
    /\ pc = "idle"
    /\ \E answer \in {200, 500} : replies' = <<answer>>
    /\ UNCHANGED <<files, temp, rows, pc, req, transfers, second,
                   uploads, downloads, crashes, inodes, known, accepted, stamps>>

\* A path that is none of the three.
NotFound ==
    /\ pc = "idle"
    /\ replies' = <<404>>
    /\ UNCHANGED <<files, temp, rows, pc, req, transfers, second,
                   uploads, downloads, crashes, inodes, known, accepted, stamps>>

Sent(t) ==
    /\ pc = "idle"
    /\ transfers' = transfers \ {t}
    /\ UNCHANGED <<files, temp, rows, pc, req, replies, second,
                   uploads, downloads, crashes, inodes, known, accepted, stamps>>

Tick ==
    /\ second < MaxSecond
    /\ second' = second + 1
    /\ UNCHANGED <<files, temp, rows, pc, req, replies, transfers,
                   uploads, downloads, crashes, inodes, known, accepted, stamps>>

\* Also by what a handler throws: a range or a URL that cannot be parsed, a
\* header that is missing.
ProcessEnds ==
    /\ pc # "down" /\ crashes < MaxCrashes
    /\ pc' = "down"
    /\ req' = None
    /\ transfers' = {}
    /\ crashes' = crashes + 1
    /\ UNCHANGED <<files, temp, rows, replies, second, uploads,
                   downloads, inodes, known, accepted, stamps>>

\* Nothing is cleaned up at the start of the service.
Restart ==
    /\ pc = "down"
    /\ pc' = "idle"
    /\ UNCHANGED <<files, temp, rows, req, replies, transfers, second,
                   uploads, downloads, crashes, inodes, known, accepted, stamps>>

UploadNext ==
    \/ UploadRefused
    \/ \E n \in Names, place \in Places, size, stored \in Sizes :
          UploadStore(n, place, size, stored)
    \/ \E n \in Names, place \in Places, size \in Sizes, stored \in {0, 1} :
          \/ UploadStoreBreaksOff(n, place, size, stored)
          \/ UploadStoreUnnoticed(n, place, size, stored)
    \/ UploadStoreFails
    \/ UploadRecord \/ UploadRecordFails

\* A client resumes what it has part of, or asks for the first time.
DownloadNext ==
    \/ \E n \in Names, range \in Ranges :
          \E resume \in {k \in known : k.etag.name = n} \cup {None} :
             \/ DownloadAsIs(n, range, resume)
             \/ \E size \in Sizes \cup {0} : DownloadUnpacks(n, range, resume, size)
    \/ DownloadRefused \/ DownloadMissing \/ DownloadUnsatisfiable
    \/ DownloadFails \/ DownloadSends

Next ==
    \/ UploadNext \/ DownloadNext \/ ListShow \/ NotFound
    \/ \E t \in transfers : Sent(t)
    \/ Tick \/ ProcessEnds \/ Restart

Spec == Init /\ [][Next]_vars

-----------------------------------------------------------------------------

\* Where a body comes from, which version it is, whether its file was written over
\* meanwhile, whether it was the upload of its name that was recorded last, and
\* whether it is a part that was asked for with its ends in order.
Transfer ==
    [id : 1..MaxDownloads,
     source : {<<"low", n>> : n \in Names} \cup {<<"temp", i>> : i \in 1..MaxDownloads},
     ver : 1..MaxUploads, size : Sizes \cup {0, 1},
     from : Sizes \cup {0}, len : 0..(2^SizeBits - 1), torn : BOOLEAN,
     recorded : BOOLEAN, part : BOOLEAN, resume : Known \cup {None}]

\* Types; a handler has a request in hand exactly while it is at work; and no
\* body begins at or beyond the end of its file.
TypeOK ==
    /\ files \in [Places \X Names -> File \cup {None}]
    /\ temp \in [Names -> Unpacked \cup {None}]
    /\ rows \in [Names -> Row \cup {None}]
    /\ pc \in {"idle", "stored", "found", "down"}
    /\ req \in Upload \cup Download \cup {None}
    /\ pc \in {"stored", "found"} <=> req # None
    /\ replies \in {<<>>, <<400, 500>>}
                      \cup {<<a>> : a \in {200, 206, 400, 404, 416, 500}}
    /\ transfers \subseteq Transfer
    /\ \A t \in transfers : t.from < t.size
    /\ second \in 1..MaxSecond /\ uploads \in 0..MaxUploads
    /\ downloads \in 0..MaxDownloads /\ crashes \in 0..MaxCrashes
    /\ inodes \in 0..downloads
    /\ known \subseteq Known
    /\ accepted \in [Names -> 0..MaxUploads]
    /\ stamps \in [1..MaxUploads -> [size : Sizes \cup {0, 1}, mtime : 0..MaxSecond]]

\* Whatever fails, every row of the list leads to a file that exists and is no
\* older than the row: first the file, then the row.  The file may be damaged,
\* or written over since; a damaged deep one is answered as an unknown URL is.
RowHasFile ==
    \A n \in Names : rows[n] # None =>
        /\ files[<<rows[n].place, n>>] # None
        /\ rows[n].mtime <= files[<<rows[n].place, n>>].mtime

\* What is being sent of a deep file is never written over: each download has
\* unpacked into a file of its own, also when earlier ones failed and left
\* theirs behind (the early returns of downLoad against fs::remove).
DeepTransfersIntact ==
    \A t \in transfers : t.source[1] = "temp" => ~t.torn

\* The row of a URL leads to the file of the upload of its name that was recorded
\* last, for as long as nobody writes over that file: not even a later upload
\* into the other place does harm that fails, or that the process does not live
\* to record.  (What is sent may still be an older temporary file, when the file
\* cannot be unpacked.)
UrlServesLatest ==
    \A n \in Names : accepted[n] # 0 =>
        /\ rows[n] # None
        /\ files[<<rows[n].place, n>>] # None
        /\ files[<<rows[n].place, n>>].ver = accepted[n]

\* "The file has changed: ignore the range, send the whole file" (comment on
\* If-Range): a client that resumes is given the upload it began with, or one
\* whose file has the same size and the same second, which the ETag cannot tell
\* from it.  Left out, since the code does not keep it, are a client that was or
\* is sent something other than the upload recorded last (the row of a file that
\* was written over without being recorded; a temporary file left by an earlier
\* request), and a low file that is written over while it is sent.
ResumeIsSameVersion ==
    \A t \in transfers :
        t.resume # None /\ t.resume.recorded /\ t.recorded /\ ~t.torn =>
            t.ver = t.resume.ver \/ stamps[t.ver] = stamps[t.resume.ver]

\* A part that was asked for with its ends in order lies within the file.
PartEndsInFile ==
    \A t \in transfers :
        t.part => t.len > 0 /\ t.from + t.len <= t.size

\* "Verify that the range is legal" (comment in downLoad): what is sent is
\* neither empty nor longer than the file.
RangeIsLegal == \A t \in transfers : t.len \in 1..t.size

\* "Getting it by its URL should fail" (comment in test_DataManager.h): a URL
\* that is not in the table is refused, and that is all.
UnknownUrlIsRefused == Len(replies) <= 1

=============================================================================
