------------------------------ MODULE LogFlush ------------------------------
(***************************************************************************)
(* asynclog::FileFlush and asynclog::RollFileFlush (LogFlush.hpp): the sink *)
(* that writes one file, and the one that starts a new file when the       *)
(* current one is large enough, on stdio and the operating system.  One    *)
(* thread calls flush; what is hard about it lies below: fwrite may write  *)
(* less than asked or fail, fopen, fclose, fflush and fsync may fail, the  *)
(* process may end, the machine may stop.                                  *)
(*                                                                         *)
(* A byte is <<batch, index>>: the index-th byte of the batch-th flush.  A *)
(* file keeps the bytes given to fwrite and how many of them have reached  *)
(* the kernel (`cached`) and the disk (`synced`).                          *)
(***************************************************************************)
EXTENDS Integers, Sequences, FiniteSets

CONSTANTS
    max_size_,      \* where a file is large enough
    NoFile,         \* file_ = NULL
    MaxLen,         \* bound: the longest batch
    MaxBatches,     \* bound: calls of flush, over all runs of the process
    MaxSecond,      \* bound: the clock, which file names show in seconds
    MaxCrashes      \* bound: ends of the process

\* The file of a FileFlush.
file_path_ == <<0, 0>>

\* LOG_<time to the second>-<cnt_>.log, and file_path_.
Names == {file_path_} \cup (0..MaxSecond) \X (1..MaxBatches)

ASSUME SinkAssumption ==
    /\ max_size_ \in Nat
    /\ MaxLen \in Nat /\ MaxBatches \in Nat
    /\ MaxSecond \in Nat /\ MaxCrashes \in Nat
    /\ NoFile \notin Names

VARIABLES
    rolls,      \* which of the two: TRUE for RollFileFlush
    flush_log_, \* configured: 0: leave it to stdio, 1: fflush, 2: and fsync
    cnt_,       \* number of the next file (RollFileFlush)
    cur_cnt_,   \* what has been counted into the current file (RollFileFlush)
    file_,      \* the open file's name, or NoFile
    pc,         \* where the caller is in flush; "dead" when there is no process
    batch,      \* [id, len, written] of the current or the last flush
    files,      \* the log directory: name -> contents
    second,     \* the clock
    crashes,
    opened,     \* (history) name -> [times, uncounted]: how often a RollFileFlush
                \* opened the file; the bytes in it of batches cut off by an error
    durable     \* (history) [id, len] of the batches whose flush went through

vars == <<rolls, flush_log_, cnt_, cur_cnt_, file_, pc, batch, files, second,
          crashes, opened, durable>>

NewFile == [bytes |-> <<>>, cached |-> 0, synced |-> 0]

\* What the constructor leaves in file_: RollFileFlush opens nothing yet, and
\* when FileFlush cannot open its file, it says so and goes on.
OpenedFirst == IF rolls THEN {NoFile} ELSE {file_path_, NoFile}

Init ==
    /\ rolls \in BOOLEAN
    /\ flush_log_ \in 0..2
    /\ cnt_ = 1
    /\ cur_cnt_ = 0
    /\ file_ \in OpenedFirst
    /\ pc = "idle"
    /\ batch = [id |-> 0, len |-> 0, written |-> 0]
    /\ files = [n \in Names |-> NewFile]
    /\ second = 0
    /\ crashes = 0
    /\ opened = [n \in Names |-> [times |-> 0, uncounted |-> 0]]
    /\ durable = {}

\* What fclose, whose result nobody looks at, may leave of a file: all of it,
\* or no more than had reached the kernel.
Closed(f) ==
    { [f EXCEPT !.cached = Len(f.bytes)],
      [f EXCEPT !.bytes = SubSeq(f.bytes, 1, f.cached)] }

-----------------------------------------------------------------------------
(* flush, up to the first fwrite: initLogFile and createFileName            *)

NewBatch(len) == batch' = [id |-> batch.id + 1, len |-> len, written |-> 0]

\* Faulty variant of mustRoll: a new file for each batch but the first.
mustRollOnce == rolls /\ file_ = NoFile

mustRoll == rolls /\ (file_ = NoFile \/ cur_cnt_ > max_size_)

\* The files after the fclose that initLogFile begins with.
FilesAfterClose(after) ==
    IF file_ = NoFile
      THEN after = files
      ELSE \E f \in Closed(files[file_]) : after = [files EXCEPT ![file_] = f]

FlushIntoCurrent(len) ==
    /\ pc = "idle"
    /\ batch.id < MaxBatches
    /\ ~mustRoll /\ file_ # NoFile
    /\ NewBatch(len)
    /\ pc' = "write"
    /\ UNCHANGED <<rolls, flush_log_, cnt_, cur_cnt_, file_, files, second,
                   crashes, opened, durable>>

\* A FileFlush without a file: nothing to write, and fflush(NULL), go well;
\* fwrite and fileno end the process.
FlushWithoutFile(len) ==
    /\ pc = "idle"
    /\ batch.id < MaxBatches
    /\ ~rolls /\ file_ = NoFile
    /\ NewBatch(len)
    /\ IF len = 0 /\ flush_log_ # 2
         THEN UNCHANGED <<pc, crashes>>
         ELSE /\ crashes < MaxCrashes
              /\ crashes' = crashes + 1
              /\ pc' = "dead"
    /\ UNCHANGED <<rolls, flush_log_, cnt_, cur_cnt_, file_, files, second,
                   opened, durable>>

\* fopen(.., "ab"): a file of that name is continued, not replaced.
FlushIntoNewFile(len) ==
    /\ pc = "idle"
    /\ batch.id < MaxBatches
    /\ mustRoll
    /\ NewBatch(len)
    /\ FilesAfterClose(files')
    /\ file_' = <<second, cnt_>>
    /\ cnt_' = cnt_ + 1
    /\ cur_cnt_' = 0
    /\ opened' = [opened EXCEPT ![<<second, cnt_>>].times = @ + 1]
    /\ pc' = "write"
    /\ UNCHANGED <<rolls, flush_log_, second, crashes, durable>>

\* Faulty variant of OpenFails: the failure goes unnoticed.
OpenFailsUnnoticed(len) ==
    /\ pc = "idle"
    /\ batch.id < MaxBatches
    /\ mustRoll
    /\ NewBatch(len)
    /\ FilesAfterClose(files')
    /\ pc' = "write"
    /\ cnt_' = cnt_ + 1
    /\ file_' = NoFile
    /\ UNCHANGED <<rolls, flush_log_, cur_cnt_, second, crashes, opened,
                   durable>>

\* fopen fails: runtime_error leaves the background thread, which ends the
\* process.
OpenFails(len) ==
    /\ pc = "idle"
    /\ batch.id < MaxBatches
    /\ crashes < MaxCrashes
    /\ mustRoll
    /\ NewBatch(len)
    /\ FilesAfterClose(files')
    /\ pc' = "dead"
    /\ crashes' = crashes + 1
    /\ cnt_' = cnt_ + 1
    /\ file_' = NoFile
    /\ UNCHANGED <<rolls, flush_log_, cur_cnt_, second, opened, durable>>

-----------------------------------------------------------------------------
(* flush: the loop of fwrite                                                *)

remaining == batch.len - batch.written

NextBytes(from, n) == [i \in 1..n |-> <<batch.id, from + i>>]

\* Faulty variant of Written: data_ptr stays where it was.
WrittenAgain(n) ==
    [files EXCEPT ![file_].bytes = @ \o NextBytes(0, n)]

Written(n) ==
    [files EXCEPT ![file_].bytes = @ \o NextBytes(batch.written, n)]

\* fwrite takes n of the remaining bytes.
Write(n) ==
    /\ pc = "write"
    /\ n <= remaining
    /\ files' = Written(n)
    /\ batch' = [batch EXCEPT !.written = @ + n]
    /\ UNCHANGED <<rolls, flush_log_, cnt_, cur_cnt_, file_, pc, second,
                   crashes, opened, durable>>

\* fwrite takes nothing and ferror is set: the caller gives the batch up, and
\* what it wrote of it is not counted.
WriteFails ==
    /\ pc = "write"
    /\ remaining > 0
    /\ pc' = "idle"
    /\ opened' = [opened EXCEPT ![file_].uncounted = @ + batch.written]
    /\ UNCHANGED <<rolls, flush_log_, cnt_, cur_cnt_, file_, batch, files,
                   second, crashes, durable>>

\* Faulty variant of WriteEnds: the batch is not counted.
WriteEndsUncounted ==
    /\ pc = "write"
    /\ pc' = IF flush_log_ = 0 THEN "idle" ELSE "fflush"
    /\ UNCHANGED <<rolls, flush_log_, cnt_, cur_cnt_, file_, batch, files,
                   second, crashes, opened, durable>>

\* Nothing remains, or fwrite takes nothing without an error: the whole length
\* is counted either way.
WriteEnds ==
    /\ pc = "write"
    /\ cur_cnt_' = IF rolls THEN cur_cnt_ + batch.len ELSE cur_cnt_
    /\ pc' = IF flush_log_ = 0 THEN "idle" ELSE "fflush"
    /\ UNCHANGED <<rolls, flush_log_, cnt_, file_, batch, files, second,
                   crashes, opened, durable>>

-----------------------------------------------------------------------------
(* flush: fflush and fsync                                                  *)

\* The flush has gone through with nothing left behind.
Through ==
    durable' = IF remaining = 0
                 THEN durable \cup {[id |-> batch.id, len |-> batch.len]}
                 ELSE durable

\* Faulty variant of FFlush: fflush is reported without having been called.
FFlushSkipped ==
    /\ pc = "fflush"
    /\ IF flush_log_ = 2
         THEN pc' = "fsync" /\ UNCHANGED durable
         ELSE pc' = "idle" /\ Through
    /\ UNCHANGED <<rolls, flush_log_, cnt_, cur_cnt_, file_, batch, files,
                   second, crashes, opened>>

FFlush ==
    /\ pc = "fflush"
    /\ files' = [files EXCEPT ![file_].cached = Len(files[file_].bytes)]
    /\ IF flush_log_ = 2
         THEN pc' = "fsync" /\ UNCHANGED durable
         ELSE pc' = "idle" /\ Through
    /\ UNCHANGED <<rolls, flush_log_, cnt_, cur_cnt_, file_, batch, second,
                   crashes, opened>>

FFlushFails ==
    /\ pc = "fflush"
    /\ pc' = "idle"
    /\ UNCHANGED <<rolls, flush_log_, cnt_, cur_cnt_, file_, batch, files,
                   second, crashes, opened, durable>>

\* Faulty variant of FSync: fsync is reported without having been called.
FSyncSkipped ==
    /\ pc = "fsync"
    /\ pc' = "idle"
    /\ Through
    /\ UNCHANGED <<rolls, flush_log_, cnt_, cur_cnt_, file_, batch, files,
                   second, crashes, opened>>

FSync ==
    /\ pc = "fsync"
    /\ files' = [files EXCEPT ![file_].synced = files[file_].cached]
    /\ pc' = "idle"
    /\ Through
    /\ UNCHANGED <<rolls, flush_log_, cnt_, cur_cnt_, file_, batch, second,
                   crashes, opened>>

FSyncFails ==
    /\ pc = "fsync"
    /\ pc' = "idle"
    /\ UNCHANGED <<rolls, flush_log_, cnt_, cur_cnt_, file_, batch, files,
                   second, crashes, opened, durable>>

-----------------------------------------------------------------------------
(* What happens below and around the sink                                   *)

\* stdio hands its buffer to the kernel when it likes to.
Spill ==
    /\ file_ # NoFile
    /\ files' = [files EXCEPT ![file_].cached = Len(files[file_].bytes)]
    /\ UNCHANGED <<rolls, flush_log_, cnt_, cur_cnt_, file_, pc, batch, second,
                   crashes, opened, durable>>

\* The kernel writes a file back when it likes to.
WriteBack(n) ==
    /\ files' = [files EXCEPT ![n].synced = files[n].cached]
    /\ UNCHANGED <<rolls, flush_log_, cnt_, cur_cnt_, file_, pc, batch, second,
                   crashes, opened, durable>>

Tick ==
    /\ second < MaxSecond
    /\ second' = second + 1
    /\ UNCHANGED <<rolls, flush_log_, cnt_, cur_cnt_, file_, pc, batch, files,
                   crashes, opened, durable>>

\* The destructor, at an orderly end of the process.
SinkDestroyed ==
    /\ pc = "idle" /\ crashes < MaxCrashes
    /\ FilesAfterClose(files')
    /\ pc' = "dead"
    /\ file_' = NoFile
    /\ crashes' = crashes + 1
    /\ UNCHANGED <<rolls, flush_log_, cnt_, cur_cnt_, batch, second, opened,
                   durable>>

\* What is left of the files when only what reached `level` is safe.
Survivors(level) ==
    [n \in Names |->
        LET k == files[n][level]
        IN  [bytes  |-> SubSeq(files[n].bytes, 1, k),
             cached |-> k,
             synced |-> IF files[n].synced < k THEN files[n].synced ELSE k]]

\* The process is killed: what stdio still held is gone.
ProcessEnds ==
    /\ pc # "dead" /\ crashes < MaxCrashes
    /\ files' = Survivors("cached")
    /\ pc' = "dead"
    /\ file_' = NoFile
    /\ crashes' = crashes + 1
    /\ UNCHANGED <<rolls, flush_log_, cnt_, cur_cnt_, batch, second, opened,
                   durable>>

\* The machine stops: what the kernel still held is gone, and flush_log_ = 1
\* promised nothing for that.
MachineStops ==
    /\ pc # "dead" /\ crashes < MaxCrashes
    /\ files' = Survivors("synced")
    /\ pc' = "dead"
    /\ file_' = NoFile
    /\ crashes' = crashes + 1
    /\ durable' = IF flush_log_ = 2 THEN durable ELSE {}
    /\ UNCHANGED <<rolls, flush_log_, cnt_, cur_cnt_, batch, second, opened>>

\* A new process, a new sink: numbers start at 1 again, FileFlush opens its file
\* for appending.
Restart ==
    /\ pc = "dead"
    /\ pc' = "idle"
    /\ cnt_' = 1
    /\ cur_cnt_' = 0
    /\ file_' \in OpenedFirst
    /\ UNCHANGED <<rolls, flush_log_, batch, files, second, crashes, opened,
                   durable>>

Next ==
    \/ \E len \in 0..MaxLen :
          \/ FlushIntoCurrent(len) \/ FlushWithoutFile(len)
          \/ FlushIntoNewFile(len) \/ OpenFails(len)
    \/ \E n \in 1..MaxLen : Write(n)
    \/ WriteFails \/ WriteEnds
    \/ FFlush \/ FFlushFails \/ FSync \/ FSyncFails
    \/ Spill \/ (\E n \in Names : WriteBack(n)) \/ Tick
    \/ SinkDestroyed \/ ProcessEnds \/ MachineStops \/ Restart

Spec == Init /\ [][Next]_vars

-----------------------------------------------------------------------------

\* Types, and: what is written goes to an open file; stdio, kernel and disk each
\* hold a prefix of what the one above holds.
TypeOK ==
    /\ rolls \in BOOLEAN
    /\ flush_log_ \in 0..2
    /\ cnt_ \in 1..(MaxBatches + 1)
    /\ cur_cnt_ \in Nat
    /\ file_ \in Names \cup {NoFile}
    /\ pc \in {"idle", "write", "fflush", "fsync", "dead"}
    /\ pc \in {"write", "fflush", "fsync"} => file_ # NoFile
    /\ batch \in [id : 0..MaxBatches, len : 0..MaxLen, written : 0..MaxLen]
    /\ batch.written <= batch.len
    /\ files \in [Names -> [bytes : Seq((1..MaxBatches) \X (1..MaxLen)),
                            cached : Nat, synced : Nat]]
    /\ \A n \in Names :
          /\ files[n].synced <= files[n].cached
          /\ files[n].cached <= Len(files[n].bytes)
    /\ second \in 0..MaxSecond /\ crashes \in 0..MaxCrashes
    /\ opened \in [Names -> [times : Nat, uncounted : Nat]]
    /\ durable \subseteq [id : 1..MaxBatches, len : 0..MaxLen]

\* flush_log_ keeps its word: a batch whose flush went through is whole, in one
\* file, and survives the end of the process (1) or of the machine (2), through
\* rolling, restarts and files whose name comes up a second time.
FlushedSurvives ==
    \A b \in durable : \E n \in Names :
        LET safe == IF flush_log_ = 2 THEN files[n].synced ELSE files[n].cached
        IN  \A i \in 1..b.len : \E j \in 1..safe : files[n].bytes[j] = <<b.id, i>>

\* No file holds a byte twice or out of order, however often fwrite stopped
\* short and whatever was cut off before.
BytesInOrder ==
    \A n \in Names : \A i, j \in 1..Len(files[n].bytes) :
        LET a == files[n].bytes[i]
            b == files[n].bytes[j]
        IN  i < j => a[1] < b[1] \/ (a[1] = b[1] /\ a[2] < b[2])

\* What max_size_ bounds: each time RollFileFlush opens a file, it puts into it
\* max_size_ and one flush at most.  A process opens a file once; one that starts
\* within the second of the last continues its files from their old end, and
\* counts from 0 again.  What is left of batches cut off by an error comes on
\* top, since nobody counts it.
OverrunIsOneBatch ==
    rolls => \A n \in Names :
        /\ opened[n].times <= crashes + 1
        /\ Len(files[n].bytes)
              <= opened[n].times * (max_size_ + MaxLen) + opened[n].uncounted

=============================================================================
