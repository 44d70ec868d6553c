# A specification of AsynLogSystem and its cloud storage

This directory holds TLA+ modules for the code in `src/`: an asynchronous
logging library (`src/log_system/src`) and a small HTTP file store that uses it
(`src/src/server`). The modules are checked with TLC on small instances, and the
ones in `*Proofs.tla` are proved with TLAPS for every value of the constants.
`PROJECT.json` lists runs, mutants, theorems, findings and hazards, and maps each
definition to the lines it models.

    tlc -workers 2 -config MCAsyncWorker.cfg MCAsyncWorker.tla
    tlapm AsyncWorkerProofs.tla

## 1. Inventory

| component | code | state | operations | used by / uses |
|---|---|---|---|---|
| `Buffer` | `AsyncBuffer.hpp` | byte vector, `write_pos_`, `read_pos_` | `push`, `makeSpace`, `moveReadPos`, `moveWritePos`, `reset`, `swap` | two of them in an `AsyncWorker` |
| `AsyncWorker` | `AsyncWorker.hpp` | two buffers, `mtx_`, atomic `started`, a condition variable, one thread | `push`, `start`, `stop`, destructor, `ThreadEntry` | owned by `AsyncLogger`, calls its `realFlush` |
| `ThreadPool` | `ThreadPool.hpp` | bounded task queue, `mtx_`, atomic `started_`, `cv_`, threads | `enqueue`, `stop`, destructor, worker loop | shared between loggers, for backups |
| sinks | `LogFlush.hpp` | `FileFlush`, `RollFileFlush`: the open file, its counted size, the next file's number; `StdOutFlush`: nothing | constructors, `flush`, `initLogFile` | called by `realFlush`, by one thread |
| `AsyncLogger` | `AsyncLogger.hpp` | the sinks, a worker, a shared pool | `debug` … `fatal`, `serialize`, `flush`, `realFlush`, destructor | called by any thread |
| `Manager` | `Manager.hpp` | the singleton, a map of loggers, `mtx_`, the default logger | `getInstance`, `addLogger`, `exist`, `getLogger`, `getDefaultLogger` | any thread; shares loggers with callers |
| `AsyncLoggerBuilder` | `AsyncLogger.hpp` | a logger's sinks and settings | `addLogFlush`, `build` | one thread, before `addLogger` |
| log folders, log configuration | `log_system/src/Util.hpp` | the file system; one JSON file | `createDirectory`, `loadConfig` | sinks' constructors; `Manager` and the program |
| `Service` | `Service.hpp` | directories, libevent's loop | `upload`, `downLoad`, `listShow` | one thread; uses `DataManager` and `FileUtil` |
| `DataManager` | `DataManager.hpp` | one SQLite table, a reader-writer lock | `insert`, `update`, `deleteByURL`, `getOneByURL`, `getOneByStoragePath`, `getAll` | called by `Service`; made for threads |
| `FileUtil` | `Util.hpp` | the file system | `setContent`, `compress`, `uncompress` … | called by `Service` |
| names and URLs | `base64.cpp`, `server/Util.hpp`, `Service.hpp` | none: a name on its way | `base64_encode`, `base64_decode`, `urlDecode`, `generateModernFileList` | upload's header, page, download's path |
| message format, levels, macros, `Config`, `main` | the rest | none to speak of | | |

Where they meet: a caller formats a message, hands it to the pool when it is an
error (a backup, now a stub) and then to `AsyncWorker::push`; the background
thread swaps the two buffers under `mtx_` and gives the full one, without
`mtx_`, to every sink in turn. The store's handlers run one after the other on
libevent's thread, but a reply's body is read from its file long after the
handler has returned.

What is hard here, and what has to hold:

* `Buffer`: compaction, doubling and linear growth must not lose or reorder a
  byte, nor grow sooner or further than intended.
* `AsyncWorker`: `push` notifies after its unlock, `stop` writes `started`
  without the mutex, and the exit test races producers that are already inside
  `push`. Accepted messages must be delivered once and in order; nothing may be
  left behind at the end; the thread must wake and must end; `LIMIT_SIZE` must
  bound memory although two buffers change places.
* `ThreadPool`: the same, with several sleepers, one `notify_one` per task and no
  deadline on the sleep.
* Sinks: short writes, errors in the middle of a batch, the end of process or
  machine between `fwrite`, `fflush` and `fsync`, file names that come up again
  after a restart, a file that was never opened.
* `AsyncLogger`: a sink that fails must not harm the others; members are
  destroyed while the background thread may still use them.
* `Manager`: loggers are looked up, replaced and let go by different threads; the
  last one to let go destroys, which means draining and joining, possibly with
  `mtx_` in its hands. Two sinks make the same folders at the same time.
* The store: file and row are two writes and either may fail; ETag and Range
  arithmetic; files written over while they are being sent; temporary files and
  early returns.
* `DataManager`: rows are fetched one by one while others write; one insert may
  replace two rows; a statement fails, the process ends.
* Names: five conversions between an upload's header and a download's path, each
  with its own idea of which bytes are special.

## 2. Modules

| module | what it is |
|---|---|
| `BufferGrowth` | the arithmetic of `makeSpace` and `ensureEnoughSpace`, as pure operators on `[size, write_pos_, read_pos_]` |
| `Buffer` | `Buffer` byte by byte; one action per mutating operation. Implements `ByteQueue` |
| `ByteQueue` | abstract: a FIFO queue of bytes |
| `AsyncWorker` | `AsyncWorker` at the granularity of mutex, atomic and condition variable; its buffers have `BufferGrowth`'s numbers and keep messages for bytes. Implements `LogChannel` |
| `LogChannel` | abstract: accepts messages until it is closed, delivers prefixes of what it holds, closes empty |
| `ThreadPool` | `ThreadPool` at the same granularity. Implements `TaskPool` |
| `TaskPool` | abstract: a bounded FIFO of tasks, each begun and finished once; closes when idle |
| `LogFlush` | the sinks that write files, `FileFlush` and `RollFileFlush`, over stdio, kernel and disk |
| `AsyncLogger` | composition: callers, a `LogChannel`, a `TaskPool`, sinks, the owner |
| `LogFolder` | `createDirectory`, by several threads |
| `Manager` | `Manager`, the builder, the log configuration, what callers hold. Extends `LogFolder` |
| `StorageService` | `Service`, `DataManager`'s table, `FileUtil`'s files, libevent's sending |
| `DataManager` | `DataManager`: its lock, its statements step by step. Implements `TableStore` |
| `TableStore` | abstract: a table of stored files whose requests take effect at one moment or not at all |
| `Base64` | the loops of `base64_encode` and `decode` |
| `FileNames` | the way of a name from upload to link and back. Extends `Base64` |
| `MC*.tla` | the instances TLC checks, with inputs and symmetry sets |
| `*Proofs.tla` | theorems |

`AsyncLogger` composes the abstract channel and pool, so the refinements of
`AsyncWorker` and `ThreadPool` are what connects it to the threads below. In the
same way a logger of `Manager` is what `AsyncLogger` shows of one: it takes
messages, writes them some time, and its destructor returns when all are written
(`AcceptedIsDelivered`, `StopEndsThread`, `SinksOutliveWorker`). `StorageService`
has one thread, so a call to `DataManager` is one step there; what it does
when threads share it is `DataManager`'s own run.

### How state and actions correspond to the code

*AsyncWorker, ThreadPool.* A step is what a thread does between two points where
another can get in: taking or releasing the mutex, an access to the atomic flag,
a notification. `std::condition_variable` is external: going to sleep releases
the mutex atomically, `notify_one` wakes some sleeper or nobody, sleepers may
wake spuriously, `wait_for` may time out at any time. `push` is `PushEnter` (lock,
test of `started`), `PushRefused` or `PushAppend` (test of the limit, copy,
`needSwap`, unlock), `PushNotify`. `ThreadEntry` is `WorkerLock` (lock and
predicate), `WorkerSleep`, `WorkerTimeout` and `WorkerRelock`, `WorkerExit` or
`WorkerSwap`, `WorkerFlush`. `stop` is the store and then the notification
(`Stop`, `StopNotify`). The destructors are called when no call is in flight: in
C++ anything else is undefined.

*Buffer.* `MadeRoom` is where each byte of the new vector comes from; only the
compaction that precedes growth moves bytes. `size_t` is unbounded, with
`MaxBytes` bounding what a buffer is asked to hold: real sizes are far below
2^64. `ConfigAssumption` excludes `buffer_size_ = 0` (the doubling loop would
never end) and `linear_growth_ = 0` (division by zero): the configuration that is
shipped sets both, and nothing in the code checks them.

*LogFlush.* `rolls` tells which of the two sinks it is. A byte is
`<<batch, index>>`. Per file, `bytes` is what stdio was given, `cached` how much of
it the kernel has, `synced` how much the disk has. `flush` is `FlushIntoCurrent`,
`FlushIntoNewFile` or `OpenFails` (and `FlushWithoutFile` for a `FileFlush` whose
file could not be opened), then `Write`s (short or not), `WriteFails` or
`WriteEnds`, then `FFlush` and `FSync` or their failures. `fopen(.., "ab")`
continues a file whose name comes up again. The name is kept as (second, number).
`opened` counts for each name how often it was opened, and what is in the file of
batches that an error cut off, which `cur_cnt_` leaves out.

*AsyncLogger.* `Log` is one of the five level methods, `Backup` and `Flush` the two
halves of `serialize`, `FlushBegins` and `FlushSink` the loop of `realFlush`; a
sink may lose the rest of a batch (`FlushSinkInPart`) or throw
(`FlushSinkThrows`), which leaves the thread function and ends the process. After a
time-out `realFlush` is called with an empty buffer as well: sinks get nothing from
it, so only the throw is a step.

*StorageService.* A handler is one step up to its last point of no return and one
after it, so that failures and the end of the process fall in between:
`UploadStore` (or `UploadStoreUnnoticed`, `UploadStoreBreaksOff`) and
`UploadRecord`, and `DownloadAsIs` or `DownloadUnpacks`, then one of
`DownloadMissing`, `DownloadUnsatisfiable`, `DownloadFails`, `DownloadSends`. A
file's contents are the number of the upload they come from. `transfers` are
bodies being sent, with the file (or inode of an unlinked file) they read.
`setContent` truncates in place, which is why a transfer can be torn. Any write,
open, insert or unpacking may fail, the clock may stand still between two uploads,
and the process may end at any point. `stamps` remembers the size and the second of
the file each upload wrote, `accepted` the upload recorded last, `known` the ETags
clients were sent.

*DataManager.* A call is `Call`, `Lock` or `LockShared`, `Prepare`, its statement
(`insert`, `deleteByURL`, `getOne`, or one `getAllRow` per row and `getAllEnds`),
and `Return`, which unlocks. `Fail` is a statement that cannot be prepared or a
write that is not `SQLITE_DONE`; `BreakOff` is an error of a reading step, which
the code takes for the end of the rows. `update` is `insert`. SQLite is external: a
statement is atomic and a committed row stays. Rows are those that
`insert or replace` leaves with `url` the primary key and `storage_path` unique.

*Manager, LogFolder.* A call is `Call`, `getInstance` (and `Construct` for the
first), `Lock`, its body and `Unlock`. Callers' `shared_ptr`s are `new` (what a
thread has built) and `handle` (what it looked up); `isReferenced` is their count
being above zero, and `LetGo` goes on or to `Destroyed` accordingly. `addLogger`'s
parameter is a `shared_ptr` of its own, which ends after the mutex is free
(`Leave`). `createDirectory` is `Pass`, `FindMissing`, `Mkdir` or `MkdirDenied` per
segment; a segment is a name, `"."`, `".."` or nothing, and a folder is the names
that lead to it. `config` is what the configuration file lacks.

*Base64, FileNames.* Bytes and characters are the numbers C++ computes with; masks
and shifts are remainders and quotients. One step is one turn of the loop. After
encoding, the text loses any number of characters at its end, as clients that
leave off the padding do, or worse. A page whose link is changed by markup in the
name is `NoLink`: what becomes of such a link is left open.

## 3. Runs

| run | states | shows |
|---|---|---|
| `buffer` (`MCBuffer`) | 13 k | FIFO refinement, growth only when full, growth tight; capacities 1, 2, 4, 6 … so both regimes and the threshold are crossed |
| `worker` (`MCAsyncWorker`) | 92 k | types, `NoLossAtExit`, `SwapIsSignalled`, `LimitBoundsMemory`, refinement of `LogChannel`; `AcceptedIsDelivered`, `StopEndsThread`; with refused pushes, growth of both kinds and swaps in between |
| `pool` (`MCThreadPool`) | 35 k | types, `FrontDefined`, `NoTaskSleptOver`, `NoStrandedTask`, `AcceptedTaskRuns`, refinement of `TaskPool` |
| `pool_stop` | violation | `StopEndsWorkers`: a stop falls between predicate and sleep |
| `sinks` (`MCLogFlush`) | 488 k | both sinks, under each `flush_log_`: what is left after crashes; order of bytes; what `max_size_` bounds each time a file is opened |
| `logger` (`MCAsyncLogger`) | 566 k | `SinksAreInStep`, `CallerOrderIsKept`, `SinksOutliveWorker`, `AcceptedReachesSinks` |
| `manager` (`MCManager`) | 249 k | `FolderIsThere` when two sinks make their folders at once; `LoggersLiveWhileHeld`; `CallsReturn` |
| `storage` (`MCStorage`) | 1.3 M | `UrlServesLatest`, `RowHasFile`, `DeepTransfersIntact`, `PartEndsInFile`, `ResumeIsSameVersion`, with anything failing |
| `table` (`MCDataManager`) | 190 k | types, with the lock and the two keys; refinement of `TableStore` |
| `names` (`MCFileNames`) | 242 k | `RoundTrip`, `LinkLeadsBack` |
| `range_wraps`, `unknown_url` | violations | see Findings |

### Bounds, and why they suffice

* `AsyncWorker`: three producers of one call each, since a producer's races are
  with the background thread, the owner and other producers; one can be in front
  of the swap, one behind it, and one at its notification. Capacity 1, threshold 4, limit 5 and
  lengths 1 and 3 make the vectors double, grow linearly and hit the limit, with
  contents on both sides of the swap threshold.
* `ThreadPool`: three workers and two clients, queue of two: a full queue, several
  sleepers with one notification, and a stop while some workers exit, others
  run and tasks wait. The violation needs one worker only.
* `LogFlush`: `max_size_` 2 and batches of up to 2 make a file full after one
  or two batches; three batches, two seconds and one crash let a file name come
  up again after a restart and be continued.
* `AsyncLogger`: two sinks (one fails, one does not), two callers, three calls, a
  pool of one (so that `enqueue` refuses) and a channel that may refuse.
* `Manager`: two threads, one name, two loggers beside the default one, three
  calls: enough to replace a logger that the other thread has just looked up, or
  is the last to hold. The paths `a/b` and `/a/../c.` share the folder `a`, and
  have the separators, the step back and the dot at the end that
  `createDirectory` treats in ways of their own. The configuration that is complete
  is left out: it allows nothing that the one without `linear_growth` does not.
* `StorageService`: one name (names only meet in the table's key, the name
  itself), both places, two uploads and two downloads, sizes 1 and 2 (for
  `range_wraps` 3 as well, so that first and last are both inside and reversed),
  two seconds, one end of the process. `SizeBits = 4` is a `size_t` wide enough for all sizes
  and narrow enough to wrap.
* `DataManager`: three threads (a writer between two readers, or the other way
  round), three calls, two URLs and two paths, so that an insert replaces two
  rows, and one crash. Both checks are safety checks, so symmetry is sound.
* `Base64`, `FileNames`: every byte alone and beside another; up to three
  characters that fare differently on the way, which is every combination within
  one chunk of base64; lengths 57 to 60, which end before, at and after the line
  breaks at 76 and 64 characters, and leave every remainder.

`Terminated` is a stuttering step of a finished `AsyncWorker` and `ThreadPool`, so
TLC's deadlock check is on there: only the pool's missed stop and nothing else
can stop them. The other runs but `buffer` say `CHECK_DEADLOCK FALSE`, because
their bounds on calls, crashes and the clock let a behaviour end, or because the
process or the name's way has ended. That nobody waits for ever in `Manager` is
`CallsReturn`.

`ResumeIsSameVersion` leaves out, by its premises, what the code does not do
(section 5): two uploads of one size in one second count as one, the body that a
client has part of and the one it resumes with have both to be of the upload that
was recorded last when they were sent, and its low file must not be written over
while it is sent. All of these happen in the run; what the property shows is that
no failure, restart or change of directory beyond them brings a client the rest
of another upload.

### Fairness

* `StartThread`, `StopNotify`, `Join`, the rest of a `push` or `enqueue`, and what
  the background thread or a worker does with the mutex in its hands: weak
  fairness. A thread that can run does.
* Taking the mutex: strong fairness, for the background thread and the workers.
  `std::mutex` is not fair, so a producer can take it each time it is free; what
  is assumed is that a scheduler does not let it win for ever.
* `WorkerTimeout`: strong fairness. The deadline of `wait_for` is absolute, so
  spurious wake-ups do not put it off for ever. `ThreadPool` has no such deadline
  and its sleepers have no such fairness: nothing promises a spurious wake-up.
* `AsyncLogger`: weak fairness for `FlushBegins` (this is `AcceptedIsDelivered` of
  `AsyncWorker`) and for a sink's return.
* `Manager`: weak fairness for what a thread does once it is in a call, strong
  fairness for taking `mtx_`. That a logger's destructor returns (`Destroyed`) is
  part of it and is what `StopEndsThread` shows of its worker.
* Nobody has to log, upload, stop, build or let go. The sinks, the store and the
  table have no liveness properties: what they wait for is the operating system.

### Mutants

Each property of a passing run is paired with a mutant: a definition named
"Faulty variant of …" that stands in for the real one and must make TLC report
the property violated.

## 4. Proofs

All theorems hold for every set of producers, clients and workers, every
configuration and every bound, under the modules' named assumptions.

| theorem | statement |
|---|---|
| `BufferProofs!EnsureEnoughSpaceOK`, `EnsureEnoughSpaceTight` | room for `len`, positions ordered, readable bytes kept, no shrinking; slack bounded |
| `BufferProofs!BufferTypeOK` | every index computed lies in the vector |
| `BufferProofs!BufferGrowsOnlyWhenFull`, `BufferGrowthIsTight` | the two action properties |
| `BufferProofs!BufferImplementsByteQueue` | the refinement: a FIFO queue of bytes |
| `AsyncWorkerProofs!WorkerTypeOK`, `WorkerNoLossAtExit`, `WorkerSwapIsSignalled`, `WorkerLimitBoundsMemory` | the worker's invariants |
| `AsyncWorkerProofs!WorkerImplementsLogChannel` | the refinement |
| `ThreadPoolProofs!PoolTypeOK`, `PoolFrontDefined`, `PoolNoTaskSleptOver`, `PoolNoStrandedTask` | the pool's invariants |
| `ThreadPoolProofs!PoolImplementsTaskPool` | the refinement |
| `LogFlushProofs!LogFlushTypeOK` | types; stdio, kernel and disk hold prefixes of each other |
| `LogFlushProofs!LogFlushFlushedSurvives` | `flush_log_` keeps its word through crashes |
| `LogFlushProofs!LogFlushBytesInOrder`, `LogFlushOverrunIsOneBatch` | order of the bytes of a file; its overrun |
| `ServerDataProofs!DataManagerTypeOK` | lock, keys of the table, who is where |
| `ServerDataProofs!DataManagerImplementsTable` | the refinement |
| `ServerDataProofs!TextRoundTrip` | any bytes survive base64, in either alphabet, with or without padding, in one line or in lines of any length |
| `ServerDataProofs!NamesLinkLeadsBack` | a link of harmless bytes leads back to its row, whatever the prefix and the name |
| `AsyncLoggerProofs!LoggerTypeOK`, `LoggerSinksAreInStep`, `LoggerCallerOrderIsKept`, `LoggerSinksOutliveWorker` | the logger's invariants, whatever its sinks do |
| `ManagerProofs!ManagerInductive` | the inductive invariant of `Manager` |
| `ManagerProofs!ManagerTypeOK`, `ManagerLoggersLiveWhileHeld` | who holds `mtx_` where; loggers live exactly as long as something leads to them |
| `ManagerProofs!ManagerFolderIsThere` | a sink finds its folder, whatever paths are made at the same time |
| `StorageServiceProofs!StorageInductive` | the inductive invariant of the store |
| `StorageServiceProofs!StorageTypeOK`, `StorageRowHasFile`, `StorageUrlServesLatest`, `StorageDeepTransfersIntact` | types, rows, URLs and bodies, whatever fails |
| `StorageServiceProofs!StorageResumeIsSameVersion`, `StoragePartEndsInFile` | what a client that asks for a part is sent |

*Recursive functions.* What goes through a text, a path or the rounds of a loop
is a recursive function in a `LET` (`doubled`, `unbroken`, `escaped`, `route`)
with one value for each place it can be at. To the prover such a function is
whatever satisfies its equation, so the lemmas `DoubledDefined`,
`UnbrokenDefined`, `EscapedDefined` and `RouteDefined` show first that something
does, place by place, and give the equations the others use. The induction is
`Induction`: a set of numbers that has 0 and with each number the next has all
of them, for the order of the numbers is well-founded and no number can be the
least one missing. Each fact then names the set of the places it holds for.

*Buffer.* The doubling loop stops at the least number of rounds after which
`doubled(size)` is at least `need`. Each round adds one at least
(`DoubledGrows`), so there is such a number (`DoublingEnds`); that it suffices and
that its predecessor does not give room and tightness. These lemmas are about
numbers only, so `AsyncWorkerProofs` imports them by `INSTANCE` with anything for
the bytes and the variables. For the refinement, `PushPuts` follows each readable
byte through `MadeRoom`: compaction moves it to where the moved read position
looks for it, growth leaves it, and the new bytes lie behind; `Takes` is the
same for the moves that give bytes up.

*AsyncWorker.* The safety properties are not inductive. `IInv` adds: who holds the
mutex where (`HoldsMutex`); a buffer has messages exactly when its positions say
so, else the exit test's `isEmpty` would say nothing about messages
(`Consistent`); the consumer buffer is empty outside the flush, so the swap hands
producers an empty one (`ConsumerDrained`); the predicate is still false when the
thread goes to sleep, as it holds the mutex from one to the other
(`SleepJustified`); the thread exits only when stopped, and `started` is not set again
(`ExitIsFinal`). `SwapIsSignalled` is then preserved because the producer that
crosses the threshold is at `notify`. `LimitBoundsMemory` follows from
`ensureEnoughSpace`'s tightness and the fact that a swap only exchanges the two.
For the refinement `queue` is `consumer.msgs \o productor.msgs`: a swap does not
change it, a flush takes off its front.

*ThreadPool.* `IInv` adds that what `enqueue` tested still holds when it appends
(`CommitJustified`), that the queue is empty between predicate and sleep, and that
a worker exits only when stopped. `NoTaskSleptOver` is proved by counting: an
enqueue moves one sleeper to those coming, if there is one, and a worker that
takes a task takes away one of each. The refinement needs in addition that no
task is in two places (`Unique`), which rests on the numbering of the calls.

*LogFlush.* `SinkAssumption` says that the bounds are numbers and that `NoFile` is no
file's name. Every step leaves each file, in the kernel and on the disk, at least
what it had there, or is a crash that takes what was not promised (`Tidy`,
`Lasts`); that carries `FlushedSurvives` over a step, but not over the one where
a flush goes through. For that `IInv` adds `Present`: during a flush, what has been written of
the batch is in the open file, and before `fsync` it is in the kernel. `BytesInOrder`
needs to know that the batch under way comes after all that any file holds
(`Latest`); `OverrunIsOneBatch` that what is counted bounds what was written since the file was
opened, up to the batch under way, and that the numbers of one process do not come
up twice, so that it opens each file once (`Counted`); and the types that file numbers do not run
ahead of batches (`Numbered`).

*DataManager.* `DataManagerAssumption` only says that "nobody", "no request" and "no
answer" are none of the threads, requests and answers. `IInv` is `TypeOK` and
`Fresh`: before its statement's first step a call has no answer, and the rows a
`getAll` has fetched are rows that are still in the table, because it shares the
lock and writers exclude it. The refinement takes `Selected` at the moment of a
read's last step: for `getAll`, `Fresh` and its end make what it fetched equal to
the table, and a `BreakOff` leaves a part of it.

*Base64.* `Base64Inv` says of the text, chunk by
chunk, which characters it holds (`Coded`), that the whole text has a chunk for every
byte (`WholeIn`) and that a text that was not cut lacks nothing but trailing
characters (`NothingLost`); of the positions, that the encoder goes by three and four,
the decoder by four and three until the text ends. That one chunk comes back is
arithmetic of quotients and remainders (`SixBits`, `EightBits`, `EncodedChunk`,
`ChunkDecoded`); that the decoder's tests for padding find just the bytes the input
has is `ChunkFound`; that `at()` and `pos_of_char` do not throw, `UncutCanDecode`.
While the text is on its way in lines, all this is said of what `remove_linebreaks`
will make of it. `BreaksRemoved` follows `std::remove` through the broken text:
after `n` characters, `n \div (distance + 1)` of which are breaks, it has kept the
first `n - n \div (distance + 1)` of the text. `TextUnbroken` is its end, for a text
that has no break of its own; the encoder's has none (`CodedCharacters`).

*FileNames.* `NamesAssumption` says that the prefix consists of bytes. A step of
`NamesSpec` is a step of `Base64` or leaves its variables alone
(`NamesImplementBase64`), so what is recorded is a sequence of bytes. `NamesInv`
says of a link of harmless bytes that it is shown and asked for as it is and that
`urlDecode` stands, after its steps, between two characters of the link, with those
before it in `ret`. For that, what is asked for begins with what is asked for after
any `n` characters (`EscapedPrefix`), so the next thing at `index` is the escape of the
next character (`EscapedThere`), which `UrlDecodeStep` turns back and on which
`UrlDecodeThrows` has no hold (`HarmlessNext`): no digit of it is F, and a
character that is its own escape is not `%`.

*AsyncLogger.* `SinksAreInStep` and `SinksOutliveWorker` need to know that what was
accepted is what was delivered and what still waits (`Complete`), and the order
in the sinks follows from an order that goes through all the places a message
passes: sinks, then the batch under way, then the channel, then what a caller has
in hand (`InOrder`: each in order, each before the next). A sink that loses part of a
batch keeps the order, since what it lacks it never gets. `Counted` ties the
callers' own numbering to the bound on calls. The channel and the pool are the
abstract ones, of which nothing is assumed beyond their modules.

*Manager.* `ManagerAssumption` says that no thread, no logger and the default
logger are different from the loggers and threads there are. `LoggersLiveWhileHeld`
counts references: a map entry, a caller's handle, a logger not yet handed over, the
parameter of a call. `IInv` adds what makes each release sound: `CallsAreSound`
(what a call was given and where it stands; a thread never overwrites a
`shared_ptr` that holds something; one thread constructs) and
`DyingIsUnreachable` (what is being destroyed is not referred to, so nobody can
take hold of it again, and two threads do not destroy the same one).

*LogFolder.* `FolderAssumption` says that paths and folders are sequences of names and
that "nowhere" is no folder. `FolderInv` says of a thread's walk that what lies
behind it leads somewhere, that what it is about to make is a name, and that when
it is over the whole path leads somewhere (`WalkSound`), all this unless a mkdir was
refused. It is kept by the walking thread because the part of a path that is behind
leads where the path has led by then (`RouteOfPrefix`) and the folder that is made,
by this thread or by another between its `exists` and its `mkdir`, is the next one on
the way (`MkdirMakes`, `MkdirSound`); and by the others because there are only ever
more folders, so that a path that leads somewhere does not come to lead anywhere
else (`RouteStays`, `WalkStays`). This is part of `Manager`'s specification, in
which sinks are built between the calls of any thread.

*StorageService.* `StorageAssumption` says that sizes are positive and fit into a
`size_t`, and that `None` is none of the records it stands beside. `RowHasFile` and
`UrlServesLatest` need what a handler has in hand between its two steps
(`AtWork`). `DeepTransfersIntact` needs that an unpacked file has an inode of its own
and that nothing is sent from an inode that still has a name
(`InodesAreOwn`): the file is removed before libevent reads it, and the next
download makes another. `ResumeIsSameVersion` follows the stamp of an upload: the
file it wrote has it, the row repeats it when the upload is recorded, an ETag made
of that row repeats it again, and a client that resumes with that ETag is sent
something of the same stamp (`Stamped`; an upload's number is not used again, so
its stamp stays). `RowHasFile` needs that no file is of a second still to come
(`InTime`). `PartEndsInFile` is the arithmetic of
`range_start`, `range_end` and `content_length` modulo `2^SizeBits`, for every width.

### Only model-checked

Liveness, which is outside the prover's reach as ENABLED is: `AcceptedIsDelivered`
and `StopEndsThread` of the worker, `AcceptedTaskRuns` of the pool,
`AcceptedReachesSinks` of the logger, `CallsReturn` of the manager. Every invariant,
action property and refinement that a passing run checks is also a theorem.

## 5. Findings

* `pool_stop`: a stop between a worker's predicate and its sleep is missed, and
  the destructor, which does not stop a pool that has been stopped, joins for
  ever; a destructor that does the stopping itself misses in the same way.
  (`AsyncWorker` has the same order but a deadline: `StopEndsThread` of `worker`
  shows that it is enough.)
* `range_wraps`: a range with its end before its beginning goes round in `size_t`
  and is handed on as a length.
* `unknown_url`: a URL that is not in the table is found, refused for want of a
  file, handled on and answered twice. A listed deep file that is damaged and
  cannot be unpacked gets the same two answers, unless an earlier request has left
  a temporary file: that is then sent.

Seen while modelling, modelled as the code has it, and left without a run:

* `max_size_` is looked at before a batch and with `>`, so a file that has reached
  it exactly is still used and then exceeds it by a whole batch. A file that is
  continued after a restart is counted from 0 again and can grow by as much once
  more, and what an error leaves of a batch is not counted at all.
  `OverrunIsOneBatch` says how far this goes.
* The ETag is made of name, size and whole seconds: two uploads of one size within
  one second have the same one, and a resumed download is sent the rest of the
  other. It is also made of the row: when a file was written over and the row was
  not (a write or an insert that failed, an end of the process), the old ETag goes
  with the new bytes. And a low file that is written over while it is sent tears
  the body, since `setContent` truncates it in place. `ResumeIsSameVersion` leaves
  these out.
* An end of 0 (`bytes=0-0`) counts as no end, and the whole file is sent.
* The early returns of `downLoad` leave the unpacked file behind;
  `DeepTransfersIntact` shows that nothing being sent is harmed by it.
* `upload` ignores the result of `insert` and answers "Success", and `setContent`
  does not look at what the close of the file, which writes what was kept back,
  has to say.
* A handler that throws ends the process, for nobody catches: a range such as
  `bytes=-5`, on which `stoull` throws; a URL that `urlDecode` refuses; an upload
  without its header, which makes a `std::string` of a null pointer.
* `fromHex` knows the digits up to `e`, so a name with an `F` in its escapes (a
  Chinese comma is `%EF%BC%8C`) is stored and shown and cannot be asked for.
* The page is made with `regex_replace` whose format is the list of files, and goes
  into HTML and JavaScript as it is: `$`, `&`, quotes and backslashes in a name
  change the link; `#`, `?` and `%` are the browser's. `LinkLeadsBack` is about all
  other names.
* `getOneByURL` and `getOneByStoragePath` return true without a row, and `getAll`
  returns true when an error has cut its rows short (`whole` of `TableStore`).
* A key that the log configuration lacks is 0: without `buffer_size` the first push
  never returns, without `linear_growth` one may divide by it; a value of
  another type throws.
* `createDirectory` does not make a last folder whose name ends in a dot, and
  nobody looks at the result of `mkdir`. A `FileFlush` that cannot open its file
  says so and then gives a null pointer to `fwrite`.
* A builder that builds twice hands the same sinks to two background threads.
* The `LogDefault…` macros name the function `DefaultLogger` without calling it, and
  `LOG` gives its text to be used as a format.
* `Config` keeps the port in 16 bits, whatever the file says.

## 6. Not modelled, and why

* Message formatting, levels, macros, JSON and the page's text: no property is about
  their wording, and they have no state. `start_backup` is a stub.
* `Config`, `ServerLog` and `main`: values copied from a file and calls one after
  the other. `initServerLog` is one thread's `BuildBegins`, `build`, `Call` and
  `addLogger` in `Manager`.
* `Manager`'s destruction at the end of `main`: the order of static destructors
  against threads that still log is undefined in C++.
* A builder that is used twice (see above): the sinks' modules have one caller, as
  the code has everywhere.
* evhttp's parsing of requests. Of `httpParseRange` the forms that it understands are
  modelled by their numbers, and the ones it throws on by `ProcessEnds`.
* What an uninitialised `max_buffer_size_` of a builder that was not given one
  does: any number is an instance of `max_buffer_bytes_`, which the theorem covers.
* The machine (as opposed to the process) stopping under the store: the code syncs
  none of its files, so nothing is promised of them then.

## 7. Plan

What was planned is modelled, and what is checked as a safety property is proved.
Two of the hazards in `PROJECT.json` are without a property, each with a note
saying why. What would come next follows the code: a backup that is no longer
a stub belongs into `AsyncLogger`, where a task now does nothing; a second thread
for the handlers of `Service` would make each call to `DataManager` there the steps
that `DataManager` has.
