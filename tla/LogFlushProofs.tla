--------------------------- MODULE LogFlushProofs ---------------------------
(***************************************************************************)
(* The sinks: types, what survives a crash, the order of the bytes and the *)
(* overrun of a file, for any sizes and any number of batches and crashes. *)
(***************************************************************************)
EXTENDS LogFlush, SequenceTheorems, TLAPS

Bytes == (1..MaxBatches) \X (1..MaxLen)

File == [bytes : Seq(Bytes), cached : Nat, synced : Nat]

\* Stdio, kernel and disk hold prefixes of each other.
Layered(f) == f.synced <= f.cached /\ f.cached <= Len(f.bytes)

\* g is what is left of f.
Trimmed(f, g) ==
    /\ Len(g.bytes) <= Len(f.bytes)
    /\ \A j \in 1..Len(g.bytes) : g.bytes[j] = f.bytes[j]

\* g has, in the kernel and on the disk, at least what f had there.
Lasts(f, g) ==
    /\ f.cached <= g.cached /\ f.synced <= g.synced
    /\ \A j \in 1..f.cached : g.bytes[j] = f.bytes[j]

Tidy(f, g) == g \in File /\ Layered(g) /\ Trimmed(f, g) /\ Lasts(f, g)

-----------------------------------------------------------------------------

LEMMA Prefix ==
    ASSUME NEW S, NEW s \in Seq(S), NEW k \in Nat, k <= Len(s)
    PROVE  /\ SubSeq(s, 1, k) \in Seq(S)
           /\ Len(SubSeq(s, 1, k)) = k
           /\ \A i \in 1..k : SubSeq(s, 1, k)[i] = s[i]
<1>1. \A i \in 1..k : s[i] \in S
  BY LenProperties, ElementOfSeq
<1>2. SubSeq(s, 1, k) \in Seq(S) /\ Len(SubSeq(s, 1, k)) = (IF 1 <= k THEN k - 1 + 1 ELSE 0)
  BY <1>1, SubSeqProperties, 1 \in Int, k \in Int, SMT
<1>3. \A i \in 1..(k - 1 + 1) : SubSeq(s, 1, k)[i] = s[1 + i - 1]
  BY <1>1, SubSeqProperties, SMT
<1> QED
  BY <1>2, <1>3

LEMMA ClosedIsTidy ==
    ASSUME NEW f \in File, Layered(f), NEW g \in Closed(f)
    PROVE  Tidy(f, g)
<1>1. Len(f.bytes) \in Nat /\ f.bytes \in Seq(Bytes)
  BY LenProperties DEF File
<1>2. CASE g = [f EXCEPT !.cached = Len(f.bytes)]
  BY <1>1, <1>2 DEF File, Layered, Tidy, Trimmed, Lasts
<1>3. CASE g = [f EXCEPT !.bytes = SubSeq(f.bytes, 1, f.cached)]
  <2>1. \A i \in 1..f.cached : f.bytes[i] \in Bytes
    BY <1>1, ElementOfSeq DEF File, Layered
  <2>2. /\ SubSeq(f.bytes, 1, f.cached) \in Seq(Bytes)
        /\ Len(SubSeq(f.bytes, 1, f.cached)) = f.cached
        /\ \A i \in 1..f.cached : SubSeq(f.bytes, 1, f.cached)[i] = f.bytes[i]
    BY <1>1, Prefix DEF File, Layered
  <2>3. g.bytes = SubSeq(f.bytes, 1, f.cached) /\ g.cached = f.cached /\ g.synced = f.synced
    BY <1>3 DEF File
  <2>4. g \in File
    BY <1>3, <2>2 DEF File
  <2> QED
    BY <1>1, <2>2, <2>3, <2>4 DEF File, Layered, Tidy, Trimmed, Lasts
<1> QED
  BY <1>2, <1>3 DEF Closed

LEMMA SameIsTidy ==
    ASSUME NEW f \in File, Layered(f)
    PROVE  Tidy(f, f)
  BY LenProperties DEF File, Layered, Tidy, Trimmed, Lasts

LEMMA CachedIsTidy ==
    ASSUME NEW f \in File, Layered(f)
    PROVE  Tidy(f, [f EXCEPT !.cached = Len(f.bytes)])
  BY LenProperties DEF File, Layered, Tidy, Trimmed, Lasts

LEMMA SyncedIsTidy ==
    ASSUME NEW f \in File, Layered(f)
    PROVE  Tidy(f, [f EXCEPT !.synced = f.cached])
  BY LenProperties DEF File, Layered, Tidy, Trimmed, Lasts

Survivor(f, k) ==
    [bytes |-> SubSeq(f.bytes, 1, k), cached |-> k,
     synced |-> IF f.synced < k THEN f.synced ELSE k]

LEMMA SurvivorIsTrimmed ==
    ASSUME NEW f \in File, Layered(f), NEW k \in {f.cached, f.synced}
    PROVE  /\ Survivor(f, k) \in File /\ Layered(Survivor(f, k))
           /\ Trimmed(f, Survivor(f, k))
           /\ k = f.cached => Lasts(f, Survivor(f, k))
           /\ f.synced <= Survivor(f, k).synced
           /\ \A j \in 1..f.synced : Survivor(f, k).bytes[j] = f.bytes[j]
<1>1. Len(f.bytes) \in Nat /\ f.bytes \in Seq(Bytes) /\ k \in Nat /\ k <= Len(f.bytes)
  BY LenProperties DEF File, Layered
<1>3. SubSeq(f.bytes, 1, k) \in Seq(Bytes)
  BY <1>1, Prefix
<1>4. Len(SubSeq(f.bytes, 1, k)) = k /\ \A i \in 1..k : SubSeq(f.bytes, 1, k)[i] = f.bytes[i]
  BY <1>1, Prefix
<1>5. /\ Survivor(f, k).bytes = SubSeq(f.bytes, 1, k) /\ Survivor(f, k).cached = k
      /\ Survivor(f, k).synced = IF f.synced < k THEN f.synced ELSE k
  BY DEF Survivor
<1>6. Survivor(f, k) \in File
  BY <1>1, <1>3 DEF Survivor, File
<1> QED
  BY <1>1, <1>4, <1>5, <1>6 DEF File, Layered, Trimmed, Lasts

-----------------------------------------------------------------------------

Flushing == {"write", "fflush", "fsync"}

\* File numbers do not run ahead of the batches, so a name can be had for each.
Numbered ==
    /\ cnt_ <= batch.id + 1
    /\ pc \in Flushing => batch.id # 0

Steps == TypeOK /\ Numbered

LEMMA FilesTyped ==
    ASSUME TypeOK
    PROVE  /\ files \in [Names -> File]
           /\ \A n \in Names : Layered(files[n])
           /\ \A n \in Names : Tidy(files[n], files[n])
           /\ \A n \in Names : Len(files[n].bytes) \in Nat
<1>1. files \in [Names -> File] /\ \A n \in Names : Layered(files[n])
  BY DEF TypeOK, File, Bytes, Layered
<1>2. \A n \in Names : Tidy(files[n], files[n])
  BY <1>1, SameIsTidy
<1>3. \A n \in Names : Len(files[n].bytes) \in Nat
  BY <1>1, LenProperties DEF File
<1> QED
  BY <1>1, <1>2, <1>3

\* One file changes and stays tidy.
LEMMA OneFileTidy ==
    ASSUME TypeOK, NEW n \in Names, NEW g, Tidy(files[n], g),
           files' = [files EXCEPT ![n] = g]
    PROVE  files' \in [Names -> File] /\ \A m \in Names : Tidy(files[m], files'[m])
<1>1. g \in File
  BY DEF Tidy
<1>2. files' \in [Names -> File]
  BY <1>1, FilesTyped
<1>3. \A m \in Names : files'[m] = IF m = n THEN g ELSE files[m]
  BY FilesTyped
<1> QED
  BY <1>2, <1>3, FilesTyped

LEMMA AfterClose ==
    ASSUME TypeOK, FilesAfterClose(files')
    PROVE  files' \in [Names -> File] /\ \A n \in Names : Tidy(files[n], files'[n])
<1>1. CASE file_ = NoFile
  BY <1>1, FilesTyped DEF FilesAfterClose
<1>2. CASE file_ # NoFile
  <2>1. file_ \in Names
    BY <1>2 DEF TypeOK
  <2>2. PICK f \in Closed(files[file_]) : files' = [files EXCEPT ![file_] = f]
    BY <1>2 DEF FilesAfterClose
  <2>3. Tidy(files[file_], f)
    BY <2>1, FilesTyped, ClosedIsTidy
  <2> QED
    BY <2>1, <2>2, <2>3, OneFileTidy
<1> QED
  BY <1>1, <1>2

\* What all steps do to the files but Write and MachineStops.
LEMMA FilesTidy ==
    ASSUME TypeOK,
           \/ UNCHANGED files
           \/ FilesAfterClose(files')
           \/ FFlush \/ FSync \/ Spill
           \/ \E n \in Names : WriteBack(n)
           \/ ProcessEnds
    PROVE  files' \in [Names -> File] /\ \A n \in Names : Tidy(files[n], files'[n])
<1>1. CASE UNCHANGED files
  BY <1>1, FilesTyped
<1>2. CASE FilesAfterClose(files')
  BY <1>2, AfterClose
<1>3. CASE FFlush \/ Spill
  <2>1. file_ \in Names
    BY <1>3 DEF FFlush, Spill, TypeOK
  <2>2. files' = [files EXCEPT ![file_] =
                     [files[file_] EXCEPT !.cached = Len(files[file_].bytes)]]
    BY <1>3 DEF FFlush, Spill
  <2> QED
    BY <2>1, <2>2, FilesTyped, CachedIsTidy, OneFileTidy
<1>4. CASE FSync
  <2>1. file_ \in Names
    BY <1>4 DEF FSync, TypeOK
  <2>2. files' = [files EXCEPT ![file_] =
                     [files[file_] EXCEPT !.synced = files[file_].cached]]
    BY <1>4 DEF FSync
  <2> QED
    BY <2>1, <2>2, FilesTyped, SyncedIsTidy, OneFileTidy
<1>5. ASSUME NEW n \in Names, WriteBack(n)
      PROVE  files' \in [Names -> File] /\ \A m \in Names : Tidy(files[m], files'[m])
  <2>1. files' = [files EXCEPT ![n] = [files[n] EXCEPT !.synced = files[n].cached]]
    BY <1>5 DEF WriteBack
  <2> QED
    BY <2>1, FilesTyped, SyncedIsTidy, OneFileTidy
<1>6. CASE ProcessEnds
  <2>1. files' = [n \in Names |-> Survivor(files[n], files[n].cached)]
    BY <1>6 DEF ProcessEnds, Survivors, Survivor
  <2>2. \A n \in Names : Survivor(files[n], files[n].cached) \in File
                           /\ Tidy(files[n], Survivor(files[n], files[n].cached))
    BY FilesTyped, SurvivorIsTrimmed DEF Tidy
  <2> QED
    BY <2>1, <2>2
<1> QED
  BY <1>1, <1>2, <1>3, <1>4, <1>5, <1>6

LEMMA FilesAfterStop ==
    ASSUME TypeOK, MachineStops
    PROVE  /\ files' \in [Names -> File]
           /\ \A n \in Names :
                 /\ Layered(files'[n]) /\ Trimmed(files[n], files'[n])
                 /\ files[n].synced <= files'[n].synced
                 /\ \A j \in 1..files[n].synced : files'[n].bytes[j] = files[n].bytes[j]
<1>1. files' = [n \in Names |-> Survivor(files[n], files[n].synced)]
  BY DEF MachineStops, Survivors, Survivor
<1>2. \A n \in Names :
         LET g == Survivor(files[n], files[n].synced)
         IN  /\ g \in File /\ Layered(g) /\ Trimmed(files[n], g)
             /\ files[n].synced <= g.synced
             /\ \A j \in 1..files[n].synced : g.bytes[j] = files[n].bytes[j]
  BY FilesTyped, SurvivorIsTrimmed
<1> QED
  BY <1>1, <1>2

\* fwrite adds to the open file and to no other.
LEMMA FilesAfterWrite ==
    ASSUME TypeOK, Numbered, NEW k \in 1..MaxLen, Write(k)
    PROVE  /\ file_ \in Names
           /\ files' \in [Names -> File]
           /\ \A n \in Names \ {file_} : files'[n] = files[n]
           /\ files'[file_].cached = files[file_].cached
           /\ files'[file_].synced = files[file_].synced
           /\ Len(files'[file_].bytes) = Len(files[file_].bytes) + k
           /\ \A j \in 1..Len(files[file_].bytes) :
                 files'[file_].bytes[j] = files[file_].bytes[j]
           /\ \A j \in (Len(files[file_].bytes) + 1)..(Len(files[file_].bytes) + k) :
                 files'[file_].bytes[j] =
                     <<batch.id, batch.written + (j - Len(files[file_].bytes))>>
<1> DEFINE old == files[file_].bytes
           more == NextBytes(batch.written, k)
<1>1. file_ \in Names
  BY DEF Write, TypeOK
<1>2. old \in Seq(Bytes) /\ Len(old) \in Nat
  BY <1>1, FilesTyped DEF File
<1>3. batch.id \in 1..MaxBatches /\ batch.written + k \in 1..MaxLen /\ batch.written \in Nat
  <2>1. batch.id \in 0..MaxBatches /\ batch.len \in 0..MaxLen /\ batch.written \in 0..MaxLen
    BY DEF TypeOK
  <2>2. batch.id # 0 /\ k <= batch.len - batch.written
    BY DEF Write, remaining, Numbered, Flushing
  <2> QED
    BY <2>1, <2>2, SinkAssumption
<1>4. more \in Seq(Bytes) /\ Len(more) = k /\ \A i \in 1..k : more[i] = <<batch.id, batch.written + i>>
  <2>1. \A i \in 1..k : <<batch.id, batch.written + i>> \in Bytes
    BY <1>3, SinkAssumption DEF Bytes
  <2>2. more = [i \in 1..k |-> <<batch.id, batch.written + i>>]
    BY DEF NextBytes
  <2> QED
    BY <2>1, <2>2
<1>5. files' = [files EXCEPT ![file_] = [files[file_] EXCEPT !.bytes = old \o more]]
  BY DEF Write, Written
<1>6. /\ old \o more \in Seq(Bytes)
      /\ Len(old \o more) = Len(old) + Len(more)
      /\ \A i \in 1..(Len(old) + Len(more)) :
            (old \o more)[i] = IF i <= Len(old) THEN old[i] ELSE more[i - Len(old)]
  BY <1>2, <1>4, ConcatProperties
<1> HIDE DEF old, more
<1>7. files[file_] \in File
  BY <1>1, FilesTyped
<1>8. /\ files'[file_].bytes = old \o more
      /\ files'[file_].cached = files[file_].cached
      /\ files'[file_].synced = files[file_].synced
      /\ files'[file_] \in File
  BY <1>1, <1>5, <1>6, <1>7, FilesTyped DEF File
<1>9. files' \in [Names -> File] /\ \A n \in Names \ {file_} : files'[n] = files[n]
  BY <1>1, <1>5, <1>8, FilesTyped
<1>10. ASSUME NEW j \in 1..Len(old)
       PROVE  (old \o more)[j] = old[j]
  BY <1>2, <1>4, <1>6
<1>11. ASSUME NEW j \in (Len(old) + 1)..(Len(old) + k)
       PROVE  (old \o more)[j] = <<batch.id, batch.written + (j - Len(old))>>
  <2>1. j - Len(old) \in 1..k /\ j \in 1..(Len(old) + Len(more)) /\ ~(j <= Len(old))
    BY <1>2, <1>4
  <2> QED
    BY <1>4, <1>6, <2>1
<1> QED
  BY <1>1, <1>4, <1>6, <1>8, <1>9, <1>10, <1>11 DEF old

-----------------------------------------------------------------------------

LEMMA InitTyped == Init => TypeOK /\ Numbered
<1>1. NewFile \in File /\ Layered(NewFile)
  BY EmptySeq DEF NewFile, File, Layered
<1>2. file_path_ \in Names
  BY DEF Names
<1> QED
  BY <1>1, <1>2, SinkAssumption
  DEF Init, TypeOK, Numbered, Flushing, File, Bytes, Layered, OpenedFirst

\* What the files are typed by, from what a step does to them.
LEMMA TypedFiles ==
    ASSUME files' \in [Names -> File], \A n \in Names : Layered(files'[n])
    PROVE  /\ files' \in [Names -> [bytes : Seq((1..MaxBatches) \X (1..MaxLen)),
                                    cached : Nat, synced : Nat]]
           /\ \A n \in Names :
                 /\ files'[n].synced <= files'[n].cached
                 /\ files'[n].cached <= Len(files'[n].bytes)
  BY DEF File, Bytes, Layered

FilesOK == files \in [Names -> File] /\ \A n \in Names : Layered(files[n])

\* All the rest of TypeOK.
OthersOK ==
    /\ rolls \in BOOLEAN
    /\ flush_log_ \in 0..2
    /\ cnt_ \in 1..(MaxBatches + 1)
    /\ cur_cnt_ \in Nat
    /\ file_ \in Names \cup {NoFile}
    /\ pc \in Flushing \cup {"idle", "dead"}
    /\ pc \in Flushing => file_ # NoFile
    /\ batch \in [id : 0..MaxBatches, len : 0..MaxLen, written : 0..MaxLen]
    /\ batch.written <= batch.len
    /\ second \in 0..MaxSecond /\ crashes \in 0..MaxCrashes
    /\ opened \in [Names -> [times : Nat, uncounted : Nat]]
    /\ durable \subseteq [id : 1..MaxBatches, len : 0..MaxLen]

LEMMA TypeParts == TypeOK <=> FilesOK /\ OthersOK
  BY DEF TypeOK, FilesOK, OthersOK, File, Bytes, Layered, Flushing

\* A file has the name of a second and of a number that a batch can have.
LEMMA NewName ==
    ASSUME TypeOK, Numbered, batch.id < MaxBatches
    PROVE  <<second, cnt_>> \in Names /\ cnt_ + 1 <= batch.id + 2
<1>1. batch.id \in Nat /\ cnt_ \in 1..(MaxBatches + 1) /\ second \in 0..MaxSecond
  BY SinkAssumption DEF TypeOK
<1>2. cnt_ \in 1..MaxBatches
  BY <1>1, SinkAssumption DEF Numbered
<1> QED
  BY <1>1, <1>2 DEF Names, Numbered

LEMMA NewBatchTyped ==
    ASSUME TypeOK, batch.id < MaxBatches, NEW len \in 0..MaxLen, NewBatch(len)
    PROVE  /\ batch' \in [id : 0..MaxBatches, len : 0..MaxLen, written : 0..MaxLen]
           /\ batch'.written <= batch'.len
           /\ batch'.id = batch.id + 1 /\ batch'.id # 0 /\ batch.id \in Nat
           /\ batch'.written = 0 /\ batch'.len = len
<1>1. batch.id \in 0..MaxBatches
  BY DEF TypeOK
<1> QED
  BY <1>1, SinkAssumption DEF NewBatch

\* Every step keeps the types, and names keep up with batches.
LEMMA NextTyped ==
    ASSUME TypeOK, Numbered, [Next]_vars
    PROVE  TypeOK' /\ Numbered'
<1>1. FilesOK' /\ OthersOK' /\ Numbered' => TypeOK' /\ Numbered'
  BY TypeParts, PTL
<1>2. FilesOK /\ OthersOK /\ Numbered
  BY TypeParts
<1>3. ASSUME files' \in [Names -> File], \A n \in Names : Tidy(files[n], files'[n])
      PROVE  FilesOK'
  BY <1>3 DEF FilesOK, Tidy
<1>4. CASE UNCHANGED vars
  BY <1>1, <1>2, <1>4 DEF FilesOK, OthersOK, Numbered, vars
<1>5. ASSUME NEW len \in 0..MaxLen,
             FlushIntoCurrent(len) \/ FlushWithoutFile(len)
      PROVE  FilesOK' /\ OthersOK' /\ Numbered'
  <2>1. batch.id < MaxBatches /\ NewBatch(len) /\ UNCHANGED files
    BY <1>5 DEF FlushIntoCurrent, FlushWithoutFile
  <2>2. FilesOK'
    BY <1>2, <2>1 DEF FilesOK
  <2>3. OthersOK' /\ Numbered'
    BY <1>2, <1>5, <2>1, NewBatchTyped, SinkAssumption
    DEF OthersOK, Numbered, Flushing, FlushIntoCurrent, FlushWithoutFile
  <2> QED
    BY <2>2, <2>3
<1>6. ASSUME NEW len \in 0..MaxLen,
             FlushIntoNewFile(len) \/ OpenFails(len)
      PROVE  FilesOK' /\ OthersOK' /\ Numbered'
  <2>1. batch.id < MaxBatches /\ NewBatch(len) /\ FilesAfterClose(files')
    BY <1>6 DEF FlushIntoNewFile, OpenFails
  <2>2. FilesOK'
    BY <1>3, <2>1, AfterClose
  <2>3. <<second, cnt_>> \in Names /\ cnt_ + 1 <= batch.id + 2
    BY <2>1, NewName
  <2>4. /\ cnt_' = cnt_ + 1 /\ cnt_ \in Nat \ {0} /\ cnt_ <= batch.id + 1
        /\ batch.id \in Nat /\ batch'.id = batch.id + 1 /\ batch'.id # 0
    BY <1>2, <1>6, <2>1, NewBatchTyped, SinkAssumption
    DEF OthersOK, Numbered, FlushIntoNewFile, OpenFails
  <2>5. cnt_' \in 1..(MaxBatches + 1) /\ Numbered'
    BY <2>1, <2>4, SinkAssumption DEF Numbered
  <2>7. /\ batch' \in [id : 0..MaxBatches, len : 0..MaxLen, written : 0..MaxLen]
        /\ batch'.written <= batch'.len
    BY <2>1, NewBatchTyped
  <2>8. CASE FlushIntoNewFile(len)
    <3>1. /\ file_' = <<second, cnt_>> /\ cur_cnt_' = 0 /\ pc' = "write"
          /\ opened' = [opened EXCEPT ![<<second, cnt_>>].times =
                                         opened[<<second, cnt_>>].times + 1]
          /\ UNCHANGED <<rolls, flush_log_, second, crashes, durable>>
      BY <2>8 DEF FlushIntoNewFile
    <3>2. opened' \in [Names -> [times : Nat, uncounted : Nat]]
      BY <1>2, <2>3, <3>1 DEF OthersOK
    <3>3. file_' \in Names \cup {NoFile} /\ file_' # NoFile
      BY <2>3, <3>1, SinkAssumption
    <3> QED
      BY <1>2, <2>2, <2>5, <2>7, <3>1, <3>2, <3>3 DEF OthersOK, Flushing
  <2>9. CASE OpenFails(len)
    <3>1. /\ file_' = NoFile /\ pc' = "dead" /\ crashes < MaxCrashes
          /\ crashes' = crashes + 1
          /\ UNCHANGED <<rolls, flush_log_, cur_cnt_, second, opened, durable>>
      BY <2>9 DEF OpenFails
    <3>2. crashes' \in 0..MaxCrashes
      BY <1>2, <3>1, SinkAssumption DEF OthersOK
    <3> QED
      BY <1>2, <2>2, <2>5, <2>7, <3>1, <3>2 DEF OthersOK, Flushing
  <2> QED
    BY <1>6, <2>2, <2>5, <2>8, <2>9
<1>7. ASSUME NEW k \in 1..MaxLen, Write(k)
      PROVE  FilesOK' /\ OthersOK' /\ Numbered'
  <2>1. \A n \in Names : Layered(files'[n])
    <3>1. \A n \in Names \ {file_} : Layered(files'[n])
      BY <1>7, FilesAfterWrite, FilesTyped
    <3>2. file_ \in Names /\ files[file_] \in File /\ Len(files[file_].bytes) \in Nat
          /\ Layered(files[file_])
      BY <1>7, FilesAfterWrite, FilesTyped
    <3>3. /\ files'[file_].cached = files[file_].cached
          /\ files'[file_].synced = files[file_].synced
          /\ Len(files'[file_].bytes) = Len(files[file_].bytes) + k
      BY <1>7, FilesAfterWrite
    <3>4. Layered(files'[file_])
      BY <3>2, <3>3 DEF Layered, File
    <3> QED
      BY <3>1, <3>4
  <2>2. FilesOK'
    BY <1>7, <2>1, FilesAfterWrite DEF FilesOK
  <2>3. /\ batch' = [batch EXCEPT !.written = batch.written + k]
        /\ k <= batch.len - batch.written
        /\ UNCHANGED <<rolls, flush_log_, cnt_, cur_cnt_, file_, pc, second,
                       crashes, opened, durable>>
    BY <1>7 DEF Write, remaining
  <2>4. /\ batch' \in [id : 0..MaxBatches, len : 0..MaxLen, written : 0..MaxLen]
        /\ batch'.written <= batch'.len /\ batch'.id = batch.id
    BY <1>2, <2>3, SinkAssumption DEF OthersOK
  <2>5. OthersOK' /\ Numbered'
    BY <1>2, <2>3, <2>4 DEF OthersOK, Numbered
  <2> QED
    BY <2>2, <2>5
<1>8. ASSUME WriteFails \/ WriteEnds \/ FFlushFails \/ FSyncFails \/ Tick
      PROVE  FilesOK' /\ OthersOK' /\ Numbered'
  <2>1. FilesOK'
    BY <1>2, <1>8 DEF FilesOK, WriteFails, WriteEnds, FFlushFails, FSyncFails, Tick
  <2>2. CASE WriteFails
    <3>1. opened' \in [Names -> [times : Nat, uncounted : Nat]]
      <4>1. /\ opened' = [opened EXCEPT ![file_].uncounted =
                                          opened[file_].uncounted + batch.written]
            /\ file_ \in Names /\ batch.written \in Nat
        BY <1>2, <2>2, SinkAssumption DEF OthersOK, Flushing, WriteFails
      <4> QED
        BY <1>2, <4>1 DEF OthersOK
    <3> QED
      BY <1>2, <2>1, <2>2, <3>1 DEF OthersOK, Numbered, Flushing, WriteFails
  <2>3. CASE WriteEnds
    <3>1. cur_cnt_ + batch.len \in Nat
      BY <1>2, SinkAssumption DEF OthersOK
    <3> QED
      BY <1>2, <2>1, <2>3, <3>1 DEF OthersOK, Numbered, Flushing, WriteEnds
  <2>4. CASE FFlushFails \/ FSyncFails
    BY <1>2, <2>1, <2>4 DEF OthersOK, Numbered, Flushing, FFlushFails, FSyncFails
  <2>5. CASE Tick
    BY <1>2, <2>1, <2>5, SinkAssumption DEF OthersOK, Numbered, Flushing, Tick
  <2> QED
    BY <1>8, <2>2, <2>3, <2>4, <2>5
<1>9. ASSUME FFlush \/ FSync \/ Spill \/ (\E n \in Names : WriteBack(n))
      PROVE  FilesOK' /\ OthersOK' /\ Numbered'
  <2>1. FilesOK'
    BY <1>3, <1>9, FilesTidy
  <2>2. [id |-> batch.id, len |-> batch.len] \in [id : 1..MaxBatches, len : 0..MaxLen]
             \/ pc \notin Flushing
    BY <1>2, SinkAssumption DEF OthersOK, Numbered
  <2>3. OthersOK' /\ Numbered'
    BY <1>2, <1>9, <2>2
    DEF OthersOK, Numbered, Flushing, FFlush, FSync, Spill, WriteBack, Through
  <2> QED
    BY <2>1, <2>3
<1>10. ASSUME SinkDestroyed \/ ProcessEnds
       PROVE  FilesOK' /\ OthersOK' /\ Numbered'
  <2>1. FilesOK'
    BY <1>3, <1>10, FilesTidy DEF SinkDestroyed
  <2>2. OthersOK' /\ Numbered'
    BY <1>2, <1>10, SinkAssumption
    DEF OthersOK, Numbered, Flushing, SinkDestroyed, ProcessEnds
  <2> QED
    BY <2>1, <2>2
<1>11. ASSUME MachineStops
       PROVE  FilesOK' /\ OthersOK' /\ Numbered'
  <2>1. FilesOK'
    BY <1>11, FilesAfterStop DEF FilesOK
  <2>2. OthersOK' /\ Numbered'
    BY <1>2, <1>11, SinkAssumption DEF OthersOK, Numbered, Flushing, MachineStops
  <2> QED
    BY <2>1, <2>2
<1>12. ASSUME Restart
       PROVE  FilesOK' /\ OthersOK' /\ Numbered'
  <2>1. FilesOK'
    BY <1>2, <1>12 DEF FilesOK, Restart
  <2>2. file_path_ \in Names
    BY DEF Names
  <2>3. OthersOK' /\ Numbered'
    BY <1>2, <1>12, <2>2, SinkAssumption
    DEF OthersOK, Numbered, Flushing, Restart, OpenedFirst
  <2> QED
    BY <2>1, <2>3
<1> QED
  BY <1>1, <1>4, <1>5, <1>6, <1>7, <1>8, <1>9, <1>10, <1>11, <1>12 DEF Next

-----------------------------------------------------------------------------

\* Nothing in the files is ahead of the batch in hand.
Latest ==
    \A n \in Names : \A j \in 1..Len(files[n].bytes) :
        LET b == files[n].bytes[j]
        IN  b[1] < batch.id \/ (b[1] = batch.id /\ b[2] <= batch.written)

Ordered == BytesInOrder /\ Latest

Before(a, b) == a[1] < b[1] \/ (a[1] = b[1] /\ a[2] < b[2])

Reached(b, id, written) == b[1] < id \/ (b[1] = id /\ b[2] <= written)

\* Bytes that are in order, none of them ahead, and the next ones behind them.
LEMMA Appended ==
    ASSUME NEW L \in Nat, NEW k \in Nat, NEW id \in Nat, NEW w \in Nat,
           NEW old, NEW new,
           \A j \in 1..L : old[j][1] \in Nat /\ old[j][2] \in Nat,
           \A j \in 1..L : new[j] = old[j],
           \A j \in (L + 1)..(L + k) : new[j][1] = id /\ new[j][2] = w + (j - L),
           \A i, j \in 1..L : i < j => Before(old[i], old[j]),
           \A j \in 1..L : Reached(old[j], id, w)
    PROVE  /\ \A i, j \in 1..(L + k) : i < j => Before(new[i], new[j])
           /\ \A j \in 1..(L + k) : Reached(new[j], id, w + k)
<1>1. \A j \in 1..(L + k) : j <= L => j \in 1..L /\ new[j] = old[j]
  OBVIOUS
<1>2. \A j \in 1..(L + k) : ~(j <= L) =>
         j > L /\ new[j][1] = id /\ new[j][2] = w + (j - L)
  OBVIOUS
<1>3. ASSUME NEW j \in 1..(L + k)
      PROVE  Reached(new[j], id, w + k)
  <2>1. CASE j <= L
    BY <1>1, <2>1 DEF Reached
  <2>2. CASE ~(j <= L)
    BY <1>2, <2>2 DEF Reached
  <2> QED
    BY <2>1, <2>2
<1>4. ASSUME NEW i \in 1..(L + k), NEW j \in 1..(L + k), i < j
      PROVE  Before(new[i], new[j])
  <2>1. CASE j <= L
    <3>1. i <= L
      BY <1>4, <2>1
    <3> QED
      BY <1>1, <1>4, <2>1, <3>1
  <2>2. CASE ~(j <= L) /\ i <= L
    <3>1. Reached(old[i], id, w) /\ new[i] = old[i]
          /\ old[i][1] \in Nat /\ old[i][2] \in Nat
      BY <1>1, <2>2
    <3>2. j > L /\ new[j][1] = id /\ new[j][2] = w + (j - L)
      BY <1>2, <2>2
    <3> QED
      BY <3>1, <3>2 DEF Before, Reached
  <2>3. CASE ~(j <= L) /\ ~(i <= L)
    <3>1. new[j][1] = id /\ new[j][2] = w + (j - L)
      BY <1>2, <2>3
    <3>2. new[i][1] = id /\ new[i][2] = w + (i - L)
      BY <1>2, <2>3
    <3> QED
      BY <1>4, <3>1, <3>2 DEF Before
  <2> QED
    BY <2>1, <2>2, <2>3
<1> QED
  BY <1>3, <1>4

\* Ordered in these words.
FilesInOrder ==
    \A n \in Names :
        /\ \A i, j \in 1..Len(files[n].bytes) :
              i < j => Before(files[n].bytes[i], files[n].bytes[j])
        /\ \A j \in 1..Len(files[n].bytes) :
              Reached(files[n].bytes[j], batch.id, batch.written)

LEMMA OrderedParts == Ordered <=> FilesInOrder
  BY DEF Ordered, BytesInOrder, Latest, FilesInOrder, Before, Reached

LEMMA BytesTyped ==
    ASSUME TypeOK, NEW n \in Names, NEW j \in 1..Len(files[n].bytes)
    PROVE  /\ files[n].bytes[j][1] \in 1..MaxBatches
           /\ files[n].bytes[j][2] \in 1..MaxLen
<1>1. files[n].bytes \in Seq(Bytes)
  BY FilesTyped DEF File
<1>2. files[n].bytes[j] \in Bytes
  BY <1>1, ElementOfSeq
<1> QED
  BY <1>2 DEF Bytes

\* What is left of files that are in order is in order.
LEMMA TrimmedOrdered ==
    ASSUME TypeOK, files' \in [Names -> File], Ordered,
           \A n \in Names : Trimmed(files[n], files'[n]),
           UNCHANGED batch \/ batch'.id = batch.id + 1
    PROVE  Ordered'
<1>1. \A n \in Names : Len(files[n].bytes) \in Nat /\ Len(files'[n].bytes) \in Nat
  BY FilesTyped, LenProperties DEF File
<1>2. \A n \in Names : \A j \in 1..Len(files'[n].bytes) :
         /\ j \in 1..Len(files[n].bytes)
         /\ files'[n].bytes[j] = files[n].bytes[j]
  BY <1>1 DEF Trimmed
<1>3. batch.id \in Nat /\ batch.written \in Nat
  BY SinkAssumption DEF TypeOK
<1>4. ASSUME NEW n \in Names, NEW i \in 1..Len(files'[n].bytes),
             NEW j \in 1..Len(files'[n].bytes), i < j
      PROVE  Before(files'[n].bytes[i], files'[n].bytes[j])
  <2>1. Before(files[n].bytes[i], files[n].bytes[j])
    BY <1>2, <1>4, OrderedParts DEF FilesInOrder
  <2> QED
    BY <1>2, <2>1
<1>5. ASSUME NEW n \in Names, NEW j \in 1..Len(files'[n].bytes)
      PROVE  Reached(files'[n].bytes[j], batch'.id, batch'.written)
  <2>1. j \in 1..Len(files[n].bytes) /\ files'[n].bytes[j] = files[n].bytes[j]
    BY <1>2
  <2>2. Reached(files[n].bytes[j], batch.id, batch.written)
    BY <2>1, OrderedParts DEF FilesInOrder
  <2>3. files[n].bytes[j][1] \in Nat
    BY <2>1, BytesTyped, SinkAssumption
  <2> QED
    BY <1>3, <2>1, <2>2, <2>3 DEF Reached
<1>6. FilesInOrder'
  BY <1>4, <1>5 DEF FilesInOrder
<1> QED
  BY <1>6, OrderedParts, PTL

\* fwrite goes on where it stopped.
LEMMA WriteOrdered ==
    ASSUME TypeOK, Numbered, Ordered, NEW k \in 1..MaxLen, Write(k)
    PROVE  Ordered'
<1>1. /\ batch.id \in Nat /\ batch.written \in Nat /\ k \in Nat
      /\ batch'.id = batch.id /\ batch'.written = batch.written + k
  BY SinkAssumption DEF TypeOK, Write
<1>2. ASSUME NEW n \in Names
      PROVE  /\ \A i, j \in 1..Len(files'[n].bytes) :
                   i < j => Before(files'[n].bytes[i], files'[n].bytes[j])
             /\ \A j \in 1..Len(files'[n].bytes) :
                   Reached(files'[n].bytes[j], batch'.id, batch'.written)
  <2>1. /\ \A i, j \in 1..Len(files[n].bytes) :
              i < j => Before(files[n].bytes[i], files[n].bytes[j])
        /\ \A j \in 1..Len(files[n].bytes) :
              Reached(files[n].bytes[j], batch.id, batch.written)
    BY OrderedParts DEF FilesInOrder
  <2>2. \A j \in 1..Len(files[n].bytes) :
           files[n].bytes[j][1] \in Nat /\ files[n].bytes[j][2] \in Nat
    BY BytesTyped, SinkAssumption
  <2>3. CASE n = file_
    <3>1. /\ Len(files[n].bytes) \in Nat
          /\ Len(files'[n].bytes) = Len(files[n].bytes) + k
          /\ \A j \in 1..Len(files[n].bytes) : files'[n].bytes[j] = files[n].bytes[j]
      BY <2>3, FilesAfterWrite, FilesTyped
    <3>2. \A j \in (Len(files[n].bytes) + 1)..(Len(files[n].bytes) + k) :
             /\ files'[n].bytes[j][1] = batch.id
             /\ files'[n].bytes[j][2] = batch.written + (j - Len(files[n].bytes))
      BY <2>3, FilesAfterWrite
    <3>3. /\ \A i, j \in 1..(Len(files[n].bytes) + k) :
                i < j => Before(files'[n].bytes[i], files'[n].bytes[j])
          /\ \A j \in 1..(Len(files[n].bytes) + k) :
                Reached(files'[n].bytes[j], batch.id, batch.written + k)
      BY <1>1, <2>1, <2>2, <3>1, <3>2, Appended
    <3> QED
      BY <1>1, <3>1, <3>3
  <2>4. CASE n # file_
    <3>1. files'[n] = files[n]
      BY <2>4, FilesAfterWrite
    <3>2. ASSUME NEW j \in 1..Len(files[n].bytes)
          PROVE  Reached(files[n].bytes[j], batch'.id, batch'.written)
      <4>1. Reached(files[n].bytes[j], batch.id, batch.written)
            /\ files[n].bytes[j][2] \in Nat
        BY <2>1, <2>2
      <4> QED
        BY <1>1, <4>1 DEF Reached
    <3> QED
      BY <2>1, <3>1, <3>2
  <2> QED
    BY <2>3, <2>4
<1>3. FilesInOrder'
  BY <1>2 DEF FilesInOrder
<1> QED
  BY <1>3, OrderedParts, PTL

-----------------------------------------------------------------------------

\* The first m bytes of a file have the first len bytes of a batch.
Holds(f, m, id, len) == \A i \in 1..len : \E j \in 1..m : f.bytes[j] = <<id, i>>

safe(f, mode) == IF mode = 2 THEN f.synced ELSE f.cached

\* What has been written of the batch in hand is in the open file, and in the
\* kernel once fflush has been called.
Present ==
    pc \in Flushing =>
        Holds(files[file_],
              IF pc = "fsync" THEN files[file_].cached ELSE Len(files[file_].bytes),
              batch.id, batch.written)

LEMMA DurableParts ==
    FlushedSurvives <=>
        \A b \in durable : \E n \in Names :
            Holds(files[n], safe(files[n], flush_log_), b.id, b.len)
  BY DEF FlushedSurvives, Holds, safe

LEMMA LastsHolds ==
    ASSUME NEW f \in File, NEW g \in File, Layered(f), Lasts(f, g), NEW id, NEW len
    PROVE  /\ Holds(f, f.cached, id, len) => Holds(g, g.cached, id, len)
           /\ Holds(f, f.synced, id, len) => Holds(g, g.synced, id, len)
<1>1. /\ \A j \in 1..f.cached : j \in 1..g.cached /\ g.bytes[j] = f.bytes[j]
      /\ \A j \in 1..f.synced : j \in 1..g.synced /\ g.bytes[j] = f.bytes[j]
  BY DEF File, Layered, Lasts
<1> QED
  BY <1>1 DEF Holds

\* As long as no file loses what was safe, nothing durable is lost.
LEMMA DurableKept ==
    ASSUME TypeOK, FlushedSurvives, files' \in [Names -> File],
           \A n \in Names : Lasts(files[n], files'[n]),
           UNCHANGED flush_log_,
           NEW b \in durable
    PROVE  \E n \in Names : Holds(files'[n], safe(files'[n], flush_log_), b.id, b.len)
<1>1. PICK n \in Names : Holds(files[n], safe(files[n], flush_log_), b.id, b.len)
  BY DurableParts
<1>2. files[n] \in File /\ files'[n] \in File /\ Layered(files[n])
  BY FilesTyped
<1>3. Lasts(files[n], files'[n])
  OBVIOUS
<1>4. Holds(files'[n], safe(files'[n], flush_log_), b.id, b.len)
  BY <1>1, <1>2, <1>3, LastsHolds DEF safe
<1> QED
  BY <1>4

\* What goes through is in the open file, and safe.
LEMMA WentThrough ==
    ASSUME TypeOK, Numbered, Present, FFlush \/ FSync, Through
    PROVE  \A b \in durable' \ durable : \E n \in Names :
               Holds(files'[n], safe(files'[n], flush_log_), b.id, b.len)
<1> SUFFICES ASSUME NEW b \in durable' \ durable
             PROVE  \E n \in Names :
                        Holds(files'[n], safe(files'[n], flush_log_), b.id, b.len)
  OBVIOUS
<1>1. b = [id |-> batch.id, len |-> batch.len] /\ batch.len - batch.written = 0
  BY DEF Through, remaining
<1>2. batch.len \in Nat /\ batch.written \in Nat
  BY SinkAssumption DEF TypeOK
<1>3. b.id = batch.id /\ b.len = batch.written
  BY <1>1, <1>2
<1>4. file_ \in Names /\ files[file_] \in File
  BY FilesTyped DEF FFlush, FSync, TypeOK
<1>5. CASE FFlush
  <2>1. Holds(files[file_], Len(files[file_].bytes), b.id, b.len)
    BY <1>3, <1>5 DEF Present, Flushing, FFlush
  <2>2. /\ files'[file_].bytes = files[file_].bytes
        /\ files'[file_].cached = Len(files[file_].bytes)
    BY <1>4, <1>5, FilesTyped DEF FFlush, File
  <2>3. pc' # "fsync" \/ b \notin durable'
    BY <1>5 DEF FFlush
  <2>4. flush_log_ # 2
    BY <1>5, <2>3 DEF FFlush
  <2> QED
    BY <1>4, <2>1, <2>2, <2>4 DEF Holds, safe
<1>6. CASE FSync
  <2>1. Holds(files[file_], files[file_].cached, b.id, b.len)
    BY <1>3, <1>6 DEF Present, Flushing, FSync
  <2>2. /\ files'[file_].bytes = files[file_].bytes
        /\ files'[file_].cached = files[file_].cached
        /\ files'[file_].synced = files[file_].cached
    BY <1>4, <1>6, FilesTyped DEF FSync, File
  <2> QED
    BY <1>4, <2>1, <2>2 DEF Holds, safe
<1> QED
  BY <1>5, <1>6

\* A machine that stops keeps what has been synced, and nothing else was promised.
LEMMA StopKept ==
    ASSUME TypeOK, FlushedSurvives, MachineStops, NEW b \in durable'
    PROVE  \E n \in Names : Holds(files'[n], safe(files'[n], flush_log_), b.id, b.len)
<1>1. flush_log_ = 2 /\ b \in durable
  BY DEF MachineStops
<1>2. PICK n \in Names : Holds(files[n], files[n].synced, b.id, b.len)
  BY <1>1, DurableParts DEF safe
<1>3. /\ files[n] \in File /\ files'[n] \in File
      /\ files[n].synced <= files'[n].synced
      /\ \A j \in 1..files[n].synced : files'[n].bytes[j] = files[n].bytes[j]
  BY FilesTyped, FilesAfterStop
<1>4. \A j \in 1..files[n].synced : j \in 1..files'[n].synced
  BY <1>3 DEF File
<1>5. Holds(files'[n], files'[n].synced, b.id, b.len)
  BY <1>2, <1>3, <1>4 DEF Holds
<1> QED
  BY <1>1, <1>5 DEF safe

\* The steps that add nothing to durable, nor take anything away.
LEMMA NextLasts ==
    ASSUME TypeOK, Numbered, [Next]_vars
    PROVE  \/ /\ files' \in [Names -> File]
              /\ \A n \in Names : Lasts(files[n], files'[n])
              /\ UNCHANGED <<flush_log_, durable>> \/ ((FFlush \/ FSync) /\ Through)
              /\ UNCHANGED flush_log_
           \/ MachineStops
<1> DEFINE Kept == /\ files' \in [Names -> File]
                   /\ \A n \in Names : Lasts(files[n], files'[n])
<1>1. CASE UNCHANGED vars
  BY <1>1, FilesTyped DEF vars, Tidy
<1>2. ASSUME NEW len \in 0..MaxLen,
             \/ FlushIntoCurrent(len) \/ FlushWithoutFile(len)
             \/ FlushIntoNewFile(len) \/ OpenFails(len)
      PROVE  Kept /\ UNCHANGED <<flush_log_, durable>>
  <2>1. UNCHANGED files \/ FilesAfterClose(files')
    BY <1>2 DEF FlushIntoCurrent, FlushWithoutFile, FlushIntoNewFile, OpenFails
  <2>2. UNCHANGED <<flush_log_, durable>>
    BY <1>2 DEF FlushIntoCurrent, FlushWithoutFile, FlushIntoNewFile, OpenFails
  <2> QED
    BY <2>1, <2>2, FilesTidy DEF Tidy
<1>3. ASSUME NEW k \in 1..MaxLen, Write(k)
      PROVE  Kept /\ UNCHANGED <<flush_log_, durable>>
  <2>1. /\ files' \in [Names -> File] /\ file_ \in Names
        /\ \A n \in Names \ {file_} : Lasts(files[n], files'[n])
    BY <1>3, FilesAfterWrite, FilesTyped DEF Tidy
  <2>2. /\ files'[file_].cached = files[file_].cached
        /\ files'[file_].synced = files[file_].synced
        /\ \A j \in 1..Len(files[file_].bytes) :
              files'[file_].bytes[j] = files[file_].bytes[j]
    BY <1>3, FilesAfterWrite
  <2>3. files[file_] \in File /\ Layered(files[file_]) /\ Len(files[file_].bytes) \in Nat
    BY <2>1, FilesTyped
  <2>4. Lasts(files[file_], files'[file_])
    BY <2>2, <2>3 DEF Lasts, Layered, File
  <2> QED
    BY <1>3, <2>1, <2>4 DEF Write
<1>4. ASSUME \/ WriteFails \/ WriteEnds \/ FFlushFails \/ FSyncFails
             \/ Tick \/ Restart
      PROVE  Kept /\ UNCHANGED <<flush_log_, durable>>
  <2>1. UNCHANGED <<files, flush_log_, durable>>
    BY <1>4 DEF WriteFails, WriteEnds, FFlushFails, FSyncFails, Tick, Restart
  <2> QED
    BY <2>1, FilesTyped DEF Tidy
<1>5. ASSUME \/ Spill \/ (\E n \in Names : WriteBack(n))
             \/ SinkDestroyed \/ ProcessEnds
      PROVE  Kept /\ UNCHANGED <<flush_log_, durable>>
  <2>1. Kept
    BY <1>5, FilesTidy DEF SinkDestroyed, Tidy
  <2>2. UNCHANGED <<flush_log_, durable>>
    BY <1>5 DEF Spill, WriteBack, SinkDestroyed, ProcessEnds
  <2> QED
    BY <2>1, <2>2
<1>6. ASSUME FFlush \/ FSync
      PROVE  /\ Kept /\ UNCHANGED flush_log_
             /\ UNCHANGED <<flush_log_, durable>> \/ Through
  <2>1. Kept
    BY <1>6, FilesTidy DEF Tidy
  <2>2. UNCHANGED flush_log_ /\ (UNCHANGED durable \/ Through)
    BY <1>6 DEF FFlush, FSync
  <2> QED
    BY <2>1, <2>2
<1> QED
  BY <1>1, <1>2, <1>3, <1>4, <1>5, <1>6 DEF Next

LEMMA NextDurable ==
    ASSUME TypeOK, Numbered, Present, FlushedSurvives, [Next]_vars
    PROVE  FlushedSurvives'
<1> DEFINE Goal == \A b \in durable' : \E n \in Names :
                       Holds(files'[n], safe(files'[n], flush_log_), b.id, b.len)
<1>1. Goal /\ UNCHANGED flush_log_
  <2>1. CASE MachineStops
    BY <2>1, StopKept DEF MachineStops
  <2>2. CASE /\ files' \in [Names -> File]
             /\ \A n \in Names : Lasts(files[n], files'[n])
             /\ UNCHANGED <<flush_log_, durable>> \/ ((FFlush \/ FSync) /\ Through)
             /\ UNCHANGED flush_log_
    <3>1. \A b \in durable : \E n \in Names :
             Holds(files'[n], safe(files'[n], flush_log_), b.id, b.len)
      BY <2>2, DurableKept
    <3>2. CASE UNCHANGED durable
      BY <2>2, <3>1, <3>2
    <3>3. CASE (FFlush \/ FSync) /\ Through
      BY <2>2, <3>1, <3>3, WentThrough
    <3> QED
      BY <2>2, <3>2, <3>3
  <2> QED
    BY <2>1, <2>2, NextLasts
<1>2. \A b \in durable' : \E n \in Names :
         Holds(files'[n], safe(files'[n], flush_log_'), b.id, b.len)
  BY <1>1
<1> QED
  BY <1>2 DEF FlushedSurvives, Holds, safe

LEMMA NextPresent ==
    ASSUME TypeOK, Numbered, Present, [Next]_vars
    PROVE  Present'
<1> DEFINE Reach == IF pc = "fsync" THEN files[file_].cached ELSE Len(files[file_].bytes)
<1>1. CASE UNCHANGED vars
  BY <1>1 DEF Present, vars, Holds
<1>2. ASSUME NEW len \in 0..MaxLen,
             \/ FlushIntoCurrent(len) \/ FlushWithoutFile(len)
             \/ FlushIntoNewFile(len) \/ OpenFails(len)
      PROVE  Present'
  <2>1. batch'.written = 0
    BY <1>2 DEF FlushIntoCurrent, FlushWithoutFile, FlushIntoNewFile, OpenFails, NewBatch
  <2> QED
    BY <2>1 DEF Present, Holds
<1>3. ASSUME NEW k \in 1..MaxLen, Write(k)
      PROVE  Present'
  <2> DEFINE L == Len(files[file_].bytes)
  <2>1. /\ pc = "write" /\ UNCHANGED <<pc, file_>>
        /\ batch'.id = batch.id /\ batch'.written = batch.written + k
        /\ batch.written \in Nat /\ k \in Nat
    BY <1>3, SinkAssumption DEF Write, TypeOK
  <2>2. L \in Nat /\ Len(files'[file_].bytes) = L + k
    BY <1>3, FilesAfterWrite, FilesTyped
  <2>3. ASSUME NEW i \in 1..(batch.written + k)
        PROVE  \E j \in 1..(L + k) : files'[file_].bytes[j] = <<batch.id, i>>
    <3>1. CASE i <= batch.written
      <4>0. i \in 1..batch.written
        BY <2>1, <3>1
      <4>1. PICK j \in 1..L : files[file_].bytes[j] = <<batch.id, i>>
        BY <2>1, <4>0 DEF Present, Flushing, Holds
      <4>2. files'[file_].bytes[j] = <<batch.id, i>>
        BY <1>3, <4>1, FilesAfterWrite
      <4> QED
        BY <2>2, <4>2, SMTT(40)
    <3>2. CASE ~(i <= batch.written)
      <4>1. PICK j \in (L + 1)..(L + k) : batch.written + (j - L) = i
        <5> HIDE DEF L
        <5>1. i - batch.written \in 1..k
          BY <2>1, <3>2
        <5>2. /\ L + (i - batch.written) \in (L + 1)..(L + k)
              /\ batch.written + ((L + (i - batch.written)) - L) = i
          BY <2>1, <2>2, <5>1
        <5> QED
          BY <5>2
      <4>2. files'[file_].bytes[j] = <<batch.id, batch.written + (j - L)>>
        BY <1>3, <4>1, FilesAfterWrite
      <4>3. j \in 1..(L + k)
        BY <2>2, <4>1
      <4> QED
        BY <4>1, <4>2, <4>3
    <3> QED
      BY <3>1, <3>2
  <2> QED
    BY <2>1, <2>2, <2>3 DEF Present, Holds
<1>4. CASE WriteFails \/ FFlushFails \/ FSync \/ FSyncFails \/ SinkDestroyed
           \/ ProcessEnds \/ MachineStops \/ Restart
  BY <1>4 DEF Present, Flushing, WriteFails, FFlushFails, FSync, FSyncFails,
              SinkDestroyed, ProcessEnds, MachineStops, Restart
<1>5. CASE WriteEnds \/ Tick
  BY <1>5 DEF Present, Flushing, WriteEnds, Tick, Holds
<1>6. CASE FFlush
  <2>1. file_ \in Names /\ files[file_] \in File /\ UNCHANGED <<file_, batch>>
    BY <1>6, FilesTyped DEF FFlush, TypeOK
  <2>2. /\ files'[file_].bytes = files[file_].bytes
        /\ files'[file_].cached = Len(files[file_].bytes)
    BY <1>6, <2>1, FilesTyped DEF FFlush, File
  <2>3. Holds(files[file_], Len(files[file_].bytes), batch.id, batch.written)
    BY <1>6 DEF FFlush, Present, Flushing
  <2> QED
    BY <2>1, <2>2, <2>3 DEF Present, Holds
<1>7. ASSUME Spill \/ \E n \in Names : WriteBack(n)
      PROVE  Present'
  <2> SUFFICES ASSUME pc' \in Flushing
               PROVE  Present'
    BY DEF Present
  <2>1. UNCHANGED <<pc, file_, batch>> /\ pc \in Flushing
    BY <1>7 DEF Spill, WriteBack
  <2>2. file_ \in Names /\ files[file_] \in File /\ Layered(files[file_])
        /\ Len(files[file_].bytes) \in Nat
    BY <2>1, FilesTyped DEF TypeOK, Flushing
  <2>3. /\ files'[file_].bytes = files[file_].bytes
        /\ files'[file_].cached \in {files[file_].cached, Len(files[file_].bytes)}
    <3>1. CASE Spill
      BY <2>2, <3>1, FilesTyped DEF Spill, File
    <3>2. ASSUME NEW n \in Names, WriteBack(n)
          PROVE  /\ files'[file_].bytes = files[file_].bytes
                 /\ files'[file_].cached = files[file_].cached
      <4>1. files' = [files EXCEPT ![n] = [files[n] EXCEPT !.synced = files[n].cached]]
        BY <3>2 DEF WriteBack
      <4>2. CASE n = file_
        BY <2>2, <4>1, <4>2, FilesTyped DEF File
      <4>3. CASE n # file_
        BY <2>2, <4>1, <4>3, FilesTyped
      <4> QED
        BY <4>2, <4>3
    <3> QED
      BY <1>7, <3>1, <3>2
  <2>4. \A j \in 1..files[file_].cached : j \in 1..files'[file_].cached
    BY <2>2, <2>3 DEF Layered, File
  <2>5. Holds(files[file_], Reach, batch.id, batch.written)
    BY <2>1 DEF Present
  <2> QED
    BY <2>1, <2>3, <2>4, <2>5 DEF Present, Holds
<1> QED
  BY <1>1, <1>2, <1>3, <1>4, <1>5, <1>6, <1>7 DEF Next

-----------------------------------------------------------------------------

Size(n) == Len(files[n].bytes)

\* What a file may hold for having been opened so many times.
Allowed(times) == times * (max_size_ + MaxLen)

\* What a file may hold, and what the open file may hold from before it was opened.
Room(n) == Allowed(opened[n].times) + opened[n].uncounted

Earlier == Allowed(opened[file_].times - 1) + opened[file_].uncounted

\* A file was opened at most once by each process so far, and by this one only if its
\* number has come up.
TimesOK(n) ==
    opened[n].times <= crashes + IF pc # "dead" /\ n[2] < cnt_ THEN 1 ELSE 0

SizeOK(n) == Size(n) <= Room(n)

\* What was counted bounds what was written to the open file since it was opened.
OpenOK ==
    file_ # NoFile =>
        /\ cur_cnt_ <= max_size_ + IF pc = "write" THEN 0 ELSE MaxLen
        /\ Size(file_) <= Earlier + cur_cnt_ + IF pc = "write" THEN batch.written ELSE 0

Counted == rolls => (\A n \in Names : TimesOK(n) /\ SizeOK(n)) /\ OpenOK

LEMMA OneMore ==
    ASSUME NEW k \in Int
    PROVE  Allowed(k) \in Int /\ Allowed(k + 1) = Allowed(k) + max_size_ + MaxLen
BY SinkAssumption DEF Allowed

LEMMA Rooms ==
    ASSUME TypeOK, NEW n \in Names
    PROVE  /\ Size(n) \in Nat /\ Room(n) \in Int
           /\ opened[n].times \in Nat /\ opened[n].uncounted \in Nat
           /\ Allowed(opened[n].times) \in Int
           /\ n = file_ => Earlier \in Int /\ Room(n) = Earlier + max_size_ + MaxLen
<1> DEFINE k == opened[n].times - 1
<1>1. opened[n] \in [times : Nat, uncounted : Nat]
  BY DEF TypeOK
<1>2. opened[n].times \in Nat /\ opened[n].uncounted \in Nat /\ Size(n) \in Nat
  BY <1>1, FilesTyped DEF Size
<1>3. k \in Int /\ k + 1 = opened[n].times
  BY <1>2
<1>4. Earlier = Allowed(k) + opened[n].uncounted \/ n # file_
  BY DEF Earlier
<1> HIDE DEF k
<1>5. Allowed(k) \in Int /\ Allowed(k + 1) = Allowed(k) + max_size_ + MaxLen
  BY <1>3, OneMore
<1>6. Allowed(opened[n].times) = Allowed(k) + max_size_ + MaxLen
  BY <1>3, <1>5
<1>7. Allowed(opened[n].times) \in Int
  BY <1>5, <1>6, SinkAssumption
<1>8. Room(n) = Allowed(opened[n].times) + opened[n].uncounted
  BY DEF Room
<1> QED
  BY <1>2, <1>4, <1>5, <1>6, <1>7, <1>8, SinkAssumption

\* Files that were cut, at most, are within what they were allowed.
LEMMA CutSizes ==
    ASSUME TypeOK, \A n \in Names : SizeOK(n), opened' = opened,
           files' \in [Names -> File], \A n \in Names : Trimmed(files[n], files'[n])
    PROVE  \A n \in Names : Size(n)' <= Size(n) /\ SizeOK(n)'
<1> SUFFICES ASSUME NEW n \in Names
             PROVE  Size(n)' <= Size(n) /\ SizeOK(n)'
  OBVIOUS
<1>1. Size(n)' <= Size(n)
  BY DEF Trimmed, Size
<1>2. Size(n) \in Int /\ Room(n) \in Int /\ Size(n)' \in Int
  <2>1. Size(n)' \in Nat
    BY LenProperties DEF Size, File
  <2> QED
    BY <2>1, Rooms
<1>3. Room(n)' = Room(n) /\ Size(n) <= Room(n)
  BY DEF Room, SizeOK
<1> QED
  BY <1>1, <1>2, <1>3 DEF SizeOK

LEMMA NextCounted ==
    ASSUME TypeOK, Numbered, Counted, [Next]_vars
    PROVE  Counted'
<1>1. /\ cur_cnt_ \in Nat /\ max_size_ \in Nat /\ MaxLen \in Nat
      /\ batch.len \in Nat /\ batch.written \in Nat
      /\ batch.written <= batch.len /\ batch.len <= MaxLen
      /\ cnt_ \in Nat /\ crashes \in Nat /\ rolls \in BOOLEAN
  BY SinkAssumption DEF TypeOK
<1>2. rolls' = rolls
  BY DEF Next, vars, FlushIntoCurrent, FlushWithoutFile, FlushIntoNewFile, OpenFails, Write,
         WriteFails, WriteEnds, FFlush, FFlushFails, FSync, FSyncFails, Spill, WriteBack, Tick,
         SinkDestroyed, ProcessEnds, MachineStops, Restart
<1> DEFINE AllOK == (\A n \in Names : TimesOK(n) /\ SizeOK(n)) /\ OpenOK
<1> SUFFICES ASSUME rolls
             PROVE  AllOK'
  BY <1>2 DEF Counted
<1>3. AllOK
  BY DEF Counted
<1>4. CASE UNCHANGED vars
  BY <1>3, <1>4 DEF TimesOK, SizeOK, OpenOK, Size, Room, Earlier, vars
<1>5. ASSUME NEW len \in 0..MaxLen, FlushIntoCurrent(len)
      PROVE  AllOK'
  <2>1. /\ UNCHANGED <<cnt_, crashes, cur_cnt_, file_, files, opened>>
        /\ pc = "idle" /\ pc' = "write" /\ batch'.written = 0
        /\ cur_cnt_ <= max_size_ /\ file_ # NoFile
    BY <1>1, <1>5 DEF FlushIntoCurrent, NewBatch, mustRoll
  <2>2. \A n \in Names : TimesOK(n)' /\ SizeOK(n)'
    BY <1>3, <2>1 DEF TimesOK, SizeOK, Size, Room
  <2>3. Size(file_) <= Earlier + cur_cnt_ + 0
    BY <1>3, <2>1 DEF OpenOK
  <2>4. Size(file_)' = Size(file_) /\ Earlier' = Earlier
    BY <2>1 DEF Size, Earlier
  <2>5. OpenOK'
    BY <1>1, <2>1, <2>3, <2>4 DEF OpenOK
  <2> QED
    BY <2>2, <2>5
<1>6. ASSUME NEW len \in 0..MaxLen, FlushIntoNewFile(len)
      PROVE  AllOK'
  <2>1. PICK new \in Names : new = <<second, cnt_>>
    BY <1>6, NewName DEF FlushIntoNewFile
  <2>2. /\ pc = "idle" /\ pc' = "write" /\ crashes' = crashes /\ cnt_' = cnt_ + 1
        /\ file_' = new /\ cur_cnt_' = 0 /\ batch'.written = 0
        /\ opened' = [opened EXCEPT ![new].times = opened[new].times + 1]
        /\ FilesAfterClose(files') /\ new[2] = cnt_
    BY <1>6, <2>1 DEF FlushIntoNewFile, NewBatch
  <2>3. \A n \in Names : n[2] \in Int
    BY DEF Names, file_path_
  <2>4. /\ opened'[new].times = opened[new].times + 1
        /\ opened'[new].uncounted = opened[new].uncounted
        /\ \A n \in Names \ {new} : opened'[n] = opened[n]
    BY <2>2 DEF TypeOK
  <2>5. /\ opened[new].times \in Nat /\ Size(new) \in Nat /\ Room(new) \in Int
        /\ opened[new].uncounted \in Nat
        /\ Room(new) = Allowed(opened[new].times) + opened[new].uncounted
    BY Rooms DEF Room
  <2>6. \A n \in Names : Size(n)' \in Nat /\ Size(n)' <= Size(n)
    BY <2>2, AfterClose, LenProperties DEF Tidy, Trimmed, File, Size
  <2>7. ASSUME NEW n \in Names
        PROVE  TimesOK(n)'
    <3>1. n[2] \in Int /\ TimesOK(n) /\ opened[n].times \in Nat
      BY <1>3, <2>3, Rooms
    <3>2. CASE n = new
      <4>1. opened[new].times <= crashes
        BY <1>1, <2>2, <3>1, <3>2 DEF TimesOK
      <4>2. opened[new].times + 1 <= crashes + 1
        BY <1>1, <2>5, <4>1
      <4>3. pc' # "dead" /\ n[2] < cnt_'
        BY <1>1, <2>2, <3>2
      <4> QED
        BY <2>2, <2>4, <3>2, <4>2, <4>3 DEF TimesOK
    <3>3. CASE n # new
      <4>1. n[2] < cnt_ => n[2] < cnt_'
        BY <1>1, <2>2, <3>1
      <4>2. opened'[n].times = opened[n].times
        BY <2>4, <3>3
      <4>3. pc # "dead" /\ pc' # "dead" /\ crashes' = crashes /\ crashes <= crashes + 1
        BY <1>1, <2>2
      <4> QED
        BY <1>1, <3>1, <4>1, <4>2, <4>3 DEF TimesOK
    <3> QED
      BY <3>2, <3>3
  <2>8. Room(new)' = Room(new) + max_size_ + MaxLen
    <3>1. Room(new)' = Allowed(opened[new].times + 1) + opened[new].uncounted
      BY <2>4 DEF Room
    <3>2. /\ Allowed(opened[new].times) \in Int
          /\ Allowed(opened[new].times + 1)
                = Allowed(opened[new].times) + max_size_ + MaxLen
      BY <2>5, OneMore
    <3> QED
      BY <1>1, <2>5, <3>1, <3>2
  <2>9. \A n \in Names : SizeOK(n)'
    <3> SUFFICES ASSUME NEW n \in Names
                 PROVE  SizeOK(n)'
      OBVIOUS
    <3>1. Size(n) <= Room(n) /\ Size(n) \in Nat /\ Room(n) \in Int
          /\ Size(n)' \in Nat /\ Size(n)' <= Size(n)
      BY <1>3, <2>6, Rooms DEF SizeOK
    <3>2. Room(n)' \in Int /\ Room(n) <= Room(n)'
      <4>1. CASE n = new
        BY <1>1, <2>5, <2>8, <4>1
      <4>2. CASE n # new
        BY <2>4, <3>1, <4>2 DEF Room
      <4> QED
        BY <4>1, <4>2
    <3>3. Size(n)' <= Room(n)'
      BY <3>1, <3>2
    <3> QED
      BY <3>3 DEF SizeOK
  <2>10. OpenOK'
    <3>1. Size(new) <= Room(new)
      BY <1>3 DEF SizeOK
    <3>2. Size(new)' <= Room(new)
      BY <2>5, <2>6, <3>1
    <3>3. Earlier' = Room(new) /\ Size(file_)' = Size(new)'
      <4>1. Earlier' = Allowed((opened[new].times + 1) - 1) + opened[new].uncounted
        BY <2>2, <2>4 DEF Earlier
      <4>2. (opened[new].times + 1) - 1 = opened[new].times
        BY <2>5
      <4> QED
        BY <2>2, <2>5, <4>1, <4>2 DEF Size
    <3> QED
      BY <1>1, <2>2, <2>5, <3>2, <3>3 DEF OpenOK
  <2> QED
    BY <2>7, <2>9, <2>10
<1>7. ASSUME NEW k \in 1..MaxLen, Write(k)
      PROVE  AllOK'
  <2>1. /\ UNCHANGED <<cnt_, crashes, cur_cnt_, file_, pc, opened>> /\ pc = "write"
        /\ batch'.written = batch.written + k /\ k \in Nat
        /\ k <= batch.len - batch.written
    BY <1>1, <1>7 DEF Write, TypeOK, remaining
  <2>2. PICK open \in Names : open = file_ /\ file_' = open /\ open # NoFile
    BY <1>7, <2>1, FilesAfterWrite, SinkAssumption
  <2>3. /\ Size(open)' = Size(open) + k
        /\ \A n \in Names \ {open} : Size(n)' = Size(n)
    BY <1>7, <2>2, FilesAfterWrite DEF Size
  <2>4. /\ Size(open) \in Nat /\ Earlier \in Int
        /\ Room(open) = Earlier + max_size_ + MaxLen
    BY <2>2, Rooms
  <2>5. Size(open) <= Earlier + cur_cnt_ + batch.written /\ cur_cnt_ <= max_size_ + 0
    BY <1>3, <2>1, <2>2 DEF OpenOK
  <2>6. Size(open)' <= Earlier + cur_cnt_ + (batch.written + k)
    BY <1>1, <2>1, <2>3, <2>4, <2>5
  <2>7. Size(open)' <= Room(open)
    <3>1. batch.written + k <= MaxLen
      BY <1>1, <2>1
    <3> QED
      BY <1>1, <2>1, <2>3, <2>4, <2>5, <2>6, <3>1
  <2>8. Earlier' = Earlier /\ \A n \in Names : Room(n)' = Room(n)
    BY <2>1 DEF Earlier, Room
  <2>9. \A n \in Names : TimesOK(n)' /\ SizeOK(n)'
    BY <1>3, <2>1, <2>3, <2>7, <2>8 DEF TimesOK, SizeOK
  <2>10. Size(file_)' = Size(open)'
    BY <2>2 DEF Size
  <2>11. OpenOK'
    BY <2>1, <2>5, <2>6, <2>8, <2>10 DEF OpenOK
  <2> QED
    BY <2>9, <2>11
<1>8. ASSUME WriteFails
      PROVE  AllOK'
  <2>1. /\ UNCHANGED <<cnt_, crashes, cur_cnt_, file_, files>> /\ pc = "write" /\ pc' = "idle"
        /\ opened' = [opened EXCEPT ![file_].uncounted = @ + batch.written]
    BY <1>8 DEF WriteFails
  <2>2. PICK open \in Names : open = file_ /\ file_' = open /\ open # NoFile
    BY <2>1, SinkAssumption DEF TypeOK
  <2>3. /\ opened'[open].uncounted = opened[open].uncounted + batch.written
        /\ \A n \in Names : opened'[n].times = opened[n].times
        /\ \A n \in Names \ {open} : opened'[n] = opened[n]
    BY <2>1, <2>2 DEF TypeOK
  <2>4. \A n \in Names : TimesOK(n)' /\ Size(n)' = Size(n)
    BY <1>3, <2>1, <2>3 DEF TimesOK, Size
  <2>5. /\ Size(open) \in Nat /\ Earlier \in Int /\ Room(open) \in Int
        /\ opened[open].uncounted \in Nat /\ opened[open].times \in Nat
        /\ Allowed(opened[open].times) \in Int
    BY <2>2, Rooms
  <2>6. Room(open)' = Room(open) + batch.written
    BY <1>1, <2>3, <2>5 DEF Room
  <2>7. Earlier' = Earlier + batch.written
    <3> DEFINE old == Allowed(opened[open].times - 1)
    <3>1. Earlier' = old + (opened[open].uncounted + batch.written)
      BY <2>2, <2>3 DEF Earlier
    <3>2. Earlier = old + opened[open].uncounted
      BY <2>2 DEF Earlier
    <3>3. old \in Int
      BY <2>5, OneMore
    <3> HIDE DEF old
    <3> QED
      BY <1>1, <2>5, <3>1, <3>2, <3>3
  <2>8. ASSUME NEW n \in Names
        PROVE  SizeOK(n)'
    <3>1. Size(n) <= Room(n)
      BY <1>3 DEF SizeOK
    <3>2. CASE n = open
      BY <1>1, <2>4, <2>5, <2>6, <3>1, <3>2 DEF SizeOK
    <3>3. CASE n # open
      BY <2>3, <2>4, <3>1, <3>3 DEF SizeOK, Room
    <3> QED
      BY <3>2, <3>3
  <2>9. OpenOK'
    <3>1. Size(open) <= Earlier + cur_cnt_ + batch.written /\ cur_cnt_ <= max_size_ + 0
      BY <1>3, <2>1, <2>2 DEF OpenOK
    <3>2. Size(file_)' = Size(open)
      BY <2>1, <2>2 DEF Size
    <3>3. Size(open) <= (Earlier + batch.written) + cur_cnt_ + 0
      BY <1>1, <2>5, <3>1
    <3>4. cur_cnt_ <= max_size_ + MaxLen
      BY <1>1, <3>1
    <3> QED
      BY <2>1, <2>7, <3>2, <3>3, <3>4 DEF OpenOK
  <2> QED
    BY <2>4, <2>8, <2>9
<1>9. ASSUME WriteEnds
      PROVE  AllOK'
  <2>1. /\ UNCHANGED <<cnt_, crashes, file_, files, opened, batch>>
        /\ pc = "write" /\ pc' \in {"idle", "fflush"}
        /\ cur_cnt_' = cur_cnt_ + batch.len
    BY <1>9 DEF WriteEnds
  <2>2. file_ \in Names /\ file_ # NoFile
    BY <2>1, SinkAssumption DEF TypeOK
  <2>3. \A n \in Names : TimesOK(n)' /\ SizeOK(n)'
    BY <1>3, <2>1 DEF TimesOK, SizeOK, Size, Room
  <2>4. Size(file_) <= Earlier + cur_cnt_ + batch.written /\ cur_cnt_ <= max_size_ + 0
    BY <1>3, <2>1, <2>2 DEF OpenOK
  <2>5. Size(file_) \in Nat /\ Earlier \in Int
    BY <2>2, Rooms
  <2>6. /\ Size(file_) <= Earlier + (cur_cnt_ + batch.len) + 0
        /\ cur_cnt_ + batch.len <= max_size_ + MaxLen
    BY <1>1, <2>4, <2>5
  <2>7. Size(file_)' = Size(file_) /\ Earlier' = Earlier
    BY <2>1 DEF Size, Earlier
  <2>8. OpenOK'
    BY <2>1, <2>6, <2>7 DEF OpenOK
  <2> QED
    BY <2>3, <2>8
<1>10. ASSUME FFlush \/ FSync \/ FFlushFails \/ FSyncFails
                  \/ Spill \/ (\E n \in Names : WriteBack(n)) \/ Tick
       PROVE  AllOK'
  <2>1. /\ UNCHANGED <<cnt_, crashes, cur_cnt_, file_, opened, batch>>
        /\ pc' = "write" <=> pc = "write"
        /\ pc' = "dead" <=> pc = "dead"
    BY <1>10 DEF FFlush, FSync, FFlushFails, FSyncFails, Spill, WriteBack, Tick
  <2>2. files' \in [Names -> File] /\ \A n \in Names : Tidy(files[n], files'[n])
    BY <1>10, FilesTidy DEF FFlushFails, FSyncFails, Tick
  <2>3. \A n \in Names : Size(n)' <= Size(n) /\ Size(n)' \in Nat
    BY <2>2, LenProperties DEF Tidy, Trimmed, File, Size
  <2>4. \A n \in Names : TimesOK(n)' /\ SizeOK(n)'
    <3>1. \A n \in Names : SizeOK(n)'
      BY <1>3, <2>1, <2>2, CutSizes DEF Tidy
    <3>2. \A n \in Names : TimesOK(n)'
      BY <1>3, <2>1 DEF TimesOK
    <3> QED
      BY <3>1, <3>2
  <2>5. OpenOK'
    <3> SUFFICES ASSUME file_ # NoFile
                 PROVE  OpenOK'
      BY <2>1 DEF OpenOK
    <3> DEFINE room == IF pc = "write" THEN batch.written ELSE 0
    <3>1. PICK open \in Names : open = file_ /\ file_' = open
      BY <2>1 DEF TypeOK
    <3>2. /\ Size(open) \in Nat /\ Earlier \in Int /\ room \in Nat
          /\ Size(open)' \in Nat /\ Size(open)' <= Size(open)
      BY <1>1, <2>3, <3>1, Rooms
    <3>3. /\ Size(open) <= Earlier + cur_cnt_ + room
          /\ cur_cnt_ <= max_size_ + IF pc = "write" THEN 0 ELSE MaxLen
      BY <1>3, <3>1 DEF OpenOK
    <3>4. room' = room /\ Earlier' = Earlier /\ Size(file_)' = Size(open)'
      BY <2>1, <3>1 DEF Earlier, Size
    <3> HIDE DEF room
    <3>5. Size(open)' <= Earlier + cur_cnt_ + room
      BY <1>1, <3>2, <3>3
    <3> QED
      BY <2>1, <3>3, <3>4, <3>5 DEF OpenOK, room
  <2> QED
    BY <2>4, <2>5
<1>11. ASSUME \/ \E len \in 0..MaxLen : OpenFails(len)
              \/ SinkDestroyed \/ ProcessEnds \/ MachineStops
       PROVE  AllOK'
  <2>1. /\ pc' = "dead" /\ crashes' = crashes + 1 /\ file_' = NoFile /\ opened' = opened
    BY <1>11 DEF OpenFails, SinkDestroyed, ProcessEnds, MachineStops
  <2>2. files' \in [Names -> File] /\ \A n \in Names : Trimmed(files[n], files'[n])
    <3>1. CASE MachineStops
      BY <3>1, FilesAfterStop
    <3>2. CASE ~MachineStops
      BY <1>11, <3>2, FilesTidy DEF OpenFails, SinkDestroyed, Tidy
    <3> QED
      BY <3>1, <3>2
  <2>3. \A n \in Names : SizeOK(n)'
    BY <1>3, <2>1, <2>2, CutSizes
  <2>4. \A n \in Names : TimesOK(n)'
    <3> SUFFICES ASSUME NEW n \in Names
                 PROVE  opened[n].times <= crashes + 1 + 0
      BY <2>1 DEF TimesOK
    <3>1. TimesOK(n) /\ opened[n].times \in Nat
      BY <1>3, Rooms
    <3> QED
      BY <1>1, <3>1 DEF TimesOK
  <2> QED
    BY <2>1, <2>3, <2>4 DEF OpenOK
<1>12. ASSUME Restart
       PROVE  AllOK'
  <2>1. /\ pc = "dead" /\ crashes' = crashes /\ file_' = NoFile
        /\ files' = files /\ opened' = opened
    BY <1>12 DEF Restart, OpenedFirst
  <2>2. ASSUME NEW n \in Names
        PROVE  TimesOK(n)' /\ SizeOK(n)'
    <3>1. TimesOK(n) /\ SizeOK(n) /\ opened[n].times \in Nat
      BY <1>3, Rooms
    <3>2. opened[n].times <= crashes + 0
      BY <2>1, <3>1 DEF TimesOK
    <3> QED
      BY <1>1, <2>1, <3>1, <3>2 DEF TimesOK, SizeOK, Size, Room
  <2> QED
    BY <2>1, <2>2 DEF OpenOK
<1>13. \A len \in 0..MaxLen : ~FlushWithoutFile(len)
  BY DEF FlushWithoutFile
<1> HIDE DEF AllOK
<1> QED
  BY <1>4, <1>5, <1>6, <1>7, <1>8, <1>9, <1>10, <1>11, <1>12, <1>13 DEF Next

LEMMA NextOrdered ==
    ASSUME TypeOK, Numbered, Ordered, [Next]_vars
    PROVE  Ordered'
<1>1. CASE UNCHANGED vars
  BY <1>1 DEF Ordered, BytesInOrder, Latest, vars
<1>2. ASSUME NEW k \in 1..MaxLen, Write(k)
      PROVE  Ordered'
  BY <1>2, WriteOrdered
<1>3. CASE \E len \in 0..MaxLen :
              \/ FlushIntoCurrent(len) \/ FlushWithoutFile(len)
              \/ FlushIntoNewFile(len) \/ OpenFails(len)
  <2>1. UNCHANGED files \/ FilesAfterClose(files')
    BY <1>3 DEF FlushIntoCurrent, FlushWithoutFile, FlushIntoNewFile, OpenFails
  <2>2. batch'.id = batch.id + 1
    BY <1>3 DEF FlushIntoCurrent, FlushWithoutFile, FlushIntoNewFile, OpenFails, NewBatch
  <2> QED
    BY <2>1, <2>2, FilesTidy, TrimmedOrdered DEF Tidy
<1>4. CASE \/ WriteFails \/ WriteEnds \/ FFlush \/ FFlushFails \/ FSync \/ FSyncFails
           \/ Spill \/ (\E n \in Names : WriteBack(n)) \/ Tick
           \/ SinkDestroyed \/ ProcessEnds \/ Restart
  <2>1. /\ UNCHANGED batch
        /\ \/ UNCHANGED files \/ FilesAfterClose(files') \/ FFlush \/ FSync \/ Spill
           \/ (\E n \in Names : WriteBack(n)) \/ ProcessEnds
    BY <1>4 DEF WriteFails, WriteEnds, FFlush, FFlushFails, FSync, FSyncFails, Spill,
                WriteBack, Tick, SinkDestroyed, ProcessEnds, Restart
  <2> QED
    BY <2>1, FilesTidy, TrimmedOrdered DEF Tidy
<1>5. CASE MachineStops
  <2>1. UNCHANGED batch
    BY <1>5 DEF MachineStops
  <2> QED
    BY <1>5, <2>1, FilesAfterStop, TrimmedOrdered
<1> QED
  BY <1>1, <1>2, <1>3, <1>4, <1>5 DEF Next

-----------------------------------------------------------------------------

IInv ==
    /\ TypeOK /\ Numbered
    /\ Ordered
    /\ FlushedSurvives /\ Present
    /\ Counted

LEMMA InitIInv == Init => IInv
<1> SUFFICES ASSUME Init
             PROVE  IInv
  OBVIOUS
<1>1. \A n \in Names : files[n].bytes = <<>> /\ Len(files[n].bytes) = 0
  BY EmptySeq DEF Init, NewFile
<1>2. Ordered
  BY <1>1 DEF Ordered, BytesInOrder, Latest
<1>3. FlushedSurvives /\ Present
  BY DEF Init, FlushedSurvives, Present, Flushing
<1>4. Counted
  <2> SUFFICES ASSUME rolls
               PROVE  (\A n \in Names : TimesOK(n) /\ SizeOK(n)) /\ OpenOK
    BY DEF Counted
  <2>1. file_ = NoFile /\ crashes = 0 /\ cnt_ = 1
    BY DEF Init, OpenedFirst
  <2>2. ASSUME NEW n \in Names
        PROVE  opened[n].times = 0 /\ opened[n].uncounted = 0
    BY DEF Init
  <2>3. Allowed(0) = 0
    BY SinkAssumption DEF Allowed
  <2>4. ASSUME NEW n \in Names
        PROVE  TimesOK(n) /\ SizeOK(n)
    <3>1. Size(n) = 0 /\ Room(n) = 0
      BY <1>1, <2>2, <2>3 DEF Size, Room
    <3> QED
      BY <2>1, <2>2, <3>1 DEF TimesOK, SizeOK
  <2> QED
    BY <2>1, <2>4 DEF OpenOK
<1> QED
  BY <1>2, <1>3, <1>4, InitTyped DEF IInv

LEMMA NextIInv == IInv /\ [Next]_vars => IInv'
  BY NextTyped, NextOrdered, NextDurable, NextPresent, NextCounted DEF IInv

LEMMA SpecIInv == Spec => []IInv
  BY InitIInv, NextIInv, PTL DEF Spec

\* Types; nothing is written without a file; stdio, kernel and disk each hold a
\* prefix of what the one above holds.
THEOREM LogFlushTypeOK == Spec => []TypeOK
<1>1. IInv => TypeOK
  BY DEF IInv
<1> QED
  BY <1>1, SpecIInv, PTL

\* flush_log_ keeps its word through crashes, restarts and rolling.
THEOREM LogFlushFlushedSurvives == Spec => []FlushedSurvives
<1>1. IInv => FlushedSurvives
  BY DEF IInv
<1> QED
  BY <1>1, SpecIInv, PTL

\* No file holds a byte twice or out of order.
THEOREM LogFlushBytesInOrder == Spec => []BytesInOrder
<1>1. IInv => BytesInOrder
  BY DEF IInv, Ordered
<1> QED
  BY <1>1, SpecIInv, PTL

\* A file gets at most max_size_ and one flush each time it is opened, and is opened at
\* most once by each process; what errors cut off comes on top.
THEOREM LogFlushOverrunIsOneBatch == Spec => []OverrunIsOneBatch
<1>1. IInv => OverrunIsOneBatch
  <2> SUFFICES ASSUME IInv, rolls, NEW n \in Names
               PROVE  /\ opened[n].times <= crashes + 1
                      /\ Len(files[n].bytes)
                            <= opened[n].times * (max_size_ + MaxLen) + opened[n].uncounted
    BY DEF OverrunIsOneBatch
  <2>1. opened[n].times \in Nat /\ crashes \in Nat
    BY DEF IInv, TypeOK
  <2>2. TimesOK(n) /\ SizeOK(n)
    BY DEF IInv, Counted
  <2> QED
    BY <2>1, <2>2 DEF TimesOK, SizeOK, Size, Room, Allowed
<1> QED
  BY <1>1, SpecIInv, PTL

=============================================================================
