------------------------------- MODULE Buffer -------------------------------
(***************************************************************************)
(* asynclog::Buffer (AsyncBuffer.hpp), byte by byte: the vector, the write *)
(* and the read position, and every operation that changes them.  One      *)
(* thread at a time owns a Buffer (AsyncWorker's mutex, then the worker),  *)
(* so each call is one step.  swap, which involves two buffers, is part of *)
(* AsyncWorker.tla.                                                        *)
(***************************************************************************)
EXTENDS BufferGrowth, Sequences

CONSTANTS
    Byte,       \* the bytes that are pushed
    Zero,       \* what a new or a resized vector is filled with
    MaxPush     \* bound: the longest single push, and the longest move

ASSUME ByteAssumption == Zero \in Byte /\ MaxPush \in Nat

VARIABLES
    buffer_,    \* the vector: index -> byte
    pos         \* [size, write_pos_, read_pos_]

vars == <<buffer_, pos>>

Indices(n) == 0..(n - 1)

Init ==
    /\ buffer_ = [i \in Indices(BufferSize) |-> Zero]
    /\ pos = NewPositions

\* Faulty variant of MadeRoom: the positions are moved, the bytes are not.
MadeRoomWithoutCopy(p, i) == IF i < pos.size THEN buffer_[i] ELSE Zero

\* The byte at index i once makeSpace has moved and resized the vector.
MadeRoom(p, i) ==
    LET from == IF p.read_pos_ # pos.read_pos_ /\ i < readableBytes(pos)
                  THEN i + pos.read_pos_
                  ELSE i
    IN  IF from < pos.size THEN buffer_[from] ELSE Zero

Push(data) ==
    LET len == Len(data)
        p   == ensureEnoughSpace(pos, len)
    IN  /\ readableBytes(pos) + len <= MaxBytes
        /\ pos' = [p EXCEPT !.write_pos_ = @ + len]
        /\ buffer_' = [i \in Indices(p.size) |->
                          IF i \in p.write_pos_..(p.write_pos_ + len - 1)
                            THEN data[i - p.write_pos_ + 1]
                            ELSE MadeRoom(p, i)]

\* Taking more than there is takes everything.
MoveReadPos(len) ==
    /\ pos' = [pos EXCEPT !.read_pos_ =
                  IF len > readableBytes(pos) THEN pos.write_pos_ ELSE @ + len]
    /\ UNCHANGED buffer_

\* Faulty variant of MoveWritePos: the end of the vector is not respected.
MoveWritePosUnclamped(len) ==
    /\ pos' = [pos EXCEPT !.write_pos_ = @ + len]
    /\ readableBytes(pos') <= MaxBytes
    /\ UNCHANGED buffer_

\* Publishes bytes that are in the vector already, as far as it reaches.
MoveWritePos(len) ==
    /\ pos' = [pos EXCEPT !.write_pos_ =
                  IF len > writeableBytes(pos) THEN pos.size ELSE @ + len]
    /\ readableBytes(pos') <= MaxBytes
    /\ UNCHANGED buffer_

Reset ==
    /\ pos' = [pos EXCEPT !.read_pos_ = 0, !.write_pos_ = 0]
    /\ UNCHANGED buffer_

Next ==
    \/ \E len \in 1..MaxPush : \E data \in [1..len -> Byte] : Push(data)
    \/ \E len \in 1..MaxPush : MoveReadPos(len) \/ MoveWritePos(len)
    \/ Reset

Spec == Init /\ [][Next]_vars

-----------------------------------------------------------------------------

\* The vector and the positions have their types, and the positions are
\* ordered within the vector: every index that peek, push and the copy of
\* makeSpace compute lies inside it.
TypeOK ==
    /\ DOMAIN pos = {"size", "write_pos_", "read_pos_"}
    /\ PositionsOK(pos)
    /\ buffer_ \in [Indices(pos.size) -> Byte]

\* What a reader sees between peek() and peek() + readableBytes().
readable == [i \in 1..readableBytes(pos) |-> buffer_[pos.read_pos_ + i - 1]]

\* The buffer is a FIFO byte queue, whatever compaction, doubling and linear
\* growth (makeSpace) do to its storage.
Queue == INSTANCE ByteQueue WITH queue <- readable
IsByteQueue == Queue!Spec

\* makeSpace compacts before it grows: the vector only grows when the readable
\* bytes and the new ones would not fit in the old one, and never shrinks.
GrowsOnlyWhenFull ==
    [][pos'.size # pos.size =>
          pos'.size > pos.size /\ readableBytes(pos') > pos.size]_vars

\* "Linear growth avoids excessive expansion" (comment in makeSpace): below the
\* threshold the vector stays under twice what it has to hold, above it the
\* slack is at most one unit of linear growth beyond the new bytes.
GrowthIsTight ==
    [][pos'.size # pos.size =>
          LET pushed == readableBytes(pos') - readableBytes(pos)
          IN  IF pos.size < Threshold
                THEN pos'.size < 2 * readableBytes(pos')
                ELSE pos'.size <= pos.size + pushed + LinearGrowth]_vars

=============================================================================
