----------------------------- MODULE ByteQueue -----------------------------
(***************************************************************************)
(* What asynclog::Buffer promises: a first-in first-out queue of bytes.    *)
(* Whatever the buffer does to its storage (compaction, doubling, linear   *)
(* growth), a byte put in comes out unchanged and in its turn.             *)
(***************************************************************************)
EXTENDS Integers, Sequences, SequencesExt

CONSTANT Byte

VARIABLE queue

Init == queue = <<>>

\* Bytes are added at the back; none that waits is changed or reordered.
Put == queue' \in Seq(Byte) /\ IsPrefix(queue, queue')

\* Bytes are taken from the front.
Take == \E n \in 0..Len(queue) : queue' = SubSeq(queue, n + 1, Len(queue))

Next == Put \/ Take

Spec == Init /\ [][Next]_queue

=============================================================================
