---------------------------- MODULE BufferGrowth ----------------------------
(***************************************************************************)
(* The pure part of asynclog::Buffer (AsyncBuffer.hpp): the capacity that  *)
(* makeSpace chooses and the place to which it moves the readable bytes.   *)
(* A buffer is seen here as the three numbers the code computes with: the  *)
(* vector's size and the two positions; its bytes are in Buffer.tla.       *)
(*                                                                         *)
(* size_t is unbounded: MaxBytes, which every caller keeps its demands     *)
(* below, stands for the largest vector the allocator grants, and is far   *)
(* below 2^64 (and, for `int times`, below 2^31 * LinearGrowth).           *)
(***************************************************************************)
EXTENDS Integers, FiniteSetsExt

CONSTANTS
    BufferSize,    \* config_data_.buffer_size_, the initial capacity
    Threshold,     \* config_data_.threshold_, where doubling gives way
    LinearGrowth,  \* config_data_.linear_growth_, the unit of linear growth
    MaxBytes       \* bound: the most bytes a buffer is ever asked to hold

\* An empty vector never leaves the doubling loop and a growth unit of 0 is
\* divided by: the configuration has to exclude both.
ASSUME ConfigAssumption ==
    /\ BufferSize \in Nat \ {0}
    /\ Threshold \in Nat
    /\ LinearGrowth \in Nat \ {0}
    /\ MaxBytes \in Nat

\* buffer_.size() + times * linear_growth_ with times = len / linear_growth_ + 1.
LinearCapacity(size, len) == size + (len \div LinearGrowth + 1) * LinearGrowth

\* The size after each round of the doubling loop.
doubled(size) ==
    LET rounds[k \in 0..MaxBytes] == IF k = 0 THEN size ELSE rounds[k - 1] * 2
    IN  rounds

\* Faulty variant of EnoughDoublings: `<=` for `<` in the loop's condition.
EnoughDoublingsOffByOne(size, need) == {k \in 0..MaxBytes : doubled(size)[k] > need}

\* The rounds after which there is room for `need` bytes; the loop stops at the first.
EnoughDoublings(size, need) == {k \in 0..MaxBytes : doubled(size)[k] >= need}

DoubledCapacity(size, need) == doubled(size)[Min(EnoughDoublings(size, need))]

readableBytes(b)  == b.write_pos_ - b.read_pos_
writeableBytes(b) == b.size - b.write_pos_

\* makeSpace, first half: the readable bytes move to the front.
compacted(b) ==
    [b EXCEPT !.write_pos_ = b.write_pos_ - b.read_pos_, !.read_pos_ = 0]

\* makeSpace, second half: grow when compaction was not enough.
grown(b, len) ==
    IF writeableBytes(b) >= len
      THEN b
      ELSE [b EXCEPT !.size =
              IF b.size >= Threshold
                THEN LinearCapacity(b.size, len)
                ELSE DoubledCapacity(b.size, b.write_pos_ + len)]

\* Faulty variant of makeSpace: the free space on the left is not reclaimed.
makeSpaceWithoutCompaction(b, len) == grown(b, len)

makeSpace(b, len) == grown(compacted(b), len)

ensureEnoughSpace(b, len) ==
    IF writeableBytes(b) < len THEN makeSpace(b, len) ELSE b

\* What a Buffer's numbers look like between two calls.
PositionsOK(b) ==
    /\ b.size \in Nat \ {0} /\ b.write_pos_ \in Nat /\ b.read_pos_ \in Nat
    /\ b.read_pos_ <= b.write_pos_
    /\ b.write_pos_ <= b.size

NewPositions == [size |-> BufferSize, write_pos_ |-> 0, read_pos_ |-> 0]

=============================================================================
