---------------------------- MODULE BufferProofs ----------------------------
(***************************************************************************)
(* Theorems about Buffer, for every configuration and every set of bytes.  *)
(* The first part is about the numbers alone: whatever the configuration,  *)
(* the readable bytes, the capacity and the number of new bytes,           *)
(* ensureEnoughSpace leaves well-formed positions with the room asked for  *)
(* (EnsureEnoughSpaceOK) in a vector not larger than the comments of       *)
(* makeSpace allow (EnsureEnoughSpaceTight).  AsyncWorkerProofs uses these *)
(* too.  In the second part TypeOK is inductive: EnsureEnoughSpaceOK is    *)
(* what a push needs, the clamping of the two moves is what the others     *)
(* need.                                                                   *)
(***************************************************************************)
EXTENDS Buffer, SequenceTheorems, FiniteSetTheorems, WellFoundedInduction, TLAPS

-----------------------------------------------------------------------------
(* The numbers: what makeSpace computes                                     *)

\* A bounded, non-empty set of naturals has a least element, and Min is it.
LEMMA LeastOf ==
    ASSUME NEW n \in Nat, NEW S, S \subseteq 0..n, S # {}
    PROVE  Min(S) \in S /\ \A y \in S : Min(S) <= y
<1> DEFINE T == {0..x : x \in S}
           R == StrictSubsetOrdering(0..n)
<1>1. T \subseteq FiniteSubsetsOf(0..n)
  <2> SUFFICES ASSUME NEW x \in S PROVE 0..x \in FiniteSubsetsOf(0..n)
    OBVIOUS
  <2> QED
    BY FS_Interval DEF FiniteSubsetsOf
<1>2. T # {}
  OBVIOUS
<1>3. IsWellFoundedOn(R, FiniteSubsetsOf(0..n))
  BY FS_StrictSubsetOrderingWellFounded
<1>4. PICK t \in T : \A u \in T : <<u, t>> \notin R
  <2> HIDE DEF T, R
  <2> QED
    BY <1>1, <1>2, <1>3, WFMin
<1>5. PICK x \in S : t = 0..x
  OBVIOUS
<1>6. ASSUME NEW y \in S
      PROVE  x <= y
  <2>1. <<0..y, 0..x>> \notin R
    BY <1>4, <1>5
  <2>2. ~(y < x)
    <3> SUFFICES ASSUME y < x PROVE FALSE
      OBVIOUS
    <3>1. 0..y \subseteq 0..x /\ 0..y # 0..x
      OBVIOUS
    <3>2. 0..y \in SUBSET (0..n) /\ 0..x \in SUBSET (0..n)
      OBVIOUS
    <3> QED
      BY <2>1, <3>1, <3>2 DEF StrictSubsetOrdering
  <2> QED
    BY <2>2
<1> QED
  BY <1>6 DEF Min

\* Linear growth makes room for len bytes and for at most one unit more.
LEMMA LinearHolds ==
    ASSUME NEW size \in Nat, NEW len \in Nat
    PROVE  /\ LinearCapacity(size, len) \in Nat
           /\ LinearCapacity(size, len) >= size + len
           /\ LinearCapacity(size, len) <= size + len + LinearGrowth
<1> DEFINE q == len \div LinearGrowth
<1>1. q \in Nat /\ LinearGrowth * q <= len /\ len < LinearGrowth * (q + 1)
  BY ConfigAssumption, Z3
<1> QED
  BY <1>1, ConfigAssumption DEF LinearCapacity

\* A set of numbers with 0 and, with each, the next has them all: no number is the
\* least that it lacks.
LEMMA Induction ==
    ASSUME NEW S, 0 \in S, \A n \in Nat : n \in S => n + 1 \in S
    PROVE  Nat \subseteq S
<1> DEFINE T == Nat \ S
           R == OpToRel(<, Nat)
<1> SUFFICES ASSUME T # {} PROVE FALSE
  OBVIOUS
<1>1. \A x, y \in Nat : <<x, y>> \in R <=> x < y
  BY DEF OpToRel
<1>2. IsWellFoundedOn(R, Nat)
  BY NatLessThanWellFounded
<1>3. PICK x \in T : \A y \in T : <<y, x>> \notin R
  <2>1. T \subseteq Nat
    OBVIOUS
  <2> HIDE DEF T, R
  <2> QED
    BY <1>2, <2>1, WFMin
<1>4. x - 1 \in T /\ x - 1 < x
  OBVIOUS
<1> HIDE DEF R
<1> QED
  BY <1>1, <1>3, <1>4

\* doubled is well-defined: there is one size after each round.
LEMMA DoubledDefined ==
    ASSUME NEW size \in Nat \ {0}
    PROVE  /\ doubled(size)[0] = size
           /\ \A n \in 1..MaxBytes : doubled(size)[n] = doubled(size)[n - 1] * 2
<1> DEFINE More(r, n) == r * 2
           Rounds(r, k) == [n \in 0..k |-> IF n = 0 THEN size ELSE More(r[n - 1], n)]
           S == {k \in Nat : \E r : r = Rounds(r, k)}
<1>typed. MaxBytes \in Nat
  BY ConfigAssumption
<1>chosen. doubled(size) = CHOOSE r : r = Rounds(r, MaxBytes)
  BY DEF doubled
<1> HIDE DEF More
<1>1. 0 \in S
  <2>1. [n \in 0..0 |-> size] = Rounds([n \in 0..0 |-> size], 0)
    OBVIOUS
  <2> QED
    BY <2>1
<1>2. ASSUME NEW k \in Nat, k \in S PROVE k + 1 \in S
  <2>1. PICK r : r = Rounds(r, k)
    BY <1>2
  <2> DEFINE q == [n \in 0..(k + 1) |-> IF n <= k THEN r[n] ELSE More(r[k], k + 1)]
  <2>2. q = Rounds(q, k + 1)
    <3>1. \A n \in 0..(k + 1) :
              q[n] = IF n = 0 THEN size ELSE More(q[n - 1], n)
      <4> TAKE n \in 0..(k + 1)
      <4>1. CASE n = 0
        BY <2>1, <4>1
      <4>2. CASE n \in 1..k
        <5>1. r[n] = More(r[n - 1], n)
          BY <2>1, <4>2
        <5>2. q[n] = r[n] /\ q[n - 1] = r[n - 1]
          BY <4>2
        <5> QED
          BY <5>1, <5>2, <4>2
      <4>3. CASE n = k + 1
        BY <4>3
      <4> QED
        BY <4>1, <4>2, <4>3
    <3> QED
      BY <3>1
  <2>3. \E r2 : r2 = Rounds(r2, k + 1)
    <3> HIDE DEF q
    <3> QED
      BY <2>2
  <2> HIDE DEF Rounds
  <2> QED
    BY <2>3
<1>3. Nat \subseteq S
  <2> HIDE DEF S
  <2> QED
    BY <1>1, <1>2, Induction
<1>4. \E r : r = Rounds(r, MaxBytes)
  <2>1. MaxBytes \in S
    BY <1>typed, <1>3
  <2> QED
    BY <2>1
<1>5. doubled(size) = Rounds(doubled(size), MaxBytes)
  BY <1>4, <1>chosen
<1>6. \A n \in 0..MaxBytes :
          doubled(size)[n] = IF n = 0 THEN size ELSE More(doubled(size)[n - 1], n)
  BY <1>5
<1>7. 0 \in 0..MaxBytes /\ \A n \in 1..MaxBytes : n \in 0..MaxBytes /\ n # 0
  BY <1>typed
<1>8. doubled(size)[0] = size
  BY <1>6, <1>7
<1>9. \A n \in 1..MaxBytes : doubled(size)[n] = More(doubled(size)[n - 1], n)
  BY <1>6, <1>7
<1> QED
  BY <1>8, <1>9 DEF More

\* Each round of the loop makes the vector larger.
LEMMA DoubledGrows ==
    ASSUME NEW size \in Nat \ {0}, NEW k \in 0..MaxBytes
    PROVE  doubled(size)[k] \in Nat /\ doubled(size)[k] >= size /\ doubled(size)[k] > k
<1> DEFINE d(j) == doubled(size)[j]
           S == {j \in Nat : j <= MaxBytes => d(j) \in Nat /\ d(j) >= size /\ d(j) > j}
<1>1. 0 \in S
  <2>1. d(0) = size
    BY DoubledDefined
  <2> QED
    BY <2>1
<1>2. ASSUME NEW j \in Nat, j \in S PROVE j + 1 \in S
  <2> SUFFICES ASSUME j + 1 <= MaxBytes
               PROVE  d(j + 1) \in Nat /\ d(j + 1) >= size /\ d(j + 1) > j + 1
    OBVIOUS
  <2>1. j + 1 \in 1..MaxBytes /\ (j + 1) - 1 = j
    BY ConfigAssumption
  <2>2. d(j + 1) = d(j) * 2
    BY <2>1, DoubledDefined
  <2>3. d(j) \in Nat /\ d(j) >= size /\ d(j) > j
    BY <1>2, ConfigAssumption
  <2> HIDE DEF d
  <2> QED
    BY <2>2, <2>3
<1> HIDE DEF S
<1>3. k \in S
  BY <1>1, <1>2, Induction, ConfigAssumption
<1> QED
  BY <1>3, ConfigAssumption DEF S

\* A vector that is not empty can be doubled until it holds what is needed:
\* the loop of makeSpace ends.
LEMMA DoublingEnds ==
    ASSUME NEW size \in Nat \ {0}, NEW need \in 0..MaxBytes
    PROVE  EnoughDoublings(size, need) # {}
<1>1. MaxBytes \in 0..MaxBytes
  BY ConfigAssumption
<1>2. doubled(size)[MaxBytes] \in Nat /\ doubled(size)[MaxBytes] > MaxBytes
  BY <1>1, DoubledGrows
<1>3. doubled(size)[MaxBytes] >= need
  BY <1>1, <1>2
<1> QED
  BY <1>1, <1>3 DEF EnoughDoublings

\* The loop ends after the first round that makes room enough.
LEMMA FirstEnough ==
    ASSUME NEW size \in Nat \ {0}, NEW need \in 0..MaxBytes,
           NEW k, k = Min(EnoughDoublings(size, need))
    PROVE  /\ k \in 0..MaxBytes /\ doubled(size)[k] >= need
           /\ \A j \in 0..MaxBytes : doubled(size)[j] >= need => k <= j
<1>1. EnoughDoublings(size, need) \subseteq 0..MaxBytes
  BY DEF EnoughDoublings
<1>2. k \in EnoughDoublings(size, need) /\ \A j \in EnoughDoublings(size, need) : k <= j
  BY <1>1, LeastOf, DoublingEnds, ConfigAssumption
<1> QED
  BY <1>2 DEF EnoughDoublings

\* Doubling holds what is needed, and never shrinks the vector.
LEMMA DoublingHolds ==
    ASSUME NEW size \in Nat \ {0}, NEW need \in 0..MaxBytes
    PROVE  /\ DoubledCapacity(size, need) \in Nat
           /\ DoubledCapacity(size, need) >= need
           /\ DoubledCapacity(size, need) >= size
<1>1. PICK k : k = Min(EnoughDoublings(size, need))
  OBVIOUS
<1>2. k \in 0..MaxBytes /\ doubled(size)[k] >= need
  BY <1>1, FirstEnough
<1> QED
  BY <1>1, <1>2, DoubledGrows DEF DoubledCapacity

\* Doubling stops in time: a vector that had to grow ends up below twice what
\* it has to hold.
LEMMA DoublingTight ==
    ASSUME NEW size \in Nat \ {0}, NEW need \in 0..MaxBytes, size < need
    PROVE  DoubledCapacity(size, need) < 2 * need
<1>1. PICK k : k = Min(EnoughDoublings(size, need))
  OBVIOUS
<1>2. /\ k \in 0..MaxBytes /\ doubled(size)[k] >= need
      /\ \A j \in 0..MaxBytes : doubled(size)[j] >= need => k <= j
  BY <1>1, FirstEnough
<1>3. k # 0
  <2>1. doubled(size)[0] = size
    BY DoubledDefined
  <2> QED
    BY <1>2, <2>1
<1>4. k \in 1..MaxBytes /\ k - 1 \in 0..MaxBytes /\ ~(k <= k - 1)
  BY <1>2, <1>3, ConfigAssumption
<1>5. doubled(size)[k] = doubled(size)[k - 1] * 2
  BY <1>4, DoubledDefined
<1>6. doubled(size)[k - 1] \in Nat /\ ~(doubled(size)[k - 1] >= need)
  BY <1>2, <1>4, DoubledGrows
<1> QED
  BY <1>1, <1>5, <1>6 DEF DoubledCapacity

\* A record that has a buffer's numbers among its fields.
HasPositions(b) ==
    {"size", "write_pos_", "read_pos_"} \subseteq DOMAIN b /\ PositionsOK(b)

\* The fields that makeSpace does not touch.
OtherFields(b) == DOMAIN b \ {"size", "write_pos_", "read_pos_"}

LEMMA CompactedOK ==
    ASSUME NEW b, HasPositions(b)
    PROVE  LET r == compacted(b)
           IN  /\ HasPositions(r)
               /\ readableBytes(r) = readableBytes(b)
               /\ r.size = b.size
               /\ r.read_pos_ = 0
               /\ DOMAIN r = DOMAIN b
               /\ \A f \in OtherFields(b) : r[f] = b[f]
<1> DEFINE w == b.write_pos_ - b.read_pos_
           r == compacted(b)
<1>1. w \in Nat /\ w <= b.size /\ b.size \in Nat \ {0}
  BY DEF HasPositions, PositionsOK
<1>2. /\ DOMAIN r = DOMAIN b
      /\ r.size = b.size /\ r.write_pos_ = w /\ r.read_pos_ = 0
      /\ \A f \in OtherFields(b) : r[f] = b[f]
  BY DEF compacted, HasPositions, OtherFields
<1>3. HasPositions(r)
  <2> HIDE DEF w, r
  <2> QED
    BY <1>1, <1>2 DEF HasPositions, PositionsOK
<1>4. readableBytes(r) = readableBytes(b)
  <2>1. readableBytes(b) = w
    BY DEF readableBytes
  <2> HIDE DEF w, r
  <2> QED
    BY <1>1, <1>2, <2>1 DEF readableBytes
<1> QED
  BY <1>2, <1>3, <1>4

LEMMA GrownOK ==
    ASSUME NEW b, HasPositions(b), b.read_pos_ = 0,
           NEW len \in Nat, readableBytes(b) + len <= MaxBytes
    PROVE  LET r == grown(b, len)
           IN  /\ HasPositions(r)
               /\ readableBytes(r) = readableBytes(b)
               /\ r.read_pos_ \in {0, b.read_pos_}
               /\ writeableBytes(r) >= len
               /\ r.size >= b.size
               /\ r.size # b.size => readableBytes(b) + len > b.size
               /\ DOMAIN r = DOMAIN b
               /\ \A f \in OtherFields(b) : r[f] = b[f]
<1> DEFINE lin == LinearCapacity(b.size, len)
           dbl == DoubledCapacity(b.size, b.write_pos_ + len)
           new == IF b.size >= Threshold THEN lin ELSE dbl
<1>1. b.size \in Nat \ {0} /\ b.write_pos_ \in Nat /\ b.write_pos_ + len \in 0..MaxBytes
  BY ConfigAssumption DEF HasPositions, PositionsOK, readableBytes
<1>2. b.write_pos_ <= b.size
  BY DEF HasPositions, PositionsOK
<1>3. lin \in Nat /\ lin >= b.size + len
  BY <1>1, LinearHolds
<1>4. dbl \in Nat /\ dbl >= b.write_pos_ + len /\ dbl >= b.size
  BY <1>1, DoublingHolds
<1>5. new \in Nat \ {0} /\ new >= b.write_pos_ + len /\ new >= b.size
  <2> HIDE DEF lin, dbl
  <2> QED
    BY <1>1, <1>2, <1>3, <1>4
<1>6. CASE writeableBytes(b) >= len
  BY <1>1, <1>6 DEF grown, HasPositions, PositionsOK, readableBytes, writeableBytes
<1>7. CASE ~(writeableBytes(b) >= len)
  <2>1. grown(b, len) = [b EXCEPT !.size = new]
    BY <1>7 DEF grown
  <2> HIDE DEF new
  <2> QED
    BY <1>1, <1>2, <1>5, <1>7, <2>1
    DEF HasPositions, PositionsOK, readableBytes, writeableBytes, OtherFields
<1> QED
  BY <1>6, <1>7

\* ensureEnoughSpace makes room for len bytes, loses none of the readable ones,
\* and gives the vector another size only when they would not all have fitted.
LEMMA EnsureEnoughSpaceOK ==
    ASSUME NEW b, HasPositions(b),
           NEW len \in Nat, readableBytes(b) + len <= MaxBytes
    PROVE  LET r == ensureEnoughSpace(b, len)
           IN  /\ HasPositions(r)
               /\ readableBytes(r) = readableBytes(b)
               /\ r.read_pos_ \in {0, b.read_pos_}
               /\ writeableBytes(r) >= len
               /\ r.size >= b.size
               /\ r.size # b.size => readableBytes(b) + len > b.size
               /\ DOMAIN r = DOMAIN b
               /\ \A f \in OtherFields(b) : r[f] = b[f]
<1> DEFINE c == compacted(b)
<1>1. CASE writeableBytes(b) < len
  <2>1. ensureEnoughSpace(b, len) = grown(c, len)
    BY <1>1 DEF ensureEnoughSpace, makeSpace
  <2>2. /\ HasPositions(c) /\ c.read_pos_ = 0
        /\ readableBytes(c) = readableBytes(b) /\ c.size = b.size
        /\ DOMAIN c = DOMAIN b
        /\ \A f \in OtherFields(b) : c[f] = b[f]
    BY CompactedOK
  <2>3. OtherFields(c) = OtherFields(b)
    BY <2>2 DEF OtherFields
  <2> HIDE DEF c
  <2> QED
    BY <2>1, <2>2, <2>3, GrownOK
<1>2. CASE ~(writeableBytes(b) < len)
  <2>1. ensureEnoughSpace(b, len) = b
    BY <1>2 DEF ensureEnoughSpace
  <2>2. writeableBytes(b) \in Int
    BY DEF HasPositions, PositionsOK, writeableBytes
  <2> QED
    BY <1>2, <2>1, <2>2 DEF HasPositions, PositionsOK
<1> QED
  BY <1>1, <1>2

\* What the capacity of a buffer that had to grow is bounded by.
LEMMA EnsureEnoughSpaceTight ==
    ASSUME NEW b, HasPositions(b),
           NEW len \in Nat, readableBytes(b) + len <= MaxBytes,
           ensureEnoughSpace(b, len).size # b.size
    PROVE  IF b.size < Threshold
             THEN ensureEnoughSpace(b, len).size < 2 * (readableBytes(b) + len)
             ELSE ensureEnoughSpace(b, len).size <= b.size + len + LinearGrowth
<1> DEFINE c == compacted(b)
           r == ensureEnoughSpace(b, len)
<1>1. /\ HasPositions(c) /\ c.size = b.size /\ c.write_pos_ = readableBytes(b)
      /\ c.size \in Nat \ {0} /\ c.write_pos_ \in Nat
  BY CompactedOK DEF HasPositions, PositionsOK, compacted, readableBytes
<1>2. r = grown(c, len)
  BY DEF ensureEnoughSpace, makeSpace
<1>3. ~(writeableBytes(c) >= len)
  BY <1>1, <1>2 DEF grown
<1>4. r.size = IF c.size >= Threshold
                 THEN LinearCapacity(c.size, len)
                 ELSE DoubledCapacity(c.size, c.write_pos_ + len)
  BY <1>1, <1>2, <1>3 DEF grown, HasPositions
<1>5. c.size < c.write_pos_ + len /\ c.write_pos_ + len \in 0..MaxBytes
  BY <1>1, <1>3, ConfigAssumption DEF writeableBytes
<1> HIDE DEF c, r
<1>6. DoubledCapacity(c.size, c.write_pos_ + len) < 2 * (c.write_pos_ + len)
  BY <1>1, <1>5, DoublingTight
<1>7. LinearCapacity(c.size, len) <= c.size + len + LinearGrowth
  BY <1>1, LinearHolds
<1>8. r.size = ensureEnoughSpace(b, len).size
  BY DEF r
<1> QED
  BY <1>1, <1>4, <1>6, <1>7, <1>8, ConfigAssumption

-----------------------------------------------------------------------------
(* The bytes and the operations                                             *)

LEMMA PushedData ==
    ASSUME NEW len \in 1..MaxPush, NEW data \in [1..len -> Byte]
    PROVE  data \in Seq(Byte) /\ Len(data) = len /\ len \in Nat
<1>1. len \in Nat
  BY ByteAssumption
<1> QED
  BY <1>1

\* What a push does to the numbers.
LEMMA PushPositions ==
    ASSUME TypeOK, NEW len \in 1..MaxPush, NEW data \in [1..len -> Byte], Push(data)
    PROVE  LET p == ensureEnoughSpace(pos, len)
           IN  /\ HasPositions(p) /\ DOMAIN p = DOMAIN pos
               /\ pos' = [p EXCEPT !.write_pos_ = @ + len]
               /\ readableBytes(p) = readableBytes(pos)
               /\ p.read_pos_ \in {0, pos.read_pos_}
               /\ writeableBytes(p) >= len
               /\ p.size >= pos.size
               /\ p.size # pos.size => readableBytes(pos) + len > pos.size
<1>1. Len(data) = len /\ len \in Nat
  BY PushedData
<1>2. HasPositions(pos)
  BY DEF TypeOK, HasPositions
<1>3. readableBytes(pos) + len <= MaxBytes
  BY <1>1 DEF Push
<1>4. pos' = [ensureEnoughSpace(pos, len) EXCEPT !.write_pos_ = @ + len]
  BY <1>1 DEF Push
<1> QED
  BY <1>1, <1>2, <1>3, <1>4, EnsureEnoughSpaceOK

LEMMA PushKeepsType ==
    ASSUME TypeOK, NEW len \in 1..MaxPush, NEW data \in [1..len -> Byte], Push(data)
    PROVE  TypeOK'
<1> DEFINE p == ensureEnoughSpace(pos, len)
<1>0. Len(data) = len /\ len \in Nat /\ data \in [1..len -> Byte]
  BY PushedData
<1>1. /\ HasPositions(p) /\ DOMAIN p = DOMAIN pos
      /\ pos' = [p EXCEPT !.write_pos_ = @ + len]
      /\ writeableBytes(p) >= len
  BY PushPositions
<1>2. buffer_' = [i \in Indices(p.size) |->
                    IF i \in p.write_pos_..(p.write_pos_ + len - 1)
                      THEN data[i - p.write_pos_ + 1]
                      ELSE MadeRoom(p, i)]
  BY <1>0 DEF Push
<1> HIDE DEF p
<1>3. PositionsOK(pos') /\ pos'.size = p.size /\ DOMAIN pos' = DOMAIN pos
  BY <1>0, <1>1 DEF HasPositions, PositionsOK, writeableBytes
<1>4. \A i \in Indices(p.size) : MadeRoom(p, i) \in Byte
  <2> SUFFICES ASSUME NEW i \in Indices(p.size) PROVE MadeRoom(p, i) \in Byte
    OBVIOUS
  <2>1. p.size \in Nat /\ i \in Nat
    BY <1>1 DEF HasPositions, PositionsOK, Indices
  <2>2. pos.read_pos_ \in Nat /\ pos.write_pos_ <= pos.size /\ pos.size \in Nat
        /\ pos.write_pos_ \in Nat
    BY DEF TypeOK, PositionsOK
  <2>3. buffer_ \in [Indices(pos.size) -> Byte] /\ Zero \in Byte
    BY ByteAssumption DEF TypeOK
  <2> QED
    BY <2>1, <2>2, <2>3 DEF MadeRoom, Indices
<1>5. p.write_pos_ \in Nat /\ p.size \in Nat
  BY <1>1 DEF HasPositions, PositionsOK
<1>6. buffer_' \in [Indices(p.size) -> Byte]
  BY <1>0, <1>2, <1>4, <1>5 DEF Indices
<1> QED
  BY <1>3, <1>6 DEF TypeOK

\* The positions are ordered within the vector and the vector holds bytes,
\* whatever sequence of calls is made: no copy leaves the vector.
THEOREM BufferTypeOK == Spec => []TypeOK
<1>1. Init => TypeOK
  BY ConfigAssumption, ByteAssumption
  DEF Init, TypeOK, NewPositions, PositionsOK, Indices
<1>2. TypeOK /\ [Next]_vars => TypeOK'
  <2> SUFFICES ASSUME TypeOK, [Next]_vars PROVE TypeOK'
    OBVIOUS
  <2> USE DEF TypeOK, PositionsOK, Indices
  <2>1. ASSUME NEW len \in 1..MaxPush, NEW data \in [1..len -> Byte], Push(data)
        PROVE  TypeOK'
    BY <2>1, PushKeepsType
  <2>2. ASSUME NEW len \in 1..MaxPush, MoveReadPos(len) PROVE TypeOK'
    BY <2>2, ByteAssumption DEF MoveReadPos, readableBytes
  <2>3. ASSUME NEW len \in 1..MaxPush, MoveWritePos(len) PROVE TypeOK'
    BY <2>3, ByteAssumption DEF MoveWritePos, writeableBytes
  <2>4. CASE Reset
    BY <2>4 DEF Reset
  <2>5. CASE UNCHANGED vars
    BY <2>5 DEF vars
  <2> QED
    BY <2>1, <2>2, <2>3, <2>4, <2>5 DEF Next
<1> QED
  BY <1>1, <1>2, PTL DEF Spec

\* makeSpace compacts before it grows, and never shrinks the vector.
THEOREM BufferGrowsOnlyWhenFull == Spec => GrowsOnlyWhenFull
<1> DEFINE Grows == pos'.size # pos.size =>
              pos'.size > pos.size /\ readableBytes(pos') > pos.size
<1>1. TypeOK /\ [Next]_vars => [Grows]_vars
  <2> SUFFICES ASSUME TypeOK, Next PROVE Grows
    OBVIOUS
  <2>1. ASSUME NEW len \in 1..MaxPush, NEW data \in [1..len -> Byte], Push(data)
        PROVE  Grows
    <3> DEFINE p == ensureEnoughSpace(pos, len)
    <3>1. /\ HasPositions(p) /\ DOMAIN p = DOMAIN pos
          /\ pos' = [p EXCEPT !.write_pos_ = @ + len]
          /\ readableBytes(p) = readableBytes(pos)
          /\ p.size >= pos.size
          /\ p.size # pos.size => readableBytes(pos) + len > pos.size
      BY <2>1, PushPositions
    <3>2. len \in Nat /\ PositionsOK(pos)
      BY PushedData DEF TypeOK
    <3> HIDE DEF p
    <3>3. pos'.size = p.size /\ readableBytes(pos') = readableBytes(pos) + len
      BY <3>1, <3>2 DEF HasPositions, PositionsOK, readableBytes
    <3> QED
      BY <3>1, <3>2, <3>3 DEF HasPositions, PositionsOK
  <2>2. ASSUME NEW len \in 1..MaxPush, MoveReadPos(len) PROVE pos'.size = pos.size
    BY <2>2 DEF MoveReadPos, TypeOK
  <2>3. ASSUME NEW len \in 1..MaxPush, MoveWritePos(len) PROVE pos'.size = pos.size
    BY <2>3 DEF MoveWritePos, TypeOK
  <2>4. CASE Reset
    BY <2>4 DEF Reset, TypeOK
  <2> QED
    BY <2>1, <2>2, <2>3, <2>4 DEF Next
<1> QED
  BY <1>1, BufferTypeOK, PTL DEF Spec, GrowsOnlyWhenFull
\* The growth policy of makeSpace does what its comment wants of it.
THEOREM BufferGrowthIsTight == Spec => GrowthIsTight
<1> DEFINE Grown == readableBytes(pos') - readableBytes(pos)
           Tight == pos'.size # pos.size =>
              IF pos.size < Threshold
                THEN pos'.size < 2 * readableBytes(pos')
                ELSE pos'.size <= pos.size + Grown + LinearGrowth
<1>1. TypeOK /\ [Next]_vars => [Tight]_vars
  <2> SUFFICES ASSUME TypeOK, Next PROVE Tight
    OBVIOUS
  <2>1. ASSUME NEW len \in 1..MaxPush, NEW data \in [1..len -> Byte], Push(data)
        PROVE  Tight
    <3> DEFINE p == ensureEnoughSpace(pos, len)
    <3>1. /\ HasPositions(p) /\ DOMAIN p = DOMAIN pos
          /\ pos' = [p EXCEPT !.write_pos_ = @ + len]
          /\ readableBytes(p) = readableBytes(pos)
      BY <2>1, PushPositions
    <3>2. len \in Nat /\ HasPositions(pos) /\ readableBytes(pos) \in Nat
      BY PushedData DEF TypeOK, HasPositions, PositionsOK, readableBytes
    <3>3. readableBytes(pos) + len <= MaxBytes
      BY <2>1, PushedData DEF Push
    <3>4. p.size # pos.size =>
             IF pos.size < Threshold
               THEN p.size < 2 * (readableBytes(pos) + len)
               ELSE p.size <= pos.size + len + LinearGrowth
      BY <3>2, <3>3, EnsureEnoughSpaceTight
    <3> HIDE DEF p
    <3>5. pos'.size = p.size /\ readableBytes(pos') = readableBytes(pos) + len
      BY <3>1, <3>2 DEF HasPositions, PositionsOK, readableBytes
    <3> QED
      BY <3>2, <3>4, <3>5
  <2>2. ASSUME NEW len \in 1..MaxPush, MoveReadPos(len) PROVE pos'.size = pos.size
    BY <2>2 DEF MoveReadPos, TypeOK
  <2>3. ASSUME NEW len \in 1..MaxPush, MoveWritePos(len) PROVE pos'.size = pos.size
    BY <2>3 DEF MoveWritePos, TypeOK
  <2>4. CASE Reset
    BY <2>4 DEF Reset, TypeOK
  <2> QED
    BY <2>1, <2>2, <2>3, <2>4 DEF Next
<1> QED
  BY <1>1, BufferTypeOK, PTL DEF Spec, GrowthIsTight

-----------------------------------------------------------------------------
(* The refinement of ByteQueue                                              *)

\* What a reader sees of a vector b at positions p, as a sequence.
LEMMA SeenIs ==
    ASSUME NEW p, PositionsOK(p), NEW b \in [Indices(p.size) -> Byte]
    PROVE  LET seen == [i \in 1..readableBytes(p) |-> b[p.read_pos_ + i - 1]]
           IN  /\ seen \in Seq(Byte) /\ Len(seen) = readableBytes(p)
               /\ readableBytes(p) \in Nat
               /\ \A i \in 1..readableBytes(p) : seen[i] = b[p.read_pos_ + i - 1]
<1> DEFINE seen == [i \in 1..readableBytes(p) |-> b[p.read_pos_ + i - 1]]
<1>1. /\ readableBytes(p) \in Nat
      /\ \A i \in 1..readableBytes(p) : p.read_pos_ + i - 1 \in Indices(p.size)
  BY DEF PositionsOK, readableBytes, Indices
<1>2. \A i \in 1..readableBytes(p) : b[p.read_pos_ + i - 1] \in Byte
  BY <1>1
<1>3. /\ seen \in [1..readableBytes(p) -> Byte]
      /\ \A i \in 1..readableBytes(p) : seen[i] = b[p.read_pos_ + i - 1]
  BY <1>2
<1> HIDE DEF seen
<1>4. seen \in Seq(Byte) /\ Len(seen) = readableBytes(p)
  BY <1>1, <1>3
<1> QED
  BY <1>1, <1>3, <1>4 DEF seen

\* One sequence is a prefix of another when it is no longer and agrees with it.
LEMMA PrefixOf ==
    ASSUME NEW s \in Seq(Byte), NEW t \in Seq(Byte),
           Len(s) <= Len(t), \A i \in 1..Len(s) : s[i] = t[i]
    PROVE  Queue!IsPrefix(s, t)
<1>1. Len(s) \in Nat /\ Len(t) \in Nat
  BY LenProperties
<1>2. \A i \in 1..Len(s) : s[i] \in Byte /\ t[i] \in Byte
  BY <1>1, ElementOfSeq
<1>3. /\ SubSeq(s, 1, Len(s)) \in Seq(Byte) /\ SubSeq(t, 1, Len(s)) \in Seq(Byte)
      /\ Len(SubSeq(s, 1, Len(s))) = Len(s) /\ Len(SubSeq(t, 1, Len(s))) = Len(s)
      /\ \A i \in 1..Len(s) :
            SubSeq(s, 1, Len(s))[i] = s[i] /\ SubSeq(t, 1, Len(s))[i] = t[i]
  BY <1>1, <1>2, SubSeqProperties
<1>4. SubSeq(s, 1, Len(s)) = SubSeq(t, 1, Len(s))
  <2> DEFINE u == SubSeq(s, 1, Len(s))
             v == SubSeq(t, 1, Len(s))
  <2>1. u \in Seq(Byte) /\ v \in Seq(Byte) /\ Len(u) = Len(v)
        /\ \A i \in 1..Len(u) : u[i] = v[i]
    BY <1>3
  <2> HIDE DEF u, v
  <2>2. u = v
    BY <2>1, SeqEqual
  <2> QED
    BY <2>2 DEF u, v
<1> QED
  BY <1>4 DEF Queue!IsPrefix

\* Readable bytes that stay where a reader looks for them are put behind.
LEMMA PutWhenKept ==
    ASSUME TypeOK, TypeOK', readableBytes(pos) <= readableBytes(pos'),
           \A i \in 1..readableBytes(pos) :
               buffer_'[pos'.read_pos_ + i - 1] = buffer_[pos.read_pos_ + i - 1]
    PROVE  Queue!Put
<1>1. /\ readable \in Seq(Byte) /\ Len(readable) = readableBytes(pos)
      /\ readableBytes(pos) \in Nat
      /\ \A i \in 1..readableBytes(pos) : readable[i] = buffer_[pos.read_pos_ + i - 1]
  BY SeenIs DEF TypeOK, readable
<1>2. /\ readable' \in Seq(Byte) /\ Len(readable') = readableBytes(pos')
      /\ readableBytes(pos') \in Nat
      /\ \A i \in 1..readableBytes(pos') :
            readable'[i] = buffer_'[pos'.read_pos_ + i - 1]
  BY SeenIs DEF TypeOK, readable
<1>3. \A i \in 1..Len(readable) : readable[i] = readable'[i]
  BY <1>1, <1>2
<1>4. Len(readable) <= Len(readable')
  BY <1>1, <1>2
<1>5. Queue!IsPrefix(readable, readable')
  BY <1>1, <1>2, <1>3, <1>4, PrefixOf
<1> QED
  BY <1>2, <1>5 DEF Queue!Put

\* makeSpace and the copy behind it change nothing of what a reader sees.
LEMMA PushPuts ==
    ASSUME TypeOK, NEW len \in 1..MaxPush, NEW data \in [1..len -> Byte], Push(data)
    PROVE  Queue!Put
<1> DEFINE p == ensureEnoughSpace(pos, len)
<1>1. /\ HasPositions(p)
      /\ pos' = [p EXCEPT !.write_pos_ = @ + len]
      /\ writeableBytes(p) >= len
      /\ readableBytes(p) = readableBytes(pos)
      /\ p.read_pos_ \in {0, pos.read_pos_}
  BY PushPositions
<1>2. Len(data) = len /\ len \in Nat
  BY PushedData
<1>3. buffer_' = [i \in Indices(p.size) |->
                    IF i \in p.write_pos_..(p.write_pos_ + len - 1)
                      THEN data[i - p.write_pos_ + 1]
                      ELSE MadeRoom(p, i)]
  BY <1>2 DEF Push
<1>4. TypeOK'
  BY PushKeepsType
<1> HIDE DEF p
<1>5. /\ p.size \in Nat /\ p.write_pos_ \in Nat /\ p.read_pos_ \in Nat
      /\ p.read_pos_ <= p.write_pos_ /\ p.write_pos_ <= p.size
      /\ p.write_pos_ - p.read_pos_ = pos.write_pos_ - pos.read_pos_
  BY <1>1 DEF HasPositions, PositionsOK, readableBytes
<1>6. /\ pos.size \in Nat /\ pos.write_pos_ \in Nat /\ pos.read_pos_ \in Nat
      /\ pos.read_pos_ <= pos.write_pos_ /\ pos.write_pos_ <= pos.size
  BY DEF TypeOK, PositionsOK
<1>7. pos'.read_pos_ = p.read_pos_ /\ pos'.write_pos_ = p.write_pos_ + len
  BY <1>1 DEF HasPositions
<1>8. readableBytes(pos) <= readableBytes(pos')
  BY <1>2, <1>5, <1>6, <1>7 DEF readableBytes
<1>9. ASSUME NEW i \in 1..readableBytes(pos)
      PROVE  buffer_'[pos'.read_pos_ + i - 1] = buffer_[pos.read_pos_ + i - 1]
  <2> DEFINE j == p.read_pos_ + i - 1
             k == pos.read_pos_ + i - 1
  <2>1. /\ j \in Indices(p.size) /\ j \notin p.write_pos_..(p.write_pos_ + len - 1)
        /\ k < pos.size
    <3>1. i \in Nat /\ i >= 1 /\ i <= pos.write_pos_ - pos.read_pos_
      BY <1>6 DEF readableBytes
    <3>2. j \in Nat /\ j < p.write_pos_
      BY <1>5, <1>6, <3>1
    <3>3. k < pos.size
      BY <1>6, <3>1
    <3> HIDE DEF j, k
    <3> QED
      BY <1>2, <1>5, <3>2, <3>3 DEF Indices
  <2>2. buffer_'[j] = MadeRoom(p, j)
    BY <1>3, <2>1
  <2>3. MadeRoom(p, j) = buffer_[k]
    <3>1. CASE p.read_pos_ = pos.read_pos_
      BY <2>1, <3>1 DEF MadeRoom
    <3>2. CASE p.read_pos_ # pos.read_pos_
      <4>1. j < readableBytes(pos) /\ j + pos.read_pos_ = k
        BY <1>1, <1>6, <3>2 DEF readableBytes
      <4> HIDE DEF j, k
      <4> QED
        BY <2>1, <3>2, <4>1 DEF MadeRoom
    <3> QED
      BY <3>1, <3>2
  <2> QED
    BY <1>7, <2>2, <2>3
<1> QED
  BY <1>4, <1>8, <1>9, PutWhenKept

\* Moving the read position by n takes the first n bytes.
LEMMA Takes ==
    ASSUME TypeOK, TypeOK', NEW n \in Nat, n <= readableBytes(pos),
           readableBytes(pos') = readableBytes(pos) - n,
           \A i \in 1..readableBytes(pos') :
               buffer_'[pos'.read_pos_ + i - 1] = buffer_[pos.read_pos_ + n + i - 1]
    PROVE  Queue!Take
<1>1. /\ readable \in Seq(Byte) /\ Len(readable) = readableBytes(pos)
      /\ readableBytes(pos) \in Nat
      /\ \A i \in 1..readableBytes(pos) : readable[i] = buffer_[pos.read_pos_ + i - 1]
  BY SeenIs DEF TypeOK, readable
<1>2. /\ readable' \in Seq(Byte) /\ Len(readable') = readableBytes(pos')
      /\ readableBytes(pos') \in Nat
      /\ \A i \in 1..readableBytes(pos') :
            readable'[i] = buffer_'[pos'.read_pos_ + i - 1]
  BY SeenIs DEF TypeOK, readable
<1> DEFINE L == Len(readable)
           rest == SubSeq(readable, n + 1, L)
<1>3. \A i \in (n + 1)..L : readable[i] \in Byte
  BY <1>1, ElementOfSeq
<1>4. /\ rest \in Seq(Byte)
      /\ Len(rest) = L - n
      /\ \A i \in 1..(L - n) : rest[i] = readable[n + i]
  <2>1. /\ rest \in Seq(Byte)
        /\ Len(rest) = IF n + 1 <= L THEN L - (n + 1) + 1 ELSE 0
        /\ \A i \in 1..(L - (n + 1) + 1) : rest[i] = readable[(n + 1) + i - 1]
    BY <1>1, <1>3, SubSeqProperties
  <2> HIDE DEF rest
  <2> QED
    BY <1>1, <2>1
<1>5. \A i \in 1..(L - n) : readable[n + i] = buffer_[pos.read_pos_ + n + i - 1]
  <2> SUFFICES ASSUME NEW i \in 1..(L - n)
               PROVE  readable[n + i] = buffer_[pos.read_pos_ + n + i - 1]
    OBVIOUS
  <2>1. n + i \in 1..readableBytes(pos)
    BY <1>1
  <2>2. pos.read_pos_ + (n + i) - 1 = pos.read_pos_ + n + i - 1
    BY <1>1 DEF TypeOK, PositionsOK
  <2> QED
    BY <1>1, <2>1, <2>2
<1> HIDE DEF rest
<1>6. readable' = rest
  <2>1. Len(readable') = Len(rest) /\ Len(readable') = L - n
    BY <1>1, <1>2, <1>4
  <2>2. ASSUME NEW i \in 1..(L - n)
        PROVE  readable'[i] = rest[i]
    <3>1. i \in 1..readableBytes(pos')
      BY <1>1
    <3>2. readable'[i] = buffer_'[pos'.read_pos_ + i - 1]
      BY <1>2, <3>1
    <3>3. buffer_'[pos'.read_pos_ + i - 1] = buffer_[pos.read_pos_ + n + i - 1]
      BY <3>1
    <3> QED
      BY <1>4, <1>5, <3>2, <3>3
  <2> QED
    BY <1>2, <1>4, <2>1, <2>2, SeqEqual
<1> QED
  BY <1>1, <1>6 DEF Queue!Take, rest

\* The buffer is a FIFO queue of bytes, whatever its configuration, for every
\* set of bytes and every sequence of calls.
THEOREM BufferImplementsByteQueue == Spec => IsByteQueue
<1>1. Init => Queue!Init
  <2> SUFFICES ASSUME Init PROVE readable = <<>>
    BY DEF Queue!Init
  <2>1. readableBytes(pos) = 0
    BY DEF Init, NewPositions, readableBytes
  <2> QED
    BY <2>1 DEF readable
<1>2. TypeOK /\ TypeOK' /\ [Next]_vars => [Queue!Next]_readable
  <2> SUFFICES ASSUME TypeOK, TypeOK', [Next]_vars PROVE [Queue!Next]_readable
    OBVIOUS
  <2>1. ASSUME NEW len \in 1..MaxPush, NEW data \in [1..len -> Byte], Push(data)
        PROVE  Queue!Put
    BY <2>1, PushPuts
  <2>2. ASSUME NEW len \in 1..MaxPush, MoveReadPos(len) PROVE Queue!Take
    <3> DEFINE n == IF len > readableBytes(pos) THEN readableBytes(pos) ELSE len
    <3>1. len \in Nat /\ readableBytes(pos) \in Nat
      BY ByteAssumption DEF TypeOK, PositionsOK, readableBytes
    <3>2. n \in Nat /\ n <= readableBytes(pos)
      BY <3>1
    <3>3. pos' = [pos EXCEPT !.read_pos_ = pos.read_pos_ + n] /\ buffer_' = buffer_
      <4>1. CASE len > readableBytes(pos)
        <5>1. pos.write_pos_ = pos.read_pos_ + n
          BY <4>1 DEF TypeOK, PositionsOK, readableBytes
        <5> QED
          BY <2>2, <4>1, <5>1 DEF MoveReadPos
      <4>2. CASE ~(len > readableBytes(pos))
        BY <2>2, <4>2 DEF MoveReadPos
      <4> QED
        BY <4>1, <4>2
    <3> HIDE DEF n
    <3>4. pos'.read_pos_ = pos.read_pos_ + n /\ pos'.write_pos_ = pos.write_pos_
      BY <3>3 DEF TypeOK
    <3>5. readableBytes(pos') = readableBytes(pos) - n
      BY <3>2, <3>4 DEF TypeOK, PositionsOK, readableBytes
    <3>6. \A i \in 1..readableBytes(pos') :
             buffer_'[pos'.read_pos_ + i - 1] = buffer_[pos.read_pos_ + n + i - 1]
      BY <3>3, <3>4
    <3> QED
      BY <3>2, <3>5, <3>6, Takes
  <2>3. ASSUME NEW len \in 1..MaxPush, MoveWritePos(len) PROVE Queue!Put
    <3>1. pos'.read_pos_ = pos.read_pos_ /\ buffer_' = buffer_
          /\ pos'.write_pos_ = IF len > writeableBytes(pos) THEN pos.size
                                                            ELSE pos.write_pos_ + len
      BY <2>3 DEF MoveWritePos, TypeOK
    <3>2. readableBytes(pos) <= readableBytes(pos')
      BY <3>1, ByteAssumption DEF TypeOK, PositionsOK, readableBytes, writeableBytes
    <3> QED
      BY <3>1, <3>2, PutWhenKept
  <2>4. ASSUME Reset PROVE Queue!Take
    <3> DEFINE n == readableBytes(pos)
    <3>1. pos'.read_pos_ = 0 /\ pos'.write_pos_ = 0
      BY <2>4 DEF Reset, TypeOK
    <3>2. n \in Nat /\ n <= readableBytes(pos) /\ readableBytes(pos') = 0
      BY <3>1 DEF TypeOK, PositionsOK, readableBytes
    <3>3. readableBytes(pos') = readableBytes(pos) - n
      BY <3>2
    <3> HIDE DEF n
    <3> QED
      BY <3>2, <3>3, Takes
  <2>5. CASE UNCHANGED vars
    BY <2>5 DEF vars, readable, readableBytes
  <2> QED
    BY <2>1, <2>2, <2>3, <2>4, <2>5 DEF Next, Queue!Next
<1> QED
  BY <1>1, <1>2, BufferTypeOK, PTL DEF Spec, IsByteQueue, Queue!Spec

=============================================================================
