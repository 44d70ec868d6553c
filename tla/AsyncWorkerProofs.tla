------------------------- MODULE AsyncWorkerProofs -------------------------
(***************************************************************************)
(* Theorems about AsyncWorker, for every set of producers, every set of    *)
(* message lengths and every configuration of the buffers.  The invariant  *)
(* IInv is inductive; the safety properties follow from it, and so does    *)
(* the refinement of LogChannel.                                           *)
(***************************************************************************)
EXTENDS AsyncWorker, SequenceTheorems, TLAPS

\* The lemmas about makeSpace are about a buffer's numbers only: what they are
\* imported with for the bytes and the variables of Buffer plays no part.
Growth == INSTANCE BufferProofs WITH Byte <- {0}, Zero <- 0, MaxPush <- 0,
                                     buffer_ <- 0, pos <- 0

-----------------------------------------------------------------------------
(* The inductive invariant                                                  *)

\* mtx_ is held where the code holds it, and nowhere else.
HoldsMutex ==
    /\ \A p \in Producers : ppc[p] = "append" <=> mtx = p
    /\ wpc \in {"presleep", "decide"} <=> mtx = Worker

\* The call a producer is in has been counted.
CallCounted == \A p \in Producers : ppc[p] = "append" => sent[p] > 0

\* A buffer's positions say whether there are messages in it.
Consistent(b) == b.read_pos_ = 0 /\ (b.write_pos_ = 0 <=> b.msgs = <<>>)

\* The consumer buffer is empty unless the functor is at work on it.
ConsumerDrained == wpc # "flush" => consumer.msgs = <<>>

\* The predicate that lets the background thread sleep was evaluated with mtx_
\* held until it does.
SleepJustified == wpc = "presleep" => ~needSwap(productor)

\* The background thread exits only stopped, and starts only started.
ExitIsFinal == wpc = "exited" => ~started /\ opc \notin {"new", "starting"}
NoThreadYet == opc \in {"new", "starting"} => wpc = "none"

IInv ==
    /\ TypeOK
    /\ HoldsMutex /\ CallCounted
    /\ Consistent(productor) /\ Consistent(consumer)
    /\ ConsumerDrained
    /\ SleepJustified /\ SwapIsSignalled
    /\ ExitIsFinal /\ NoThreadYet /\ NoLossAtExit
-----------------------------------------------------------------------------
(* Buffers as the worker uses them                                          *)

\* A record that has a buffer's numbers among its fields, and the other fields.
HasPositions(b) ==
    {"size", "write_pos_", "read_pos_"} \subseteq DOMAIN b /\ PositionsOK(b)
OtherFields(b) == DOMAIN b \ {"size", "write_pos_", "read_pos_"}

\* The worker's buffers and Buffer's make space by the same operators.
LEMMA SameNumbers ==
    ASSUME NEW b, NEW len
    PROVE  /\ Growth!ensureEnoughSpace(b, len) = ensureEnoughSpace(b, len)
           /\ Growth!readableBytes(b) = readableBytes(b)
           /\ Growth!writeableBytes(b) = writeableBytes(b)
           /\ Growth!HasPositions(b) <=> HasPositions(b)
           /\ Growth!OtherFields(b) = OtherFields(b)
<1>1. Growth!ensureEnoughSpace(b, len) = ensureEnoughSpace(b, len)
  BY DEF ensureEnoughSpace, makeSpace, grown, compacted, writeableBytes,
         LinearCapacity, DoubledCapacity, EnoughDoublings, doubled, Min,
         Growth!ensureEnoughSpace, Growth!makeSpace, Growth!grown, Growth!compacted,
         Growth!writeableBytes, Growth!LinearCapacity, Growth!DoubledCapacity,
         Growth!EnoughDoublings, Growth!doubled, Growth!Min
<1>2. /\ Growth!readableBytes(b) = readableBytes(b)
      /\ Growth!writeableBytes(b) = writeableBytes(b)
  BY DEF readableBytes, writeableBytes, Growth!readableBytes, Growth!writeableBytes
<1>3. Growth!HasPositions(b) <=> HasPositions(b)
  BY DEF HasPositions, PositionsOK, Growth!HasPositions, Growth!PositionsOK
<1>4. Growth!OtherFields(b) = OtherFields(b)
  BY DEF OtherFields, Growth!OtherFields
<1> QED
  BY <1>1, <1>2, <1>3, <1>4

\* ensureEnoughSpace makes room for len bytes and keeps what is readable.
LEMMA EnsureEnoughSpaceOK ==
    ASSUME NEW b, HasPositions(b),
           NEW len \in Nat, readableBytes(b) + len <= MaxBytes
    PROVE  LET r == ensureEnoughSpace(b, len)
           IN  /\ HasPositions(r)
               /\ readableBytes(r) = readableBytes(b)
               /\ r.read_pos_ \in {0, b.read_pos_}
               /\ writeableBytes(r) >= len
               /\ r.size >= b.size
               /\ r.size # b.size => readableBytes(b) + len > b.size
               /\ DOMAIN r = DOMAIN b
               /\ \A f \in OtherFields(b) : r[f] = b[f]
<1> DEFINE r == ensureEnoughSpace(b, len)
<1>1. Growth!HasPositions(b) /\ Growth!readableBytes(b) + len <= MaxBytes
  BY SameNumbers
<1>2. LET g == Growth!ensureEnoughSpace(b, len)
      IN  /\ Growth!HasPositions(g)
          /\ Growth!readableBytes(g) = Growth!readableBytes(b)
          /\ g.read_pos_ \in {0, b.read_pos_}
          /\ Growth!writeableBytes(g) >= len
          /\ g.size >= b.size
          /\ g.size # b.size => Growth!readableBytes(b) + len > b.size
          /\ DOMAIN g = DOMAIN b
          /\ \A f \in Growth!OtherFields(b) : g[f] = b[f]
  BY <1>1, ConfigAssumption, Growth!EnsureEnoughSpaceOK
<1> QED
  BY <1>2, SameNumbers

\* What the capacity of a buffer that had to grow is bounded by.
LEMMA EnsureEnoughSpaceTight ==
    ASSUME NEW b, HasPositions(b),
           NEW len \in Nat, readableBytes(b) + len <= MaxBytes,
           ensureEnoughSpace(b, len).size # b.size
    PROVE  IF b.size < Threshold
             THEN ensureEnoughSpace(b, len).size < 2 * (readableBytes(b) + len)
             ELSE ensureEnoughSpace(b, len).size <= b.size + len + LinearGrowth
<1>1. /\ Growth!HasPositions(b) /\ Growth!readableBytes(b) + len <= MaxBytes
      /\ Growth!ensureEnoughSpace(b, len).size # b.size
  BY SameNumbers
<1>2. IF b.size < Threshold
        THEN Growth!ensureEnoughSpace(b, len).size < 2 * (Growth!readableBytes(b) + len)
        ELSE Growth!ensureEnoughSpace(b, len).size <= b.size + len + LinearGrowth
  BY <1>1, ConfigAssumption, Growth!EnsureEnoughSpaceTight
<1> QED
  BY <1>2, SameNumbers

\* A push leaves a well-formed buffer with the message at its end.
LEMMA PushedOK ==
    ASSUME NEW b \in BufferState, PositionsOK(b), Consistent(b),
           NEW m \in Message, readableBytes(b) + m.len <= MaxBytes
    PROVE  /\ pushed(b, m) \in BufferState
           /\ PositionsOK(pushed(b, m)) /\ Consistent(pushed(b, m))
           /\ pushed(b, m).msgs = Append(b.msgs, m)
           /\ readableBytes(pushed(b, m)) = readableBytes(b) + m.len
           /\ pushed(b, m).size = ensureEnoughSpace(b, m.len).size
<1> DEFINE r == ensureEnoughSpace(b, m.len)
<1>1. m.len \in Nat \ {0}
  BY WorkerAssumption DEF Message
<1>2. HasPositions(b) /\ DOMAIN b = {"msgs", "size", "write_pos_", "read_pos_"}
  BY DEF HasPositions, BufferState
<1>3. /\ HasPositions(r) /\ DOMAIN r = DOMAIN b
      /\ readableBytes(r) = readableBytes(b)
      /\ r.read_pos_ = 0
      /\ writeableBytes(r) >= m.len
      /\ r.msgs = b.msgs
  BY <1>1, <1>2, EnsureEnoughSpaceOK DEF OtherFields, Consistent
<1>4. Append(b.msgs, m) \in Seq(Message) /\ Append(b.msgs, m) # <<>>
  BY AppendProperties DEF BufferState
<1>5. b.write_pos_ \in Nat /\ b.read_pos_ = 0
  BY DEF PositionsOK, Consistent
<1>6. pushed(b, m) = [r EXCEPT !.msgs = Append(@, m), !.write_pos_ = @ + m.len]
  BY DEF pushed
<1> HIDE DEF r
<1>7. /\ pushed(b, m).msgs = Append(b.msgs, m)
      /\ pushed(b, m).size = r.size
      /\ pushed(b, m).read_pos_ = 0
      /\ pushed(b, m).write_pos_ = r.write_pos_ + m.len
      /\ DOMAIN pushed(b, m) = DOMAIN b
  BY <1>2, <1>3, <1>6
<1>8. /\ r.size \in Nat \ {0} /\ r.write_pos_ \in Nat
      /\ r.write_pos_ + m.len <= r.size
  BY <1>1, <1>3 DEF HasPositions, PositionsOK, writeableBytes
<1>9. pushed(b, m) \in BufferState
  <2> DEFINE q == [msgs |-> Append(b.msgs, m), size |-> r.size,
                   write_pos_ |-> r.write_pos_ + m.len, read_pos_ |-> 0]
  <2>1. q \in BufferState
    BY <1>1, <1>4, <1>8 DEF BufferState
  <2>2. pushed(b, m) = q
    BY <1>2, <1>3, <1>6
  <2> QED
    BY <2>1, <2>2
<1> QED
  BY <1>1, <1>3, <1>4, <1>5, <1>7, <1>8, <1>9
  DEF PositionsOK, Consistent, readableBytes, r

LEMMA ResetOK ==
    ASSUME NEW b \in BufferState, PositionsOK(b)
    PROVE  /\ resetBuffer(b) \in BufferState
           /\ PositionsOK(resetBuffer(b)) /\ Consistent(resetBuffer(b))
           /\ resetBuffer(b).msgs = <<>> /\ resetBuffer(b).size = b.size
           /\ readableBytes(resetBuffer(b)) = 0
<1> DEFINE e == [msgs |-> <<>>, size |-> b.size, write_pos_ |-> 0, read_pos_ |-> 0]
<1>1. resetBuffer(b) = e
  BY DEF resetBuffer, NewBuffer
<1>2. <<>> \in Seq(Message) /\ b.size \in Nat \ {0}
  BY DEF BufferState
<1> QED
  BY <1>1, <1>2 DEF BufferState, PositionsOK, Consistent, readableBytes

LEMMA NewBufferOK ==
    /\ NewBuffer \in BufferState
    /\ PositionsOK(NewBuffer) /\ Consistent(NewBuffer)
    /\ NewBuffer.msgs = <<>>
BY ConfigAssumption DEF NewBuffer, BufferState, PositionsOK, Consistent

-----------------------------------------------------------------------------
(* IInv is inductive                                                        *)

LEMMA InitIInv == Init => IInv
<1> SUFFICES ASSUME Init PROVE IInv
  OBVIOUS
<1>1. TypeOK
  <2>1. output \in Seq(Message)
    BY DEF Init
  <2>2. /\ productor \in BufferState /\ PositionsOK(productor)
        /\ consumer \in BufferState /\ PositionsOK(consumer)
    BY NewBufferOK DEF Init
  <2>3. sent \in [Producers -> 0..MaxSends]
    BY WorkerAssumption DEF Init
  <2> QED
    BY <2>1, <2>2, <2>3 DEF Init, TypeOK
<1>2. HoldsMutex /\ CallCounted
  BY WorkerAssumption DEF Init, HoldsMutex, CallCounted
<1>3. Consistent(productor) /\ Consistent(consumer) /\ ConsumerDrained
  BY NewBufferOK DEF Init, ConsumerDrained
<1>4. SleepJustified /\ SwapIsSignalled /\ ExitIsFinal /\ NoThreadYet /\ NoLossAtExit
  BY DEF Init, SleepJustified, SwapIsSignalled, ExitIsFinal, NoThreadYet, NoLossAtExit
<1> QED
  BY <1>1, <1>2, <1>3, <1>4 DEF IInv

\* The owner touches neither buffer, and wakes the background thread at most.
LEMMA OwnerKeepsIInv == IInv /\ OwnerNext => IInv'
<1> SUFFICES ASSUME IInv, OwnerNext PROVE IInv'
  OBVIOUS
<1> USE DEF IInv, TypeOK, HoldsMutex, CallCounted, Consistent, ConsumerDrained,
            SleepJustified, SwapIsSignalled, ExitIsFinal, NoThreadYet, NoLossAtExit
<1>1. CASE Start
  BY <1>1 DEF Start
<1>2. CASE StartThread
  BY <1>2 DEF StartThread
<1>3. CASE Stop
  BY <1>3 DEF Stop
<1>4. CASE Destroy
  BY <1>4 DEF Destroy
<1>5. CASE StopNotify
  BY <1>5 DEF StopNotify, woken
<1>6. CASE Join
  BY <1>6 DEF Join
<1> QED
  BY <1>1, <1>2, <1>3, <1>4, <1>5, <1>6 DEF OwnerNext

\* What PushAppend does to the buffer it appends to.
LEMMA AppendStep ==
    ASSUME IInv, NEW p \in Producers, NEW len \in Lengths, PushAppend(p, len)
    PROVE  LET m == [from |-> p, seq |-> sent[p], len |-> len]
           IN  /\ m \in Message
               /\ productor' = pushed(productor, m)
               /\ productor' \in BufferState
               /\ PositionsOK(productor') /\ Consistent(productor')
               /\ productor'.msgs = Append(productor.msgs, m)
               /\ readableBytes(productor') = readableBytes(productor) + len
               /\ productor'.size = ensureEnoughSpace(productor, len).size
<1> DEFINE m == [from |-> p, seq |-> sent[p], len |-> len]
<1>1. sent[p] \in 1..MaxSends
  BY WorkerAssumption DEF IInv, TypeOK, CallCounted, PushAppend
<1>2. m \in Message
  BY <1>1 DEF Message
<1>3. /\ productor \in BufferState /\ PositionsOK(productor) /\ Consistent(productor)
  BY DEF IInv, TypeOK
<1>4. productor' = pushed(productor, m) /\ readableBytes(productor) + m.len <= MaxBytes
  BY DEF PushAppend
<1>5. m.len = len
  OBVIOUS
<1> HIDE DEF m
<1>6. /\ pushed(productor, m) \in BufferState
      /\ PositionsOK(pushed(productor, m)) /\ Consistent(pushed(productor, m))
      /\ pushed(productor, m).msgs = Append(productor.msgs, m)
      /\ readableBytes(pushed(productor, m)) = readableBytes(productor) + m.len
      /\ pushed(productor, m).size = ensureEnoughSpace(productor, m.len).size
  BY <1>2, <1>3, <1>4, PushedOK
<1>7. /\ m \in Message
      /\ productor' = pushed(productor, m)
      /\ productor' \in BufferState
      /\ PositionsOK(productor') /\ Consistent(productor')
      /\ productor'.msgs = Append(productor.msgs, m)
      /\ readableBytes(productor') = readableBytes(productor) + len
      /\ productor'.size = ensureEnoughSpace(productor, len).size
  BY <1>2, <1>4, <1>5, <1>6
<1> QED
  BY <1>7 DEF m

\* A producer appends with mtx_ held, so no other thread is at the buffer, and
\* it notifies afterwards exactly when the buffer has become full enough.
LEMMA PushKeepsIInv ==
    ASSUME IInv, NEW p \in Producers, PushNext(p)
    PROVE  IInv'
<1> USE WorkerAssumption
<1>1. CASE PushEnter(p)
  <2>1. TypeOK'
    BY <1>1 DEF PushEnter, IInv, TypeOK
  <2>2. HoldsMutex' /\ CallCounted'
    BY <1>1 DEF PushEnter, IInv, TypeOK, HoldsMutex, CallCounted
  <2>3. NoLossAtExit'
    BY <1>1 DEF PushEnter, IInv, TypeOK, ExitIsFinal, NoLossAtExit
  <2>4. SwapIsSignalled'
    BY <1>1 DEF PushEnter, IInv, TypeOK, SwapIsSignalled, needSwap, readableBytes
  <2> QED
    BY <1>1, <2>1, <2>2, <2>3, <2>4
    DEF PushEnter, IInv, Consistent, ConsumerDrained, SleepJustified, ExitIsFinal,
        NoThreadYet, needSwap, readableBytes
<1>2. ASSUME NEW len \in Lengths, PushRefused(p, len)
      PROVE  IInv'
  <2>1. TypeOK'
    BY <1>2 DEF PushRefused, IInv, TypeOK
  <2>2. HoldsMutex' /\ CallCounted'
    BY <1>2 DEF PushRefused, IInv, TypeOK, HoldsMutex, CallCounted
  <2>3. NoLossAtExit'
    BY <1>2 DEF PushRefused, IInv, TypeOK, NoLossAtExit
  <2>4. SwapIsSignalled'
    BY <1>2 DEF PushRefused, IInv, TypeOK, SwapIsSignalled, needSwap, readableBytes
  <2> QED
    BY <1>2, <2>1, <2>2, <2>3, <2>4
    DEF PushRefused, IInv, Consistent, ConsumerDrained, SleepJustified, ExitIsFinal,
        NoThreadYet, needSwap, readableBytes
<1>3. ASSUME NEW len \in Lengths, PushAppend(p, len)
      PROVE  IInv'
  <2>1. productor' \in BufferState /\ PositionsOK(productor') /\ Consistent(productor')
    BY <1>3, AppendStep
  <2>2. TypeOK'
    BY <1>3, <2>1 DEF PushAppend, IInv, TypeOK
  <2>3. HoldsMutex' /\ CallCounted'
    BY <1>3 DEF PushAppend, IInv, TypeOK, HoldsMutex, CallCounted
  <2>4. wpc \notin {"presleep", "decide", "exited"} /\ wpc' = wpc
    BY <1>3 DEF PushAppend, IInv, HoldsMutex, NoLossAtExit
  <2>5. SwapIsSignalled'
    BY <1>3 DEF PushAppend, IInv, TypeOK, SwapIsSignalled
  <2>6. Consistent(consumer)' /\ ConsumerDrained'
    BY <1>3 DEF PushAppend, IInv, ConsumerDrained, Consistent
  <2> QED
    BY <1>3, <2>1, <2>2, <2>3, <2>4, <2>5, <2>6
    DEF PushAppend, IInv, SleepJustified, ExitIsFinal, NoThreadYet, NoLossAtExit
<1>4. CASE PushNotify(p)
  <2>1. TypeOK'
    BY <1>4 DEF PushNotify, woken, IInv, TypeOK
  <2>2. HoldsMutex' /\ CallCounted'
    BY <1>4 DEF PushNotify, woken, IInv, TypeOK, HoldsMutex, CallCounted
  <2>3. wpc' # "asleep" /\ (wpc' # wpc => wpc = "asleep" /\ wpc' = "lock")
    BY <1>4 DEF PushNotify, woken
  <2>4. NoLossAtExit'
    BY <1>4, <2>3 DEF PushNotify, IInv, TypeOK, NoLossAtExit
  <2> QED
    BY <1>4, <2>1, <2>2, <2>3, <2>4
    DEF PushNotify, IInv, Consistent, ConsumerDrained, SleepJustified, SwapIsSignalled,
        ExitIsFinal, NoThreadYet, needSwap, readableBytes
<1> QED
  BY <1>1, <1>2, <1>3, <1>4 DEF PushNext

\* The background thread sleeps, exits and swaps with mtx_ held, and has the
\* consumer buffer for itself.
LEMMA WorkerKeepsIInv == IInv /\ WorkerNext => IInv'
<1> SUFFICES ASSUME IInv, WorkerNext PROVE IInv'
  OBVIOUS
<1> USE WorkerAssumption
<1>1. CASE WorkerLock
  BY <1>1 DEF WorkerLock, IInv, TypeOK, HoldsMutex, CallCounted, Consistent,
              ConsumerDrained, SleepJustified, SwapIsSignalled, ExitIsFinal,
              NoThreadYet, NoLossAtExit, needSwap, readableBytes
<1>2. CASE WorkerSleep
  <2>1. ~needSwap(productor)'
    BY <1>2 DEF WorkerSleep, IInv, SleepJustified, needSwap, readableBytes
  <2> QED
    BY <1>2, <2>1
    DEF WorkerSleep, IInv, TypeOK, HoldsMutex, CallCounted, Consistent,
        ConsumerDrained, SleepJustified, SwapIsSignalled, ExitIsFinal,
        NoThreadYet, NoLossAtExit
<1>3. CASE WorkerSpuriousWakeup \/ WorkerTimeout
  BY <1>3 DEF WorkerSpuriousWakeup, WorkerTimeout, IInv, TypeOK, HoldsMutex,
              CallCounted, Consistent, ConsumerDrained, SleepJustified,
              SwapIsSignalled, ExitIsFinal, NoThreadYet, NoLossAtExit
<1>4. CASE WorkerRelock
  BY <1>4 DEF WorkerRelock, IInv, TypeOK, HoldsMutex, CallCounted, Consistent,
              ConsumerDrained, SleepJustified, SwapIsSignalled, ExitIsFinal,
              NoThreadYet, NoLossAtExit
<1>5. CASE WorkerExit
  <2>1. ~started /\ productor.msgs = <<>> /\ consumer.msgs = <<>>
    BY <1>5 DEF WorkerExit, mayExit, isEmpty, IInv, Consistent
  <2>2. \A p \in Producers : ppc[p] # "append"
    BY <1>5 DEF WorkerExit, IInv, HoldsMutex
  <2>3. opc \notin {"new", "starting"}
    BY <1>5 DEF WorkerExit, IInv, NoThreadYet
  <2>4. TypeOK' /\ HoldsMutex' /\ CallCounted'
    BY <1>5, <2>2 DEF WorkerExit, IInv, TypeOK, HoldsMutex, CallCounted
  <2> QED
    BY <1>5, <2>1, <2>2, <2>3, <2>4
    DEF WorkerExit, IInv, Consistent, ConsumerDrained, SleepJustified,
        SwapIsSignalled, ExitIsFinal, NoThreadYet, NoLossAtExit
<1>6. CASE WorkerSwap
  <2>1. TypeOK' /\ HoldsMutex' /\ CallCounted'
    BY <1>6 DEF WorkerSwap, IInv, TypeOK, HoldsMutex, CallCounted
  <2>2. Consistent(productor)' /\ Consistent(consumer)'
    BY <1>6 DEF WorkerSwap, IInv, Consistent
  <2> QED
    BY <1>6, <2>1, <2>2
    DEF WorkerSwap, IInv, ConsumerDrained, SleepJustified, SwapIsSignalled,
        ExitIsFinal, NoThreadYet, NoLossAtExit
<1>7. CASE WorkerFlush
  <2>1. /\ consumer' \in BufferState /\ PositionsOK(consumer')
        /\ Consistent(consumer') /\ consumer'.msgs = <<>>
    BY <1>7, ResetOK DEF WorkerFlush, IInv, TypeOK
  <2>2. output' \in Seq(Message)
    BY <1>7, ConcatProperties DEF WorkerFlush, IInv, TypeOK, BufferState
  <2>3. TypeOK'
    BY <1>7, <2>1, <2>2 DEF WorkerFlush, IInv, TypeOK
  <2>4. HoldsMutex' /\ CallCounted'
    BY <1>7 DEF WorkerFlush, IInv, HoldsMutex, CallCounted
  <2> QED
    BY <1>7, <2>1, <2>3, <2>4
    DEF WorkerFlush, IInv, Consistent, ConsumerDrained, SleepJustified,
        SwapIsSignalled, ExitIsFinal, NoThreadYet, NoLossAtExit
<1> QED
  BY <1>1, <1>2, <1>3, <1>4, <1>5, <1>6, <1>7 DEF WorkerNext

LEMMA StutterKeepsIInv == IInv /\ UNCHANGED vars => IInv'
BY DEF vars, IInv, TypeOK, HoldsMutex, CallCounted, Consistent, ConsumerDrained,
       SleepJustified, SwapIsSignalled, ExitIsFinal, NoThreadYet, NoLossAtExit,
       needSwap, readableBytes

\* IInv holds in every reachable state.
THEOREM WorkerInvariant == Spec => []IInv
<1>1. IInv /\ [Next]_vars => IInv'
  BY OwnerKeepsIInv, PushKeepsIInv, WorkerKeepsIInv, StutterKeepsIInv
  DEF Next, Terminated
<1> QED
  BY <1>1, InitIInv, PTL DEF Spec

-----------------------------------------------------------------------------
(* What the runs check, for every value of the constants                    *)

\* The state is well typed and each buffer's positions lie in order within its
\* vector, however pushes, swaps and flushes interleave.
THEOREM WorkerTypeOK == Spec => []TypeOK
<1>1. IInv => TypeOK
  BY DEF IInv
<1> QED
  BY <1>1, WorkerInvariant, PTL

\* No accepted message is left behind by the background thread's exit test.
THEOREM WorkerNoLossAtExit == Spec => []NoLossAtExit
<1>1. IInv => NoLossAtExit
  BY DEF IInv
<1> QED
  BY <1>1, WorkerInvariant, PTL

\* The wake-up of push is never lost.
THEOREM WorkerSwapIsSignalled == Spec => []SwapIsSignalled
<1>1. IInv => SwapIsSignalled
  BY DEF IInv
<1> QED
  BY <1>1, WorkerInvariant, PTL

\* Neither the bytes nor the capacity of a buffer outgrow the limit.
WithinLimit(b) ==
    /\ readableBytes(b) <= max_buffer_bytes_
    /\ b.size = BufferSize \/ b.size <= 2 * max_buffer_bytes_ + LinearGrowth

LEMMA AppendWithinLimit ==
    ASSUME IInv, Limited, WithinLimit(productor),
           NEW p \in Producers, NEW len \in Lengths, PushAppend(p, len)
    PROVE  WithinLimit(productor')
<1> DEFINE r == ensureEnoughSpace(productor, len)
<1>1. readableBytes(productor') = readableBytes(productor) + len /\ productor'.size = r.size
  BY AppendStep
<1>2. len \in Nat /\ max_buffer_bytes_ \in Nat
  BY WorkerAssumption
<1>3. /\ HasPositions(productor)
      /\ readableBytes(productor) \in Nat /\ productor.size \in Nat
  BY DEF IInv, TypeOK, BufferState, HasPositions, PositionsOK, readableBytes
<1>4. /\ readableBytes(productor) + len <= max_buffer_bytes_
      /\ readableBytes(productor) + len <= MaxBytes
  BY <1>2, <1>3 DEF PushAppend, overLimit
<1>5. HasPositions(r) /\ r.size \in Nat
      /\ (r.size # productor.size => readableBytes(productor) + len > productor.size)
  BY <1>2, <1>3, <1>4, EnsureEnoughSpaceOK DEF HasPositions, PositionsOK
<1>6. r.size # productor.size =>
         IF productor.size < Threshold
           THEN r.size < 2 * (readableBytes(productor) + len)
           ELSE r.size <= productor.size + len + LinearGrowth
  BY <1>2, <1>3, <1>4, EnsureEnoughSpaceTight
<1> HIDE DEF r
<1>7. r.size = productor.size \/ r.size <= 2 * max_buffer_bytes_ + LinearGrowth
  BY <1>2, <1>3, <1>4, <1>5, <1>6, ConfigAssumption
<1> QED
  BY <1>1, <1>2, <1>3, <1>4, <1>5, <1>7, ConfigAssumption DEF WithinLimit

\* LIMIT_SIZE bounds the worker's memory, however often the buffers change
\* places: what a buffer may hold and grow to is the same for both.
THEOREM WorkerLimitBoundsMemory == Spec => []LimitBoundsMemory
<1> DEFINE L == Limited => WithinLimit(productor) /\ WithinLimit(consumer)
<1>1. Init => L
  BY WorkerAssumption DEF Init, NewBuffer, WithinLimit, readableBytes
<1>2. IInv /\ L /\ [Next]_vars => L'
  <2> SUFFICES ASSUME IInv, L, [Next]_vars, Limited
               PROVE  WithinLimit(productor') /\ WithinLimit(consumer')
    BY DEF WithinLimit, readableBytes
  <2>1. ASSUME NEW p \in Producers, NEW len \in Lengths, PushAppend(p, len)
        PROVE  WithinLimit(productor') /\ WithinLimit(consumer')
    BY <2>1, AppendWithinLimit DEF PushAppend
  <2>2. CASE WorkerSwap
    BY <2>2 DEF WorkerSwap
  <2>3. CASE WorkerFlush
    <3>1. consumer \in BufferState /\ PositionsOK(consumer)
      BY DEF IInv, TypeOK
    <3>2. readableBytes(consumer') = 0 /\ consumer'.size = consumer.size
      BY <2>3, <3>1, ResetOK DEF WorkerFlush
    <3> QED
      BY <2>3, <3>2, WorkerAssumption DEF WorkerFlush, WithinLimit
  <2>4. CASE UNCHANGED <<productor, consumer>>
    BY <2>4
  <2>5. OwnerNext => UNCHANGED <<productor, consumer>>
    BY DEF OwnerNext, Start, StartThread, Stop, Destroy, StopNotify, Join
  <2>6. ASSUME NEW p \in Producers, PushNext(p)
        PROVE  \/ UNCHANGED <<productor, consumer>>
               \/ \E len \in Lengths : PushAppend(p, len)
    BY <2>6 DEF PushNext, PushEnter, PushRefused, PushNotify
  <2>7. WorkerNext => UNCHANGED <<productor, consumer>> \/ WorkerSwap \/ WorkerFlush
    BY DEF WorkerNext, WorkerLock, WorkerSleep, WorkerSpuriousWakeup, WorkerTimeout,
           WorkerRelock, WorkerExit
  <2> QED
    BY <2>1, <2>2, <2>3, <2>4, <2>5, <2>6, <2>7 DEF Next, Terminated, vars
<1>3. L => LimitBoundsMemory
  BY DEF LimitBoundsMemory, WithinLimit
<1> QED
  BY <1>1, <1>2, <1>3, WorkerInvariant, PTL DEF Spec

-----------------------------------------------------------------------------
(* The refinement of LogChannel                                             *)

\* Appending to the second of two sequences appends to their concatenation.
LEMMA AppendAfterConcat ==
    ASSUME NEW S, NEW s \in Seq(S), NEW t \in Seq(S), NEW e \in S
    PROVE  s \o Append(t, e) = Append(s \o t, e)
<1>1. <<e>> \in Seq(S) /\ s \o t \in Seq(S)
  BY ConcatProperties
<1>2. Append(t, e) = t \o <<e>>
  BY AppendIsConcat
<1>3. Append(s \o t, e) = (s \o t) \o <<e>>
  BY <1>1, AppendIsConcat
<1>4. (s \o t) \o <<e>> = s \o (t \o <<e>>)
  BY <1>1, ConcatAssociative
<1> QED
  BY <1>2, <1>3, <1>4

Queued == consumer.msgs \o productor.msgs

\* An append is an acceptance.
LEMMA AppendAccepts ==
    ASSUME IInv, NEW p \in Producers, NEW len \in Lengths, PushAppend(p, len)
    PROVE  \E m \in Message : Channel!Accept(m)
<1> DEFINE m == [from |-> p, seq |-> sent[p], len |-> len]
<1>1. m \in Message /\ productor'.msgs = Append(productor.msgs, m)
  BY AppendStep
<1>2. productor.msgs \in Seq(Message) /\ consumer.msgs \in Seq(Message)
  BY DEF IInv, TypeOK, BufferState
<1> HIDE DEF m
<1>3. consumer.msgs \o Append(productor.msgs, m) = Append(Queued, m)
  <2> DEFINE c == consumer.msgs
             q == productor.msgs
  <2>1. c \in Seq(Message) /\ q \in Seq(Message) /\ m \in Message
    BY <1>1, <1>2
  <2> HIDE DEF c, q
  <2>2. c \o Append(q, m) = Append(c \o q, m)
    BY <2>1, AppendAfterConcat
  <2> QED
    BY <2>2 DEF c, q, Queued
<1>4. wpc # "exited" /\ UNCHANGED <<wpc, consumer, output>>
  BY DEF PushAppend, IInv, NoLossAtExit
<1>5. Channel!Accept(m)
  BY <1>1, <1>3, <1>4 DEF Channel!Accept, Queued
<1> QED
  BY <1>1, <1>5

\* A flush delivers the batch that is in the consumer buffer; an empty one is
\* no step of the channel.
LEMMA FlushDelivers ==
    ASSUME IInv, WorkerFlush
    PROVE  \/ \E n \in 1..Len(Queued) : Channel!Deliver(n)
           \/ UNCHANGED Channel!vars
<1> DEFINE c == consumer.msgs
           q == productor.msgs
           n == Len(c)
<1>1. c \in Seq(Message) /\ q \in Seq(Message) /\ n \in Nat
      /\ Queued \in Seq(Message) /\ Len(Queued) = n + Len(q) /\ Len(q) \in Nat
      /\ \A i \in 1..(n + Len(q)) : Queued[i] = IF i <= n THEN c[i] ELSE q[i - n]
  BY ConcatProperties, LenProperties DEF IInv, TypeOK, BufferState, Queued
<1>2. /\ consumer'.msgs = <<>> /\ productor' = productor
      /\ output' = output \o c /\ (wpc' = "exited") = (wpc = "exited")
  BY ResetOK DEF WorkerFlush, IInv, TypeOK
<1>3. Queued' = q
  BY <1>1, <1>2, ConcatEmptySeq DEF Queued
<1> HIDE DEF c, q, n
<1>4. SubSeq(Queued, 1, n) = c
  <2>1. /\ SubSeq(Queued, 1, n) \in Seq(Message)
        /\ Len(SubSeq(Queued, 1, n)) = n
        /\ \A i \in 1..n : SubSeq(Queued, 1, n)[i] = Queued[i]
    BY <1>1, SubSeqProperties
  <2>2. Len(c) = n
    BY DEF n
  <2> QED
    BY <1>1, <2>1, <2>2, SeqEqual
<1>5. SubSeq(Queued, n + 1, Len(Queued)) = q
  <2>1. /\ SubSeq(Queued, n + 1, Len(Queued)) \in Seq(Message)
        /\ Len(SubSeq(Queued, n + 1, Len(Queued))) = Len(q)
        /\ \A i \in 1..Len(q) : SubSeq(Queued, n + 1, Len(Queued))[i] = Queued[n + i]
    BY <1>1, SubSeqProperties
  <2>2. \A i \in 1..Len(q) : Queued[n + i] = q[i]
    BY <1>1
  <2> QED
    BY <1>1, <2>1, <2>2, SeqEqual
<1>6. CASE n > 0
  <2>1. n \in 1..Len(Queued)
    BY <1>1, <1>6
  <2>2. Channel!Deliver(n)
    BY <1>2, <1>3, <1>4, <1>5 DEF Channel!Deliver, Queued
  <2> QED
    BY <2>1, <2>2
<1>7. CASE n = 0
  <2>1. c = <<>>
    BY <1>1, <1>7 DEF n
  <2>2. Queued = q
    BY <1>1, <2>1, ConcatEmptySeq DEF Queued, c, q
  <2>3. output' = output
    BY <1>2, <2>1, ConcatEmptySeq DEF IInv, TypeOK
  <2> QED
    BY <1>2, <1>3, <2>2, <2>3 DEF Channel!vars, Queued
<1> QED
  BY <1>1, <1>6, <1>7

\* Swapping the buffers moves no message: the consumer buffer is empty.
LEMMA SwapIsInternal ==
    ASSUME IInv, WorkerSwap
    PROVE  UNCHANGED Channel!vars
<1>1. consumer.msgs = <<>> /\ productor.msgs \in Seq(Message)
  BY DEF WorkerSwap, IInv, ConsumerDrained, TypeOK, BufferState
<1>2. consumer.msgs \o productor.msgs = productor.msgs
      /\ productor.msgs \o consumer.msgs = productor.msgs
  BY <1>1, ConcatEmptySeq
<1> QED
  BY <1>2 DEF WorkerSwap, Channel!vars

\* The worker is a channel: every step is one of LogChannel's or invisible.
THEOREM WorkerImplementsLogChannel == Spec => ImplementsLogChannel
<1>1. Init => Channel!Init
  <2> SUFFICES ASSUME Init PROVE Channel!Init
    OBVIOUS
  <2>1. <<>> \in Seq(Message) /\ <<>> \o <<>> = <<>>
    BY ConcatEmptySeq
  <2> QED
    BY <2>1, NewBufferOK DEF Init, Channel!Init
<1>2. IInv /\ [Next]_vars => [Channel!Next]_(Channel!vars)
  <2> SUFFICES ASSUME IInv, [Next]_vars PROVE [Channel!Next]_(Channel!vars)
    OBVIOUS
  <2>1. ASSUME NEW p \in Producers, NEW len \in Lengths, PushAppend(p, len)
        PROVE  Channel!Next
    BY <2>1, AppendAccepts DEF Channel!Next
  <2>2. CASE WorkerFlush
    BY <2>2, FlushDelivers DEF Channel!Next, Queued
  <2>3. CASE WorkerSwap
    BY <2>3, SwapIsInternal
  <2>4. CASE WorkerExit
    <3>1. consumer.msgs = <<>> /\ productor.msgs = <<>>
      BY <2>4 DEF WorkerExit, mayExit, isEmpty, IInv, Consistent
    <3>2. <<>> \in Seq(Message) /\ <<>> \o <<>> = <<>>
      BY ConcatEmptySeq
    <3>3. Channel!Close
      BY <2>4, <3>1, <3>2 DEF WorkerExit, Channel!Close
    <3> QED
      BY <3>3 DEF Channel!Next
  <2>5. ASSUME UNCHANGED <<productor, consumer, output>>,
               wpc' = wpc \/ (wpc # "exited" /\ wpc' # "exited")
        PROVE  UNCHANGED Channel!vars
    BY <2>5 DEF Channel!vars
  <2>6. CASE OwnerNext
    BY <2>5, <2>6
    DEF OwnerNext, Start, StartThread, Stop, Destroy, StopNotify, Join, woken,
        IInv, NoThreadYet
  <2>7. ASSUME NEW p \in Producers, PushNext(p)
        PROVE  [Channel!Next]_(Channel!vars)
    BY <2>1, <2>5, <2>7 DEF PushNext, PushEnter, PushRefused, PushNotify, woken
  <2>8. CASE WorkerNext
    BY <2>2, <2>3, <2>4, <2>5, <2>8
    DEF WorkerNext, WorkerLock, WorkerSleep, WorkerSpuriousWakeup, WorkerTimeout,
        WorkerRelock
  <2>9. CASE UNCHANGED vars
    BY <2>5, <2>9 DEF vars
  <2> QED
    BY <2>6, <2>7, <2>8, <2>9 DEF Next, Terminated
<1> QED
  BY <1>1, <1>2, WorkerInvariant, PTL DEF Spec, Channel!Spec, ImplementsLogChannel


=============================================================================
