------------------------- MODULE AsyncLoggerProofs -------------------------
(***************************************************************************)
(* The logger put together: types, that the sinks go in step, that each    *)
(* keeps the order of every caller, and that none is destroyed before it   *)
(* has all, for any callers, sinks, capacities and number of calls.        *)
(***************************************************************************)
EXTENDS AsyncLogger, SequenceTheorems, TLAPS

\* A caller's messages are in the order in which it logged them, none twice.
Ordered(s) ==
    \A p, q \in 1..Len(s) : p < q /\ s[p].from = s[q].from => s[p].seq < s[q].seq

\* A caller's messages in s were logged before its messages in t.
Before(s, t) ==
    \A p \in 1..Len(s), q \in 1..Len(t) : s[p].from = t[q].from => s[p].seq < t[q].seq

\* The messages in s are among those logged, and none of them is in hand.
Logged(s, count, at) ==
    \A p \in 1..Len(s) :
        /\ s[p].seq <= count[s[p].from]
        /\ at[s[p].from] # "idle" => s[p].seq < count[s[p].from]

Elements(s) == {s[j] : j \in 1..Len(s)}

-----------------------------------------------------------------------------
(* Sequences of messages                                                    *)

LEMMA Concatenated ==
    ASSUME NEW s \in Seq(Message), NEW t \in Seq(Message)
    PROVE  /\ s \o t \in Seq(Message)
           /\ Len(s \o t) \in Nat /\ Len(s) \in Nat /\ Len(t) \in Nat
           /\ \A p \in 1..Len(s \o t) :
                 \/ p \in 1..Len(s) /\ (s \o t)[p] = s[p]
                 \/ p > Len(s) /\ p - Len(s) \in 1..Len(t) /\ (s \o t)[p] = t[p - Len(s)]
           /\ Elements(s \o t) = Elements(s) \cup Elements(t)
<1>1. /\ s \o t \in Seq(Message) /\ Len(s \o t) = Len(s) + Len(t)
      /\ Len(s) \in Nat /\ Len(t) \in Nat
  BY ConcatProperties, LenProperties
<1>2. \A p \in 1..Len(s) + Len(t) :
         (s \o t)[p] = IF p <= Len(s) THEN s[p] ELSE t[p - Len(s)]
  BY ConcatProperties
<1>3. \A p \in 1..Len(s) : p \in 1..Len(s \o t) /\ (s \o t)[p] = s[p]
  BY <1>1, <1>2
<1>4. \A p \in 1..Len(t) : Len(s) + p \in 1..Len(s \o t) /\ (s \o t)[Len(s) + p] = t[p]
  BY <1>1, <1>2
<1>5. \A p \in 1..Len(s \o t) :
         \/ p \in 1..Len(s) /\ (s \o t)[p] = s[p]
         \/ p > Len(s) /\ p - Len(s) \in 1..Len(t) /\ (s \o t)[p] = t[p - Len(s)]
  BY <1>1, <1>2
<1>6. Elements(s) \cup Elements(t) \subseteq Elements(s \o t)
  BY <1>3, <1>4 DEF Elements
<1>7. Elements(s \o t) \subseteq Elements(s) \cup Elements(t)
  BY <1>5 DEF Elements
<1> QED
  BY <1>1, <1>5, <1>6, <1>7

LEMMA ConcatOrdered ==
    ASSUME NEW s \in Seq(Message), NEW t \in Seq(Message),
           Ordered(s), Ordered(t), Before(s, t)
    PROVE  Ordered(s \o t)
<1> SUFFICES ASSUME NEW p \in 1..Len(s \o t), NEW q \in 1..Len(s \o t), p < q,
                    (s \o t)[p].from = (s \o t)[q].from
             PROVE  (s \o t)[p].seq < (s \o t)[q].seq
  BY DEF Ordered
<1>1. Len(s) \in Nat /\ Len(t) \in Nat /\ Len(s \o t) \in Nat
  BY Concatenated
<1>2. CASE q \in 1..Len(s) /\ (s \o t)[q] = s[q]
  <2>1. p \in 1..Len(s) /\ (s \o t)[p] = s[p]
    BY <1>1, <1>2, Concatenated
  <2> QED
    BY <1>2, <2>1 DEF Ordered
<1>3. CASE q - Len(s) \in 1..Len(t) /\ (s \o t)[q] = t[q - Len(s)]
  <2>1. CASE p \in 1..Len(s) /\ (s \o t)[p] = s[p]
    BY <1>3, <2>1 DEF Before
  <2>2. CASE p - Len(s) \in 1..Len(t) /\ (s \o t)[p] = t[p - Len(s)]
    <3>1. p - Len(s) < q - Len(s)
      BY <1>1
    <3> QED
      BY <1>3, <2>2, <3>1 DEF Ordered
  <2> QED
    BY <2>1, <2>2, Concatenated
<1> QED
  BY <1>2, <1>3, Concatenated

LEMMA ConcatBefore ==
    ASSUME NEW s \in Seq(Message), NEW t \in Seq(Message), NEW u \in Seq(Message),
           NEW count, NEW at
    PROVE  /\ Before(s, u) /\ Before(t, u) => Before(s \o t, u)
           /\ Before(u, s) /\ Before(u, t) => Before(u, s \o t)
           /\ Logged(s, count, at) /\ Logged(t, count, at) => Logged(s \o t, count, at)
<1>1. Before(s, u) /\ Before(t, u) => Before(s \o t, u)
  <2> SUFFICES ASSUME Before(s, u), Before(t, u),
                      NEW p \in 1..Len(s \o t), NEW q \in 1..Len(u),
                      (s \o t)[p].from = u[q].from
               PROVE  (s \o t)[p].seq < u[q].seq
    BY DEF Before
  <2>1. \/ p \in 1..Len(s) /\ (s \o t)[p] = s[p]
        \/ p - Len(s) \in 1..Len(t) /\ (s \o t)[p] = t[p - Len(s)]
    BY Concatenated
  <2> QED
    BY <2>1 DEF Before
<1>2. Before(u, s) /\ Before(u, t) => Before(u, s \o t)
  <2> SUFFICES ASSUME Before(u, s), Before(u, t),
                      NEW p \in 1..Len(u), NEW q \in 1..Len(s \o t),
                      u[p].from = (s \o t)[q].from
               PROVE  u[p].seq < (s \o t)[q].seq
    BY DEF Before
  <2>1. \/ q \in 1..Len(s) /\ (s \o t)[q] = s[q]
        \/ q - Len(s) \in 1..Len(t) /\ (s \o t)[q] = t[q - Len(s)]
    BY Concatenated
  <2> QED
    BY <2>1 DEF Before
<1>3. Logged(s, count, at) /\ Logged(t, count, at) => Logged(s \o t, count, at)
  BY Concatenated, SMTT(40) DEF Logged
<1> QED
  BY <1>1, <1>2, <1>3

LEMMA Single ==
    ASSUME NEW m \in Message
    PROVE  /\ <<m>> \in Seq(Message) /\ Ordered(<<m>>) /\ Elements(<<m>>) = {m}
           /\ Len(<<m>>) = 1 /\ <<m>>[1] = m
  BY DEF Ordered, Elements

\* A part of a sequence.
LEMMA Part ==
    ASSUME NEW s \in Seq(Message), NEW a \in Nat \ {0}, NEW b \in Nat, b <= Len(s)
    PROVE  /\ SubSeq(s, a, b) \in Seq(Message)
           /\ \A p \in 1..Len(SubSeq(s, a, b)) :
                 /\ a + p - 1 \in 1..Len(s) /\ a + p - 1 <= b
                 /\ SubSeq(s, a, b)[p] = s[a + p - 1]
           /\ Len(SubSeq(s, a, b)) = IF a <= b THEN b - a + 1 ELSE 0
<1>1. Len(s) \in Nat /\ \A i \in a..b : s[i] \in Message
  BY LenProperties, ElementOfSeq
<1>2. a \in Int /\ b \in Int
  OBVIOUS
<1>3. /\ SubSeq(s, a, b) \in Seq(Message)
      /\ Len(SubSeq(s, a, b)) = IF a <= b THEN b - a + 1 ELSE 0
  BY <1>1, <1>2, SubSeqProperties
<1>4. \A i \in 1..(b - a + 1) : SubSeq(s, a, b)[i] = s[a + i - 1]
  BY <1>1, <1>2, SubSeqProperties
<1> QED
  BY <1>1, <1>3, <1>4

LEMMA PartKeeps ==
    ASSUME NEW s \in Seq(Message), NEW a \in Nat \ {0}, NEW b \in Nat, b <= Len(s),
           NEW u \in Seq(Message), NEW count, NEW at
    PROVE  /\ Ordered(s) => Ordered(SubSeq(s, a, b))
           /\ Before(s, u) => Before(SubSeq(s, a, b), u)
           /\ Before(u, s) => Before(u, SubSeq(s, a, b))
           /\ Logged(s, count, at) => Logged(SubSeq(s, a, b), count, at)
<1> DEFINE r == SubSeq(s, a, b)
<1>1. \A p \in 1..Len(r) : a + p - 1 \in 1..Len(s) /\ r[p] = s[a + p - 1]
  BY Part
<1> HIDE DEF r
<1>2. Ordered(s) => Ordered(r)
  <2> SUFFICES ASSUME Ordered(s), NEW p \in 1..Len(r), NEW q \in 1..Len(r), p < q,
                      r[p].from = r[q].from
               PROVE  r[p].seq < r[q].seq
    BY DEF Ordered
  <2>1. a + p - 1 < a + q - 1
    OBVIOUS
  <2> QED
    BY <1>1, <2>1 DEF Ordered
<1>3. (Before(s, u) => Before(r, u)) /\ (Before(u, s) => Before(u, r))
  BY <1>1 DEF Before
<1>4. Logged(s, count, at) => Logged(r, count, at)
  BY <1>1 DEF Logged
<1> QED
  BY <1>2, <1>3, <1>4 DEF r

\* A sequence cut in two.
LEMMA CutInTwo ==
    ASSUME NEW s \in Seq(Message), NEW n \in 1..Len(s)
    PROVE  /\ SubSeq(s, 1, n) \in Seq(Message)
           /\ SubSeq(s, n + 1, Len(s)) \in Seq(Message)
           /\ Ordered(s) => Before(SubSeq(s, 1, n), SubSeq(s, n + 1, Len(s)))
           /\ Elements(SubSeq(s, 1, n)) \cup Elements(SubSeq(s, n + 1, Len(s)))
                 = Elements(s)
<1> DEFINE f == SubSeq(s, 1, n)
           r == SubSeq(s, n + 1, Len(s))
<1>1. Len(s) \in Nat /\ n \in Nat /\ n <= Len(s)
  BY LenProperties
<1>2. /\ f \in Seq(Message) /\ Len(f) = n
      /\ \A p \in 1..Len(f) : p \in 1..Len(s) /\ p <= n /\ f[p] = s[p]
  BY <1>1, Part
<1>3. /\ r \in Seq(Message) /\ Len(r) = Len(s) - n
      /\ \A p \in 1..Len(r) : n + p \in 1..Len(s) /\ r[p] = s[n + p]
  BY <1>1, Part
<1> HIDE DEF f, r
<1>4. Ordered(s) => Before(f, r)
  <2> SUFFICES ASSUME Ordered(s), NEW p \in 1..Len(f), NEW q \in 1..Len(r),
                      f[p].from = r[q].from
               PROVE  f[p].seq < r[q].seq
    BY DEF Before
  <2>1. p < n + q
    BY <1>1, <1>2
  <2> QED
    BY <1>2, <1>3, <2>1 DEF Ordered
<1>5. Elements(f) \cup Elements(r) \subseteq Elements(s)
  BY <1>2, <1>3, SMTT(40) DEF Elements
<1>6. ASSUME NEW p \in 1..Len(s)
      PROVE  s[p] \in Elements(f) \cup Elements(r)
  <2>1. CASE p <= n
    <3>1. p \in 1..Len(f)
      BY <1>1, <1>2, <2>1
    <3> QED
      BY <1>2, <3>1 DEF Elements
  <2>2. CASE ~(p <= n)
    <3>1. p - n \in 1..Len(r) /\ n + (p - n) = p
      BY <1>1, <1>3, <2>2
    <3> QED
      BY <1>3, <3>1 DEF Elements
  <2> QED
    BY <2>1, <2>2
<1>7. Elements(s) \subseteq Elements(f) \cup Elements(r)
  BY <1>6 DEF Elements
<1> QED
  BY <1>2, <1>3, <1>4, <1>5, <1>7 DEF f, r

-----------------------------------------------------------------------------
(* The inductive invariant                                                  *)

\* Nobody has logged more than all have, and who is in a call has logged.
Counted ==
    \A c \in Callers :
        /\ logged[c] <= calls
        /\ cpc[c] # "idle" => logged[c] # 0

\* What a caller logged earlier is further on the way: from the worker's queue to
\* the batch to the sinks that have had their turn.
InOrder ==
    /\ Ordered(queue) /\ Ordered(batch)
    /\ Logged(queue, logged, cpc) /\ Logged(batch, logged, cpc)
    /\ Before(batch, queue)
    /\ \A i \in 1..NumSinks :
          /\ Ordered(sinks[i]) /\ Logged(sinks[i], logged, cpc)
          /\ Before(sinks[i], queue)
          /\ turn # 0 /\ turn <= i => Before(sinks[i], batch)

\* What was accepted is delivered or waits; the worker ends with nothing in hand,
\* and the sinks after it.
Complete ==
    /\ pushed = Elements(delivered) \cup Elements(queue)
    /\ closed => queue = <<>> /\ turn = 0
    /\ opc = "destroyed" => closed

IInv == TypeOK /\ Counted /\ InOrder /\ SinksAreInStep /\ Complete

LEMMA SinkSet ==
    /\ NumSinks \in Nat \ {0} /\ MaxLogs \in Nat /\ PoolCapacity \in Nat
    /\ 1 \in 1..NumSinks
  BY LoggerAssumption

LEMMA InitIInv == Init => IInv
<1> SUFFICES ASSUME Init
             PROVE  IInv
  OBVIOUS
<1>1. /\ queue = <<>> /\ delivered = <<>> /\ closed = FALSE
      /\ waiting = <<>> /\ running = {} /\ finished = {} /\ poolClosed = FALSE
  BY DEF Init, Channel!Init, Pool!Init
<1>2. <<>> \in Seq(Message) /\ Len(<<>>) = 0
  BY EmptySeq
<1>3. TypeOK
  <2>1. /\ queue \in Seq(Message) /\ delivered \in Seq(Message)
        /\ waiting \in Seq(Message) /\ Len(waiting) <= PoolCapacity
        /\ batch \in Seq(Message) /\ sinks \in [1..NumSinks -> Seq(Message)]
    BY <1>1, <1>2, SinkSet DEF Init
  <2>2. /\ cpc \in [Callers -> {"idle", "backup", "push"}]
        /\ logged \in [Callers -> 0..MaxLogs] /\ calls \in 0..MaxLogs
        /\ turn \in 0..NumSinks
    BY SinkSet DEF Init
  <2> QED
    BY <1>1, <2>1, <2>2 DEF Init, TypeOK
<1>4. Counted
  BY DEF Init, Counted
<1>5. InOrder
  BY <1>1, <1>2 DEF Init, InOrder, Ordered, Before, Logged
<1>6. SinksAreInStep
  BY <1>1 DEF Init, SinksAreInStep
<1>7. Complete
  BY <1>1, <1>2 DEF Init, Complete, Elements
<1> QED
  BY <1>3, <1>4, <1>5, <1>6, <1>7 DEF IInv

\* What a caller is about to push.
LEMMA MessageInHand ==
    ASSUME TypeOK, Counted, NEW c \in Callers, cpc[c] # "idle"
    PROVE  message(c) \in Message /\ message(c).from = c /\ message(c).seq = logged[c]
  BY SinkSet DEF TypeOK, Counted, message, Message

LEMMA NextTyped ==
    ASSUME TypeOK, Counted, [Next]_vars
    PROVE  TypeOK'
<1> USE DEF channel, pool
<1>1. CASE UNCHANGED vars
  BY <1>1 DEF TypeOK, vars
<1>2. ASSUME NEW c \in Callers,
             FormatFails(c) \/ Log(c, TRUE) \/ Log(c, FALSE)
      PROVE  TypeOK'
  <2>1. /\ calls' = calls + 1 /\ calls < MaxLogs
        /\ logged' = [logged EXCEPT ![c] = @ + 1]
        /\ cpc' = cpc \/ \E at \in {"backup", "push"} : cpc' = [cpc EXCEPT ![c] = at]
        /\ UNCHANGED <<queue, delivered, closed, waiting, running, finished, poolClosed>>
        /\ UNCHANGED <<pushed, batch, turn, sinks, damaged, opc>>
    BY <1>2 DEF FormatFails, Log, Calls
  <2>2. calls' \in 0..MaxLogs /\ logged[c] + 1 \in 0..MaxLogs
    BY <2>1, SinkSet DEF TypeOK, Counted
  <2> QED
    BY <2>1, <2>2 DEF TypeOK
<1>3. ASSUME NEW c \in Callers, Backup(c)
      PROVE  TypeOK'
  <2>1. message(c) \in Message
    BY <1>3, MessageInHand DEF Backup
  <2>2. waiting' \in Seq(Message) /\ Len(waiting') <= PoolCapacity
    <3>1. CASE Pool!Accept(message(c))
      <4>1. /\ Append(waiting, message(c)) \in Seq(Message)
            /\ Len(Append(waiting, message(c))) = Len(waiting) + 1
            /\ Len(waiting) \in Nat
        BY <2>1, AppendProperties, LenProperties DEF TypeOK
      <4> QED
        BY <3>1, <4>1, SinkSet DEF Pool!Accept
    <3>2. CASE UNCHANGED pool
      BY <3>2 DEF TypeOK
    <3> QED
      BY <1>3, <3>1, <3>2 DEF Backup
  <2>3. UNCHANGED <<running, finished, poolClosed>>
    BY <1>3 DEF Backup, Pool!Accept
  <2> QED
    BY <1>3, <2>2, <2>3 DEF TypeOK, Backup
<1>4. ASSUME NEW c \in Callers, Flush(c)
      PROVE  TypeOK'
  <2>1. message(c) \in Message
    BY <1>4, MessageInHand DEF Flush
  <2>2. queue' \in Seq(Message) /\ UNCHANGED <<delivered, closed>>
    <3>1. Append(queue, message(c)) \in Seq(Message)
      BY <2>1, AppendProperties DEF TypeOK
    <3>2. CASE Channel!Accept(message(c))
      BY <3>1, <3>2 DEF Channel!Accept
    <3>3. CASE UNCHANGED channel
      BY <3>3 DEF TypeOK
    <3> QED
      BY <1>4, <3>2, <3>3 DEF Flush
  <2>3. pushed' \subseteq Message
    BY <1>4, <2>1 DEF Flush, TypeOK
  <2> QED
    BY <1>4, <2>2, <2>3 DEF TypeOK, Flush
<1>5. CASE PoolWorks
  <2>1. CASE Pool!Begin
    <3>1. waiting \in Seq(Message) /\ waiting # <<>>
      BY <2>1 DEF Pool!Begin, TypeOK
    <3>2. /\ Head(waiting) \in Message /\ Tail(waiting) \in Seq(Message)
          /\ Len(Tail(waiting)) = Len(waiting) - 1 /\ Len(waiting) \in Nat
      BY <3>1, HeadTailProperties, LenProperties
    <3> QED
      BY <1>5, <2>1, <3>2, SinkSet DEF PoolWorks, Pool!Begin, TypeOK
  <2>2. ASSUME NEW m \in running, Pool!Finish(m)
        PROVE  TypeOK'
    BY <1>5, <2>2 DEF PoolWorks, Pool!Finish, TypeOK
  <2> QED
    BY <1>5, <2>1, <2>2 DEF PoolWorks
<1>6. ASSUME NEW n \in 1..Len(queue), FlushBegins(n)
      PROVE  TypeOK'
  <2>1. SubSeq(queue, 1, n) \in Seq(Message) /\ SubSeq(queue, n + 1, Len(queue)) \in Seq(Message)
    BY CutInTwo DEF TypeOK
  <2>2. delivered \o SubSeq(queue, 1, n) \in Seq(Message)
    BY <2>1, ConcatProperties DEF TypeOK
  <2> QED
    BY <1>6, <2>1, <2>2, SinkSet, SMTT(40) DEF FlushBegins, Channel!Deliver, TypeOK
<1>7. CASE FlushSink
  <2>0. turn \in 1..NumSinks
    BY <1>7, SinkSet DEF FlushSink, TypeOK
  <2>1. sinks[turn] \o batch \in Seq(Message)
    BY <2>0, ConcatProperties DEF TypeOK
  <2> QED
    BY <1>7, <2>0, <2>1, SinkSet DEF FlushSink, nextTurn, TypeOK
<1>8. ASSUME NEW k \in 0..Len(batch), FlushSinkInPart(k)
      PROVE  TypeOK'
  <2>1. SubSeq(batch, 1, k) \in Seq(Message)
    BY <1>8, LenProperties, Part DEF TypeOK
  <2>0. turn \in 1..NumSinks
    BY <1>8, SinkSet DEF FlushSinkInPart, TypeOK
  <2>2. sinks[turn] \o SubSeq(batch, 1, k) \in Seq(Message)
    BY <2>0, <2>1, ConcatProperties DEF TypeOK
  <2> QED
    BY <1>8, <2>0, <2>2, SinkSet, SMTT(40) DEF FlushSinkInPart, nextTurn, TypeOK
<1>9. CASE FlushSinkThrows \/ Destroy \/ SinksDestroyed
  BY <1>9 DEF FlushSinkThrows, Destroy, SinksDestroyed, TypeOK
<1>10. CASE WorkerEnds
  BY <1>10 DEF WorkerEnds, Channel!Close, TypeOK
<1> QED
  BY <1>1, <1>2, <1>3, <1>4, <1>5, <1>6, <1>7, <1>8, <1>9, <1>10 DEF Next

LEMMA NextCounted ==
    ASSUME TypeOK, Counted, [Next]_vars
    PROVE  Counted'
<1>1. ASSUME NEW c \in Callers,
             FormatFails(c) \/ Log(c, TRUE) \/ Log(c, FALSE)
      PROVE  Counted'
  <2>1. /\ calls' = calls + 1 /\ calls \in Nat
        /\ logged' = [logged EXCEPT ![c] = @ + 1]
        /\ \A b \in Callers : b # c => cpc'[b] = cpc[b]
    BY <1>1 DEF FormatFails, Log, Calls, TypeOK
  <2>2. \A b \in Callers : logged[b] \in Nat
    BY SinkSet DEF TypeOK
  <2>3. \A b \in Callers : logged'[b] = IF b = c THEN logged[b] + 1 ELSE logged[b]
    BY <2>1 DEF TypeOK
  <2> QED
    BY <2>1, <2>2, <2>3 DEF Counted
<1>2. ASSUME NEW c \in Callers, Backup(c) \/ Flush(c)
      PROVE  Counted'
  BY <1>2 DEF TypeOK, Counted, Backup, Flush
<1>3. CASE UNCHANGED <<cpc, logged, calls>>
  BY <1>3 DEF Counted
<1> QED
  BY <1>1, <1>2, <1>3
  DEF Next, vars, PoolWorks, FlushBegins, FlushSink, FlushSinkInPart, FlushSinkThrows,
      Destroy, WorkerEnds, SinksDestroyed

\* What is under way stays behind what the callers have logged.
LEMMA LoggedKept ==
    ASSUME TypeOK, [Next]_vars, NEW s \in Seq(Message), Logged(s, logged, cpc)
    PROVE  Logged(s, logged', cpc')
<1>1. \A p \in 1..Len(s) : s[p] \in Message
  BY ElementOfSeq
<1>2. \A b \in Callers : logged[b] \in Nat
  BY SinkSet DEF TypeOK
<1>3. ASSUME NEW c \in Callers,
             FormatFails(c) \/ Log(c, TRUE) \/ Log(c, FALSE)
      PROVE  Logged(s, logged', cpc')
  <2>1. /\ logged' = [logged EXCEPT ![c] = @ + 1]
        /\ \A b \in Callers : b # c => cpc'[b] = cpc[b]
    BY <1>3 DEF FormatFails, Log, Calls, TypeOK
  <2>2. \A b \in Callers : logged'[b] = IF b = c THEN logged[b] + 1 ELSE logged[b]
    BY <2>1 DEF TypeOK
  <2>3. \A p \in 1..Len(s) : s[p].from \in Callers /\ s[p].seq \in Nat
    BY <1>1, SinkSet DEF Message
  <2> QED
    BY <1>2, <2>1, <2>2, <2>3 DEF Logged
<1>4. ASSUME NEW c \in Callers, Backup(c) \/ Flush(c)
      PROVE  Logged(s, logged', cpc')
  <2>1. logged' = logged /\ \A b \in Callers : cpc'[b] # "idle" => cpc[b] # "idle"
    BY <1>4 DEF Backup, Flush, TypeOK
  <2> QED
    BY <1>1, <2>1 DEF Logged, Message
<1>5. CASE UNCHANGED <<cpc, logged>>
  BY <1>5 DEF Logged
<1> QED
  BY <1>3, <1>4, <1>5
  DEF Next, vars, PoolWorks, FlushBegins, FlushSink, FlushSinkInPart, FlushSinkThrows,
      Destroy, WorkerEnds, SinksDestroyed

\* All that is under way was logged before the message in hand.
LEMMA BeforeInHand ==
    ASSUME TypeOK, Counted, NEW c \in Callers, cpc[c] # "idle",
           NEW s \in Seq(Message), Logged(s, logged, cpc)
    PROVE  Before(s, <<message(c)>>)
  BY MessageInHand, Single DEF Before, Logged

LEMMA NextInOrder ==
    ASSUME TypeOK, Counted, InOrder, [Next]_vars
    PROVE  InOrder'
<1> USE DEF channel
<1>0. /\ queue \in Seq(Message) /\ batch \in Seq(Message)
      /\ \A i \in 1..NumSinks : sinks[i] \in Seq(Message)
  BY DEF TypeOK
<1>1. /\ Logged(queue, logged', cpc') /\ Logged(batch, logged', cpc')
      /\ \A i \in 1..NumSinks : Logged(sinks[i], logged', cpc')
  BY <1>0, LoggedKept DEF InOrder
<1>2. CASE UNCHANGED <<queue, batch, sinks, turn>>
  BY <1>1, <1>2 DEF InOrder
<1>3. ASSUME NEW c \in Callers, Flush(c), Channel!Accept(message(c))
      PROVE  InOrder'
  <2> DEFINE m == <<message(c)>>
  <2>1. cpc[c] # "idle" /\ message(c) \in Message
    BY <1>3, MessageInHand DEF Flush
  <2>2. m \in Seq(Message) /\ Ordered(m) /\ Len(m) = 1 /\ m[1] = message(c)
    BY <2>1, Single
  <2>3. /\ queue' = queue \o m
        /\ logged' = logged /\ cpc' = [cpc EXCEPT ![c] = "idle"]
        /\ UNCHANGED <<batch, sinks, turn>>
    BY <1>0, <1>3, <2>1, AppendIsConcat DEF Flush, Channel!Accept
  <2>4. Logged(m, logged', cpc')
    <3>1. message(c).from = c /\ message(c).seq = logged[c]
      BY <2>1, MessageInHand
    <3>2. cpc'[c] = "idle" /\ logged[c] \in Nat
      BY <2>3, SinkSet DEF TypeOK
    <3> HIDE DEF m
    <3> QED
      BY <2>2, <2>3, <3>1, <3>2 DEF Logged
  <2>5. /\ Before(queue, m) /\ Before(batch, m)
        /\ \A i \in 1..NumSinks : Before(sinks[i], m)
    BY <1>0, <2>1, BeforeInHand DEF InOrder
  <2> HIDE DEF m
  <2>6. Ordered(queue \o m) /\ Logged(queue \o m, logged', cpc')
    BY <1>0, <1>1, <2>2, <2>4, <2>5, ConcatOrdered, ConcatBefore DEF InOrder
  <2>7. /\ Before(batch, queue \o m)
        /\ \A i \in 1..NumSinks : Before(sinks[i], queue \o m)
    BY <1>0, <2>2, <2>5, ConcatBefore DEF InOrder
  <2> QED
    BY <1>1, <2>3, <2>6, <2>7 DEF InOrder
<1>4. ASSUME NEW n \in 1..Len(queue), FlushBegins(n)
      PROVE  InOrder'
  <2> DEFINE f == SubSeq(queue, 1, n)
             r == SubSeq(queue, n + 1, Len(queue))
  <2>1. /\ batch' = f /\ queue' = r /\ turn' = 1
        /\ UNCHANGED <<sinks, logged, cpc>>
    BY <1>4 DEF FlushBegins, Channel!Deliver
  <2>2. f \in Seq(Message) /\ r \in Seq(Message) /\ Before(f, r)
    BY <1>0, CutInTwo DEF InOrder
  <2>3. /\ 1 \in Nat \ {0} /\ n + 1 \in Nat \ {0} /\ n \in Nat /\ n <= Len(queue)
        /\ Len(queue) \in Nat /\ Len(queue) <= Len(queue)
    BY <1>0, LenProperties
  <2>4. /\ Ordered(f) /\ Logged(f, logged, cpc)
        /\ \A i \in 1..NumSinks : Before(sinks[i], f)
    BY <1>0, <2>3, PartKeeps DEF InOrder
  <2>5. /\ Ordered(r) /\ Logged(r, logged, cpc)
        /\ \A i \in 1..NumSinks : Before(sinks[i], r)
    BY <1>0, <2>3, PartKeeps DEF InOrder
  <2> HIDE DEF f, r
  <2> QED
    BY <2>1, <2>2, <2>4, <2>5 DEF InOrder
<1>5. ASSUME NEW part, part \in Seq(Message), turn \in 1..NumSinks,
             Ordered(part), Logged(part, logged, cpc), Before(part, queue),
             Before(sinks[turn], part),
             sinks' = [sinks EXCEPT ![turn] = @ \o part],
             turn' = nextTurn, UNCHANGED <<queue, batch, logged, cpc>>
      PROVE  InOrder'
  <2> DEFINE s == sinks[turn] \o part
  <2>1. s \in Seq(Message) /\ Ordered(s) /\ Logged(s, logged, cpc) /\ Before(s, queue)
    <3>1. /\ sinks[turn] \in Seq(Message) /\ Ordered(sinks[turn])
          /\ Logged(sinks[turn], logged, cpc) /\ Before(sinks[turn], queue)
      BY <1>0, <1>5 DEF InOrder
    <3> QED
      BY <1>0, <1>5, <3>1, ConcatProperties, ConcatOrdered, ConcatBefore
  <2> HIDE DEF s
  <2>2. \A i \in 1..NumSinks : sinks'[i] = IF i = turn THEN s ELSE sinks[i]
    BY <1>5 DEF s, TypeOK
  <2>3. turn' # 0 => turn' = turn + 1
    BY <1>5, SinkSet DEF nextTurn
  <2>4. ASSUME NEW i \in 1..NumSinks
        PROVE  /\ Ordered(sinks'[i]) /\ Logged(sinks'[i], logged, cpc)
               /\ Before(sinks'[i], queue)
               /\ turn' # 0 /\ turn' <= i => Before(sinks'[i], batch)
    <3>1. CASE i = turn
      BY <1>5, <2>1, <2>2, <2>3, <3>1, SinkSet
    <3>2. CASE i # turn
      BY <1>5, <2>2, <2>3, <3>2, SinkSet DEF InOrder
    <3> QED
      BY <3>1, <3>2
  <2> QED
    BY <1>5, <2>4 DEF InOrder
<1>6. CASE FlushSink
  <2>1. turn \in 1..NumSinks
    BY <1>6, SinkSet DEF FlushSink, TypeOK
  <2>2. Before(sinks[turn], batch)
    BY <2>1, SinkSet DEF InOrder
  <2> QED
    BY <1>0, <1>5, <1>6, <2>1, <2>2 DEF FlushSink, InOrder
<1>7. ASSUME NEW k \in 0..Len(batch), FlushSinkInPart(k)
      PROVE  InOrder'
  <2>1. turn \in 1..NumSinks /\ turn # 0
    BY <1>7, SinkSet DEF FlushSinkInPart, TypeOK
  <2>2. 1 \in Nat \ {0} /\ k \in Nat /\ k <= Len(batch)
    BY <1>0, LenProperties
  <2>3. Before(sinks[turn], batch)
    BY <2>1, SinkSet DEF InOrder
  <2>4. /\ SubSeq(batch, 1, k) \in Seq(Message)
        /\ Ordered(SubSeq(batch, 1, k)) /\ Logged(SubSeq(batch, 1, k), logged, cpc)
        /\ Before(SubSeq(batch, 1, k), queue)
        /\ Before(sinks[turn], SubSeq(batch, 1, k))
    BY <1>0, <2>1, <2>2, <2>3, Part, PartKeeps DEF InOrder
  <2> QED
    BY <1>5, <1>7, <2>1, <2>4 DEF FlushSinkInPart
<1> QED
  BY <1>2, <1>3, <1>4, <1>6, <1>7
  DEF Next, vars, FormatFails, Log, Calls, Backup, Flush, PoolWorks, FlushSinkThrows,
      Destroy, WorkerEnds, SinksDestroyed, Channel!Close

LEMMA NextInStep ==
    ASSUME TypeOK, Complete, SinksAreInStep, [Next]_vars
    PROVE  SinksAreInStep'
<1> USE DEF channel
<1>1. CASE UNCHANGED <<delivered, turn, sinks, batch, damaged>>
  BY <1>1 DEF SinksAreInStep
<1>2. ASSUME NEW n \in 1..Len(queue), FlushBegins(n)
      PROVE  SinksAreInStep'
  <2>1. /\ turn = 0 /\ turn' = 1 /\ UNCHANGED <<sinks, damaged>>
        /\ delivered' = delivered \o batch'
    BY <1>2 DEF FlushBegins, Channel!Deliver
  <2>2. ASSUME NEW i \in (1..NumSinks) \ damaged
        PROVE  delivered = sinks[i] /\ 1 <= i
    BY <2>1, SinkSet DEF SinksAreInStep
  <2>3. ASSUME NEW i \in (1..NumSinks) \ damaged
        PROVE  delivered' = sinks'[i] \o batch' /\ turn' # 0 /\ turn' <= i
    <3>1. sinks'[i] = sinks[i] /\ delivered = sinks[i] /\ 1 <= i
      BY <2>1, <2>2
    <3> QED
      BY <2>1, <3>1
  <2> QED
    BY <2>1, <2>3 DEF SinksAreInStep
<1>3. ASSUME turn \in 1..NumSinks, turn' = nextTurn, UNCHANGED <<delivered, batch>>,
             NEW s, sinks' = [sinks EXCEPT ![turn] = s],
             \/ s = sinks[turn] \o batch /\ damaged' = damaged
             \/ damaged' = damaged \cup {turn}
      PROVE  SinksAreInStep'
  <2> SUFFICES ASSUME NEW i \in (1..NumSinks) \ damaged'
               PROVE  delivered = IF turn' # 0 /\ turn' <= i
                                    THEN sinks'[i] \o batch ELSE sinks'[i]
    BY <1>3 DEF SinksAreInStep
  <2>1. /\ i \in (1..NumSinks) \ damaged
        /\ delivered = IF turn # 0 /\ turn <= i THEN sinks[i] \o batch ELSE sinks[i]
    BY <1>3 DEF SinksAreInStep
  <2>2. turn' = IF turn < NumSinks THEN turn + 1 ELSE 0
    BY <1>3 DEF nextTurn
  <2>3. turn \in Nat \ {0} /\ i \in Nat \ {0} /\ i <= NumSinks
    BY <1>3, SinkSet
  <2>4. CASE i = turn
    <3>1. s = sinks[turn] \o batch
      BY <1>3, <2>4
    <3>2. sinks'[i] = s
      BY <1>3, <2>4 DEF TypeOK
    <3>3. ~(turn' # 0 /\ turn' <= i)
      BY <2>2, <2>3, <2>4, SinkSet
    <3> QED
      BY <2>1, <2>3, <2>4, <3>1, <3>2, <3>3
  <2>5. CASE i # turn
    <3>1. sinks'[i] = sinks[i]
      BY <1>3, <2>5 DEF TypeOK
    <3>2. (turn' # 0 /\ turn' <= i) <=> (turn # 0 /\ turn <= i)
      BY <2>2, <2>3, <2>5, SinkSet
    <3> QED
      BY <2>1, <3>1, <3>2
  <2> QED
    BY <2>4, <2>5
<1>4. CASE FlushSink
  <2>1. turn \in 1..NumSinks
    BY <1>4, SinkSet DEF FlushSink, TypeOK
  <2> QED
    BY <1>3, <1>4, <2>1 DEF FlushSink
<1>5. ASSUME NEW k \in 0..Len(batch), FlushSinkInPart(k)
      PROVE  SinksAreInStep'
  <2>1. turn \in 1..NumSinks
    BY <1>5, SinkSet DEF FlushSinkInPart, TypeOK
  <2> QED
    BY <1>3, <1>5, <2>1 DEF FlushSinkInPart
<1> QED
  BY <1>1, <1>2, <1>4, <1>5
  DEF Next, vars, FormatFails, Log, Calls, Backup, Flush, PoolWorks, FlushSinkThrows,
      Destroy, WorkerEnds, SinksDestroyed, Channel!Close, Channel!Accept

LEMMA NextComplete ==
    ASSUME TypeOK, Counted, Complete, [Next]_vars
    PROVE  Complete'
<1> USE DEF channel
<1>1. CASE UNCHANGED <<pushed, delivered, queue, closed, turn>>
           /\ (opc' = "destroyed" => opc = "destroyed" \/ closed)
  BY <1>1 DEF Complete
<1>2. ASSUME NEW c \in Callers, Flush(c), Channel!Accept(message(c)),
             pushed' = pushed \cup {message(c)}
      PROVE  Complete'
  <2>1. message(c) \in Message
    BY <1>2, MessageInHand DEF Flush
  <2>2. queue' = queue \o <<message(c)>> /\ queue \in Seq(Message)
    BY <1>2, <2>1, AppendIsConcat DEF Channel!Accept, TypeOK
  <2>3. Elements(queue \o <<message(c)>>) = Elements(queue) \cup {message(c)}
    <3>1. <<message(c)>> \in Seq(Message) /\ Elements(<<message(c)>>) = {message(c)}
      BY <2>1, Single
    <3> HIDE DEF Elements
    <3> QED
      BY <2>2, <3>1, Concatenated
  <2>4. Elements(delivered)' = Elements(delivered)
    BY <1>2 DEF Channel!Accept, Elements
  <2> QED
    BY <1>2, <2>2, <2>3, <2>4 DEF Flush, Channel!Accept, Complete
<1>3. ASSUME NEW n \in 1..Len(queue), FlushBegins(n)
      PROVE  Complete'
  <2> DEFINE f == SubSeq(queue, 1, n)
             r == SubSeq(queue, n + 1, Len(queue))
  <2>1. /\ delivered' = delivered \o f /\ queue' = r
        /\ ~closed /\ UNCHANGED <<closed, pushed, opc>>
    BY <1>3 DEF FlushBegins, Channel!Deliver
  <2>2. /\ f \in Seq(Message) /\ delivered \in Seq(Message)
        /\ Elements(f) \cup Elements(r) = Elements(queue)
    BY CutInTwo DEF TypeOK
  <2> HIDE DEF f, r
  <2>3. Elements(delivered \o f) = Elements(delivered) \cup Elements(f)
    BY <2>2, Concatenated
  <2>4. pushed' = Elements(delivered') \cup Elements(queue')
    BY <2>1, <2>2, <2>3 DEF Complete
  <2> QED
    BY <2>1, <2>4 DEF Complete
<1>4. CASE FlushSink \/ \E k \in 0..Len(batch) : FlushSinkInPart(k)
  <2>1. ~closed /\ UNCHANGED <<queue, delivered, closed, pushed, opc>>
    BY <1>4 DEF Complete, FlushSink, FlushSinkInPart
  <2> QED
    BY <2>1 DEF Complete
<1>5. CASE WorkerEnds
  BY <1>5 DEF Complete, WorkerEnds, Channel!Close, Elements
<1>6. CASE FlushSinkThrows \/ Destroy \/ SinksDestroyed
  BY <1>1, <1>6 DEF FlushSinkThrows, Destroy, SinksDestroyed
<1>7. ASSUME NEW c \in Callers, Backup(c) \/ Flush(c)
      PROVE  Complete'
  <2>1. CASE Backup(c)
    BY <1>1, <2>1 DEF Backup
  <2>2. CASE Flush(c)
    <3>1. CASE Channel!Accept(message(c)) /\ pushed' = pushed \cup {message(c)}
      BY <1>2, <2>2, <3>1
    <3>2. CASE UNCHANGED <<channel, pushed>>
      BY <1>1, <2>2, <3>2 DEF Flush
    <3> QED
      BY <2>2, <3>1, <3>2 DEF Flush
  <2> QED
    BY <1>7, <2>1, <2>2
<1>8. CASE PoolWorks \/ UNCHANGED vars
  BY <1>1, <1>8 DEF PoolWorks, vars
<1>9. ASSUME NEW c \in Callers, FormatFails(c) \/ Log(c, TRUE) \/ Log(c, FALSE)
      PROVE  Complete'
  BY <1>1, <1>9 DEF FormatFails, Log, Calls
<1> QED
  BY <1>3, <1>4, <1>5, <1>6, <1>7, <1>8, <1>9 DEF Next

LEMMA SpecIInv == Spec => []IInv
<1>1. IInv /\ [Next]_vars => IInv'
  BY NextTyped, NextCounted, NextInOrder, NextInStep, NextComplete DEF IInv
<1> QED
  BY <1>1, InitIInv, PTL DEF Spec

-----------------------------------------------------------------------------

\* Types; realFlush stays within flushes_, the pool within its capacity.
THEOREM LoggerTypeOK == Spec => []TypeOK
<1>1. IInv => TypeOK
  BY DEF IInv
<1> QED
  BY <1>1, SpecIInv, PTL

\* A sink that has not failed has all that was delivered, less the batch it is
\* still to be given.
THEOREM LoggerSinksAreInStep == Spec => []SinksAreInStep
<1>1. IInv => SinksAreInStep
  BY DEF IInv
<1> QED
  BY <1>1, SpecIInv, PTL

\* Every sink has every caller's messages in the order of the calls, none twice.
THEOREM LoggerCallerOrderIsKept == Spec => []CallerOrderIsKept
<1>1. IInv => CallerOrderIsKept
  BY DEF IInv, InOrder, Ordered, CallerOrderIsKept
<1> QED
  BY <1>1, SpecIInv, PTL

\* When the sinks are destroyed, none is in use and all that was accepted is in
\* them.
THEOREM LoggerSinksOutliveWorker == Spec => []SinksOutliveWorker
<1>1. IInv => SinksOutliveWorker
  <2> SUFFICES ASSUME IInv, opc = "destroyed"
               PROVE  /\ turn = 0
                      /\ \A i \in (1..NumSinks) \ damaged : pushed = Elements(sinks[i])
    BY DEF SinksOutliveWorker, Elements
  <2>1. turn = 0 /\ queue = <<>> /\ pushed = Elements(delivered) \cup Elements(queue)
    BY DEF IInv, Complete
  <2>2. Elements(queue) = {}
    BY <2>1, EmptySeq DEF Elements
  <2>3. \A i \in (1..NumSinks) \ damaged : delivered = sinks[i]
    BY <2>1 DEF IInv, SinksAreInStep
  <2> QED
    BY <2>1, <2>2, <2>3
<1> QED
  BY <1>1, SpecIInv, PTL

=============================================================================
