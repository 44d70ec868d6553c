-------------------------- MODULE ServerDataProofs --------------------------
(***************************************************************************)
(* The data of the storage server.  Its table of files under the           *)
(* reader-writer lock: type correctness with the lock's exclusion and the  *)
(* table's keys, and the refinement of TableStore, for any number of       *)
(* threads, any URLs, paths and calls.  The text its files' names travel   *)
(* in: base64_decode undoes base64_encode, for any bytes, any length and   *)
(* any lines.  The links on its page, which lead back to the rows.         *)
(***************************************************************************)
EXTENDS DataManager, FileNames, SequenceTheorems, WellFoundedInduction, TLAPS

-----------------------------------------------------------------------------
(* The table                                                                *)

\* What a call has before it returns: nothing, or, in the middle of getAll, rows
\* that are still in the table, since no writer gets in.
Fresh ==
    \A t \in Threads : pc[t] # "return" =>
        /\ answer[t].ok /\ answer[t].whole
        /\ IF pc[t] = "step" /\ request[t].op = "getAll"
             THEN answer[t].found \subseteq rows
             ELSE answer[t].found = {}

IInv == TypeOK /\ Fresh

\* A row that takes the place of those with its URL or its path leaves one row
\* per URL and per path.
LEMMA ReplacedKeyed ==
    ASSUME NEW row \in Row, rows \subseteq Row, Table!Keyed(rows)
    PROVE  replaced(row) \subseteq Row /\ Table!Keyed(replaced(row))
  BY DEF replaced, Table!Keyed

\* A key leads to one row at most, so a statement that selects by key has one
\* step only.
LEMMA SelectedRows ==
    ASSUME NEW q
    PROVE  Selected(q) \subseteq rows
  BY DEF Selected, Table!Selected

\* Initially nobody is in a call and the table is keyed.
LEMMA InitIInv == Init => IInv
  BY DataManagerAssumption
  DEF Init, IInv, TypeOK, Fresh, Nothing, Answers, Row, isWrite, Table!isWrite

\* No step of any thread, and no close, crash or opening, breaks the invariant.
LEMMA NextIInv ==
    ASSUME IInv, [Next]_vars
    PROVE  IInv'
  <1>1. CASE UNCHANGED vars
    BY <1>1 DEF IInv, TypeOK, Fresh, vars, isWrite, Table!isWrite, Table!Keyed
  <1>2. ASSUME NEW t \in Threads, NEW q \in Table!Requests, Call(t, q)
        PROVE  IInv'
    BY <1>2, DataManagerAssumption
    DEF IInv, TypeOK, Fresh, Call, isWrite, Table!isWrite, Table!Keyed
  <1>3. ASSUME NEW t \in Threads, Lock(t)
        PROVE  IInv'
    BY <1>3, DataManagerAssumption
    DEF IInv, TypeOK, Fresh, Lock, isWrite, Table!isWrite, Table!Keyed
  <1>4. ASSUME NEW t \in Threads, LockShared(t)
        PROVE  IInv'
    BY <1>4, DataManagerAssumption
    DEF IInv, TypeOK, Fresh, LockShared, isWrite, Table!isWrite, Table!Keyed
  <1>5. ASSUME NEW t \in Threads, Prepare(t)
        PROVE  IInv'
    BY <1>5, DataManagerAssumption
    DEF IInv, TypeOK, Fresh, Prepare, isWrite, Table!isWrite, Table!Keyed
  <1>6. ASSUME NEW t \in Threads, Fail(t)
        PROVE  IInv'
    <2>1. /\ answer' \in [Threads -> Answers]
          /\ \A s \in Threads \ {t} : answer'[s] = answer[s]
      BY <1>6, ZenonT(40) DEF IInv, TypeOK, Fail, Answers
    <2>2. TypeOK'
      BY <1>6, <2>1, DataManagerAssumption
      DEF IInv, TypeOK, Fail, isWrite, Table!isWrite, Table!Keyed
    <2>3. Fresh'
      BY <1>6, <2>1 DEF IInv, TypeOK, Fresh, Fail
    <2>4. QED
      BY <2>2, <2>3 DEF IInv
  <1>7. ASSUME NEW t \in Threads, insert(t)
        PROVE  IInv'
    BY <1>7, DataManagerAssumption, ReplacedKeyed
    DEF IInv, TypeOK, Fresh, insert, isWrite, Row, Table!isWrite, Table!Keyed,
        Table!Requests, Table!Row
  <1>8. ASSUME NEW t \in Threads, deleteByURL(t)
        PROVE  IInv'
    BY <1>8, DataManagerAssumption, SelectedRows
    DEF IInv, TypeOK, Fresh, deleteByURL, isWrite, Table!isWrite, Table!Keyed
  <1>9. ASSUME NEW t \in Threads, getOne(t)
        PROVE  IInv'
    BY <1>9, DataManagerAssumption, SelectedRows
    DEF IInv, TypeOK, Fresh, getOne, Answers, Row, isWrite, Table!isWrite, Table!Keyed
  <1>10. ASSUME NEW t \in Threads, getAllRow(t)
         PROVE  IInv'
    BY <1>10, DataManagerAssumption
    DEF IInv, TypeOK, Fresh, getAllRow, Answers, Row, isWrite, Table!isWrite, Table!Keyed
  <1>11. ASSUME NEW t \in Threads, getAllEnds(t)
         PROVE  IInv'
    BY <1>11, DataManagerAssumption
    DEF IInv, TypeOK, Fresh, getAllEnds, isWrite, Table!isWrite, Table!Keyed
  <1>12. ASSUME NEW t \in Threads, BreakOff(t)
         PROVE  IInv'
    <2>1. /\ answer' \in [Threads -> Answers]
          /\ \A s \in Threads \ {t} : answer'[s] = answer[s]
      BY <1>12 DEF IInv, TypeOK, BreakOff, Answers
    <2>2. TypeOK'
      BY <1>12, <2>1, DataManagerAssumption
      DEF IInv, TypeOK, BreakOff, isWrite, Table!isWrite, Table!Keyed
    <2>3. Fresh'
      BY <1>12, <2>1 DEF IInv, TypeOK, Fresh, BreakOff
    <2>4. QED
      BY <2>2, <2>3 DEF IInv
  <1>13. ASSUME NEW t \in Threads, Return(t)
         PROVE  IInv'
    BY <1>13, DataManagerAssumption
    DEF IInv, TypeOK, Fresh, Return, Nothing, Answers, isWrite, Table!isWrite, Table!Keyed
  <1>14. CASE Close
    BY <1>14 DEF IInv, TypeOK, Fresh, Close, isWrite, Table!isWrite, Table!Keyed
  <1>15. CASE Crash
    BY <1>15, DataManagerAssumption
    DEF IInv, TypeOK, Fresh, Crash, Nothing, Answers, isWrite, Table!isWrite, Table!Keyed
  <1>16. CASE Open
    BY <1>16 DEF IInv, TypeOK, Fresh, Open, isWrite, Table!isWrite, Table!Keyed
  <1>17. QED
    BY <1>1, <1>2, <1>3, <1>4, <1>5, <1>6, <1>7, <1>8, <1>9, <1>10, <1>11,
       <1>12, <1>13, <1>14, <1>15, <1>16 DEF Next

\* The strengthening holds in every reachable state.
LEMMA SpecIInv == Spec => []IInv
  BY InitIInv, NextIInv, PTL DEF Spec

\* Keys of the table and exclusion of the lock, whatever fails and wherever the
\* process ends.
THEOREM DataManagerTypeOK == Spec => []TypeOK
  <1>1. IInv => TypeOK
    BY DEF IInv
  <1>2. QED
    BY <1>1, SpecIInv, PTL

-----------------------------------------------------------------------------

\* Answers that threads have and have not been given: what TableStore sees.
Answered == [t \in Threads |-> IF pc[t] = "return" THEN answer[t] ELSE NoAnswer]

\* A step that leaves table, requests and answers alone is none of TableStore's.
LEMMA HiddenStep ==
    ASSUME UNCHANGED <<rows, request, answer>>,
           \A t \in Threads : pc[t] = "return" <=> pc'[t] = "return"
    PROVE  UNCHANGED Table!tableVars
  BY DEF Table!tableVars

\* A step that brings a call to its return, and lets alone what it was asked,
\* adds one answer.
LEMMA AnsweringStep ==
    ASSUME NEW t \in Threads,
           pc \in [Threads -> {"idle", "lock", "prepare", "step", "return"}],
           answer \in [Threads -> Answers],
           answer' \in [Threads -> Answers],
           \A s \in Threads \ {t} : answer'[s] = answer[s],
           pc[t] # "return", pc' = [pc EXCEPT ![t] = "return"]
    PROVE  /\ Answered[t] = NoAnswer
           /\ Answered' = [Answered EXCEPT ![t] = answer'[t]]
  BY DEF Answered

\* Every step is a step of TableStore or none.
LEMMA NextImplements ==
    ASSUME IInv, [Next]_vars
    PROVE  [Table!TableNext]_(Table!tableVars)
  <1> USE DEF IInv, TypeOK
  <1>1. CASE UNCHANGED vars
    BY <1>1 DEF vars, Table!tableVars
  <1>2. ASSUME NEW t \in Threads, NEW q \in Table!Requests, Call(t, q)
        PROVE  Table!Ask(t, q)
    BY <1>2, DataManagerAssumption DEF Call, Table!Ask
  <1>3. ASSUME NEW t \in Threads, Lock(t) \/ LockShared(t) \/ Prepare(t)
        PROVE  UNCHANGED Table!tableVars
    BY <1>3, HiddenStep DEF Lock, LockShared, Prepare
  <1>4. ASSUME NEW t \in Threads, getAllRow(t)
        PROVE  UNCHANGED Table!tableVars
    <2>1. \A s \in Threads : pc[s] = "return" => answer'[s] = answer[s]
      BY <1>4 DEF getAllRow
    <2>2. QED
      BY <1>4, <2>1 DEF getAllRow, Table!tableVars
  <1>5. ASSUME NEW t \in Threads, Fail(t)
        PROVE  Table!Answer(t)
    <2>1. /\ answer' \in [Threads -> Answers]
          /\ \A s \in Threads \ {t} : answer'[s] = answer[s]
      BY <1>5, ZenonT(40) DEF Fail, Answers
    <2>2. answer[t].whole /\ answer[t].found = {}
      BY <1>5 DEF Fail, Fresh, isWrite, Table!isWrite
    <2>3. answer'[t] = [ok |-> FALSE, whole |-> TRUE, found |-> {}]
      BY <1>5, <2>2, ZenonT(40) DEF Fail, Answers
    <2>4. Table!Refuse(t)
      BY <1>5, <2>1, <2>3, AnsweringStep DEF Fail, Table!Refuse, Answered
    <2>5. QED
      BY <1>5, <2>4 DEF Fail, Table!Answer
  <1>6. ASSUME NEW t \in Threads, insert(t)
        PROVE  Table!Answer(t)
    <2>1. answer[t] = [ok |-> TRUE, whole |-> TRUE, found |-> {}]
      BY <1>6 DEF insert, Fresh, Answers
    <2>2. Table!Insert(t)
      BY <1>6, <2>1, AnsweringStep
      DEF insert, replaced, Table!Insert, Answered
    <2>3. QED
      BY <1>6, <2>2 DEF insert, Table!Answer
  <1>7. ASSUME NEW t \in Threads, deleteByURL(t)
        PROVE  Table!Answer(t)
    <2>1. answer[t] = [ok |-> TRUE, whole |-> TRUE, found |-> {}]
      BY <1>7 DEF deleteByURL, Fresh, Answers
    <2>2. Table!Delete(t)
      BY <1>7, <2>1, AnsweringStep
      DEF deleteByURL, Selected, Table!Delete, Answered
    <2>3. QED
      BY <1>7, <2>2 DEF deleteByURL, Table!Answer
  <1>8. ASSUME NEW t \in Threads, getOne(t)
        PROVE  Table!Answer(t)
    <2>1. /\ answer' \in [Threads -> Answers]
          /\ \A s \in Threads \ {t} : answer'[s] = answer[s]
          /\ answer'[t] = [ok |-> TRUE, whole |-> TRUE, found |-> Selected(request[t])]
      BY <1>8, SelectedRows, ZenonT(40) DEF getOne, Fresh, Answers, Row
    <2>2. Table!Select(t)
      BY <1>8, <2>1, AnsweringStep
      DEF getOne, isWrite, Selected, Table!Select, Answered
    <2>3. QED
      BY <1>8, <2>2 DEF getOne, Table!Answer
  <1>9. ASSUME NEW t \in Threads, getAllEnds(t)
        PROVE  Table!Answer(t)
    <2>1. answer[t] = [ok |-> TRUE, whole |-> TRUE, found |-> rows]
      BY <1>9 DEF getAllEnds, Fresh, Answers
    <2>2. Selected(request[t]) = rows
      BY <1>9 DEF getAllEnds, Selected, Table!Selected
    <2>3. Table!Select(t)
      BY <1>9, <2>1, <2>2, AnsweringStep, ZenonT(40)
      DEF getAllEnds, Table!isWrite, Selected, Table!Select, Answered
    <2>4. QED
      BY <1>9, <2>3 DEF getAllEnds, Table!Answer
  <1>10. ASSUME NEW t \in Threads, BreakOff(t)
         PROVE  Table!Answer(t)
    <2>1. answer[t].found \subseteq Selected(request[t])
      BY <1>10 DEF BreakOff, Fresh, Selected, Table!Selected
    <2>2. /\ answer' \in [Threads -> Answers]
          /\ \A s \in Threads \ {t} : answer'[s] = answer[s]
          /\ answer'[t] = [ok |-> TRUE, whole |-> FALSE, found |-> answer[t].found]
      BY <1>10, ZenonT(40) DEF BreakOff, Fresh, Answers
    <2>3. Answered' = [Answered EXCEPT ![t] =
                           [ok |-> TRUE, whole |-> FALSE, found |-> answer[t].found]]
      BY <1>10, <2>2, AnsweringStep DEF BreakOff
    <2>4. Table!SelectPart(t)
      BY <1>10, <2>1, <2>3
      DEF BreakOff, isWrite, Selected, Table!SelectPart, Answered
    <2>5. QED
      BY <1>10, <2>4, AnsweringStep, <2>2 DEF BreakOff, Table!Answer
  <1>11. ASSUME NEW t \in Threads, Return(t)
         PROVE  Table!Return(t)
    <2>1. Answered[t] # NoAnswer
      BY <1>11, DataManagerAssumption DEF Return, Answered
    <2>2. Answered' = [Answered EXCEPT ![t] = NoAnswer]
      BY <1>11 DEF Return, Answered
    <2>3. QED
      BY <1>11, <2>1, <2>2 DEF Return, Table!Return, Answered
  <1>12. CASE Close \/ Open
    BY <1>12, HiddenStep DEF Close, Open
  <1>13. CASE Crash
    <2>1. \A t \in Threads : pc'[t] # "return"
      BY <1>13 DEF Crash
    <2>2. Table!Crash
      BY <1>13, <2>1 DEF Crash, Table!Crash
    <2>3. QED
      BY <2>2 DEF Table!TableNext
  <1>14. QED
    BY <1>1, <1>2, <1>3, <1>4, <1>5, <1>6, <1>7, <1>8, <1>9, <1>10, <1>11,
       <1>12, <1>13 DEF Next, Table!TableNext

\* Every call takes effect at one moment between its beginning and its return,
\* or not at all; getAll's rows are rows of one moment; an end of the process
\* loses no row.
THEOREM DataManagerImplementsTable == Spec => ImplementsTable
  <1>1. Init => Table!TableInit
    BY DEF Init, Table!TableInit, Row
  <1>2. IInv /\ [Next]_vars => [Table!TableNext]_(Table!tableVars)
    BY NextImplements
  <1>3. QED
    BY <1>1, <1>2, SpecIInv, PTL DEF Spec, ImplementsTable, Table!TableSpec

-----------------------------------------------------------------------------
(* Text in lines                                                            *)

\* A set of numbers with 0 and, with each, the next has them all: no number is the
\* least that it lacks.
LEMMA Induction ==
    ASSUME NEW S, 0 \in S, \A n \in Nat : n \in S => n + 1 \in S
    PROVE  Nat \subseteq S
<1> DEFINE T == Nat \ S
           R == OpToRel(<, Nat)
<1> SUFFICES ASSUME T # {} PROVE FALSE
  OBVIOUS
<1>1. \A x, y \in Nat : <<x, y>> \in R <=> x < y
  BY DEF OpToRel
<1>2. IsWellFoundedOn(R, Nat)
  BY NatLessThanWellFounded
<1>3. PICK x \in T : \A y \in T : <<y, x>> \notin R
  <2>1. T \subseteq Nat
    OBVIOUS
  <2> HIDE DEF T, R
  <2> QED
    BY <1>2, <2>1, WFMin
<1>4. x - 1 \in T /\ x - 1 < x
  OBVIOUS
<1> HIDE DEF R
<1> QED
  BY <1>1, <1>3, <1>4

\* unbroken is well-defined: there is one text for each beginning of str.
LEMMA UnbrokenDefined ==
    ASSUME NEW str \in Seq(Nat)
    PROVE  /\ unbroken(str)[0] = <<>>
           /\ \A n \in 1..Len(str) :
                  unbroken(str)[n] = IF str[n] = 10 THEN unbroken(str)[n - 1]
                                     ELSE Append(unbroken(str)[n - 1], str[n])
<1> DEFINE More(r, n) == IF str[n] = 10 THEN r ELSE Append(r, str[n])
           Kept(r, k) == [n \in 0..k |-> IF n = 0 THEN <<>> ELSE More(r[n - 1], n)]
           S == {k \in Nat : \E r : r = Kept(r, k)}
<1>typed. Len(str) \in Nat
  OBVIOUS
<1>chosen. unbroken(str) = CHOOSE r : r = Kept(r, Len(str))
  BY DEF unbroken
<1> HIDE DEF More
<1>1. 0 \in S
  <2>1. [n \in 0..0 |-> <<>>] = Kept([n \in 0..0 |-> <<>>], 0)
    OBVIOUS
  <2> QED
    BY <2>1
<1>2. ASSUME NEW k \in Nat, k \in S PROVE k + 1 \in S
  <2>1. PICK r : r = Kept(r, k)
    BY <1>2
  <2> DEFINE q == [n \in 0..(k + 1) |-> IF n <= k THEN r[n] ELSE More(r[k], k + 1)]
  <2>2. q = Kept(q, k + 1)
    <3>1. \A n \in 0..(k + 1) :
              q[n] = IF n = 0 THEN <<>> ELSE More(q[n - 1], n)
      <4> TAKE n \in 0..(k + 1)
      <4>1. CASE n = 0
        BY <2>1, <4>1
      <4>2. CASE n \in 1..k
        <5>1. r[n] = More(r[n - 1], n)
          BY <2>1, <4>2
        <5>2. q[n] = r[n] /\ q[n - 1] = r[n - 1]
          BY <4>2
        <5> QED
          BY <5>1, <5>2, <4>2
      <4>3. CASE n = k + 1
        BY <4>3
      <4> QED
        BY <4>1, <4>2, <4>3
    <3> QED
      BY <3>1
  <2>3. \E r2 : r2 = Kept(r2, k + 1)
    <3> HIDE DEF q
    <3> QED
      BY <2>2
  <2> HIDE DEF Kept
  <2> QED
    BY <2>3
<1>3. Nat \subseteq S
  <2> HIDE DEF S
  <2> QED
    BY <1>1, <1>2, Induction
<1>4. \E r : r = Kept(r, Len(str))
  <2>1. Len(str) \in S
    BY <1>typed, <1>3
  <2> QED
    BY <2>1
<1>5. unbroken(str) = Kept(unbroken(str), Len(str))
  BY <1>4, <1>chosen
<1>6. \A n \in 0..Len(str) :
          unbroken(str)[n] = IF n = 0 THEN <<>> ELSE More(unbroken(str)[n - 1], n)
  BY <1>5
<1>7. 0 \in 0..Len(str) /\ \A n \in 1..Len(str) : n \in 0..Len(str) /\ n # 0
  BY <1>typed
<1>8. unbroken(str)[0] = <<>>
  BY <1>6, <1>7
<1>9. \A n \in 1..Len(str) : unbroken(str)[n] = More(unbroken(str)[n - 1], n)
  BY <1>6, <1>7
<1> QED
  BY <1>8, <1>9 DEF More

\* How many breaks there are among the first n characters of broken text.
LEMMA Quotient ==
    ASSUME NEW d \in Nat \ {0}, NEW n \in Nat
    PROVE  /\ n = d * (n \div d) + (n % d)
           /\ n % d \in 0..(d - 1)
           /\ n \div d \in Nat
OBVIOUS

LEMMA NextQuotient ==
    ASSUME NEW d \in Nat \ {0}, NEW n \in Nat
    PROVE  (n + 1) \div d = IF (n + 1) % d = 0 THEN n \div d + 1 ELSE n \div d
OBVIOUS

\* Text of l characters is as long as before when the breaks that were put after
\* every d of them are left out.
LEMMA BrokenLength ==
    ASSUME NEW d \in Nat \ {0}, NEW l \in Nat \ {0}, NEW m, m = l + (l - 1) \div d
    PROVE  m \in Nat /\ m - m \div (d + 1) = l
<1> DEFINE q == (l - 1) \div d
           r == (l - 1) % d
<1>1. l - 1 = d * q + r /\ r \in 0..(d - 1) /\ q \in Nat
  <2>1. l - 1 \in Nat
    OBVIOUS
  <2> HIDE DEF q, r
  <2>2. \A n \in Nat : /\ n = d * (n \div d) + (n % d)
                       /\ n % d \in 0..(d - 1) /\ n \div d \in Nat
    BY Quotient
  <2> QED
    BY <2>1, <2>2 DEF q, r
<1> HIDE DEF q, r
<1>2. m = q * (d + 1) + (r + 1) /\ r + 1 < d + 1
  BY <1>1 DEF q
<1>3. m \div (d + 1) = q
  BY <1>1, <1>2
<1> QED
  BY <1>1, <1>2, <1>3

LEMMA FewerUnbroken ==
    ASSUME NEW d \in Nat \ {0}, NEW m \in Nat, NEW n \in 0..m
    PROVE  n - n \div (d + 1) \in 0..(m - m \div (d + 1))
OBVIOUS

\* The text with a break after every d characters.
LEMMA BreaksRemoved ==
    ASSUME NEW str \in Seq(Nat), str # <<>>, \A i \in 1..Len(str) : str[i] # 10,
           NEW d \in Nat \ {0}, NEW s, s = insert_linebreaks(str, d)
    PROVE  s \in Seq(Nat) /\ unbroken(s)[Len(s)] = str
<1>1. PICK l \in Nat \ {0} : l = Len(str)
  OBVIOUS
<1>2. PICK m : m = l + (l - 1) \div d
  OBVIOUS
<1>3. m \in Nat /\ m - m \div (d + 1) = l
  BY <1>2, BrokenLength
<1> DEFINE f(n) == n - n \div (d + 1)
<1>4. s = [i \in 1..m |-> IF i % (d + 1) = 0 THEN 10 ELSE str[f(i)]]
  BY <1>1, <1>2 DEF insert_linebreaks
<1>5. /\ f(0) = 0 /\ f(m) = l
      /\ \A n \in 0..m : f(n) \in 0..l
      /\ \A n \in Nat : f(n + 1) = IF (n + 1) % (d + 1) = 0 THEN f(n) ELSE f(n) + 1
  <2>1. d + 1 \in Nat \ {0}
    OBVIOUS
  <2>2. f(0) = 0
    OBVIOUS
  <2>3. \A n \in 0..m : f(n) \in 0..l
    BY <1>3, FewerUnbroken
  <2>4. \A n \in Nat : f(n + 1) = IF (n + 1) % (d + 1) = 0 THEN f(n) ELSE f(n) + 1
    <3> TAKE n \in Nat
    <3>1. n \div (d + 1) \in Nat
      BY <2>1, Quotient
    <3>2. (n + 1) \div (d + 1) =
              IF (n + 1) % (d + 1) = 0 THEN n \div (d + 1) + 1 ELSE n \div (d + 1)
      BY <2>1, NextQuotient
    <3> QED
      BY <3>1, <3>2
  <2> QED
    BY <1>3, <2>2, <2>3, <2>4
<1> HIDE DEF f
<1>6. /\ s \in Seq(Nat) /\ Len(s) = m
      /\ \A n \in 0..(m - 1) :
             s[n + 1] = IF (n + 1) % (d + 1) = 0 THEN 10 ELSE str[f(n) + 1]
      /\ \A n \in 0..(m - 1) : (n + 1) % (d + 1) # 0 => f(n) + 1 \in 1..l
  <2>1. \A n \in 0..(m - 1) : (n + 1) % (d + 1) # 0 => f(n + 1) = f(n) + 1 /\ f(n) + 1 \in 1..l
    <3> TAKE n \in 0..(m - 1)
    <3> SUFFICES ASSUME (n + 1) % (d + 1) # 0
                 PROVE  f(n + 1) = f(n) + 1 /\ f(n) + 1 \in 1..l
      OBVIOUS
    <3>1. n \in 0..m /\ n + 1 \in 0..m /\ n \in Nat
      BY <1>3
    <3>2. f(n) \in 0..l /\ f(n + 1) \in 0..l
      BY <3>1, <1>5
    <3>3. f(n + 1) = f(n) + 1
      BY <3>1, <1>5
    <3> QED
      BY ONLY <3>2, <3>3, l \in Nat
  <2>2. \A n \in 0..(m - 1) : n + 1 \in 1..m
    BY <1>3
  <2>3. \A n \in 0..(m - 1) :
            s[n + 1] = IF (n + 1) % (d + 1) = 0 THEN 10 ELSE str[f(n) + 1]
    BY <1>4, <2>1, <2>2
  <2>4. \A i \in 1..m : i - 1 \in 0..(m - 1) /\ (i - 1) + 1 = i
    BY <1>3
  <2>5. \A i \in 1..m : s[i] \in Nat
    <3> TAKE i \in 1..m
    <3>1. s[i] = 10 \/ (f(i - 1) + 1 \in 1..l /\ s[i] = str[f(i - 1) + 1])
      BY <2>1, <2>3, <2>4
    <3> QED
      BY <1>1, <3>1
  <2>6. s = [i \in 1..m |-> s[i]]
    BY <1>4
  <2>7. s \in [1..m -> Nat]
    BY <2>5, <2>6
  <2>8. s \in Seq(Nat) /\ Len(s) = m
    BY ONLY <1>3, <2>7
  <2> QED
    BY <2>1, <2>3, <2>8
<1> DEFINE S == {n \in Nat : n <= m => unbroken(s)[n] = SubSeq(str, 1, f(n))}
<1>7. 0 \in S
  <2>1. unbroken(s)[0] = <<>>
    BY <1>6, UnbrokenDefined
  <2>2. SubSeq(str, 1, 0) = <<>>
    OBVIOUS
  <2> QED
    BY <2>1, <2>2, <1>5
<1>8. ASSUME NEW n \in Nat, n \in S PROVE n + 1 \in S
  <2> SUFFICES ASSUME n + 1 <= m PROVE unbroken(s)[n + 1] = SubSeq(str, 1, f(n + 1))
    OBVIOUS
  <2>1. n + 1 \in 1..m /\ (n + 1) - 1 = n /\ n \in 0..(m - 1) /\ n \in 0..m
    BY <1>3
  <2>2. unbroken(s)[n + 1] = IF s[n + 1] = 10 THEN unbroken(s)[n]
                             ELSE Append(unbroken(s)[n], s[n + 1])
    <3>1. \A i \in 1..Len(s) : unbroken(s)[i] = IF s[i] = 10 THEN unbroken(s)[i - 1]
                                                ELSE Append(unbroken(s)[i - 1], s[i])
      BY <1>6, UnbrokenDefined
    <3>2. PICK i \in 1..Len(s) : i = n + 1 /\ i - 1 = n
      BY <2>1, <1>6
    <3> QED
      BY <3>1, <3>2
  <2>3. unbroken(s)[n] = SubSeq(str, 1, f(n))
    BY <1>3, <1>8
  <2>4. CASE (n + 1) % (d + 1) = 0
    <3>1. s[n + 1] = 10 /\ f(n + 1) = f(n)
      BY <2>1, <2>4, <1>5, <1>6
    <3> QED
      BY <2>2, <2>3, <3>1
  <2>5. CASE (n + 1) % (d + 1) # 0
    <3>1. PICK k : k = f(n)
      OBVIOUS
    <3>2. s[n + 1] = str[k + 1] /\ f(n + 1) = k + 1 /\ k + 1 \in 1..l /\ k \in 0..l
      BY <2>1, <2>5, <3>1, <1>5, <1>6
    <3>3. str[k + 1] # 10
      BY <3>2, <1>1
    <3>4. Append(SubSeq(str, 1, k), str[k + 1]) = SubSeq(str, 1, k + 1)
      BY <3>2, <1>1
    <3> QED
      BY <2>2, <2>3, <3>1, <3>2, <3>3, <3>4
  <2> QED
    BY <2>4, <2>5
<1>9. unbroken(s)[m] = SubSeq(str, 1, l)
  <2> HIDE DEF S
  <2>1. m \in S
    BY <1>3, <1>7, <1>8, Induction
  <2> QED
    BY <2>1, <1>3, <1>5 DEF S
<1> QED
  BY <1>1, <1>6, <1>9

\* Taking the breaks out of text undoes putting them in.
LEMMA TextUnbroken ==
    ASSUME line \in Nat, NEW str \in Seq(Nat), \A i \in 1..Len(str) : str[i] # 10,
           NEW s, s = insert_linebreaks(str, line)
    PROVE  s \in Seq(Nat) /\ remove_linebreaks(s) = str
<1>1. CASE line = 0
  BY <1>1 DEF insert_linebreaks, remove_linebreaks
<1>2. CASE line # 0 /\ str = <<>>
  <2>1. s = <<>>
    BY <1>2 DEF insert_linebreaks
  <2>2. unbroken(<<>>)[0] = <<>> /\ Len(<<>>) = 0
    <3>1. <<>> \in Seq(Nat)
      OBVIOUS
    <3> QED
      BY <3>1, UnbrokenDefined
  <2> QED
    BY <1>2, <2>1, <2>2 DEF remove_linebreaks
<1>3. CASE line # 0 /\ str # <<>>
  BY <1>3, BreaksRemoved DEF remove_linebreaks
<1> QED
  BY <1>1, <1>2, <1>3

-----------------------------------------------------------------------------
(* The coding of names                                                      *)

\* Six bits come back from their character in either alphabet, and no character
\* of six bits is taken for padding.
LEMMA CharDecodes ==
    ASSUME NEW v \in 0..63, url \in BOOLEAN
    PROVE  /\ pos_of_char(base64_chars(v)) = v
           /\ isBase64(base64_chars(v))
           /\ ~isTrailing(base64_chars(v))
           /\ base64_chars(v) \in Nat
BY DEF pos_of_char, base64_chars, isBase64, isTrailing

\* Masked and shifted, bytes index the alphabet.
LEMMA SixBits ==
    ASSUME NEW b \in Byte, NEW c \in Byte, NEW d \in Byte
    PROVE  /\ b \div 4 \in 0..63
           /\ (b % 4) * 16 + 0 \in 0..63
           /\ (b % 4) * 16 + c \div 16 \in 0..63
           /\ (c % 16) * 4 + 0 \in 0..63
           /\ (c % 16) * 4 + d \div 64 \in 0..63
           /\ d % 64 \in 0..63
BY DEF Byte

\* The decoder's shifts undo the encoder's.
LEMMA EightBits ==
    ASSUME NEW b \in Byte, NEW c \in Byte, NEW d \in Byte
    PROVE  /\ (b \div 4) * 4 + ((b % 4) * 16 + 0) \div 16 = b
           /\ (b \div 4) * 4 + ((b % 4) * 16 + c \div 16) \div 16 = b
           /\ (((b % 4) * 16 + c \div 16) % 16) * 16 + ((c % 16) * 4 + 0) \div 4 = c
           /\ (((b % 4) * 16 + c \div 16) % 16) * 16 + ((c % 16) * 4 + d \div 64) \div 4 = c
           /\ (((c % 16) * 4 + d \div 64) % 4) * 64 + (d % 64) = d
BY DEF Byte

\* A sequence that holds what encodedChunk makes, as far as it goes.
Coded(s) ==
    \A k \in Nat, j \in 1..4 :
        4 * k + j <= Len(s) =>
            3 * k < Len(input) /\ s[4 * k + j] = encodedChunk(3 * k)[j]

\* No byte is without its chunk.
WholeIn(s) == \A k \in Nat : 3 * k < Len(input) => 4 * k + 4 <= Len(s)

\* All that a text misses is trailing characters.
NothingLost ==
    \A k \in Nat, j \in 1..4 :
        3 * k < Len(input) /\ ~isTrailing(encodedChunk(3 * k)[j]) => 4 * k + j <= Len(text)

Phases == {"encode", "send", "decode", "decoded", "thrown"}

Base64TypeOK ==
    /\ input \in Seq(Byte) /\ url \in BOOLEAN /\ line \in Nat
    /\ phase \in Phases /\ pos \in Nat
    /\ text \in Seq(Nat) /\ output \in Seq(Nat) /\ cut \in BOOLEAN

\* While chunks are made, the text holds the chunks of the input so far; while
\* they are taken apart, the output holds the bytes of the chunks so far.
Base64Inv ==
    /\ Base64TypeOK
    /\ phase # "send" => Coded(text)
    /\ phase = "encode" => \E m \in Nat : pos = 3 * m /\ Len(text) = 4 * m
    /\ phase = "send" =>
           /\ pos = 0 /\ remove_linebreaks(text) \in Seq(Nat)
           /\ Coded(remove_linebreaks(text)) /\ WholeIn(remove_linebreaks(text))
    /\ phase \in {"encode", "send"} => output = <<>> /\ ~cut
    /\ phase \in {"decode", "decoded", "thrown"} =>
           /\ ~cut => NothingLost
           /\ \E m \in Nat : pos = 4 * m /\ (pos < Len(text) => Len(output) = 3 * m)
           /\ pos >= Len(text) /\ ~cut => Len(output) = Len(input)
    /\ phase = "decoded" => pos >= Len(text)
    /\ Len(output) <= Len(input)
    /\ \A i \in 1..Len(output) : output[i] = input[i]
    /\ phase = "thrown" => cut

\* A chunk is four characters, trailing where the input has no byte for them, and
\* the decoder's arithmetic gives the bytes back.
LEMMA EncodedChunk ==
    ASSUME input \in Seq(Byte), url \in BOOLEAN,
           NEW p \in Nat, p < Len(input), NEW ch, ch = encodedChunk(p)
    PROVE  /\ ch \in Seq(Nat) /\ Len(ch) = 4
           /\ \A j \in {1, 2} : isBase64(ch[j]) /\ ~isTrailing(ch[j])
           /\ \A j \in {3, 4} :
                  IF p + j - 1 <= Len(input)
                    THEN isBase64(ch[j]) /\ ~isTrailing(ch[j])
                    ELSE isTrailing(ch[j])
           /\ pos_of_char(ch[1]) * 4 + (pos_of_char(ch[2]) \div 16) = input[p + 1]
           /\ p + 2 <= Len(input) =>
                  (pos_of_char(ch[2]) % 16) * 16 + (pos_of_char(ch[3]) \div 4) = input[p + 2]
           /\ p + 3 <= Len(input) =>
                  (pos_of_char(ch[3]) % 4) * 64 + pos_of_char(ch[4]) = input[p + 3]
<1> DEFINE b == input[p + 1]
           c == IF p + 2 <= Len(input) THEN input[p + 2] ELSE 0
           d == IF p + 3 <= Len(input) THEN input[p + 3] ELSE 0
<1>1. b \in Byte /\ c \in Byte /\ d \in Byte
  <2>1. 0 \in Byte
    BY DEF Byte
  <2> QED
    BY <2>1
<1>2. isTrailing(trailing_char) /\ trailing_char \in Nat
  BY DEF isTrailing, trailing_char
<1>3. CASE Len(input) = p + 1
  <2>1. ch = << base64_chars(b \div 4), base64_chars((b % 4) * 16 + 0),
                trailing_char, trailing_char >>
    BY <1>3 DEF encodedChunk
  <2> HIDE DEF b, c, d
  <2>2. b \div 4 \in 0..63 /\ (b % 4) * 16 + 0 \in 0..63
    BY <1>1, SixBits
  <2>3. (b \div 4) * 4 + ((b % 4) * 16 + 0) \div 16 = b
    BY <1>1, EightBits
  <2> DEFINE v1 == b \div 4
             v2 == (b % 4) * 16 + 0
  <2> HIDE DEF v1, v2
  <2>4. ch = << base64_chars(v1), base64_chars(v2), trailing_char, trailing_char >>
    BY <2>1 DEF v1, v2
  <2>5. /\ ch[1] = base64_chars(v1) /\ ch[2] = base64_chars(v2)
        /\ ch[3] = trailing_char /\ ch[4] = trailing_char /\ Len(ch) = 4
    BY <2>4
  <2>6. v1 \in 0..63 /\ v2 \in 0..63 /\ v1 * 4 + (v2 \div 16) = b
    BY <2>2, <2>3 DEF v1, v2
  <2>7. /\ pos_of_char(ch[1]) = v1 /\ isBase64(ch[1]) /\ ~isTrailing(ch[1]) /\ ch[1] \in Nat
        /\ pos_of_char(ch[2]) = v2 /\ isBase64(ch[2]) /\ ~isTrailing(ch[2]) /\ ch[2] \in Nat
    BY <2>5, <2>6, CharDecodes
  <2>8. ch \in Seq(Nat)
    BY <2>4, <2>5, <2>7, <1>2
  <2> QED
    BY <2>5, <2>6, <2>7, <2>8, <1>2, <1>3 DEF b
<1>4. CASE Len(input) = p + 2
  <2> DEFINE v1 == b \div 4
             v2 == (b % 4) * 16 + c \div 16
             v3 == (c % 16) * 4 + 0
  <2>1. ch = << base64_chars(v1), base64_chars(v2), base64_chars(v3), trailing_char >>
    BY <1>4 DEF encodedChunk
  <2> HIDE DEF b, c, d
  <2>2. v1 \in 0..63 /\ v2 \in 0..63 /\ v3 \in 0..63
    BY <1>1, SixBits
  <2>3. v1 * 4 + (v2 \div 16) = b /\ (v2 % 16) * 16 + (v3 \div 4) = c
    BY <1>1, EightBits
  <2> HIDE DEF v1, v2, v3
  <2>5. /\ ch[1] = base64_chars(v1) /\ ch[2] = base64_chars(v2)
        /\ ch[3] = base64_chars(v3) /\ ch[4] = trailing_char /\ Len(ch) = 4
    BY <2>1
  <2>7. /\ pos_of_char(ch[1]) = v1 /\ isBase64(ch[1]) /\ ~isTrailing(ch[1]) /\ ch[1] \in Nat
        /\ pos_of_char(ch[2]) = v2 /\ isBase64(ch[2]) /\ ~isTrailing(ch[2]) /\ ch[2] \in Nat
        /\ pos_of_char(ch[3]) = v3 /\ isBase64(ch[3]) /\ ~isTrailing(ch[3]) /\ ch[3] \in Nat
    BY <2>5, <2>2, CharDecodes
  <2>8. ch \in Seq(Nat)
    BY <2>1, <2>5, <2>7, <1>2
  <2> QED
    BY <2>5, <2>3, <2>7, <2>8, <1>2, <1>4 DEF b, c
<1>5. CASE Len(input) >= p + 3
  <2> DEFINE v1 == b \div 4
             v2 == (b % 4) * 16 + c \div 16
             v3 == (c % 16) * 4 + d \div 64
             v4 == d % 64
  <2>1. ch = << base64_chars(v1), base64_chars(v2), base64_chars(v3), base64_chars(v4) >>
    BY <1>5 DEF encodedChunk
  <2> HIDE DEF b, c, d
  <2>2. v1 \in 0..63 /\ v2 \in 0..63 /\ v3 \in 0..63 /\ v4 \in 0..63
    BY <1>1, SixBits
  <2>3. /\ v1 * 4 + (v2 \div 16) = b /\ (v2 % 16) * 16 + (v3 \div 4) = c
        /\ (v3 % 4) * 64 + v4 = d
    BY <1>1, EightBits
  <2> HIDE DEF v1, v2, v3, v4
  <2>5. /\ ch[1] = base64_chars(v1) /\ ch[2] = base64_chars(v2)
        /\ ch[3] = base64_chars(v3) /\ ch[4] = base64_chars(v4) /\ Len(ch) = 4
    BY <2>1
  <2>7. /\ pos_of_char(ch[1]) = v1 /\ isBase64(ch[1]) /\ ~isTrailing(ch[1]) /\ ch[1] \in Nat
        /\ pos_of_char(ch[2]) = v2 /\ isBase64(ch[2]) /\ ~isTrailing(ch[2]) /\ ch[2] \in Nat
        /\ pos_of_char(ch[3]) = v3 /\ isBase64(ch[3]) /\ ~isTrailing(ch[3]) /\ ch[3] \in Nat
        /\ pos_of_char(ch[4]) = v4 /\ isBase64(ch[4]) /\ ~isTrailing(ch[4]) /\ ch[4] \in Nat
    BY <2>5, <2>2, CharDecodes
  <2>8. ch \in Seq(Nat)
    BY <2>1, <2>5, <2>7
  <2> QED
    BY <2>5, <2>3, <2>7, <2>8, <1>5, SMTT(40) DEF b, c, d
<1> QED
  BY <1>3, <1>4, <1>5

LEMMA Base64InitIInv ==
    ASSUME Base64Init PROVE Base64Inv
<1>1. Base64TypeOK
  <2>1. input \in Seq(Byte)
    BY Base64Assumption DEF Base64Init
  <2>2. url \in BOOLEAN
    BY DEF Base64Init
  <2>3. text \in Seq(Nat) /\ output \in Seq(Nat)
    BY DEF Base64Init
  <2>4. line \in Nat /\ phase \in Phases /\ pos \in Nat /\ cut \in BOOLEAN
    BY Base64Assumption DEF Base64Init, Phases
  <2> QED
    BY <2>1, <2>2, <2>3, <2>4 DEF Base64TypeOK
<1>2. pos = 3 * 0 /\ Len(text) = 4 * 0
  BY DEF Base64Init
<1> QED
  BY <1>1, <1>2 DEF Base64Init, Base64Inv, Coded, Base64TypeOK

\* What is where after an appending.
LEMMA Appended ==
    ASSUME NEW s \in Seq(Nat), NEW t \in Seq(Nat)
    PROVE  /\ s \o t \in Seq(Nat) /\ Len(s \o t) = Len(s) + Len(t)
           /\ \A i \in 1..Len(s) : (s \o t)[i] = s[i]
           /\ \A j \in 1..Len(t) : (s \o t)[Len(s) + j] = t[j]
<1> DEFINE l == Len(s)
           n == Len(t)
<1>1. /\ s \o t \in Seq(Nat) /\ Len(s \o t) = l + n
      /\ \A i \in 1..(l + n) : (s \o t)[i] = IF i <= l THEN s[i] ELSE t[i - l]
  BY ConcatProperties, Zenon
<1>2. l \in Nat /\ n \in Nat
  OBVIOUS
<1> HIDE DEF l, n
<1>3. \A j \in 1..n : l + j \in 1..(l + n) /\ ~(l + j <= l) /\ (l + j) - l = j
  BY <1>2
<1>4. \A i \in 1..l : i \in 1..(l + n)
  BY <1>2
<1>5. \A j \in 1..n : (s \o t)[l + j] = t[j]
  BY <1>1, <1>3
<1>6. \A i \in 1..l : (s \o t)[i] = s[i]
  BY <1>1, <1>4
<1> QED
  BY <1>1, <1>5, <1>6 DEF l, n

LEMMA EncodeChunkKeeps ==
    ASSUME Base64Inv, EncodeChunk PROVE Base64Inv'
<1> USE DEF Base64TypeOK
<1>1. PICK m \in Nat : pos = 3 * m /\ Len(text) = 4 * m
  BY DEF Base64Inv, EncodeChunk
<1> DEFINE ch == encodedChunk(pos)
<1>2. ch \in Seq(Nat) /\ Len(ch) = 4
  BY EncodedChunk DEF Base64Inv, EncodeChunk
<1> HIDE DEF ch
<1>3. /\ text' = text \o ch /\ text' \in Seq(Nat) /\ Len(text') = 4 * m + 4
      /\ \A i \in 1..(4 * m) : text'[i] = text[i]
      /\ \A j \in 1..4 : text'[4 * m + j] = ch[j]
  <2>1. text' = text \o ch
    BY DEF EncodeChunk, ch
  <2>2. text \in Seq(Nat)
    BY DEF Base64Inv
  <2> QED
    <3>1. /\ text \o ch \in Seq(Nat) /\ Len(text \o ch) = Len(text) + Len(ch)
          /\ \A i \in 1..Len(text) : (text \o ch)[i] = text[i]
          /\ \A j \in 1..Len(ch) : (text \o ch)[Len(text) + j] = ch[j]
      BY <2>2, <1>2, Appended, Zenon
    <3> QED
      BY <2>1, <3>1, <1>1, <1>2
<1>4. Base64TypeOK'
  BY <1>3 DEF Base64Inv, EncodeChunk, Phases
<1>5. \A p : encodedChunk(p)' = encodedChunk(p)
  <2>1. UNCHANGED <<input, url>>
    BY DEF EncodeChunk
  <2> QED
    BY <2>1 DEF encodedChunk, base64_chars, trailing_char
<1>6. Coded(text)'
  <2> SUFFICES ASSUME NEW k \in Nat, NEW j \in 1..4, 4 * k + j <= Len(text')
               PROVE  3 * k < Len(input') /\ text'[4 * k + j] = encodedChunk(3 * k)'[j]
    BY DEF Coded
  <2>1. input' = input /\ encodedChunk(3 * k)' = encodedChunk(3 * k)
    BY <1>5 DEF EncodeChunk
  <2>2. CASE k < m
    <3>1. 4 * k + j <= 4 * m /\ 4 * k + j \in 1..(4 * m)
      BY <2>2
    <3>2. Coded(text) /\ 4 * k + j <= Len(text)
      BY <3>1, <1>1 DEF Base64Inv, EncodeChunk
    <3>3. 3 * k < Len(input) /\ text[4 * k + j] = encodedChunk(3 * k)[j]
      BY <3>2 DEF Coded
    <3> QED
      BY <3>1, <3>3, <2>1, <1>3
  <2>3. CASE k = m
    BY <2>1, <2>3, <1>1, <1>3 DEF ch, EncodeChunk
  <2>4. k <= m
    <3>1. 4 * k + j <= 4 * m + 4
      BY <1>3
    <3> QED
      BY <3>1
  <2> QED
    BY <2>2, <2>3, <2>4
<1>7. pos' = 3 * (m + 1) /\ Len(text') = 4 * (m + 1)
  <2>1. pos' = pos + 3
    BY DEF EncodeChunk
  <2> QED
    BY <1>1, <1>3, <2>1
<1>8. \A i \in 1..Len(output') : output'[i] = input'[i]
  BY DEF Base64Inv, EncodeChunk
<1>9. \E l \in Nat : pos' = 3 * l /\ Len(text') = 4 * l
  BY <1>7
<1>10. phase' = "encode" /\ output' = <<>> /\ ~cut' /\ Len(output') <= Len(input')
  BY DEF Base64Inv, EncodeChunk
<1> QED
  BY <1>4, <1>6, <1>8, <1>9, <1>10 DEF Base64Inv

\* No character of a text is a line end.
LEMMA CodedCharacters ==
    ASSUME input \in Seq(Byte), url \in BOOLEAN, NEW s \in Seq(Nat), Coded(s)
    PROVE  \A i \in 1..Len(s) : s[i] # 10
<1> SUFFICES ASSUME NEW i \in 1..Len(s) PROVE s[i] # 10
  OBVIOUS
<1>1. PICK k \in Nat, j \in 1..4 : i = 4 * k + j
  <2>1. PICK x \in Nat : i = x + 1
    OBVIOUS
  <2>2. x \div 4 \in Nat /\ (x % 4) + 1 \in 1..4 /\ x + 1 = 4 * (x \div 4) + ((x % 4) + 1)
    BY ONLY x \in Nat
  <2>3. i = 4 * (x \div 4) + ((x % 4) + 1)
    BY ONLY <2>1, <2>2
  <2> QED
    BY <2>2, <2>3
<1>2. 3 * k < Len(input) /\ s[i] = encodedChunk(3 * k)[j]
  <2>1. 4 * k + j <= Len(s)
    BY <1>1
  <2> QED
    BY <1>1, <2>1 DEF Coded
<1>3. 3 * k \in Nat
  OBVIOUS
<1>4. isBase64(encodedChunk(3 * k)[j]) \/ isTrailing(encodedChunk(3 * k)[j])
  <2>1. /\ \A l \in {1, 2} : isBase64(encodedChunk(3 * k)[l])
        /\ \A l \in {3, 4} : \/ isBase64(encodedChunk(3 * k)[l])
                             \/ isTrailing(encodedChunk(3 * k)[l])
    BY <1>2, <1>3, EncodedChunk
  <2>2. j \in {1, 2} \/ j \in {3, 4}
    OBVIOUS
  <2> QED
    BY <2>1, <2>2
<1>5. \A chr \in Nat : isBase64(chr) \/ isTrailing(chr) => chr # 10
  BY DEF isBase64, isTrailing
<1>6. s[i] \in Nat
  OBVIOUS
<1> QED
  BY <1>2, <1>4, <1>5, <1>6

LEMMA EncodeEndsKeeps ==
    ASSUME Base64Inv, EncodeEnds PROVE Base64Inv'
<1> USE DEF Base64TypeOK
<1>1. PICK m \in Nat : pos = 3 * m /\ Len(text) = 4 * m
  BY DEF Base64Inv, EncodeEnds
<1>2. /\ phase = "encode" /\ pos >= Len(input) /\ phase' = "send" /\ pos' = 0
      /\ text' = insert_linebreaks(text, line)
      /\ UNCHANGED <<input, url, line, output, cut>>
  BY DEF EncodeEnds
<1>3. /\ input \in Seq(Byte) /\ url \in BOOLEAN /\ line \in Nat /\ text \in Seq(Nat)
      /\ Coded(text)
  BY <1>2 DEF Base64Inv
<1>4. text' \in Seq(Nat) /\ remove_linebreaks(text') = text
  <2>1. \A i \in 1..Len(text) : text[i] # 10
    BY <1>3, CodedCharacters
  <2> QED
    BY <1>2, <1>3, <2>1, TextUnbroken
<1>5. remove_linebreaks(text)' = text
  BY <1>2, <1>4 DEF remove_linebreaks
<1>6. Base64TypeOK'
  BY <1>2, <1>4 DEF Base64Inv, Phases
<1>7. \A p : encodedChunk(p)' = encodedChunk(p)
  BY <1>2 DEF encodedChunk, base64_chars, trailing_char
<1>8. Coded(remove_linebreaks(text))'
  <2> SUFFICES ASSUME NEW k \in Nat, NEW j \in 1..4, 4 * k + j <= Len(text)
               PROVE  3 * k < Len(input') /\ text[4 * k + j] = encodedChunk(3 * k)'[j]
    BY <1>5 DEF Coded
  <2>1. 3 * k < Len(input) /\ text[4 * k + j] = encodedChunk(3 * k)[j]
    BY <1>3 DEF Coded
  <2> QED
    BY <1>2, <1>7, <2>1
<1>9. WholeIn(remove_linebreaks(text))'
  <2>1. WholeIn(text)
    BY <1>1, <1>2, <1>3 DEF WholeIn
  <2> QED
    BY <1>2, <1>5, <2>1 DEF WholeIn
<1> QED
  BY <1>2, <1>3, <1>5, <1>6, <1>8, <1>9 DEF Base64Inv

LEMMA DecodeBeginsKeeps ==
    ASSUME Base64Inv, NEW n \in 0..Len(text), DecodeBegins(n) PROVE Base64Inv'
<1> USE DEF Base64TypeOK
<1>0. PICK str : str = remove_linebreaks(text)
  OBVIOUS
<1>1. /\ phase = "send" /\ text' = SubSeq(str, 1, n) /\ phase' = "decode"
      /\ n <= Len(str) /\ cut' = \E i \in (n + 1)..Len(str) : ~isTrailing(str[i])
      /\ UNCHANGED <<input, url, line, pos, output>>
  BY <1>0 DEF DecodeBegins
<1>2. pos = 0 /\ WholeIn(str) /\ output = <<>> /\ Coded(str) /\ str \in Seq(Nat)
      /\ n \in Nat
  BY <1>0, <1>1 DEF Base64Inv
<1>3. text' \in Seq(Nat) /\ Len(text') = n /\ \A i \in 1..n : text'[i] = str[i]
  BY <1>1, <1>2
<1>4. Base64TypeOK'
  BY <1>1, <1>3 DEF Base64Inv, Phases
<1>5. \A p : encodedChunk(p)' = encodedChunk(p)
  BY <1>1 DEF encodedChunk, base64_chars, trailing_char
<1>6. Coded(text)'
  <2> SUFFICES ASSUME NEW k \in Nat, NEW j \in 1..4, 4 * k + j <= Len(text')
               PROVE  3 * k < Len(input') /\ text'[4 * k + j] = encodedChunk(3 * k)'[j]
    BY DEF Coded
  <2>1. input' = input /\ encodedChunk(3 * k)' = encodedChunk(3 * k)
    BY <1>1, <1>5
  <2>2. 4 * k + j <= n /\ 4 * k + j \in 1..n /\ n <= Len(str)
    BY <1>1, <1>2, <1>3
  <2>3. 3 * k < Len(input) /\ str[4 * k + j] = encodedChunk(3 * k)[j]
    <3>1. 4 * k + j <= Len(str)
      BY <2>2, <1>2
    <3> QED
      BY <3>1, <1>2 DEF Coded
  <2> QED
    BY <2>1, <2>2, <2>3, <1>3
<1>7. ~cut' => NothingLost'
  <2> SUFFICES ASSUME ~cut', NEW k \in Nat, NEW j \in 1..4,
                      3 * k < Len(input'), ~isTrailing(encodedChunk(3 * k)'[j])
               PROVE  4 * k + j <= Len(text')
    BY DEF NothingLost, isTrailing
  <2>1. 3 * k < Len(input) /\ ~isTrailing(encodedChunk(3 * k)[j])
    BY <1>1, <1>5
  <2>2. 4 * k + j <= Len(str) /\ 4 * k + j \in 1..Len(str)
    BY <2>1, <1>2 DEF WholeIn
  <2>3. str[4 * k + j] = encodedChunk(3 * k)[j]
    BY <2>2, <1>2 DEF Coded
  <2>4. ~(4 * k + j \in (n + 1)..Len(str))
    BY <1>1, <2>1, <2>3
  <2> QED
    BY <2>2, <2>4, <1>3
<1>8. pos' = 4 * 0 /\ Len(output') = 3 * 0
  BY <1>1, <1>2
<1>9. pos' >= Len(text') /\ ~cut' => Len(output') = Len(input')
  <2> SUFFICES ASSUME pos' >= Len(text'), ~cut', 0 < Len(input) PROVE FALSE
    BY <1>1, <1>8, <1>2 DEF Base64Inv
  <2>1. ~isTrailing(encodedChunk(0)[1])
    BY EncodedChunk DEF Base64Inv
  <2>2. 4 * 0 + 1 <= Len(text')
    <3>1. NothingLost'
      BY <1>7
    <3>2. 3 * 0 < Len(input') /\ ~isTrailing(encodedChunk(3 * 0)'[1])
      BY <1>1, <1>5, <2>1
    <3> QED
      BY <3>1, <3>2 DEF NothingLost, isTrailing
  <2> QED
    BY <1>8, <2>2, <1>3
<1> QED
  BY <1>1, <1>2, <1>4, <1>6, <1>7, <1>8, <1>9 DEF Base64Inv

\* What the decoder finds of chunk k.
LEMMA ChunkFound ==
    ASSUME Base64Inv, phase = "decode", NEW k \in Nat, pos = 4 * k, pos < Len(text)
    PROVE  /\ 3 * k < Len(input)
           /\ \A j \in 1..4 : 4 * k + j <= Len(text) =>
                  text[4 * k + j] = encodedChunk(3 * k)[j]
           /\ hasSecond(pos) <=> 4 * k + 3 <= Len(text) /\ 3 * k + 2 <= Len(input)
           /\ hasThird(pos) <=> 4 * k + 4 <= Len(text) /\ 3 * k + 3 <= Len(input)
<1> USE DEF Base64TypeOK
<1>1. Len(text) \in Nat /\ Len(input) \in Nat /\ Coded(text)
  BY DEF Base64Inv
<1>2. \A j \in 1..4 : 4 * k + j <= Len(text) =>
          3 * k < Len(input) /\ text[4 * k + j] = encodedChunk(3 * k)[j]
  BY <1>1 DEF Coded
<1>3. 3 * k < Len(input)
  <2>1. 4 * k + 1 <= Len(text)
    BY <1>1
  <2> QED
    BY <2>1, <1>2
<1> DEFINE ch == encodedChunk(3 * k)
<1>4. /\ isTrailing(ch[3]) <=> ~(3 * k + 2 <= Len(input))
      /\ isTrailing(ch[4]) <=> ~(3 * k + 3 <= Len(input))
  <2>1. 3 * k \in Nat /\ 3 * k < Len(input) /\ input \in Seq(Byte) /\ url \in BOOLEAN
    BY <1>3 DEF Base64Inv
  <2>2. \A j \in {3, 4} : IF 3 * k + j - 1 <= Len(input)
                            THEN isBase64(ch[j]) /\ ~isTrailing(ch[j])
                            ELSE isTrailing(ch[j])
    BY <2>1, EncodedChunk
  <2> QED
    BY <2>2, <1>1
<1>5. hasSecond(pos) <=> 4 * k + 3 <= Len(text) /\ ~isTrailing(ch[3])
  BY <1>1, <1>2 DEF hasSecond
<1>6. hasThird(pos) <=> hasSecond(pos) /\ 4 * k + 4 <= Len(text) /\ ~isTrailing(ch[4])
  BY <1>1, <1>2 DEF hasThird
<1> QED
  BY <1>1, <1>2, <1>3, <1>4, <1>5, <1>6

\* Of a text that lost nothing the decoder has no exception to throw.
LEMMA UncutCanDecode ==
    ASSUME Base64Inv, phase = "decode", pos < Len(text), ~cut
    PROVE  canDecode(pos)
<1> USE DEF Base64TypeOK
<1>1. PICK k \in Nat : pos = 4 * k
  BY DEF Base64Inv
<1>2. /\ 3 * k < Len(input)
      /\ \A j \in 1..4 : 4 * k + j <= Len(text) =>
             text[4 * k + j] = encodedChunk(3 * k)[j]
      /\ hasSecond(pos) <=> 4 * k + 3 <= Len(text) /\ 3 * k + 2 <= Len(input)
      /\ hasThird(pos) <=> 4 * k + 4 <= Len(text) /\ 3 * k + 3 <= Len(input)
  BY <1>1, ChunkFound
<1> DEFINE ch == encodedChunk(3 * k)
<1>3. /\ \A j \in {1, 2} : isBase64(ch[j]) /\ ~isTrailing(ch[j])
      /\ \A j \in {3, 4} : IF 3 * k + j - 1 <= Len(input)
                             THEN isBase64(ch[j]) /\ ~isTrailing(ch[j])
                             ELSE isTrailing(ch[j])
  <2>1. 3 * k \in Nat /\ input \in Seq(Byte) /\ url \in BOOLEAN
    BY DEF Base64Inv
  <2> QED
    BY <2>1, <1>2, EncodedChunk
<1>4. 4 * k + 2 <= Len(text)
  <2>1. NothingLost
    BY DEF Base64Inv
  <2>2. ~isTrailing(ch[2])
    BY <1>3
  <2> QED
    BY <2>1, <2>2, <1>2 DEF NothingLost
<1>5. Len(text) \in Nat /\ Len(input) \in Nat
  BY DEF Base64Inv
<1>6. isBase64(text[4 * k + 1]) /\ isBase64(text[4 * k + 2])
  BY <1>2, <1>3, <1>4, <1>5
<1>7. hasSecond(pos) => isBase64(text[4 * k + 3])
  BY <1>2, <1>3, <1>5
<1>8. hasThird(pos) => isBase64(text[4 * k + 4])
  BY <1>2, <1>3, <1>5
<1> QED
  BY <1>1, <1>4, <1>5, <1>6, <1>7, <1>8 DEF canDecode

\* Tuples of bytes are sequences.
LEMMA Tuples ==
    /\ \A x \in Nat : <<x>> \in Seq(Nat) /\ Len(<<x>>) = 1 /\ <<x>>[1] = x
    /\ \A x, y \in Nat : /\ <<x, y>> \in Seq(Nat) /\ Len(<<x, y>>) = 2
                         /\ <<x, y>>[1] = x /\ <<x, y>>[2] = y
    /\ \A x, y, z \in Nat : /\ <<x, y, z>> \in Seq(Nat) /\ Len(<<x, y, z>>) = 3
                            /\ <<x, y, z>>[1] = x /\ <<x, y, z>>[2] = y
                            /\ <<x, y, z>>[3] = z
OBVIOUS

\* A chunk is decoded to the bytes it was made of.
LEMMA ChunkDecoded ==
    ASSUME Base64Inv, phase = "decode", NEW k \in Nat, pos = 4 * k, pos < Len(text),
           canDecode(pos),
           NEW n, n = IF hasThird(pos) THEN 3 ELSE IF hasSecond(pos) THEN 2 ELSE 1
    PROVE  /\ Len(decodedChunk(pos)) = n
           /\ \A i \in 1..n : decodedChunk(pos)[i] = input[3 * k + i]
           /\ decodedChunk(pos) \in Seq(Nat)
<1> USE DEF Base64TypeOK
<1>1. Len(text) \in Nat /\ Len(input) \in Nat /\ 4 * k + 2 <= Len(text)
  BY SMTT(40) DEF Base64Inv, canDecode
<1>2. /\ 3 * k < Len(input)
      /\ \A j \in 1..4 : 4 * k + j <= Len(text) =>
             text[4 * k + j] = encodedChunk(3 * k)[j]
      /\ hasSecond(pos) <=> 4 * k + 3 <= Len(text) /\ 3 * k + 2 <= Len(input)
      /\ hasThird(pos) <=> 4 * k + 4 <= Len(text) /\ 3 * k + 3 <= Len(input)
  BY ChunkFound
<1> DEFINE ch == encodedChunk(3 * k)
<1>3. /\ pos_of_char(ch[1]) * 4 + (pos_of_char(ch[2]) \div 16) = input[3 * k + 1]
      /\ 3 * k + 2 <= Len(input) =>
             (pos_of_char(ch[2]) % 16) * 16 + (pos_of_char(ch[3]) \div 4) = input[3 * k + 2]
      /\ 3 * k + 3 <= Len(input) =>
             (pos_of_char(ch[3]) % 4) * 64 + pos_of_char(ch[4]) = input[3 * k + 3]
  <2>1. 3 * k \in Nat /\ input \in Seq(Byte) /\ url \in BOOLEAN
    BY DEF Base64Inv
  <2> QED
    BY <2>1, <1>2, EncodedChunk
<1>4. /\ text[4 * k + 1] = ch[1] /\ text[4 * k + 2] = ch[2]
      /\ hasSecond(pos) => text[4 * k + 3] = ch[3]
      /\ hasThird(pos) => hasSecond(pos) /\ text[4 * k + 4] = ch[4]
  BY <1>1, <1>2
<1>5. \A i \in 1..Len(input) : input[i] \in Nat
  <2>1. \A i \in 1..Len(input) : input[i] \in Byte
    BY DEF Base64Inv
  <2>2. Byte \subseteq Nat
    BY DEF Byte
  <2> QED
    BY <2>1, <2>2
<1> HIDE DEF ch
<1>6. CASE hasThird(pos)
  <2>1. decodedChunk(pos) = <<input[3 * k + 1], input[3 * k + 2], input[3 * k + 3]>>
    BY <1>2, <1>3, <1>4, <1>6 DEF decodedChunk
  <2>2. \A i \in 1..3 : input[3 * k + i] \in Nat
    BY <1>1, <1>2, <1>5, <1>6
  <2> DEFINE x == input[3 * k + 1]
             y == input[3 * k + 2]
             z == input[3 * k + 3]
  <2>3. x \in Nat /\ y \in Nat /\ z \in Nat
    BY <2>2
  <2>4. decodedChunk(pos) = <<x, y, z>> /\ n = 3
    BY <2>1, <1>6
  <2> HIDE DEF x, y, z
  <2>5. /\ Len(<<x, y, z>>) = 3 /\ <<x, y, z>> \in Seq(Nat)
        /\ <<x, y, z>>[1] = x /\ <<x, y, z>>[2] = y /\ <<x, y, z>>[3] = z
    BY <2>3, Tuples
  <2>6. /\ Len(decodedChunk(pos)) = 3 /\ decodedChunk(pos) \in Seq(Nat)
        /\ decodedChunk(pos)[1] = x /\ decodedChunk(pos)[2] = y /\ decodedChunk(pos)[3] = z
    BY <2>4, <2>5
  <2>7. \A i \in 1..3 : decodedChunk(pos)[i] = input[3 * k + i]
    <3> TAKE i \in 1..3
    <3>1. i = 1 \/ i = 2 \/ i = 3
      OBVIOUS
    <3> QED
      BY <3>1, <2>6 DEF x, y, z
  <2> QED
    BY <2>4, <2>6, <2>7
<1>7. CASE ~hasThird(pos) /\ hasSecond(pos)
  <2>1. decodedChunk(pos) = <<input[3 * k + 1], input[3 * k + 2]>>
    BY <1>2, <1>3, <1>4, <1>7 DEF decodedChunk
  <2>2. \A i \in 1..2 : input[3 * k + i] \in Nat
    <3>1. 3 * k + 1 \in 1..Len(input) /\ 3 * k + 2 \in 1..Len(input)
      BY <1>1, <1>2, <1>7
    <3> QED
      BY <3>1, <1>5
  <2> DEFINE x == input[3 * k + 1]
             y == input[3 * k + 2]
  <2>3. x \in Nat /\ y \in Nat
    BY <2>2
  <2>4. decodedChunk(pos) = <<x, y>> /\ n = 2
    BY <2>1, <1>7
  <2> HIDE DEF x, y
  <2>5. /\ Len(<<x, y>>) = 2 /\ <<x, y>> \in Seq(Nat)
        /\ <<x, y>>[1] = x /\ <<x, y>>[2] = y
    BY <2>3, Tuples
  <2>6. /\ Len(decodedChunk(pos)) = 2 /\ decodedChunk(pos) \in Seq(Nat)
        /\ decodedChunk(pos)[1] = x /\ decodedChunk(pos)[2] = y
    BY <2>4, <2>5
  <2>7. \A i \in 1..2 : decodedChunk(pos)[i] = input[3 * k + i]
    <3> TAKE i \in 1..2
    <3>1. i = 1 \/ i = 2
      OBVIOUS
    <3> QED
      BY <3>1, <2>6 DEF x, y
  <2> QED
    BY <2>4, <2>6, <2>7
<1>8. CASE ~hasThird(pos) /\ ~hasSecond(pos)
  <2>1. decodedChunk(pos) = <<input[3 * k + 1]>>
    BY <1>2, <1>3, <1>4, <1>8 DEF decodedChunk
  <2>2. input[3 * k + 1] \in Nat
    BY <1>1, <1>2, <1>5
  <2> DEFINE x == input[3 * k + 1]
  <2>3. x \in Nat
    BY <2>2
  <2>4. decodedChunk(pos) = <<x>> /\ n = 1
    BY <2>1, <1>8
  <2> HIDE DEF x
  <2>5. /\ Len(<<x>>) = 1 /\ <<x>> \in Seq(Nat)
        /\ <<x>>[1] = x
    BY <2>3, Tuples
  <2>6. /\ Len(decodedChunk(pos)) = 1 /\ decodedChunk(pos) \in Seq(Nat)
        /\ decodedChunk(pos)[1] = x
    BY <2>4, <2>5
  <2>7. \A i \in 1..1 : decodedChunk(pos)[i] = input[3 * k + i]
    <3> TAKE i \in 1..1
    <3>1. i = 1
      OBVIOUS
    <3> QED
      BY <3>1, <2>6 DEF x
  <2> QED
    BY <2>4, <2>6, <2>7
<1> QED
  BY <1>6, <1>7, <1>8

LEMMA DecodeChunkKeeps ==
    ASSUME Base64Inv, DecodeChunk PROVE Base64Inv'
<1> USE DEF Base64TypeOK
<1>1. PICK k \in Nat : pos = 4 * k
  BY DEF Base64Inv, DecodeChunk
<1>2. /\ phase = "decode" /\ pos < Len(text) /\ canDecode(pos)
      /\ output' = output \o decodedChunk(pos) /\ pos' = pos + 4
      /\ UNCHANGED <<input, url, line, phase, text, cut>>
  BY DEF DecodeChunk
<1>3. Len(output) = 3 * k /\ output \in Seq(Nat)
  BY <1>1, <1>2, SMTT(40) DEF Base64Inv
<1>4. /\ 3 * k < Len(input)
      /\ hasSecond(pos) <=> 4 * k + 3 <= Len(text) /\ 3 * k + 2 <= Len(input)
      /\ hasThird(pos) <=> 4 * k + 4 <= Len(text) /\ 3 * k + 3 <= Len(input)
  BY <1>1, <1>2, ChunkFound
<1> DEFINE n == IF hasThird(pos) THEN 3 ELSE IF hasSecond(pos) THEN 2 ELSE 1
           chunk == decodedChunk(pos)
<1>5. /\ Len(chunk) = n /\ chunk \in Seq(Nat)
      /\ \A i \in 1..n : chunk[i] = input[3 * k + i]
  BY <1>1, <1>2, ChunkDecoded
<1>6. Len(text) \in Nat /\ Len(input) \in Nat
  BY DEF Base64Inv
<1>7. /\ n \in 1..3 /\ 3 * k + n <= Len(input)
      /\ n = 3 \/ 4 * k + 4 > Len(text) \/ 3 * k + n = Len(input)
      /\ 3 * k + n = Len(input) \/ n = 3 \/ 4 * k + n + 2 > Len(text)
  BY <1>4, <1>6
<1> HIDE DEF n, chunk
<1>8. /\ output' \in Seq(Nat) /\ Len(output') = 3 * k + n
      /\ \A i \in 1..(3 * k) : output'[i] = output[i]
      /\ \A j \in 1..n : output'[3 * k + j] = chunk[j]
  <2>1. /\ output \o chunk \in Seq(Nat) /\ Len(output \o chunk) = Len(output) + Len(chunk)
        /\ \A i \in 1..Len(output) : (output \o chunk)[i] = output[i]
        /\ \A j \in 1..Len(chunk) : (output \o chunk)[Len(output) + j] = chunk[j]
    BY <1>3, <1>5, Appended, Zenon
  <2>2. output' = output \o chunk
    BY <1>2 DEF chunk
  <2> QED
    BY <2>1, <2>2, <1>3, <1>5
<1>9. \A i \in 1..Len(output') : output'[i] = input'[i]
  <2> SUFFICES ASSUME NEW i \in 1..(3 * k + n) PROVE output'[i] = input[i]
    BY <1>2, <1>8
  <2>1. CASE i <= 3 * k
    <3>1. i \in 1..(3 * k)
      BY <2>1
    <3>2. output[i] = input[i]
      BY <3>1, <1>3 DEF Base64Inv
    <3> QED
      BY <3>1, <3>2, <1>8
  <2>2. CASE i > 3 * k
    <3>1. i - 3 * k \in 1..n /\ 3 * k + (i - 3 * k) = i
      BY <2>2, <1>7
    <3> QED
      BY <3>1, <1>8, <1>5
  <2> QED
    BY <2>1, <2>2
<1>10. \A p : encodedChunk(p)' = encodedChunk(p)
  BY <1>2 DEF encodedChunk, base64_chars, trailing_char
<1>11. Coded(text)'
  <2> SUFFICES ASSUME NEW l \in Nat, NEW j \in 1..4, 4 * l + j <= Len(text')
               PROVE  3 * l < Len(input') /\ text'[4 * l + j] = encodedChunk(3 * l)'[j]
    BY DEF Coded
  <2>1. 3 * l < Len(input) /\ text[4 * l + j] = encodedChunk(3 * l)[j]
    BY <1>2 DEF Base64Inv, Coded
  <2> QED
    BY <2>1, <1>2, <1>10
<1>12. ~cut' => NothingLost'
  <2> SUFFICES ASSUME ~cut', NEW l \in Nat, NEW j \in 1..4,
                      3 * l < Len(input'), ~isTrailing(encodedChunk(3 * l)'[j])
               PROVE  4 * l + j <= Len(text')
    BY DEF NothingLost, isTrailing
  <2>1. 3 * l < Len(input) /\ ~isTrailing(encodedChunk(3 * l)[j]) /\ ~cut
    BY <1>2, <1>10
  <2>2. NothingLost
    BY <2>1, <1>2 DEF Base64Inv
  <2> QED
    BY <2>1, <2>2, <1>2 DEF NothingLost
<1>13. PICK l \in Nat : l = k + 1
  OBVIOUS
<1>14. pos' = 4 * l /\ (pos' < Len(text') => Len(output') = 3 * l)
  <2> SUFFICES ASSUME 4 * k + 4 < Len(text) PROVE n = 3
    <3>1. pos' = 4 * k + 4 /\ 4 * l = 4 * k + 4 /\ 3 * l = 3 * k + 3
      BY <1>1, <1>2, <1>13
    <3> QED
      BY <3>1, <1>2, <1>8
  <2>1. 4 * l + 1 <= Len(text)
    BY <1>6, <1>13
  <2>2. Coded(text)
    BY <1>2 DEF Base64Inv
  <2>3. 3 * l < Len(input)
    BY <2>1, <2>2 DEF Coded
  <2> QED
    BY <2>3, <1>6, <1>7, <1>13
<1>15. pos' >= Len(text') /\ ~cut' => Len(output') = Len(input')
  <2> SUFFICES ASSUME 4 * k + 4 >= Len(text), ~cut PROVE 3 * k + n = Len(input)
    BY <1>1, <1>2, <1>8
  <2>1. NothingLost
    BY <1>2 DEF Base64Inv
  <2>2. input \in Seq(Byte) /\ url \in BOOLEAN
    BY DEF Base64Inv
  <2>3. ~(3 * l < Len(input))
    <3> SUFFICES ASSUME 3 * l < Len(input) PROVE FALSE
      OBVIOUS
    <3>1. ~isTrailing(encodedChunk(3 * l)[1])
      BY <2>2, EncodedChunk
    <3>2. 4 * l + 1 <= Len(text)
      BY <3>1, <2>1 DEF NothingLost
    <3> QED
      BY <3>2, <1>6, <1>13
  <2>4. \A j \in {3, 4} : 3 * k + j - 1 <= Len(input) => 4 * k + j <= Len(text)
    <3> SUFFICES ASSUME NEW j \in {3, 4}, 3 * k + j - 1 <= Len(input)
                 PROVE  4 * k + j <= Len(text)
      OBVIOUS
    <3>1. ~isTrailing(encodedChunk(3 * k)[j])
      <4>1. 3 * k \in Nat /\ 3 * k < Len(input)
        BY <1>4
      <4> QED
        BY <4>1, <2>2, EncodedChunk
    <3> QED
      BY <3>1, <2>1, <1>4 DEF NothingLost
  <2> QED
    BY <2>3, <2>4, <1>4, <1>6, <1>13 DEF n
<1>16. Base64TypeOK'
  BY <1>2, <1>8 DEF Base64Inv
<1>17. Len(output') <= Len(input')
  BY <1>2, <1>7, <1>8
<1>18. \E m \in Nat : pos' = 4 * m /\ (pos' < Len(text') => Len(output') = 3 * m)
  BY <1>13, <1>14
<1> QED
  BY <1>2, <1>9, <1>11, <1>12, <1>15, <1>16, <1>17, <1>18 DEF Base64Inv

\* Ending, with or without an exception, changes nothing else.
LEMMA PhaseKeeps ==
    ASSUME Base64Inv, UNCHANGED <<input, url, line, pos, text, output, cut>>,
           phase = "decode",
           \/ phase' = "thrown" /\ cut
           \/ phase' = "decoded" /\ pos >= Len(text)
    PROVE  Base64Inv'
<1>1. Coded(text)' = Coded(text)
  BY DEF Coded, encodedChunk, base64_chars, trailing_char
<1>2. NothingLost' = NothingLost
  BY DEF NothingLost, isTrailing, encodedChunk, base64_chars, trailing_char
<1> QED
  BY <1>1, <1>2 DEF Base64Inv, Base64TypeOK, Phases

LEMMA Base64IInv == Base64Spec => []Base64Inv
<1>1. Base64Init => Base64Inv
  BY Base64InitIInv
<1>2. Base64Inv /\ [Base64Next]_base64Vars => Base64Inv'
  <2> SUFFICES ASSUME Base64Inv, [Base64Next]_base64Vars PROVE Base64Inv'
    OBVIOUS
  <2>1. CASE EncodeChunk
    BY <2>1, EncodeChunkKeeps
  <2>2. CASE EncodeEnds
    BY <2>2, EncodeEndsKeeps
  <2>3. CASE \E n \in 0..Len(text) : DecodeBegins(n)
    BY <2>3, DecodeBeginsKeeps
  <2>4. CASE DecodeChunk
    BY <2>4, DecodeChunkKeeps
  <2>5. CASE DecodeThrows
    <3>1. cut
      BY <2>5, UncutCanDecode DEF DecodeThrows, Base64Inv, Base64TypeOK
    <3> QED
      BY <2>5, <3>1, PhaseKeeps DEF DecodeThrows
  <2>6. CASE DecodeEnds
    BY <2>6, PhaseKeeps DEF DecodeEnds
  <2>7. CASE UNCHANGED base64Vars
    <3>1. UNCHANGED <<input, url, line, phase, pos, text, output, cut>>
      BY <2>7 DEF base64Vars
    <3>2. \A str : Coded(str)' = Coded(str)
      BY <3>1 DEF Coded, encodedChunk, base64_chars, trailing_char
    <3>3. NothingLost' = NothingLost
      BY <3>1 DEF NothingLost, isTrailing, encodedChunk, base64_chars, trailing_char
    <3>4. remove_linebreaks(text)' = remove_linebreaks(text)
      BY <3>1 DEF remove_linebreaks
    <3>5. \A str : WholeIn(str)' = WholeIn(str)
      BY <3>1 DEF WholeIn
    <3> QED
      BY <3>1, <3>2, <3>3, <3>4, <3>5 DEF Base64Inv, Base64TypeOK
  <2> QED
    BY <2>1, <2>2, <2>3, <2>4, <2>5, <2>6, <2>7 DEF Base64Next
<1> QED
  BY <1>1, <1>2, PTL DEF Base64Spec

\* RoundTrip for every input, in either alphabet, in one line or broken after any
\* number of characters, padded, unpadded or cut off anywhere (base64.cpp).
THEOREM TextRoundTrip == Base64Spec => []RoundTrip
<1>2. Base64Inv => RoundTrip
  <2> SUFFICES ASSUME Base64Inv PROVE RoundTrip
    OBVIOUS
  <2>1. /\ input \in Seq(Byte) /\ output \in Seq(Nat) /\ Len(output) <= Len(input)
        /\ \A i \in 1..Len(output) : output[i] = input[i]
    BY DEF Base64Inv, Base64TypeOK
  <2>2. output = SubSeq(input, 1, Len(output))
    BY <2>1
  <2>3. phase = "decoded" /\ ~cut => output = input
    <3>1. phase = "decoded" /\ ~cut => Len(output) = Len(input)
      BY DEF Base64Inv, Base64TypeOK
    <3>2. Len(output) = Len(input) => output = input
      BY <2>1
    <3> QED
      BY <3>1, <3>2
  <2> QED
    BY <2>1, <2>2, <2>3 DEF Base64Inv, RoundTrip
<1> QED
  BY <1>2, Base64IInv, PTL

-----------------------------------------------------------------------------
(* The way of a name: what is asked for, character by character             *)

\* escaped is well-defined: there is one text for each beginning of a path.
LEMMA EscapedDefined ==
    ASSUME NEW p \in Seq(Byte)
    PROVE  /\ escaped(p)[0] = <<>>
           /\ \A n \in 1..Len(p) : escaped(p)[n] = escaped(p)[n - 1] \o Escaped(p[n])
<1> DEFINE More(r, n) == r \o Escaped(p[n])
           UpTo(r, k) == [n \in 0..k |-> IF n = 0 THEN <<>> ELSE More(r[n - 1], n)]
           S == {k \in Nat : \E r : r = UpTo(r, k)}
<1>typed. Len(p) \in Nat
  OBVIOUS
<1>chosen. escaped(p) = CHOOSE r : r = UpTo(r, Len(p))
  BY DEF escaped
<1> HIDE DEF More
<1>1. 0 \in S
  <2>1. [n \in 0..0 |-> <<>>] = UpTo([n \in 0..0 |-> <<>>], 0)
    OBVIOUS
  <2> QED
    BY <2>1
<1>2. ASSUME NEW k \in Nat, k \in S PROVE k + 1 \in S
  <2>1. PICK r : r = UpTo(r, k)
    BY <1>2
  <2> DEFINE q == [n \in 0..(k + 1) |-> IF n <= k THEN r[n] ELSE More(r[k], k + 1)]
  <2>2. q = UpTo(q, k + 1)
    <3>1. \A n \in 0..(k + 1) :
              q[n] = IF n = 0 THEN <<>> ELSE More(q[n - 1], n)
      <4> TAKE n \in 0..(k + 1)
      <4>1. CASE n = 0
        BY <2>1, <4>1
      <4>2. CASE n \in 1..k
        <5>1. r[n] = More(r[n - 1], n)
          BY <2>1, <4>2
        <5>2. q[n] = r[n] /\ q[n - 1] = r[n - 1]
          BY <4>2
        <5> QED
          BY <5>1, <5>2, <4>2
      <4>3. CASE n = k + 1
        BY <4>3
      <4> QED
        BY <4>1, <4>2, <4>3
    <3> QED
      BY <3>1
  <2>3. \E r2 : r2 = UpTo(r2, k + 1)
    <3> HIDE DEF q
    <3> QED
      BY <2>2
  <2> HIDE DEF UpTo
  <2> QED
    BY <2>3
<1>3. Nat \subseteq S
  <2> HIDE DEF S
  <2> QED
    BY <1>1, <1>2, Induction
<1>4. \E r : r = UpTo(r, Len(p))
  <2>1. Len(p) \in S
    BY <1>typed, <1>3
  <2> QED
    BY <2>1
<1>5. escaped(p) = UpTo(escaped(p), Len(p))
  BY <1>4, <1>chosen
<1>6. \A n \in 0..Len(p) :
          escaped(p)[n] = IF n = 0 THEN <<>> ELSE More(escaped(p)[n - 1], n)
  BY <1>5
<1>7. 0 \in 0..Len(p) /\ \A n \in 1..Len(p) : n \in 0..Len(p) /\ n # 0
  BY <1>typed
<1>8. escaped(p)[0] = <<>>
  BY <1>6, <1>7
<1>9. \A n \in 1..Len(p) : escaped(p)[n] = More(escaped(p)[n - 1], n)
  BY <1>6, <1>7
<1> QED
  BY <1>8, <1>9 DEF More

\* A character is asked for as itself or as a per cent sign and two digits.
LEMMA EscapedCharacter ==
    ASSUME NEW chr \in Byte
    PROVE  /\ Escaped(chr) \in Seq(Nat) /\ Len(Escaped(chr)) \in {1, 3}
           /\ isPlain(chr) => Len(Escaped(chr)) = 1 /\ Escaped(chr)[1] = chr
           /\ ~isPlain(chr) => /\ Len(Escaped(chr)) = 3
                               /\ Escaped(chr)[1] = 37
                               /\ Escaped(chr)[2] = toHex(chr \div 16)
                               /\ Escaped(chr)[3] = toHex(chr % 16)
<1>1. chr \in Nat /\ chr \div 16 \in 0..15 /\ chr % 16 \in 0..15
  BY DEF Byte
<1>2. toHex(chr \div 16) \in Nat /\ toHex(chr % 16) \in Nat
  <2>1. \A d \in 0..15 : toHex(d) \in Nat
    BY DEF toHex
  <2> QED
    BY <1>1, <2>1
<1>3. CASE isPlain(chr)
  <2>1. Escaped(chr) = <<chr>>
    BY <1>3 DEF Escaped
  <2> QED
    BY <1>1, <1>3, <2>1
<1>4. CASE ~isPlain(chr)
  <2> DEFINE c1 == toHex(chr \div 16)
             c2 == toHex(chr % 16)
  <2>1. Escaped(chr) = <<37, c1, c2>>
    BY <1>4 DEF Escaped
  <2> HIDE DEF c1, c2
  <2> QED
    BY <1>2, <1>4, <2>1 DEF c1, c2
<1> QED
  BY <1>3, <1>4

\* A digit that is not F is read as what it was written for.
LEMMA HexDigit ==
    \A d \in 0..14 : isHex(toHex(d)) /\ fromHex(toHex(d)) = d
BY DEF toHex, isHex, fromHex

LEMMA EscapedTyped ==
    ASSUME NEW p \in Seq(Byte), NEW n \in 0..Len(p)
    PROVE  escaped(p)[n] \in Seq(Nat)
<1> DEFINE S == {k \in Nat : k <= Len(p) => escaped(p)[k] \in Seq(Nat)}
<1>1. 0 \in S
  <2>1. escaped(p)[0] = <<>>
    BY EscapedDefined
  <2>2. <<>> \in Seq(Nat)
    OBVIOUS
  <2> QED
    BY <2>1, <2>2
<1>2. ASSUME NEW k \in Nat, k \in S PROVE k + 1 \in S
  <2> SUFFICES ASSUME k + 1 <= Len(p) PROVE escaped(p)[k + 1] \in Seq(Nat)
    OBVIOUS
  <2>1. k + 1 \in 1..Len(p) /\ (k + 1) - 1 = k
    OBVIOUS
  <2>2. escaped(p)[k + 1] = escaped(p)[k] \o Escaped(p[k + 1])
    BY <2>1, EscapedDefined
  <2>3. escaped(p)[k] \in Seq(Nat)
    BY <1>2
  <2>4. p[k + 1] \in Byte
    BY <2>1
  <2>5. Escaped(p[k + 1]) \in Seq(Nat)
    BY <2>4, EscapedCharacter
  <2> QED
    BY <2>2, <2>3, <2>5, ConcatProperties
<1> HIDE DEF S
<1>3. Nat \subseteq S
  BY <1>1, <1>2, Induction
<1> QED
  BY <1>3 DEF S

\* After the characters before it, a character's own are asked for.
LEMMA EscapedNext ==
    ASSUME NEW p \in Seq(Byte), NEW n \in 0..Len(p), n < Len(p)
    PROVE  /\ Len(escaped(p)[n + 1]) = Len(escaped(p)[n]) + Len(Escaped(p[n + 1]))
           /\ \A i \in 1..Len(escaped(p)[n]) : escaped(p)[n + 1][i] = escaped(p)[n][i]
           /\ \A j \in 1..Len(Escaped(p[n + 1])) :
                  escaped(p)[n + 1][Len(escaped(p)[n]) + j] = Escaped(p[n + 1])[j]
<1>1. n + 1 \in 1..Len(p) /\ (n + 1) - 1 = n
  OBVIOUS
<1>2. p[n + 1] \in Byte
  BY <1>1
<1> DEFINE a == escaped(p)[n]
           b == Escaped(p[n + 1])
<1>3. escaped(p)[n + 1] = a \o b
  BY <1>1, EscapedDefined
<1>4. a \in Seq(Nat) /\ b \in Seq(Nat)
  BY <1>2, EscapedTyped, EscapedCharacter
<1> HIDE DEF a, b
<1>5. /\ Len(a \o b) = Len(a) + Len(b)
      /\ \A i \in 1..Len(a) : (a \o b)[i] = a[i]
      /\ \A j \in 1..Len(b) : (a \o b)[Len(a) + j] = b[j]
  BY <1>4
<1> QED
  BY <1>3, <1>5 DEF a, b

\* What is asked for first stays as more is added.
LEMMA EscapedPrefix ==
    ASSUME NEW p \in Seq(Byte), NEW m \in 0..Len(p), NEW n \in 0..m
    PROVE  /\ Len(escaped(p)[n]) <= Len(escaped(p)[m])
           /\ \A i \in 1..Len(escaped(p)[n]) : escaped(p)[m][i] = escaped(p)[n][i]
<1> DEFINE Begins(k) == /\ Len(escaped(p)[n]) <= Len(escaped(p)[k])
                        /\ \A i \in 1..Len(escaped(p)[n]) : escaped(p)[k][i] = escaped(p)[n][i]
           S == {k \in Nat : k <= Len(p) /\ n <= k => Begins(k)}
<1>1. 0 \in S
  <2>1. ASSUME n <= 0 PROVE Begins(0)
    <3>1. n = 0 /\ Len(escaped(p)[0]) \in Nat
      BY <2>1, EscapedTyped
    <3> QED
      BY <3>1
  <2> QED
    BY <2>1
<1>2. ASSUME NEW k \in Nat, k \in S PROVE k + 1 \in S
  <2> SUFFICES ASSUME k + 1 <= Len(p), n <= k + 1 PROVE Begins(k + 1)
    OBVIOUS
  <2>0. k \in 0..Len(p) /\ k < Len(p)
    OBVIOUS
  <2>1. CASE n = k + 1
    <3>1. Len(escaped(p)[n]) \in Nat
      BY EscapedTyped
    <3> QED
      BY <2>1, <3>1
  <2>2. CASE n <= k
    <3>1. Begins(k)
      BY <1>2, <2>2
    <3> DEFINE x == escaped(p)[n]
               y == escaped(p)[k]
               z == escaped(p)[k + 1]
    <3>2. x \in Seq(Nat) /\ y \in Seq(Nat)
      BY <2>0, EscapedTyped
    <3>3. /\ Len(z) = Len(y) + Len(Escaped(p[k + 1]))
          /\ \A i \in 1..Len(y) : z[i] = y[i]
      BY <2>0, EscapedNext
    <3>4. Len(Escaped(p[k + 1])) \in Nat
      <4>1. p[k + 1] \in Byte
        BY <2>0
      <4> QED
        BY <4>1, EscapedCharacter
    <3>5. Len(x) <= Len(y) /\ \A i \in 1..Len(x) : y[i] = x[i]
      BY <3>1
    <3> HIDE DEF x, y, z
    <3>6. Len(x) <= Len(z) /\ \A i \in 1..Len(x) : z[i] = x[i]
      BY <3>2, <3>3, <3>4, <3>5
    <3> QED
      BY <3>6 DEF x, y, z
  <2> QED
    BY <2>1, <2>2
<1> HIDE DEF S
<1>3. Nat \subseteq S
  BY <1>1, <1>2, Induction
<1>4. m \in S
  BY <1>3
<1> QED
  BY <1>4 DEF S

\* After k elements, s has those of e.
HasAfter(s, k, e) ==
    k \in Nat /\ k + Len(e) <= Len(s) /\ \A j \in 1..Len(e) : s[k + j] = e[j]

\* The next character in what is asked for: as much as its own, where it was left.
LEMMA EscapedThere ==
    ASSUME NEW p \in Seq(Byte), NEW n \in 0..Len(p), n < Len(p),
           NEW all, all = escaped(p)[Len(p)], NEW k, k = Len(escaped(p)[n]),
           NEW e, e = Escaped(p[n + 1])
    PROVE  k + Len(e) = Len(escaped(p)[n + 1]) /\ HasAfter(all, k, e)
<1>1. n + 1 \in 0..Len(p) /\ Len(p) \in 0..Len(p) /\ n + 1 \in 1..Len(p)
  OBVIOUS
<1>2. k \in Nat
  BY EscapedTyped
<1>3. PICK z : z = escaped(p)[n + 1]
  OBVIOUS
<1>4. Len(z) = k + Len(e) /\ \A j \in 1..Len(e) : z[k + j] = e[j]
  BY <1>3, EscapedNext
<1>5. Len(z) <= Len(all) /\ \A i \in 1..Len(z) : all[i] = z[i]
  BY <1>1, <1>3, EscapedPrefix
<1>6. Len(e) \in Nat
  <2>1. p[n + 1] \in Byte
    BY <1>1
  <2> QED
    BY <2>1, EscapedCharacter
<1>7. \A j \in 1..Len(e) : all[k + j] = e[j]
  <2> TAKE j \in 1..Len(e)
  <2>1. k + j \in 1..Len(z)
    <3>1. \A l \in Nat : \A i \in 1..l : k + i \in 1..(k + l)
      BY <1>2
    <3> QED
      BY <1>4, <1>6, <3>1
  <2> QED
    BY <1>4, <1>5, <2>1
<1> QED
  BY <1>2, <1>3, <1>4, <1>5, <1>7 DEF HasAfter

-----------------------------------------------------------------------------
(* A link leads back                                                        *)

Harmless(s) == \A i \in 1..Len(s) : isHarmless(s[i])

\* What is asked for, for a URL.
Asked(u) == escaped(u)[Len(u)]

\* A link of harmless bytes is asked for as it is escaped, and urlDecode has what the
\* characters it has read stand for.
NamesInv ==
    /\ url_ \in Seq(Byte)
    /\ Harmless(url_) =>
           /\ at # "thrown"
           /\ at = "shown" => link = url_
           /\ at = "urlDecode" =>
                  /\ path = Asked(url_)
                  /\ \E n \in 0..Len(url_) :
                         index = Len(escaped(url_)[n]) /\ ret = SubSeq(url_, 1, n)
           /\ at = "asked" => ret = url_

\* A harmless link is a path to its end.
LEMMA HarmlessPath ==
    ASSUME NEW u, Harmless(u) PROVE PathOf(u) = u
<1>1. {i \in 1..Len(u) : u[i] \in {35, 63}} = {}
  BY DEF Harmless, isHarmless
<1> QED
  BY <1>1 DEF PathOf

\* Where it has read n harmless characters, urlDecode is at its end or reads the next.
LEMMA HarmlessNext ==
    ASSUME NEW u \in Seq(Byte), Harmless(u), path = Asked(u),
           NEW n \in 0..Len(u), index = Len(escaped(u)[n])
    PROVE  /\ n = Len(u) <=> index = Len(path)
           /\ index < Len(path) =>
                  IF path[index + 1] = 37
                    THEN /\ hasEscape(index) /\ unescaped(index) = u[n + 1]
                         /\ Len(escaped(u)[n + 1]) = index + 3
                    ELSE /\ path[index + 1] = u[n + 1]
                         /\ Len(escaped(u)[n + 1]) = index + 1
<1>1. CASE n = Len(u)
  <2>1. Len(path) \in Nat /\ index = Len(path)
    BY <1>1, EscapedTyped DEF Asked
  <2> QED
    BY <1>1, <2>1
<1>2. CASE n # Len(u)
  <2>1. n < Len(u) /\ n + 1 \in 1..Len(u)
    BY <1>2
  <2>2. PICK chr \in Byte : chr = u[n + 1]
    BY <2>1
  <2>3. PICK e : e = Escaped(chr)
    OBVIOUS
  <2>4. /\ index \in Nat /\ Len(escaped(u)[n + 1]) = index + Len(e)
        /\ index + Len(e) <= Len(path)
        /\ \A j \in 1..Len(e) : path[index + j] = e[j]
    <3>1. path = escaped(u)[Len(u)] /\ index = Len(escaped(u)[n]) /\ n < Len(u)
      BY <2>1 DEF Asked
    <3>2. n < Len(u) /\ e = Escaped(u[n + 1])
      BY <2>1, <2>2, <2>3
    <3>3. index + Len(e) = Len(escaped(u)[n + 1]) /\ HasAfter(path, index, e)
      BY <3>1, <3>2, EscapedThere
    <3> QED
      BY <3>3 DEF HasAfter
  <2>5. Len(path) \in Nat
    <3>1. Len(u) \in 0..Len(u)
      OBVIOUS
    <3>2. escaped(u)[Len(u)] \in Seq(Nat)
      BY <3>1, EscapedTyped
    <3> QED
      BY <3>2 DEF Asked
  <2>6. isHarmless(chr)
    BY <2>1, <2>2 DEF Harmless
  <2>7. CASE isPlain(chr)
    <3>1. Len(e) = 1 /\ e[1] = chr
      BY <2>3, <2>7, EscapedCharacter
    <3>2. chr # 37
      BY <2>6 DEF isHarmless
    <3>3. path[index + 1] = chr
      BY <2>4, <3>1
    <3>4. index < Len(path)
      BY <2>4, <2>5, <3>1
    <3> QED
      BY <1>2, <2>2, <2>4, <3>1, <3>2, <3>3, <3>4
  <2>8. CASE ~isPlain(chr)
    <3> DEFINE d1 == chr \div 16
               d2 == chr % 16
    <3>1. Len(e) = 3 /\ e[1] = 37 /\ e[2] = toHex(d1) /\ e[3] = toHex(d2)
      BY <2>3, <2>8, EscapedCharacter
    <3>2. d1 \in 0..14 /\ d2 \in 0..14 /\ d1 * 16 + d2 = chr
      <4>1. d1 # 15 /\ d2 # 15
        BY <2>6, <2>8 DEF isHarmless
      <4> QED
        BY <4>1 DEF Byte
    <3> HIDE DEF d1, d2
    <3>3. path[index + 1] = 37 /\ path[index + 2] = toHex(d1) /\ path[index + 3] = toHex(d2)
      BY <2>4, <3>1
    <3>4. index < Len(path) /\ index + 2 < Len(path)
      BY <2>4, <2>5, <3>1
    <3>5. hasEscape(index)
      BY <3>2, <3>3, <3>4, HexDigit DEF hasEscape
    <3>6. unescaped(index) = chr
      BY <3>2, <3>3, HexDigit DEF unescaped
    <3> QED
      BY <1>2, <2>2, <2>4, <3>1, <3>3, <3>4, <3>5, <3>6
  <2> QED
    BY <2>7, <2>8
<1> QED
  BY <1>1, <1>2

LEMMA NamesInitInv == NamesInit => NamesInv
<1>1. <<>> \in Seq(Byte)
  OBVIOUS
<1> QED
  BY <1>1 DEF NamesInit, NamesInv

LEMMA NamesStep ==
    ASSUME NamesAssumption, Base64Inv, NamesInv, [NamesNext]_namesVars
    PROVE  NamesInv'
<1>1. CASE Base64Step \/ UNCHANGED namesVars
  BY <1>1 DEF Base64Step, namesVars, NamesInv
<1>2. CASE Record
  <2>1. output \in Seq(Byte)
    <3>1. /\ input \in Seq(Byte) /\ output \in Seq(Nat) /\ Len(output) <= Len(input)
          /\ \A i \in 1..Len(output) : output[i] = input[i]
      BY <1>2 DEF Record, Base64Inv, Base64TypeOK
    <3>2. \A i \in 1..Len(output) : output[i] \in Byte
      BY <3>1
    <3> QED
      BY <3>1, <3>2
  <2>2. download_prefix_ \o output \in Seq(Byte)
    BY <2>1, ConcatProperties, NamesAssumption DEF NamesAssumption
  <2> QED
    BY <1>2, <2>2 DEF Record, NamesInv
<1>3. CASE Show
  <2>1. Harmless(url_) => link' = url_
    BY <1>3 DEF Show, Harmless, isHarmless
  <2> QED
    BY <1>3, <2>1 DEF Show, NamesInv
<1>4. CASE Follow
  <2> SUFFICES ASSUME Harmless(url_)
               PROVE  /\ path' = Asked(url_)
                      /\ \E n \in 0..Len(url_) :
                             index' = Len(escaped(url_)[n]) /\ ret' = SubSeq(url_, 1, n)
    BY <1>4 DEF Follow, NamesInv
  <2>1. path' = Asked(url_)
    <3>1. link = url_
      BY <1>4 DEF Follow, NamesInv
    <3>2. PathOf(link) = url_
      BY <3>1, HarmlessPath
    <3> QED
      BY <1>4, <3>2 DEF Follow, Asked
  <2>2. url_ \in Seq(Byte)
    BY DEF NamesInv
  <2>3. escaped(url_)[0] = <<>>
    BY <2>2, EscapedDefined
  <2>4. 0 \in 0..Len(url_) /\ SubSeq(url_, 1, 0) = <<>>
    BY <2>2
  <2> QED
    BY <1>4, <2>1, <2>3, <2>4 DEF Follow
<1>5. CASE UrlDecodeStep
  <2> SUFFICES ASSUME Harmless(url_)
               PROVE  \E n \in 0..Len(url_) :
                          index' = Len(escaped(url_)[n]) /\ ret' = SubSeq(url_, 1, n)
    BY <1>5 DEF UrlDecodeStep, NamesInv
  <2>1. url_ \in Seq(Byte) /\ path = Asked(url_) /\ index < Len(path)
    BY <1>5 DEF UrlDecodeStep, NamesInv
  <2>2. PICK n \in 0..Len(url_) : index = Len(escaped(url_)[n]) /\ ret = SubSeq(url_, 1, n)
    BY <1>5 DEF UrlDecodeStep, NamesInv
  <2>3. /\ n = Len(url_) <=> index = Len(path)
        /\ IF path[index + 1] = 37
             THEN /\ unescaped(index) = url_[n + 1]
                  /\ Len(escaped(url_)[n + 1]) = index + 3
             ELSE /\ path[index + 1] = url_[n + 1]
                  /\ Len(escaped(url_)[n + 1]) = index + 1
    BY <2>1, <2>2, HarmlessNext
  <2>4. n + 1 \in 0..Len(url_)
    <3>1. index # Len(path)
      <4>1. Len(path) \in Nat
        <5>1. Len(url_) \in 0..Len(url_)
          BY <2>1
        <5>2. escaped(url_)[Len(url_)] \in Seq(Nat)
          BY <2>1, <5>1, EscapedTyped
        <5> QED
          BY <2>1, <5>2 DEF Asked
      <4> QED
        BY <2>1, <4>1
    <3> QED
      BY <2>1, <2>3, <3>1
  <2>5. Append(SubSeq(url_, 1, n), url_[n + 1]) = SubSeq(url_, 1, n + 1)
    BY <2>1, <2>4
  <2>6. index' = Len(escaped(url_)[n + 1]) /\ ret' = SubSeq(url_, 1, n + 1)
    BY <1>5, <2>2, <2>3, <2>5 DEF UrlDecodeStep
  <2> QED
    BY <2>4, <2>6
<1>6. CASE UrlDecodeThrows
  <2>1. ASSUME Harmless(url_) PROVE FALSE
    <3>1. url_ \in Seq(Byte) /\ path = Asked(url_)
      BY <1>6, <2>1 DEF UrlDecodeThrows, NamesInv
    <3>2. PICK n \in 0..Len(url_) : index = Len(escaped(url_)[n])
      BY <1>6, <2>1 DEF UrlDecodeThrows, NamesInv
    <3>3. hasEscape(index)
      BY <1>6, <2>1, <3>1, <3>2, HarmlessNext DEF UrlDecodeThrows
    <3> QED
      BY <1>6, <3>3 DEF UrlDecodeThrows
  <2> QED
    BY <1>6, <2>1 DEF UrlDecodeThrows, NamesInv
<1>7. CASE UrlDecodeEnds
  <2>1. ASSUME Harmless(url_) PROVE ret = url_
    <3>1. url_ \in Seq(Byte) /\ path = Asked(url_)
      BY <1>7, <2>1 DEF UrlDecodeEnds, NamesInv
    <3>2. PICK n \in 0..Len(url_) : index = Len(escaped(url_)[n]) /\ ret = SubSeq(url_, 1, n)
      BY <1>7, <2>1 DEF UrlDecodeEnds, NamesInv
    <3>3. n = Len(url_)
      BY <1>7, <2>1, <3>1, <3>2, HarmlessNext DEF UrlDecodeEnds
    <3>4. SubSeq(url_, 1, Len(url_)) = url_
      BY <3>1
    <3> QED
      BY <3>2, <3>3, <3>4
  <2> QED
    BY <1>7, <2>1 DEF UrlDecodeEnds, NamesInv
<1> QED
  BY <1>1, <1>2, <1>3, <1>4, <1>5, <1>6, <1>7 DEF NamesNext

\* What happens to a name before its file is recorded is the coding of its text.
LEMMA NamesImplementBase64 == NamesSpec => Base64Spec
<1>1. NamesInit => Base64Init
  BY DEF NamesInit
<1>2. [NamesNext]_namesVars => [Base64Next]_base64Vars
  BY DEF NamesNext, namesVars, Base64Step, Record, Show, Follow, UrlDecodeStep,
     UrlDecodeThrows, UrlDecodeEnds
<1> QED
  BY <1>1, <1>2, PTL DEF NamesSpec, Base64Spec

\* A file's link leads back to its row, through newStorageInfo, listShow, the browser
\* and urlDecode, whatever harmless bytes its name is made of and whatever its length.
THEOREM NamesLinkLeadsBack == NamesSpec => []LinkLeadsBack
<1>1. [NamesNext]_namesVars /\ Base64Inv /\ NamesInv => NamesInv'
  BY NamesStep, NamesAssumption
<1>2. NamesInv => LinkLeadsBack
  BY DEF NamesInv, LinkLeadsBack, Harmless
<1> QED
  BY <1>1, <1>2, NamesInitInv, NamesImplementBase64, Base64IInv, PTL DEF NamesSpec

=============================================================================
