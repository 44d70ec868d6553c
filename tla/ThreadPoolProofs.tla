-------------------------- MODULE ThreadPoolProofs --------------------------
(***************************************************************************)
(* Theorems about ThreadPool, for every number of workers and clients and  *)
(* every queue size.                                                       *)
(***************************************************************************)
EXTENDS ThreadPool, FiniteSetTheorems, SequenceTheorems, TLAPS

-----------------------------------------------------------------------------
(* The inductive invariant                                                  *)

\* mtx_ is held where the code holds it, and nowhere else.
HoldsMutex ==
    /\ \A c \in Clients : cpc[c] = "commit" <=> mtx = c
    /\ \A w \in Workers : wpc[w] \in {"presleep", "decide"} <=> mtx = w

\* What enqueue tested still holds when it appends.
CommitJustified ==
    \A c \in Clients : cpc[c] = "commit" =>
        /\ Len(tasks_) < queue_size_
        /\ asked[c] > 0
        /\ \A w \in Workers : wpc[w] # "exited"

\* What a worker tested still holds when it goes to sleep.
SleepJustified ==
    \A w \in Workers : wpc[w] = "presleep" => tasks_ = <<>>

ExitIsFinal == (\E w \in Workers : wpc[w] = "exited") => ~started_

IInv ==
    /\ TypeOK
    /\ HoldsMutex /\ CommitJustified /\ SleepJustified /\ ExitIsFinal
    /\ FrontDefined /\ NoStrandedTask

-----------------------------------------------------------------------------
(* IInv is inductive                                                        *)

LEMMA InitIInv == Init => IInv
<1> SUFFICES ASSUME Init PROVE IInv
  OBVIOUS
<1>1. tasks_ \in Seq(Task) /\ asked \in [Clients -> 0..MaxTasks]
  BY PoolAssumption DEF Init
<1> QED
  BY <1>1, PoolAssumption
  DEF Init, IInv, TypeOK, HoldsMutex, CommitJustified, SleepJustified, ExitIsFinal,
      FrontDefined, NoStrandedTask, mayExit

\* notify_one wakes a sleeper if there is one, and changes no other worker.
LEMMA NotifyOneEffect ==
    ASSUME wpc \in [Workers -> {"lock", "presleep", "asleep", "decide", "run", "exited"}],
           NotifyOne
    PROVE  /\ wpc' \in [Workers -> {"lock", "presleep", "asleep", "decide", "run", "exited"}]
           /\ \A w \in Workers : wpc'[w] # wpc[w] => wpc[w] = "asleep" /\ wpc'[w] = "lock"
           /\ (\E w \in Workers : wpc[w] = "asleep") =>
                 \E w \in Workers : wpc[w] = "asleep" /\ wpc'[w] = "lock"
BY DEF NotifyOne, Sleepers

\* An append is made with mtx_ held: no worker is between its test and its
\* sleep or its exit.
LEMMA ClientKeepsIInv ==
    ASSUME IInv, NEW c \in Clients, EnqueueEnter(c) \/ EnqueueCommit(c)
    PROVE  IInv'
<1> USE PoolAssumption
<1>1. CASE EnqueueEnter(c)
  <2>1. TypeOK'
    BY <1>1, SMTT(40) DEF EnqueueEnter, mayEnqueue, IInv, TypeOK
  <2>2. CASE ~mayEnqueue
    BY <1>1, <2>1, <2>2
    DEF EnqueueEnter, IInv, TypeOK, HoldsMutex, CommitJustified, SleepJustified,
        ExitIsFinal, FrontDefined, NoStrandedTask, mayExit
  <2>3. CASE mayEnqueue
    <3>1. cpc' = [cpc EXCEPT ![c] = "commit"] /\ mtx' = c /\ mtx = Nobody
      BY <1>1, <2>3 DEF EnqueueEnter
    <3>2. HoldsMutex'
      BY <1>1, <3>1 DEF EnqueueEnter, IInv, TypeOK, HoldsMutex
    <3>3. CommitJustified'
      BY <1>1, <2>3, <3>1
      DEF EnqueueEnter, mayEnqueue, IInv, TypeOK, HoldsMutex, CommitJustified, ExitIsFinal
    <3>4. /\ SleepJustified' /\ ExitIsFinal'
          /\ FrontDefined' /\ NoStrandedTask'
      BY <1>1 DEF EnqueueEnter, IInv, SleepJustified, ExitIsFinal, FrontDefined,
                  NoStrandedTask, mayExit
    <3> QED
      BY <2>1, <3>2, <3>3, <3>4 DEF IInv
  <2> QED
    BY <2>2, <2>3
<1>2. CASE EnqueueCommit(c)
  <2>1. /\ wpc' \in [Workers -> {"lock", "presleep", "asleep", "decide", "run", "exited"}]
        /\ \A w \in Workers : wpc'[w] # wpc[w] => wpc[w] = "asleep" /\ wpc'[w] = "lock"
        /\ (\E w \in Workers : wpc[w] = "asleep") =>
              \E w \in Workers : wpc[w] = "asleep" /\ wpc'[w] = "lock"
    BY <1>2, NotifyOneEffect DEF EnqueueCommit, IInv, TypeOK
  <2>2. <<c, asked[c]>> \in Task
    BY <1>2 DEF EnqueueCommit, IInv, TypeOK, CommitJustified, Task
  <2>3. tasks_' \in Seq(Task) /\ tasks_' # <<>>
    BY <1>2, <2>2, AppendProperties, SMTT(40) DEF EnqueueCommit, IInv, TypeOK
  <2>4. \A w \in Workers : wpc[w] \in {"lock", "asleep", "run"}
    BY <1>2 DEF EnqueueCommit, IInv, TypeOK, HoldsMutex, CommitJustified
  <2>5. TypeOK'
    BY <1>2, <2>1, <2>3 DEF EnqueueCommit, IInv, TypeOK
  <2>6. HoldsMutex'
    BY <1>2, <2>1, <2>4 DEF EnqueueCommit, IInv, TypeOK, HoldsMutex
  <2>7. CommitJustified'
    BY <1>2 DEF EnqueueCommit, IInv, TypeOK, HoldsMutex, CommitJustified
  <2>8. SleepJustified' /\ ExitIsFinal' /\ FrontDefined'
    BY <1>2, <2>1, <2>4
    DEF EnqueueCommit, SleepJustified, ExitIsFinal, FrontDefined, mayExit
  <2>9. NoStrandedTask'
    BY <2>1, <2>4 DEF NoStrandedTask
  <2> QED
    BY <2>5, <2>6, <2>7, <2>8, <2>9 DEF IInv
<1> QED
  BY <1>1, <1>2

LEMMA WorkerKeepsIInv ==
    ASSUME IInv, NEW w \in Workers, WorkerNext(w)
    PROVE  IInv'
<1> USE PoolAssumption
<1>1. CASE WorkerLock(w)
  BY <1>1 DEF WorkerLock, IInv, TypeOK, HoldsMutex, CommitJustified,
              SleepJustified, ExitIsFinal, FrontDefined, NoStrandedTask, mayExit
<1>2. CASE WorkerSleep(w)
  BY <1>2 DEF WorkerSleep, IInv, TypeOK, HoldsMutex, CommitJustified,
              SleepJustified, ExitIsFinal, FrontDefined, NoStrandedTask, mayExit
<1>3. CASE WorkerSpuriousWakeup(w)
  BY <1>3 DEF WorkerSpuriousWakeup, IInv, TypeOK, HoldsMutex, CommitJustified,
              SleepJustified, ExitIsFinal, FrontDefined, NoStrandedTask, mayExit
<1>4. CASE WorkerExit(w)
  BY <1>4 DEF WorkerExit, IInv, TypeOK, HoldsMutex, CommitJustified,
              SleepJustified, ExitIsFinal, FrontDefined, NoStrandedTask, mayExit
<1>5. CASE WorkerTake(w)
  <2>1. Head(tasks_) \in Task /\ Tail(tasks_) \in Seq(Task)
    BY <1>5, HeadTailProperties DEF WorkerTake, IInv, TypeOK
  <2>2. Head(tasks_) # Nobody
    BY <2>1 DEF Task
  <2>3. TypeOK'
    BY <1>5, <2>1, <2>2 DEF WorkerTake, IInv, TypeOK
  <2>4. HoldsMutex' /\ CommitJustified' /\ ExitIsFinal'
    BY <1>5 DEF WorkerTake, IInv, TypeOK, HoldsMutex, CommitJustified, ExitIsFinal
  <2>5. SleepJustified' /\ FrontDefined' /\ NoStrandedTask'
    BY <1>5 DEF WorkerTake, IInv, TypeOK, HoldsMutex, SleepJustified, FrontDefined,
                NoStrandedTask, mayExit
  <2> QED
    BY <2>3, <2>4, <2>5 DEF IInv
<1>6. CASE WorkerRun(w)
  BY <1>6 DEF WorkerRun, IInv, TypeOK, HoldsMutex, CommitJustified,
              SleepJustified, ExitIsFinal, FrontDefined, NoStrandedTask, mayExit
<1> QED
  BY <1>1, <1>2, <1>3, <1>4, <1>5, <1>6 DEF WorkerNext

LEMMA OwnerKeepsIInv == IInv /\ (Stop \/ StopNotify \/ Destroy \/ Join) => IInv'
<1> SUFFICES ASSUME IInv, Stop \/ StopNotify \/ Destroy \/ Join PROVE IInv'
  OBVIOUS
<1> USE PoolAssumption
<1> USE DEF IInv, TypeOK, HoldsMutex, CommitJustified, SleepJustified, ExitIsFinal,
            FrontDefined, NoStrandedTask, mayExit
<1>1. CASE Stop
  BY <1>1 DEF Stop
<1>2. CASE StopNotify
  BY <1>2 DEF StopNotify, Sleepers
<1>3. CASE Destroy
  BY <1>3 DEF Destroy
<1>4. CASE Join
  BY <1>4 DEF Join
<1> QED
  BY <1>1, <1>2, <1>3, <1>4

\* IInv holds in every reachable state.
THEOREM PoolInvariant == Spec => []IInv
<1>1. IInv /\ UNCHANGED vars => IInv'
  BY DEF vars, IInv, TypeOK, HoldsMutex, CommitJustified, SleepJustified, ExitIsFinal,
         FrontDefined, NoStrandedTask, mayExit
<1>2. IInv /\ [Next]_vars => IInv'
  BY <1>1, ClientKeepsIInv, WorkerKeepsIInv, OwnerKeepsIInv DEF Next, Terminated
<1> QED
  BY <1>2, InitIInv, PTL DEF Spec

\* Types, and the correspondence of tasks in hand and running workers.
THEOREM PoolTypeOK == Spec => []TypeOK
<1>1. IInv => TypeOK
  BY DEF IInv
<1> QED
  BY <1>1, PoolInvariant, PTL

\* front() is never asked of an empty queue.
THEOREM PoolFrontDefined == Spec => []FrontDefined
<1>1. IInv => FrontDefined
  BY DEF IInv
<1> QED
  BY <1>1, PoolInvariant, PTL

\* A queued task always has a worker that will look at the queue again.
THEOREM PoolNoStrandedTask == Spec => []NoStrandedTask
<1>1. IInv => NoStrandedTask
  BY DEF IInv
<1> QED
  BY <1>1, PoolInvariant, PTL

-----------------------------------------------------------------------------
(* No task is slept over: counting the workers that come for the queue      *)

LEMMA ComingFinite == IsFiniteSet(Coming) /\ Cardinality(Coming) \in Nat
<1>1. Coming \in SUBSET Workers
  BY DEF Coming
<1> QED
  BY <1>1, PoolAssumption, FS_Subset, FS_CardinalityType

\* A worker that comes, or does not leave, only helps.
LEMMA ComingGrows ==
    ASSUME IInv, NoTaskSleptOver, Coming \subseteq Coming', Coming' \subseteq Workers,
           tasks_' = tasks_, Sleepers' # {} => Sleepers # {}
    PROVE  NoTaskSleptOver'
<1> SUFFICES ASSUME Sleepers' # {} PROVE Len(tasks_') <= Cardinality(Coming')
  BY DEF NoTaskSleptOver
<1>1. IsFiniteSet(Coming') /\ Cardinality(Coming') \in Nat
  BY PoolAssumption, FS_Subset, FS_CardinalityType
<1>2. Cardinality(Coming) <= Cardinality(Coming')
  BY <1>1, FS_Subset
<1>3. Len(tasks_) <= Cardinality(Coming) /\ Len(tasks_) \in Nat
  BY DEF NoTaskSleptOver, IInv, TypeOK
<1> QED
  BY <1>1, <1>2, <1>3, ComingFinite

\* One task more, and with it one worker more that comes.
LEMMA EnqueueKeepsNoTaskSleptOver ==
    ASSUME IInv, NoTaskSleptOver, NEW c \in Clients, EnqueueCommit(c)
    PROVE  NoTaskSleptOver'
<1> SUFFICES ASSUME Sleepers' # {} PROVE Len(tasks_') <= Cardinality(Coming')
  BY DEF NoTaskSleptOver
<1>1. PICK w \in Workers : wpc[w] = "asleep" /\ wpc' = [wpc EXCEPT ![w] = "lock"]
  BY DEF EnqueueCommit, NotifyOne, Sleepers
<1>2. Coming' = Coming \cup {w} /\ w \notin Coming
  BY <1>1 DEF Coming, IInv, TypeOK
<1>3. Cardinality(Coming') = Cardinality(Coming) + 1
  BY <1>2, ComingFinite, FS_AddElement
<1>4. Len(tasks_) <= Cardinality(Coming)
  BY <1>1 DEF NoTaskSleptOver, Sleepers
<1>5. <<c, asked[c]>> \in Task
  BY PoolAssumption DEF EnqueueCommit, IInv, TypeOK, CommitJustified, Task
<1>6. Len(tasks_') = Len(tasks_) + 1 /\ Len(tasks_) \in Nat
  BY <1>5, AppendProperties DEF EnqueueCommit, IInv, TypeOK
<1> QED
  BY <1>3, <1>4, <1>6, ComingFinite

\* One task less, and one worker less that comes.
LEMMA TakeKeepsNoTaskSleptOver ==
    ASSUME IInv, NoTaskSleptOver, NEW w \in Workers, WorkerTake(w)
    PROVE  NoTaskSleptOver'
<1> SUFFICES ASSUME Sleepers' # {} PROVE Len(tasks_') <= Cardinality(Coming')
  BY DEF NoTaskSleptOver
<1>1. Coming' = Coming \ {w} /\ w \in Coming /\ Sleepers # {}
  BY DEF WorkerTake, Coming, Sleepers, IInv, TypeOK
<1>2. Cardinality(Coming') = Cardinality(Coming) - 1
  BY <1>1, ComingFinite, FS_RemoveElement
<1>3. Len(tasks_') = Len(tasks_) - 1 /\ Len(tasks_) \in Nat
  BY HeadTailProperties DEF WorkerTake, IInv, TypeOK
<1>4. Len(tasks_) <= Cardinality(Coming)
  BY <1>1 DEF NoTaskSleptOver
<1> QED
  BY <1>2, <1>3, <1>4, ComingFinite

\* An empty queue cannot be slept over.
LEMMA EmptyQueueNotSleptOver ==
    ASSUME tasks_' = <<>>, Coming' \subseteq Workers
    PROVE  NoTaskSleptOver'
<1>1. Cardinality(Coming') \in Nat
  BY PoolAssumption, FS_Subset, FS_CardinalityType
<1> QED
  BY <1>1 DEF NoTaskSleptOver

LEMMA NoTaskSleptOverInductive ==
    ASSUME IInv, NoTaskSleptOver, [Next]_vars
    PROVE  NoTaskSleptOver'
<1>0. Coming' \subseteq Workers
  BY DEF Coming
<1>1. ASSUME NEW c \in Clients, EnqueueEnter(c)
      PROVE  NoTaskSleptOver'
  BY <1>1, <1>0, ComingGrows DEF EnqueueEnter, Coming, Sleepers
<1>2. ASSUME NEW c \in Clients, EnqueueCommit(c)
      PROVE  NoTaskSleptOver'
  BY <1>2, EnqueueKeepsNoTaskSleptOver
<1>3. ASSUME NEW w \in Workers, WorkerNext(w)
      PROVE  NoTaskSleptOver'
  <2>1. CASE WorkerLock(w)
    <3>1. CASE tasks_ # <<>>
      <4>1. wpc' = [wpc EXCEPT ![w] = "decide"] /\ tasks_' = tasks_
        BY <2>1, <3>1 DEF WorkerLock
      <4>2. Coming \subseteq Coming' /\ (Sleepers' # {} => Sleepers # {})
        BY <2>1, <4>1 DEF Coming, Sleepers, IInv, TypeOK
      <4> QED
        BY <1>0, <4>1, <4>2, ComingGrows
    <3>2. CASE tasks_ = <<>>
      BY <2>1, <3>2, <1>0, EmptyQueueNotSleptOver DEF WorkerLock
    <3> QED
      BY <3>1, <3>2
  <2>2. CASE WorkerSleep(w)
    BY <2>2, <1>0, EmptyQueueNotSleptOver DEF WorkerSleep, IInv, SleepJustified
  <2>3. CASE WorkerSpuriousWakeup(w)
    <3>1. Coming \subseteq Coming' /\ (Sleepers' # {} => Sleepers # {}) /\ tasks_' = tasks_
      BY <2>3 DEF WorkerSpuriousWakeup, Coming, Sleepers, IInv, TypeOK
    <3> QED
      BY <1>0, <3>1, ComingGrows
  <2>4. CASE WorkerExit(w)
    BY <2>4, <1>0, EmptyQueueNotSleptOver DEF WorkerExit, mayExit
  <2>5. CASE WorkerTake(w)
    BY <2>5, TakeKeepsNoTaskSleptOver
  <2>6. CASE WorkerRun(w)
    <3>1. Coming \subseteq Coming' /\ (Sleepers' # {} => Sleepers # {}) /\ tasks_' = tasks_
      BY <2>6 DEF WorkerRun, Coming, Sleepers, IInv, TypeOK
    <3> QED
      BY <1>0, <3>1, ComingGrows
  <2> QED
    BY <1>3, <2>1, <2>2, <2>3, <2>4, <2>5, <2>6 DEF WorkerNext
<1>4. CASE StopNotify
  BY <1>4 DEF StopNotify, Sleepers, NoTaskSleptOver, IInv, TypeOK
<1>5. CASE Stop \/ Destroy \/ Join \/ UNCHANGED vars
  BY <1>5, <1>0, ComingGrows DEF Stop, Destroy, Join, vars, Coming, Sleepers
<1> QED
  BY <1>1, <1>2, <1>3, <1>4, <1>5 DEF Next, Terminated

\* While a worker sleeps, every queued task has an awake worker of its own that
\* comes for it: the one notify_one of each enqueue is enough.
THEOREM PoolNoTaskSleptOver == Spec => []NoTaskSleptOver
<1>1. Init => NoTaskSleptOver
  BY DEF Init, NoTaskSleptOver, Sleepers
<1>2. IInv /\ NoTaskSleptOver /\ [Next]_vars => NoTaskSleptOver'
  BY NoTaskSleptOverInductive
<1> QED
  BY <1>1, <1>2, PoolInvariant, PTL DEF Spec

-----------------------------------------------------------------------------
(* The pool implements TaskPool: no task is in two places                   *)

\* The tasks that enqueue has let in are those numbered up to n = asked, without
\* the one that is about to be appended (pc = cpc).
Issued(t, n, pc) ==
    /\ t[2] <= n[t[1]]
    /\ pc[t[1]] = "commit" => t[2] < n[t[1]]

\* Every task is in one place only: once in the queue, or in the hands of one
\* worker, or finished.
Unique ==
    /\ \A i \in 1..Len(tasks_) :
          /\ Issued(tasks_[i], asked, cpc)
          /\ tasks_[i] \notin finished
          /\ \A w \in Workers : task[w] # tasks_[i]
          /\ \A j \in 1..Len(tasks_) : tasks_[i] = tasks_[j] => i = j
    /\ \A w \in Workers : task[w] # Nobody =>
          /\ Issued(task[w], asked, cpc)
          /\ task[w] \notin finished
          /\ \A v \in Workers : task[v] = task[w] => v = w
    /\ \A t \in finished : Issued(t, asked, cpc)

\* Calling enqueue lets no task out of the issued ones.
LEMMA EnterKeepsIssued ==
    ASSUME IInv, NEW c \in Clients, EnqueueEnter(c), NEW t \in Task, Issued(t, asked, cpc)
    PROVE  Issued(t, asked', cpc')
BY PoolAssumption DEF EnqueueEnter, Issued, Task, IInv, TypeOK

\* Nor does the append, which issues one more.
LEMMA CommitIssues ==
    ASSUME IInv, NEW c \in Clients, EnqueueCommit(c)
    PROVE  /\ <<c, asked[c]>> \in Task
           /\ ~Issued(<<c, asked[c]>>, asked, cpc)
           /\ Issued(<<c, asked[c]>>, asked', cpc')
           /\ \A t \in Task : Issued(t, asked, cpc) => Issued(t, asked', cpc')
BY PoolAssumption DEF EnqueueCommit, Issued, Task, IInv, TypeOK, CommitJustified

LEMMA EnterKeepsUnique ==
    ASSUME IInv, Unique, NEW c \in Clients, EnqueueEnter(c)
    PROVE  Unique'
<1>1. \A t \in Task : Issued(t, asked, cpc) => Issued(t, asked', cpc')
  BY EnterKeepsIssued
<1>2. /\ tasks_' = tasks_ /\ task' = task /\ finished' = finished
      /\ tasks_ \in Seq(Task) /\ finished \subseteq Task
      /\ task \in [Workers -> Task \cup {Nobody}]
  BY DEF EnqueueEnter, IInv, TypeOK
<1>3. \A i \in 1..Len(tasks_) : tasks_[i] \in Task
  BY <1>2
<1>4. \A w \in Workers : task[w] # Nobody => task[w] \in Task
  BY <1>2
<1> QED
  BY <1>1, <1>2, <1>3, <1>4 DEF Unique

LEMMA CommitKeepsUnique ==
    ASSUME IInv, Unique, NEW c \in Clients, EnqueueCommit(c)
    PROVE  Unique'
<1> DEFINE new == <<c, asked[c]>>
<1>1. /\ new \in Task /\ ~Issued(new, asked, cpc) /\ Issued(new, asked', cpc')
      /\ \A t \in Task : Issued(t, asked, cpc) => Issued(t, asked', cpc')
  BY CommitIssues
<1>2. /\ task' = task /\ finished' = finished
      /\ tasks_ \in Seq(Task) /\ finished \subseteq Task
      /\ task \in [Workers -> Task \cup {Nobody}]
      /\ tasks_' = Append(tasks_, new)
  BY DEF EnqueueCommit, IInv, TypeOK
<1> HIDE DEF new
<1>3. /\ Len(tasks_') = Len(tasks_) + 1 /\ Len(tasks_) \in Nat
      /\ \A i \in 1..Len(tasks_) : tasks_'[i] = tasks_[i] /\ tasks_[i] \in Task
      /\ tasks_'[Len(tasks_) + 1] = new
  BY <1>1, <1>2, AppendProperties
<1>4. \A i \in 1..Len(tasks_') :
         \/ i \in 1..Len(tasks_)
         \/ i = Len(tasks_) + 1
  BY <1>3
<1>5. new \notin finished /\ \A w \in Workers : task[w] # new
  BY <1>1, <1>2, PoolAssumption DEF Unique, Task
<1>6. \A i \in 1..Len(tasks_) : tasks_[i] # new
  BY <1>1 DEF Unique
<1>7. \A i \in 1..Len(tasks_') :
         /\ Issued(tasks_'[i], asked', cpc')
         /\ tasks_'[i] \notin finished
         /\ \A w \in Workers : task[w] # tasks_'[i]
  BY <1>1, <1>3, <1>4, <1>5 DEF Unique
<1>8. \A i, j \in 1..Len(tasks_') : tasks_'[i] = tasks_'[j] => i = j
  BY <1>3, <1>4, <1>6 DEF Unique
<1>9. \A w \in Workers : task[w] # Nobody => Issued(task[w], asked', cpc')
  BY <1>1, <1>2 DEF Unique
<1>10. \A t \in finished : Issued(t, asked', cpc')
  BY <1>1, <1>2 DEF Unique
<1> QED
  BY <1>2, <1>7, <1>8, <1>9, <1>10 DEF Unique

LEMMA TakeKeepsUnique ==
    ASSUME IInv, Unique, NEW w \in Workers, WorkerTake(w)
    PROVE  Unique'
<1>1. /\ tasks_ \in Seq(Task) /\ tasks_ # <<>> /\ tasks_' = Tail(tasks_)
      /\ task \in [Workers -> Task \cup {Nobody}]
      /\ task' = [task EXCEPT ![w] = Head(tasks_)]
      /\ finished' = finished /\ cpc' = cpc /\ asked' = asked
  BY DEF WorkerTake, IInv, TypeOK
<1>2. /\ Len(tasks_') = Len(tasks_) - 1 /\ Len(tasks_) \in Nat
      /\ \A i \in 1..Len(tasks_') : tasks_'[i] = tasks_[i + 1]
      /\ Head(tasks_) = tasks_[1] /\ 1 \in 1..Len(tasks_)
  BY <1>1, HeadTailProperties
<1>3. \A i \in 1..Len(tasks_') : i + 1 \in 1..Len(tasks_) /\ i + 1 # 1
  BY <1>2
<1>4. \A t : Issued(t, asked', cpc') <=> Issued(t, asked, cpc)
  BY <1>1 DEF Issued
<1>5. \A v \in Workers : task'[v] = IF v = w THEN tasks_[1] ELSE task[v]
  BY <1>1, <1>2
<1>6. \A i \in 1..Len(tasks_') :
         /\ Issued(tasks_'[i], asked', cpc')
         /\ tasks_'[i] \notin finished
         /\ \A v \in Workers : task'[v] # tasks_'[i]
         /\ \A j \in 1..Len(tasks_') : tasks_'[i] = tasks_'[j] => i = j
  BY <1>2, <1>3, <1>4, <1>5 DEF Unique
<1>7. \A v \in Workers : task'[v] # Nobody =>
         /\ Issued(task'[v], asked', cpc')
         /\ task'[v] \notin finished
         /\ \A u \in Workers : task'[u] = task'[v] => u = v
  BY <1>2, <1>4, <1>5 DEF Unique
<1>8. \A t \in finished : Issued(t, asked', cpc')
  BY <1>4 DEF Unique
<1> QED
  BY <1>1, <1>6, <1>7, <1>8 DEF Unique

LEMMA RunKeepsUnique ==
    ASSUME IInv, Unique, NEW w \in Workers, WorkerRun(w)
    PROVE  Unique'
<1>1. /\ tasks_' = tasks_ /\ cpc' = cpc /\ asked' = asked
      /\ finished' = finished \cup {task[w]}
      /\ task \in [Workers -> Task \cup {Nobody}]
      /\ \A v \in Workers : task'[v] = IF v = w THEN Nobody ELSE task[v]
      /\ task[w] # Nobody
      /\ tasks_ \in Seq(Task)
  BY DEF WorkerRun, IInv, TypeOK
<1>2. \A t : Issued(t, asked', cpc') <=> Issued(t, asked, cpc)
  BY <1>1 DEF Issued
<1>3. \A i \in 1..Len(tasks_) : tasks_[i] # Nobody
  BY <1>1, PoolAssumption DEF Task
<1> QED
  BY <1>1, <1>2, <1>3 DEF Unique

LEMMA UniqueInductive ==
    ASSUME IInv, Unique, [Next]_vars
    PROVE  Unique'
<1>1. CASE UNCHANGED <<tasks_, task, finished, cpc, asked>>
  BY <1>1 DEF Unique, Issued
<1>2. ASSUME NEW w \in Workers, WorkerNext(w)
      PROVE  Unique'
  BY <1>1, <1>2, TakeKeepsUnique, RunKeepsUnique
  DEF WorkerNext, WorkerLock, WorkerSleep, WorkerSpuriousWakeup, WorkerExit
<1>3. CASE Stop \/ StopNotify \/ Destroy \/ Join \/ UNCHANGED vars
  BY <1>1, <1>3 DEF Stop, StopNotify, Destroy, Join, vars
<1> QED
  BY <1>2, <1>3, EnterKeepsUnique, CommitKeepsUnique DEF Next, Terminated

-----------------------------------------------------------------------------
(* The pool implements TaskPool: the steps                                  *)

inHands == {task[w] : w \in Workers} \ {Nobody}
allExited == \A w \in Workers : wpc[w] = "exited"

\* An append finds a pool that has a worker left and room for the task.
LEMMA CommitAccepts ==
    ASSUME IInv, NEW c \in Clients, EnqueueCommit(c)
    PROVE  Pool!Next
<1>1. <<c, asked[c]>> \in Task
  BY CommitIssues
<1>2. ~allExited /\ Len(tasks_) < queue_size_
  BY PoolAssumption DEF EnqueueCommit, IInv, CommitJustified, allExited
<1>3. allExited' = allExited
  <2>1. \A w \in Workers : wpc'[w] = wpc[w] \/ wpc'[w] # "exited"
    BY NotifyOneEffect DEF EnqueueCommit, IInv, TypeOK
  <2>2. \A w \in Workers : wpc[w] # "exited"
    BY DEF EnqueueCommit, IInv, CommitJustified
  <2>3. ~allExited /\ ~allExited'
    BY <1>2, <2>1, <2>2, PoolAssumption DEF allExited
  <2> QED
    BY <2>3 DEF allExited
<1>4. Pool!Accept(<<c, asked[c]>>)
  BY <1>1, <1>2, <1>3 DEF EnqueueCommit, Pool!Accept, allExited
<1> QED
  BY <1>1, <1>4 DEF Pool!Next

\* A worker that takes a task begins one that nobody has begun.
LEMMA TakeBegins ==
    ASSUME IInv, Unique, NEW w \in Workers, WorkerTake(w)
    PROVE  Pool!Next
<1>1. /\ tasks_ # <<>> /\ tasks_' = Tail(tasks_) /\ tasks_ \in Seq(Task)
      /\ task \in [Workers -> Task \cup {Nobody}] /\ task[w] = Nobody
      /\ task' = [task EXCEPT ![w] = Head(tasks_)]
      /\ finished' = finished
  BY DEF WorkerTake, IInv, TypeOK
<1>2. Head(tasks_) = tasks_[1] /\ 1 \in 1..Len(tasks_) /\ Head(tasks_) # Nobody
  BY <1>1, HeadTailProperties, PoolAssumption DEF Task
<1>3. Head(tasks_) \notin inHands /\ Head(tasks_) \notin finished
  BY <1>2 DEF Unique, inHands
<1>4. inHands' = inHands \cup {Head(tasks_)}
  BY <1>1, <1>2 DEF inHands
<1>5. allExited' = allExited
  <2>1. ~allExited /\ ~allExited'
    BY DEF WorkerTake, allExited, IInv, TypeOK
  <2> QED
    BY <2>1 DEF allExited
<1>6. Pool!Begin
  BY <1>1, <1>3, <1>4, <1>5 DEF Pool!Begin, inHands, allExited
<1> QED
  BY <1>6 DEF Pool!Next

LEMMA RunFinishes ==
    ASSUME IInv, Unique, NEW w \in Workers, WorkerRun(w)
    PROVE  Pool!Next
<1>1. /\ task \in [Workers -> Task \cup {Nobody}] /\ task[w] # Nobody
      /\ task' = [task EXCEPT ![w] = Nobody]
      /\ finished' = finished \cup {task[w]}
      /\ tasks_' = tasks_
  BY DEF WorkerRun, IInv, TypeOK
<1>2. task[w] \in Task /\ task[w] \in inHands
  BY <1>1 DEF inHands
<1>3. inHands' = inHands \ {task[w]}
  BY <1>1 DEF inHands, Unique
<1>4. allExited' = allExited
  <2>1. ~allExited /\ ~allExited'
    BY DEF WorkerRun, allExited, IInv, TypeOK
  <2> QED
    BY <2>1 DEF allExited
<1>5. Pool!Finish(task[w])
  BY <1>1, <1>2, <1>3, <1>4 DEF Pool!Finish, inHands, allExited
<1> QED
  BY <1>2, <1>5 DEF Pool!Next, Pool!Finish

\* The last worker that exits leaves nothing behind.
LEMMA ExitCloses ==
    ASSUME IInv, NEW w \in Workers, WorkerExit(w)
    PROVE  [Pool!Next]_(Pool!vars)
<1>1. /\ tasks_ = <<>> /\ UNCHANGED <<tasks_, task, finished>>
      /\ wpc' = [wpc EXCEPT ![w] = "exited"] /\ wpc[w] = "decide"
      /\ wpc \in [Workers -> {"lock", "presleep", "asleep", "decide", "run", "exited"}]
  BY DEF WorkerExit, mayExit, IInv, TypeOK
<1>2. ~allExited
  BY <1>1 DEF allExited
<1>3. CASE allExited'
  <2>1. \A v \in Workers : v # w => wpc[v] = "exited"
    BY <1>1, <1>3 DEF allExited
  <2>2. \A v \in Workers : task[v] = Nobody
    BY <1>1, <2>1 DEF IInv, TypeOK
  <2>3. inHands = {}
    BY <2>2 DEF inHands
  <2>4. allExited' = TRUE
    BY <1>3
  <2>5. Pool!Close
    BY <1>1, <2>3, <2>4 DEF Pool!Close, inHands, allExited
  <2> QED
    BY <2>5 DEF Pool!Next
<1>4. CASE ~allExited'
  <2>1. allExited' = allExited
    BY <1>2, <1>4 DEF allExited
  <2> QED
    BY <1>1, <2>1 DEF Pool!vars, allExited
<1> QED
  BY <1>3, <1>4

\* The pool is a bounded FIFO queue of tasks, each begun and finished once.
THEOREM PoolImplementsTaskPool == Spec => ImplementsTaskPool
<1>1. Init => Unique
  BY DEF Init, Unique
<1>2. IInv /\ Unique /\ [Next]_vars => Unique'
  BY UniqueInductive
<1>3. Init => Pool!Init
  BY PoolAssumption DEF Init, Pool!Init
<1>4. IInv /\ Unique /\ [Next]_vars => [Pool!Next]_(Pool!vars)
  <2> SUFFICES ASSUME IInv, Unique, [Next]_vars PROVE [Pool!Next]_(Pool!vars)
    OBVIOUS
  <2>1. ASSUME UNCHANGED <<tasks_, task, finished>>,
               allExited' = allExited
        PROVE  UNCHANGED Pool!vars
    BY <2>1 DEF Pool!vars, allExited
  <2>2. ASSUME NEW w \in Workers, WorkerLock(w) \/ WorkerSleep(w) \/ WorkerSpuriousWakeup(w)
        PROVE  UNCHANGED Pool!vars
    <3>1. ~allExited /\ ~allExited'
      BY <2>2 DEF WorkerLock, WorkerSleep, WorkerSpuriousWakeup, allExited, IInv, TypeOK
    <3>2. allExited' = allExited
      BY <3>1 DEF allExited
    <3> QED
      BY <2>1, <2>2, <3>2 DEF WorkerLock, WorkerSleep, WorkerSpuriousWakeup
  <2>3. ASSUME NEW w \in Workers, WorkerNext(w)
        PROVE  [Pool!Next]_(Pool!vars)
    BY <2>2, <2>3, TakeBegins, RunFinishes, ExitCloses DEF WorkerNext
  <2>4. CASE StopNotify
    <3>1. \A w \in Workers : wpc'[w] = "exited" <=> wpc[w] = "exited"
      BY <2>4 DEF StopNotify, Sleepers
    <3>2. allExited' = allExited
      BY <3>1 DEF allExited
    <3> QED
      BY <2>1, <2>4, <3>2 DEF StopNotify
  <2>5. CASE Stop \/ Destroy \/ Join \/ UNCHANGED vars
    BY <2>1, <2>5 DEF Stop, Destroy, Join, vars, allExited
  <2>6. ASSUME NEW c \in Clients, EnqueueEnter(c)
        PROVE  UNCHANGED Pool!vars
    BY <2>1, <2>6 DEF EnqueueEnter, allExited
  <2> QED
    BY <2>3, <2>4, <2>5, <2>6, CommitAccepts DEF Next, Terminated
<1> QED
  BY <1>1, <1>2, <1>3, <1>4, PoolInvariant, PTL DEF Spec, Pool!Spec, ImplementsTaskPool

=============================================================================
