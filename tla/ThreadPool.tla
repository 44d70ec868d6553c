----------------------------- MODULE ThreadPool -----------------------------
(***************************************************************************)
(* asynclog::ThreadPool (ThreadPool.hpp): clients enqueue tasks, worker    *)
(* threads wait for them on cv_ and run them, an owner stops and destroys  *)
(* the pool.  The steps are those between which another thread can get in, *)
(* as in AsyncWorker.tla.  What a task does (start_backup) is outside: it  *)
(* runs for as long as it likes and returns.                               *)
(***************************************************************************)
EXTENDS Integers, Sequences, FiniteSets

CONSTANTS
    Workers,        \* threads_
    Clients,        \* the threads that call enqueue
    Nobody,         \* no holder of mtx_, no task
    queue_size_,
    MaxTasks        \* bound: calls of enqueue per client

ASSUME PoolAssumption ==
    /\ Nobody \notin Workers \cup Clients
    /\ Workers \cap Clients = {}
    /\ IsFiniteSet(Workers) /\ Workers # {}
    /\ queue_size_ \in Nat
    /\ MaxTasks \in Nat
    /\ Nobody \notin Clients \X (1..MaxTasks)

VARIABLES
    started_,   \* the atomic flag; stop() writes it without holding mtx_
    mtx,        \* who holds mtx_
    tasks_,     \* the queue
    wpc,        \* where each worker is in its loop
    task,       \* the task each worker has taken
    cpc,        \* where each client is in enqueue
    asked,      \* how often each client has called enqueue
    opc,        \* where the owner is in stop and ~ThreadPool
    finished    \* the tasks that have been run

vars == <<started_, mtx, tasks_, wpc, task, cpc, asked, opc, finished>>

Task == Clients \X (1..MaxTasks)

Init ==
    /\ started_ = TRUE
    /\ mtx = Nobody
    /\ tasks_ = <<>>
    /\ wpc = [w \in Workers |-> "lock"]
    /\ task = [w \in Workers |-> Nobody]
    /\ cpc = [c \in Clients |-> "idle"]
    /\ asked = [c \in Clients |-> 0]
    /\ opc = "running"
    /\ finished = {}

-----------------------------------------------------------------------------
(* Clients: enqueue                                                         *)

mayEnqueue == Len(tasks_) < queue_size_ /\ started_

\* Takes mtx_ and makes the test; a refused call leaves no trace but its end.
EnqueueEnter(c) ==
    /\ cpc[c] = "idle"
    /\ asked[c] < MaxTasks
    /\ opc \notin {"destroying", "joining", "destroyed"}
    /\ mtx = Nobody
    /\ asked' = [asked EXCEPT ![c] = @ + 1]
    /\ IF mayEnqueue
         THEN cpc' = [cpc EXCEPT ![c] = "commit"] /\ mtx' = c
         ELSE UNCHANGED <<cpc, mtx>>
    /\ UNCHANGED <<started_, tasks_, wpc, task, opc, finished>>

Sleepers == {w \in Workers : wpc[w] = "asleep"}

\* Faulty variant of NotifyOne: nobody is notified.
NotifyNone == UNCHANGED wpc

\* cv_.notify_one(): some sleeper, if there is one
NotifyOne ==
    IF Sleepers = {}
      THEN UNCHANGED wpc
      ELSE \E w \in Sleepers : wpc' = [wpc EXCEPT ![w] = "lock"]

\* Faulty variant of EnqueueCommit: no notification when the queue was not
\* empty, for then somebody has been notified already.
EnqueueCommitNotifiesFirstOnly(c) ==
    /\ cpc[c] = "commit"
    /\ tasks_' = Append(tasks_, <<c, asked[c]>>)
    /\ IF tasks_ = <<>> THEN NotifyOne ELSE UNCHANGED wpc
    /\ mtx' = Nobody
    /\ cpc' = [cpc EXCEPT ![c] = "idle"]
    /\ UNCHANGED <<started_, task, asked, opc, finished>>

EnqueueCommit(c) ==
    /\ cpc[c] = "commit"
    /\ tasks_' = Append(tasks_, <<c, asked[c]>>)
    /\ NotifyOne
    /\ mtx' = Nobody
    /\ cpc' = [cpc EXCEPT ![c] = "idle"]
    /\ UNCHANGED <<started_, task, asked, opc, finished>>

-----------------------------------------------------------------------------
(* Workers                                                                  *)

\* Takes mtx_ and evaluates the predicate of cv_.wait.
WorkerLock(w) ==
    /\ wpc[w] = "lock"
    /\ mtx = Nobody
    /\ mtx' = w
    /\ wpc' = [wpc EXCEPT ![w] =
                  IF tasks_ # <<>> \/ ~started_ THEN "decide" ELSE "presleep"]
    /\ UNCHANGED <<started_, tasks_, task, cpc, asked, opc, finished>>

\* Releases mtx_ and sleeps, atomically for whoever takes mtx_ to notify;
\* stop() does not, and its notification may be gone by now.
WorkerSleep(w) ==
    /\ wpc[w] = "presleep"
    /\ mtx' = Nobody
    /\ wpc' = [wpc EXCEPT ![w] = "asleep"]
    /\ UNCHANGED <<started_, tasks_, task, cpc, asked, opc, finished>>

\* Faulty variant of WorkerSpuriousWakeup: cv_.wait without a predicate.
WorkerSpuriousWakeupUnchecked(w) ==
    /\ wpc[w] = "asleep"
    /\ mtx = Nobody
    /\ mtx' = w
    /\ wpc' = [wpc EXCEPT ![w] = "decide"]
    /\ UNCHANGED <<started_, tasks_, task, cpc, asked, opc, finished>>

WorkerSpuriousWakeup(w) ==
    /\ wpc[w] = "asleep"
    /\ wpc' = [wpc EXCEPT ![w] = "lock"]
    /\ UNCHANGED <<started_, mtx, tasks_, task, cpc, asked, opc, finished>>

\* Faulty variant of mayExit: a stopped pool forgets what is queued.
mayExitAtOnce == ~started_

mayExit == ~started_ /\ tasks_ = <<>>

WorkerExit(w) ==
    /\ wpc[w] = "decide"
    /\ mayExit
    /\ mtx' = Nobody
    /\ wpc' = [wpc EXCEPT ![w] = "exited"]
    /\ UNCHANGED <<started_, tasks_, task, cpc, asked, opc, finished>>

WorkerTake(w) ==
    /\ wpc[w] = "decide"
    /\ ~mayExit
    /\ tasks_ # <<>>        \* front() of an empty queue is undefined: FrontDefined
    /\ task' = [task EXCEPT ![w] = Head(tasks_)]
    /\ tasks_' = Tail(tasks_)
    /\ mtx' = Nobody
    /\ wpc' = [wpc EXCEPT ![w] = "run"]
    /\ UNCHANGED <<started_, cpc, asked, opc, finished>>

\* Faulty variant of WorkerRun: the task is kept beyond its end.
WorkerRunKeepsTask(w) ==
    /\ wpc[w] = "run"
    /\ finished' = finished \cup {task[w]}
    /\ wpc' = [wpc EXCEPT ![w] = "lock"]
    /\ UNCHANGED <<started_, mtx, tasks_, task, cpc, asked, opc>>

WorkerRun(w) ==
    /\ wpc[w] = "run"
    /\ finished' = finished \cup {task[w]}
    /\ task' = [task EXCEPT ![w] = Nobody]
    /\ wpc' = [wpc EXCEPT ![w] = "lock"]
    /\ UNCHANGED <<started_, mtx, tasks_, cpc, asked, opc>>

-----------------------------------------------------------------------------
(* The owner: stop and ~ThreadPool                                          *)

Stop ==
    /\ opc = "running"
    /\ started_' = FALSE
    /\ opc' = "stopping"
    /\ UNCHANGED <<mtx, tasks_, wpc, task, cpc, asked, finished>>

\* cv_.notify_all() of stop()
StopNotify ==
    /\ opc \in {"stopping", "destroying"}
    /\ wpc' = [w \in Workers |-> IF w \in Sleepers THEN "lock" ELSE wpc[w]]
    /\ opc' = IF opc = "stopping" THEN "stopped" ELSE "joining"
    /\ UNCHANGED <<started_, mtx, tasks_, task, cpc, asked, finished>>

\* The destructor stops a pool that still runs, and only that one.
Destroy ==
    /\ opc \in {"running", "stopped"}
    /\ \A c \in Clients : cpc[c] = "idle"
    /\ opc' = IF started_ THEN "destroying" ELSE "joining"
    /\ started_' = FALSE
    /\ UNCHANGED <<mtx, tasks_, wpc, task, cpc, asked, finished>>

Join ==
    /\ opc = "joining"
    /\ \A w \in Workers : wpc[w] = "exited"
    /\ opc' = "destroyed"
    /\ UNCHANGED <<started_, mtx, tasks_, wpc, task, cpc, asked, finished>>

-----------------------------------------------------------------------------

WorkerNext(w) ==
    \/ WorkerLock(w) \/ WorkerSleep(w) \/ WorkerSpuriousWakeup(w)
    \/ WorkerExit(w) \/ WorkerTake(w) \/ WorkerRun(w)

\* Everything is over: no step is left to take.
Terminated ==
    /\ opc = "destroyed"
    /\ UNCHANGED vars

Next ==
    \/ \E c \in Clients : EnqueueEnter(c) \/ EnqueueCommit(c)
    \/ \E w \in Workers : WorkerNext(w)
    \/ Stop \/ StopNotify \/ Destroy \/ Join
    \/ Terminated

Spec == Init /\ [][Next]_vars

\* Calls that have begun go on, tasks return, and the scheduler lets a worker
\* that waits for mtx_ have it again and again (SF).  No spurious wake-up is
\* promised, and nobody has to call enqueue, stop or the destructor.
Fairness ==
    /\ \A c \in Clients : WF_vars(EnqueueCommit(c))
    /\ \A w \in Workers :
          /\ SF_vars(WorkerLock(w))
          /\ WF_vars(WorkerSleep(w))
          /\ WF_vars(WorkerExit(w) \/ WorkerTake(w))
          /\ WF_vars(WorkerRun(w))
    /\ WF_vars(StopNotify) /\ WF_vars(Join)

FairSpec == Spec /\ Fairness

-----------------------------------------------------------------------------

\* Types, and: a worker has a task in its hands exactly while it runs it.
TypeOK ==
    /\ started_ \in BOOLEAN
    /\ mtx \in Workers \cup Clients \cup {Nobody}
    /\ tasks_ \in Seq(Task)
    /\ wpc \in [Workers -> {"lock", "presleep", "asleep", "decide", "run", "exited"}]
    /\ task \in [Workers -> Task \cup {Nobody}]
    /\ \A w \in Workers : task[w] # Nobody <=> wpc[w] = "run"
    /\ cpc \in [Clients -> {"idle", "commit"}]
    /\ asked \in [Clients -> 0..MaxTasks]
    /\ opc \in {"running", "stopping", "stopped", "destroying", "joining", "destroyed"}
    /\ finished \subseteq Task

\* A worker that gets past the exit test finds a task at the front of the
\* queue, also after a spurious wake-up and when stop() comes in between.
FrontDefined ==
    \A w \in Workers : wpc[w] = "decide" /\ ~mayExit => tasks_ # <<>>

\* The workers on their way to the queue.
Coming == {w \in Workers : wpc[w] \in {"lock", "decide"}}

\* No worker sleeps over a task: while one sleeps, every queued task has an
\* awake worker of its own coming for it (one notify_one per enqueue).
NoTaskSleptOver == Sleepers # {} => Len(tasks_) <= Cardinality(Coming)

\* A queued task always has a worker that will look at the queue again, also
\* when stop() lets the other workers exit (the exit test against enqueue).
NoStrandedTask ==
    tasks_ # <<>> =>
        \E w \in Workers : wpc[w] \in {"lock", "decide", "run"}

\* The pool is a bounded FIFO queue of tasks, each of them run once.
Pool == INSTANCE TaskPool WITH
    Capacity <- queue_size_,
    waiting  <- tasks_,
    running  <- {task[w] : w \in Workers} \ {Nobody},
    closed   <- \A w \in Workers : wpc[w] = "exited"
ImplementsTaskPool == Pool!Spec

\* Every task that enqueue accepted is run, whether or not the pool is stopped.
AcceptedTaskRuns ==
    \A t \in Task : (\E i \in 1..Len(tasks_) : tasks_[i] = t) ~> t \in finished

\* "When the pool has stopped and all tasks have been run, return at once"
\* (comment on the exit test of a worker): a stopped pool's workers all end.
StopEndsWorkers ==
    (opc = "stopped") ~> (\A w \in Workers : wpc[w] = "exited")

=============================================================================
