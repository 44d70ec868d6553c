---------------------------- MODULE AsyncLogger ----------------------------
(***************************************************************************)
(* asynclog::AsyncLogger (AsyncLogger.hpp) put together: callers log, what *)
(* they log goes to the worker and, when it is severe, to the pool first;  *)
(* the worker's thread gives each batch to one sink after the other; the   *)
(* owner destroys the lot, members in the reverse order of declaration.    *)
(*                                                                         *)
(* The worker and the pool are here what AsyncWorker.tla and ThreadPool.tla*)
(* show them to be: a LogChannel and a TaskPool.  A sink is the messages   *)
(* it has taken; LogFlush.tla says what that means on a disk.         *)
(***************************************************************************)
EXTENDS Integers, Sequences, FiniteSets

CONSTANTS
    Callers,        \* the threads that log
    NumSinks,       \* flushes_.size(); the builder sees to it that it is not 0
    Limited,        \* buffer_policy_ = LIMIT_SIZE: push may refuse
    PoolCapacity,   \* queue_size_ of thread_pool_
    MaxLogs         \* bound: calls, over all callers

ASSUME LoggerAssumption ==
    /\ NumSinks \in Nat \ {0}
    /\ Limited \in BOOLEAN
    /\ PoolCapacity \in Nat /\ MaxLogs \in Nat

VARIABLES
    queue, delivered, closed,               \* worker_, as a LogChannel
    waiting, running, finished, poolClosed, \* thread_pool_, as a TaskPool
    cpc,        \* where each caller is in debug, info, .. fatal
    logged,     \* how often each caller has called one of them
    calls,      \* ... and how often all of them have
    pushed,     \* (history) the messages that push accepted
    batch,      \* the consumer buffer that realFlush is given
    turn,       \* the sink that is next to get it; 0 outside realFlush
    sinks,      \* flushes_: what each has taken
    damaged,    \* (history) the sinks that have lost something
    opc         \* the owner; "crashed" when the process has ended

channel == <<queue, delivered, closed>>
pool    == <<waiting, running, finished, poolClosed>>
vars == <<queue, delivered, closed, waiting, running, finished, poolClosed,
          cpc, logged, calls, pushed, batch, turn, sinks, damaged, opc>>

Message == [from : Callers, seq : 1..MaxLogs]

Channel == INSTANCE LogChannel
Pool    == INSTANCE TaskPool WITH
    Task <- Message, Capacity <- PoolCapacity, closed <- poolClosed

\* The constructor starts the worker; the pool is the caller's.
Init ==
    /\ Channel!Init
    /\ Pool!Init
    /\ cpc = [c \in Callers |-> "idle"]
    /\ logged = [c \in Callers |-> 0]
    /\ calls = 0
    /\ pushed = {}
    /\ batch = <<>> /\ turn = 0
    /\ sinks = [i \in 1..NumSinks |-> <<>>]
    /\ damaged = {}
    /\ opc = "running"

-----------------------------------------------------------------------------
(* Callers                                                                  *)

message(c) == [from |-> c, seq |-> logged[c]]

Calls(c) ==
    /\ opc = "running" /\ cpc[c] = "idle"
    /\ calls < MaxLogs
    /\ calls' = calls + 1
    /\ logged' = [logged EXCEPT ![c] = @ + 1]

\* vasprintf fails: FALSE, and nothing is logged.
FormatFails(c) ==
    /\ Calls(c)
    /\ UNCHANGED <<channel, pool, cpc, pushed, batch, turn, sinks, damaged, opc>>

\* debug, info and warn (not severe) go to flush, error and fatal by way of the
\* pool.
Log(c, isSevere) ==
    /\ Calls(c)
    /\ cpc' = [cpc EXCEPT ![c] = IF isSevere THEN "backup" ELSE "push"]
    /\ UNCHANGED <<channel, pool, pushed, batch, turn, sinks, damaged, opc>>

\* enqueue may refuse or throw: either is swallowed.
Backup(c) ==
    /\ opc # "crashed" /\ cpc[c] = "backup"
    /\ Pool!Accept(message(c)) \/ UNCHANGED pool
    /\ cpc' = [cpc EXCEPT ![c] = "push"]
    /\ UNCHANGED <<channel, logged, calls, pushed, batch, turn, sinks, damaged, opc>>

\* What push says is dropped: the caller is told TRUE in both cases.
Flush(c) ==
    /\ opc # "crashed" /\ cpc[c] = "push"
    /\ \/ Channel!Accept(message(c)) /\ pushed' = pushed \cup {message(c)}
       \/ Limited /\ UNCHANGED <<channel, pushed>>
    /\ cpc' = [cpc EXCEPT ![c] = "idle"]
    /\ UNCHANGED <<pool, logged, calls, batch, turn, sinks, damaged, opc>>

PoolWorks ==
    /\ opc # "crashed"
    /\ Pool!Begin \/ \E m \in running : Pool!Finish(m)
    /\ UNCHANGED <<channel, cpc, logged, calls, pushed, batch, turn, sinks, damaged, opc>>

-----------------------------------------------------------------------------
(* The worker's thread: realFlush                                           *)

\* Faulty variant of FlushBegins: the buffer still holds the last batch.
FlushBeginsUnreset(n) ==
    /\ opc # "crashed" /\ turn = 0 /\ ~closed
    /\ Channel!Deliver(n)
    /\ batch' = batch \o SubSeq(queue, 1, n)
    /\ turn' = 1
    /\ UNCHANGED <<pool, cpc, logged, calls, pushed, sinks, damaged, opc>>

FlushBegins(n) ==
    /\ opc # "crashed" /\ turn = 0 /\ ~closed
    /\ Channel!Deliver(n)
    /\ batch' = SubSeq(queue, 1, n)
    /\ turn' = 1
    /\ UNCHANGED <<pool, cpc, logged, calls, pushed, sinks, damaged, opc>>

\* Faulty variant of nextTurn: the last sink is forgotten.
nextTurnTooShort == IF turn + 1 < NumSinks THEN turn + 1 ELSE 0

\* Faulty variant of nextTurn: one sink too many.
nextTurnTooLong == IF turn <= NumSinks THEN turn + 1 ELSE 0

nextTurn == IF turn < NumSinks THEN turn + 1 ELSE 0

FlushSink ==
    /\ opc # "crashed" /\ turn # 0
    /\ sinks' = [sinks EXCEPT ![turn] = @ \o batch]
    /\ turn' = nextTurn
    /\ UNCHANGED <<channel, pool, cpc, logged, calls, pushed, batch, damaged, opc>>

\* A sink that cannot write gives the rest of the batch up and says nothing.
FlushSinkInPart(k) ==
    /\ opc # "crashed" /\ turn # 0
    /\ k < Len(batch)
    /\ sinks' = [sinks EXCEPT ![turn] = @ \o SubSeq(batch, 1, k)]
    /\ damaged' = damaged \cup {turn}
    /\ turn' = nextTurn
    /\ UNCHANGED <<channel, pool, cpc, logged, calls, pushed, batch, opc>>

\* A sink that throws (RollFileFlush without a file) ends the process, be it at a
\* batch or at the empty buffer that realFlush is given after a time-out.  An empty
\* buffer that no sink throws at changes nothing here and is not a step.
FlushSinkThrows ==
    /\ opc # "crashed" /\ ~closed
    /\ opc' = "crashed"
    /\ UNCHANGED <<channel, pool, cpc, logged, calls, pushed, batch, turn, sinks, damaged>>

-----------------------------------------------------------------------------
(* The owner: ~AsyncLogger                                                  *)

\* thread_pool_ is let go of (others may still hold it), and worker_ stopped.
Destroy ==
    /\ opc = "running"
    /\ \A c \in Callers : cpc[c] = "idle"
    /\ opc' = "stopping"
    /\ UNCHANGED <<channel, pool, cpc, logged, calls, pushed, batch, turn, sinks, damaged>>

WorkerEnds ==
    /\ opc = "stopping" /\ turn = 0 /\ ~closed
    /\ Channel!Close
    /\ UNCHANGED <<pool, cpc, logged, calls, pushed, batch, turn, sinks, damaged, opc>>

\* Faulty variant of SinksDestroyed: flushes_ declared after worker_.
SinksDestroyedFirst ==
    /\ opc = "stopping"
    /\ opc' = "destroyed"
    /\ UNCHANGED <<channel, pool, cpc, logged, calls, pushed, batch, turn, sinks, damaged>>

\* flushes_ is declared before worker_ and so outlives its thread.
SinksDestroyed ==
    /\ opc = "stopping" /\ closed
    /\ opc' = "destroyed"
    /\ UNCHANGED <<channel, pool, cpc, logged, calls, pushed, batch, turn, sinks, damaged>>

Next ==
    \/ \E c \in Callers :
          \/ FormatFails(c) \/ Log(c, TRUE) \/ Log(c, FALSE)
          \/ Backup(c) \/ Flush(c)
    \/ PoolWorks
    \/ \E n \in 1..Len(queue) : FlushBegins(n)
    \/ FlushSink \/ (\E k \in 0..Len(batch) : FlushSinkInPart(k)) \/ FlushSinkThrows
    \/ Destroy \/ WorkerEnds \/ SinksDestroyed

Spec == Init /\ [][Next]_vars

\* What AsyncWorker is shown to do (AcceptedIsDelivered), and sinks that return.
FairSpec ==
    /\ Spec
    /\ WF_vars(\E n \in 1..Len(queue) : FlushBegins(n))
    /\ WF_vars(FlushSink \/ \E k \in 0..Len(batch) : FlushSinkInPart(k))

-----------------------------------------------------------------------------

\* Types; realFlush stays within flushes_, the pool within its capacity, and no
\* task is both running and finished.
TypeOK ==
    /\ queue \in Seq(Message) /\ delivered \in Seq(Message) /\ closed \in BOOLEAN
    /\ waiting \in Seq(Message) /\ Len(waiting) <= PoolCapacity
    /\ running \subseteq Message /\ finished \subseteq Message
    /\ running \cap finished = {}
    /\ poolClosed = FALSE
    /\ cpc \in [Callers -> {"idle", "backup", "push"}]
    /\ logged \in [Callers -> 0..MaxLogs] /\ calls \in 0..MaxLogs
    /\ pushed \subseteq Message
    /\ batch \in Seq(Message) /\ turn \in 0..NumSinks
    /\ sinks \in [1..NumSinks -> Seq(Message)]
    /\ damaged \subseteq 1..NumSinks
    /\ opc \in {"running", "stopping", "destroyed", "crashed"}

\* Every sink that has not failed itself has taken all that was delivered, less
\* the batch it is still to be given: no sink suffers from another's failure.
SinksAreInStep ==
    \A i \in (1..NumSinks) \ damaged :
        delivered = IF turn # 0 /\ turn <= i THEN sinks[i] \o batch ELSE sinks[i]

\* Each sink, damaged or not, has the messages of one caller in the order in
\* which it logged them, and none of them twice.
CallerOrderIsKept ==
    \A i \in 1..NumSinks : \A p, q \in 1..Len(sinks[i]) :
        p < q /\ sinks[i][p].from = sinks[i][q].from =>
            sinks[i][p].seq < sinks[i][q].seq

\* No sink is used once it is destroyed, and then it lacks nothing of what push
\* accepted (the order of the members against the end of the worker).
SinksOutliveWorker ==
    opc = "destroyed" =>
        /\ turn = 0
        /\ \A i \in (1..NumSinks) \ damaged :
              pushed = {sinks[i][j] : j \in 1..Len(sinks[i])}

\* Unless the process ends first, every accepted message reaches every sink
\* that can still write.
AcceptedReachesSinks ==
    \A m \in Message : \A i \in 1..NumSinks :
        m \in pushed ~>
            \/ opc = "crashed" \/ i \in damaged
            \/ \E j \in 1..Len(sinks[i]) : sinks[i][j] = m

=============================================================================
