---------------------------- MODULE AsyncWorker ----------------------------
(***************************************************************************)
(* asynclog::AsyncWorker (AsyncWorker.hpp): producers append messages to   *)
(* productor_buffer_ under mtx_, one background thread swaps it with       *)
(* consumer_buffer_ and hands that to the functor, and an owner thread     *)
(* starts, stops and destroys the worker.                                  *)
(*                                                                         *)
(* A step is what a thread does between two points where another thread    *)
(* can get in: taking mtx_, releasing it (also by going to sleep), each    *)
(* access to the atomic `started`, each notify.  A buffer keeps the        *)
(* numbers of the real one (BufferGrowth.tla) and, instead of bytes, the   *)
(* messages those bytes are.                                               *)
(***************************************************************************)
EXTENDS BufferGrowth, Sequences

CONSTANTS
    Producers,          \* the threads that call push
    Worker, Nobody,     \* the background thread as holder of mtx_; no holder
    Lengths,            \* the lengths in bytes of the messages
    Limited,            \* buffer_policy_ = LIMIT_SIZE
    max_buffer_bytes_,  \* the limit of that policy
    MaxSends            \* bound: calls of push per producer

ASSUME WorkerAssumption ==
    /\ Worker \notin Producers
    /\ Nobody \notin Producers \cup {Worker}
    /\ Lengths \subseteq Nat \ {0}      \* a formatted message is never empty
    /\ Limited \in BOOLEAN
    /\ max_buffer_bytes_ \in Nat
    /\ MaxSends \in Nat

VARIABLES
    started,    \* the atomic flag; stop() writes it without holding mtx_
    mtx,        \* who holds mtx_
    productor,  \* productor_buffer_
    consumer,   \* consumer_buffer_, touched by the background thread alone
    ppc,        \* where each producer is in push
    sent,       \* how often each producer has called push
    wpc,        \* where the background thread is in ThreadEntry
    opc,        \* where the owner is in start, stop and ~AsyncWorker
    output      \* what the functor was given, in order

vars == <<started, mtx, productor, consumer, ppc, sent, wpc, opc, output>>

Message == [from : Producers, seq : 1..MaxSends, len : Lengths]

BufferState ==
    [msgs : Seq(Message), size : Nat \ {0}, write_pos_ : Nat, read_pos_ : Nat]

NewBuffer ==
    [msgs |-> <<>>, size |-> BufferSize, write_pos_ |-> 0, read_pos_ |-> 0]

isEmpty(b) == b.write_pos_ = b.read_pos_

\* readableBytes() > size() * swap_factor, with swap_factor = 0.5
needSwap(b) == 2 * readableBytes(b) > b.size

\* Faulty variant of pushed: the message is copied into whatever room there is.
pushedUnchecked(b, m) ==
    [b EXCEPT !.msgs = Append(@, m), !.write_pos_ = @ + m.len]

\* Buffer::push and Buffer::reset, seen as messages.
pushed(b, m) ==
    [ensureEnoughSpace(b, m.len) EXCEPT !.msgs = Append(@, m),
                                        !.write_pos_ = @ + m.len]

resetBuffer(b) == [NewBuffer EXCEPT !.size = b.size]

Init ==
    /\ started = FALSE
    /\ mtx = Nobody
    /\ productor = NewBuffer
    /\ consumer = NewBuffer
    /\ ppc = [p \in Producers |-> "idle"]
    /\ sent = [p \in Producers |-> 0]
    /\ wpc = "none"
    /\ opc = "new"
    /\ output = <<>>

-----------------------------------------------------------------------------
(* The owner: AsyncLogger's constructor calls start once; stop may come     *)
(* from the owner and comes from the destructor.                            *)

Start ==
    /\ opc = "new"
    /\ started' = TRUE
    /\ opc' = "starting"
    /\ UNCHANGED <<mtx, productor, consumer, ppc, sent, wpc, output>>

StartThread ==
    /\ opc = "starting"
    /\ wpc' = "lock"
    /\ opc' = "running"
    /\ UNCHANGED <<started, mtx, productor, consumer, ppc, sent, output>>

\* started.store(false); nothing orders this with a waiter's predicate.
Stop ==
    /\ opc = "running"
    /\ started' = FALSE
    /\ opc' = "stopping"
    /\ UNCHANGED <<mtx, productor, consumer, ppc, sent, wpc, output>>

\* ~AsyncWorker runs stop() again; no push is in flight in a destructor.
Destroy ==
    /\ opc \in {"running", "stopped"}
    /\ \A p \in Producers : ppc[p] = "idle"
    /\ started' = FALSE
    /\ opc' = "destroying"
    /\ UNCHANGED <<mtx, productor, consumer, ppc, sent, wpc, output>>

\* A notification reaches the background thread only when it is asleep.
woken == IF wpc = "asleep" THEN "lock" ELSE wpc

\* cond_consumer_.notify_all() of stop()
StopNotify ==
    /\ opc \in {"stopping", "destroying"}
    /\ wpc' = woken
    /\ opc' = IF opc = "stopping" THEN "stopped" ELSE "joining"
    /\ UNCHANGED <<started, mtx, productor, consumer, ppc, sent, output>>

Join ==
    /\ opc = "joining"
    /\ wpc = "exited"
    /\ opc' = "destroyed"
    /\ UNCHANGED <<started, mtx, productor, consumer, ppc, sent, wpc, output>>

-----------------------------------------------------------------------------
(* Producers: push                                                          *)

\* Takes mtx_ and reads `started`; a refused call leaves no trace but its end.
PushEnter(p) ==
    /\ ppc[p] = "idle"
    /\ sent[p] < MaxSends
    /\ opc \notin {"destroying", "joining", "destroyed"}
    /\ mtx = Nobody
    /\ sent' = [sent EXCEPT ![p] = @ + 1]
    /\ IF started
         THEN ppc' = [ppc EXCEPT ![p] = "append"] /\ mtx' = p
         ELSE UNCHANGED <<ppc, mtx>>
    /\ UNCHANGED <<started, productor, consumer, wpc, opc, output>>

\* Faulty variant of overLimit: the new message is not counted.
overLimitBefore(b, len) ==
    Limited /\ readableBytes(b) > max_buffer_bytes_

overLimit(b, len) ==
    Limited /\ readableBytes(b) + len > max_buffer_bytes_

PushRefused(p, len) ==
    /\ ppc[p] = "append"
    /\ overLimit(productor, len)
    /\ mtx' = Nobody
    /\ ppc' = [ppc EXCEPT ![p] = "idle"]
    /\ UNCHANGED <<started, productor, consumer, sent, wpc, opc, output>>

\* Faulty variant of PushAppend: needSwap() is read before the message is in.
PushAppendStaleCheck(p, len) ==
    /\ ppc[p] = "append"
    /\ ~overLimit(productor, len)
    /\ readableBytes(productor) + len <= MaxBytes
    /\ productor' = pushed(productor, [from |-> p, seq |-> sent[p], len |-> len])
    /\ mtx' = Nobody
    /\ ppc' = [ppc EXCEPT ![p] = IF needSwap(productor) THEN "notify" ELSE "idle"]
    /\ UNCHANGED <<started, consumer, sent, wpc, opc, output>>

PushAppend(p, len) ==
    /\ ppc[p] = "append"
    /\ ~overLimit(productor, len)
    /\ readableBytes(productor) + len <= MaxBytes
    /\ productor' = pushed(productor, [from |-> p, seq |-> sent[p], len |-> len])
    /\ mtx' = Nobody
    /\ ppc' = [ppc EXCEPT ![p] = IF needSwap(productor') THEN "notify" ELSE "idle"]
    /\ UNCHANGED <<started, consumer, sent, wpc, opc, output>>

\* cond_consumer_.notify_one(), after mtx_ was released
PushNotify(p) ==
    /\ ppc[p] = "notify"
    /\ wpc' = woken
    /\ ppc' = [ppc EXCEPT ![p] = "idle"]
    /\ UNCHANGED <<started, mtx, productor, consumer, sent, opc, output>>

-----------------------------------------------------------------------------
(* The background thread: ThreadEntry                                       *)

\* Takes mtx_, on entry to the loop or after a wake-up, and evaluates the
\* predicate of wait_for.
WorkerLock ==
    /\ wpc = "lock"
    /\ mtx = Nobody
    /\ mtx' = Worker
    /\ wpc' = IF ~started \/ needSwap(productor) THEN "decide" ELSE "presleep"
    /\ UNCHANGED <<started, productor, consumer, ppc, sent, opc, output>>

\* Releases mtx_ and sleeps, atomically with respect to push, but not with
\* respect to stop(), whose notification may be gone by now.
WorkerSleep ==
    /\ wpc = "presleep"
    /\ mtx' = Nobody
    /\ wpc' = "asleep"
    /\ UNCHANGED <<started, productor, consumer, ppc, sent, opc, output>>

WorkerSpuriousWakeup ==
    /\ wpc = "asleep"
    /\ wpc' = "lock"
    /\ UNCHANGED <<started, mtx, productor, consumer, ppc, sent, opc, output>>

\* Faulty variant of WorkerTimeout: wait instead of wait_for.
WorkerWaitsForever == wpc = "asleep" /\ FALSE /\ UNCHANGED vars

\* The three seconds are over.
WorkerTimeout ==
    /\ wpc = "asleep"
    /\ wpc' = "timedout"
    /\ UNCHANGED <<started, mtx, productor, consumer, ppc, sent, opc, output>>

\* After a time-out wait_for ignores what the predicate says.
WorkerRelock ==
    /\ wpc = "timedout"
    /\ mtx = Nobody
    /\ mtx' = Worker
    /\ wpc' = "decide"
    /\ UNCHANGED <<started, productor, consumer, ppc, sent, opc, output>>

\* Faulty variant of mayExit: what producers appended last is not looked at.
mayExitCarelessly == ~started /\ isEmpty(consumer)

mayExit == ~started /\ isEmpty(consumer) /\ isEmpty(productor)

WorkerExit ==
    /\ wpc = "decide"
    /\ mayExit
    /\ mtx' = Nobody
    /\ wpc' = "exited"
    /\ UNCHANGED <<started, productor, consumer, ppc, sent, opc, output>>

WorkerSwap ==
    /\ wpc = "decide"
    /\ ~mayExit
    /\ productor' = consumer
    /\ consumer' = productor
    /\ mtx' = Nobody
    /\ wpc' = "flush"
    /\ UNCHANGED <<started, ppc, sent, opc, output>>

\* Faulty variant of WorkerFlush: reset() is forgotten.
WorkerFlushWithoutReset ==
    /\ wpc = "flush"
    /\ output' = output \o consumer.msgs
    /\ wpc' = "lock"
    /\ UNCHANGED <<started, mtx, productor, consumer, ppc, sent, opc>>

\* functor_ gets the whole batch, without mtx_; whatever it does to the
\* positions, reset() leaves the buffer empty.
WorkerFlush ==
    /\ wpc = "flush"
    /\ output' = output \o consumer.msgs
    /\ consumer' = resetBuffer(consumer)
    /\ wpc' = "lock"
    /\ UNCHANGED <<started, mtx, productor, ppc, sent, opc>>

-----------------------------------------------------------------------------

OwnerNext == Start \/ StartThread \/ Stop \/ Destroy \/ StopNotify \/ Join

PushNext(p) ==
    \/ PushEnter(p)
    \/ \E len \in Lengths : PushRefused(p, len) \/ PushAppend(p, len)
    \/ PushNotify(p)

WorkerNext ==
    \/ WorkerLock \/ WorkerSleep \/ WorkerSpuriousWakeup \/ WorkerTimeout
    \/ WorkerRelock \/ WorkerExit \/ WorkerSwap \/ WorkerFlush

\* Everything is over: no step is left to take.
Terminated ==
    /\ opc = "destroyed"
    /\ UNCHANGED vars

Next ==
    \/ OwnerNext
    \/ \E p \in Producers : PushNext(p)
    \/ WorkerNext
    \/ Terminated

Spec == Init /\ [][Next]_vars

\* A thread that can run does run: calls that have begun go on.  mtx_ is not
\* fair, so only a scheduler that lets the background thread have it again and
\* again helps (SF); the deadline of wait_for is absolute, so spurious wake-ups
\* do not put it off (SF).  Nobody has to call push, stop or the destructor.
Fairness ==
    /\ WF_vars(StartThread) /\ WF_vars(StopNotify) /\ WF_vars(Join)
    /\ \A p \in Producers :
          /\ WF_vars(\E len \in Lengths : PushRefused(p, len) \/ PushAppend(p, len))
          /\ WF_vars(PushNotify(p))
    /\ SF_vars(WorkerLock) /\ SF_vars(WorkerRelock) /\ SF_vars(WorkerTimeout)
    /\ WF_vars(WorkerSleep) /\ WF_vars(WorkerExit) /\ WF_vars(WorkerSwap)
    /\ WF_vars(WorkerFlush)

FairSpec == Spec /\ Fairness

-----------------------------------------------------------------------------

\* Types, and the positions of both buffers are ordered within their vectors.
TypeOK ==
    /\ started \in BOOLEAN
    /\ mtx \in Producers \cup {Worker, Nobody}
    /\ productor \in BufferState /\ PositionsOK(productor)
    /\ consumer \in BufferState /\ PositionsOK(consumer)
    /\ ppc \in [Producers -> {"idle", "append", "notify"}]
    /\ sent \in [Producers -> 0..MaxSends]
    /\ wpc \in {"none", "lock", "presleep", "asleep", "timedout", "decide",
                "flush", "exited"}
    /\ opc \in {"new", "starting", "running", "stopping", "stopped",
                "destroying", "joining", "destroyed"}
    /\ output \in Seq(Message)

\* When the background thread has returned from ThreadEntry no message that
\* push accepted is left in either buffer, and none can get in any more: no
\* producer is past the check of `started` (the exit test against push).
NoLossAtExit ==
    wpc = "exited" =>
        /\ productor.msgs = <<>> /\ consumer.msgs = <<>>
        /\ \A p \in Producers : ppc[p] # "append"

\* The wake-up of push is never lost: when enough is buffered for a swap the
\* background thread sleeps on only if some producer is about to notify it
\* (notify_one after the unlock, against the predicate of wait_for).
SwapIsSignalled ==
    wpc = "asleep" /\ needSwap(productor) => \E p \in Producers : ppc[p] = "notify"

\* LIMIT_SIZE bounds the worker's memory: neither buffer holds more than
\* max_buffer_bytes_, and neither vector outgrows twice that (plus the unit of
\* linear growth), however often the two change places.
LimitBoundsMemory ==
    Limited =>
        \A b \in {productor, consumer} :
            /\ readableBytes(b) <= max_buffer_bytes_
            /\ \/ b.size = BufferSize
               \/ b.size <= 2 * max_buffer_bytes_ + LinearGrowth

\* Accepted messages reach the functor exactly once and in order, and the
\* background thread returns only when all of them have.
Channel == INSTANCE LogChannel WITH
    queue     <- consumer.msgs \o productor.msgs,
    delivered <- output,
    closed    <- wpc = "exited"
ImplementsLogChannel == Channel!Spec

\* A message that push accepted reaches the functor, be it ever so short of
\* the swap threshold and whether or not the worker is stopped meanwhile.
AcceptedIsDelivered ==
    \A m \in Message :
        (\E i \in 1..Len(productor.msgs) : productor.msgs[i] = m)
            ~> (\E i \in 1..Len(output) : output[i] = m)

\* stop() ends the background thread, also when its notification falls between
\* the thread's reading `started` and its going to sleep, and the destructor,
\* which waits for that end, returns.
StopEndsThread ==
    /\ opc = "stopped" ~> wpc = "exited"
    /\ opc = "destroying" ~> opc = "destroyed"

=============================================================================
