----------------------------- MODULE LogChannel -----------------------------
(***************************************************************************)
(* What asynclog::AsyncWorker promises its users: a channel of messages.   *)
(* An accepted message is delivered exactly once, in the order in which    *)
(* messages were accepted, and the channel is closed only when nothing     *)
(* that was accepted is still waiting.                                     *)
(***************************************************************************)
EXTENDS Integers, Sequences

CONSTANT Message

VARIABLES
    queue,      \* accepted, not yet delivered
    delivered,  \* what the consumer was given, in order
    closed      \* the background thread is gone

vars == <<queue, delivered, closed>>

Init ==
    /\ queue = <<>>
    /\ delivered = <<>>
    /\ closed = FALSE

Accept(m) ==
    /\ ~closed
    /\ queue' = Append(queue, m)
    /\ UNCHANGED <<delivered, closed>>

\* A batch: the n oldest messages at once.
Deliver(n) ==
    /\ delivered' = delivered \o SubSeq(queue, 1, n)
    /\ queue' = SubSeq(queue, n + 1, Len(queue))
    /\ UNCHANGED closed

Close ==
    /\ queue = <<>>
    /\ closed' = TRUE
    /\ UNCHANGED <<queue, delivered>>

Next ==
    \/ \E m \in Message : Accept(m)
    \/ \E n \in 1..Len(queue) : Deliver(n)
    \/ Close

Spec == Init /\ [][Next]_vars

=============================================================================
