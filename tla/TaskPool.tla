------------------------------ MODULE TaskPool ------------------------------
(***************************************************************************)
(* What asynclog::ThreadPool promises: a bounded first-in first-out queue  *)
(* of tasks.  An accepted task is begun once, in its turn, and a pool that *)
(* is closed has neither a waiting nor a running task.                     *)
(***************************************************************************)
EXTENDS Integers, Sequences

CONSTANTS Task, Capacity

VARIABLES
    waiting,    \* accepted, not yet begun
    running,    \* begun, not yet finished
    finished,
    closed      \* no thread of the pool is left

vars == <<waiting, running, finished, closed>>

Init ==
    /\ waiting = <<>>
    /\ running = {}
    /\ finished = {}
    /\ closed = FALSE

Accept(t) ==
    /\ ~closed
    /\ Len(waiting) < Capacity
    /\ waiting' = Append(waiting, t)
    /\ UNCHANGED <<running, finished, closed>>

Begin ==
    /\ waiting # <<>>
    /\ waiting' = Tail(waiting)
    /\ Head(waiting) \notin running \cup finished
    /\ running' = running \cup {Head(waiting)}
    /\ UNCHANGED <<finished, closed>>

Finish(t) ==
    /\ t \in running
    /\ running' = running \ {t}
    /\ finished' = finished \cup {t}
    /\ UNCHANGED <<waiting, closed>>

Close ==
    /\ waiting = <<>>
    /\ running = {}
    /\ closed' = TRUE
    /\ UNCHANGED <<waiting, running, finished>>

Next ==
    \/ Begin
    \/ \E t \in Task : Accept(t) \/ Finish(t)
    \/ Close

Spec == Init /\ [][Next]_vars

=============================================================================
