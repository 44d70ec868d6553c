---------------------------- MODULE MCThreadPool ----------------------------
(***************************************************************************)
(* ThreadPool with three workers and two clients that each enqueue up to   *)
(* twice into a queue of two, stopped and destroyed at any moment.         *)
(***************************************************************************)
EXTENDS ThreadPool

=============================================================================
