--------------------------- MODULE MCAsyncLogger ---------------------------
(***************************************************************************)
(* AsyncLogger with two sinks, two callers that log up to three times      *)
(* between them, and a pool with room for one task.                        *)
(***************************************************************************)
EXTENDS AsyncLogger

=============================================================================
