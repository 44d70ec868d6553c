--------------------------- MODULE MCAsyncWorker ---------------------------
(***************************************************************************)
(* AsyncWorker with three producers that each push once (nothing depends   *)
(* on whose call a call is), messages below and above the swap threshold,  *)
(* and every moment at which the owner can stop or destroy the worker.     *)
(***************************************************************************)
EXTENDS AsyncWorker

=============================================================================
