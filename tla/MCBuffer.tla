------------------------------ MODULE MCBuffer ------------------------------
(***************************************************************************)
(* Buffer on a vector that starts with one byte, doubles once or twice and *)
(* then grows linearly, with every operation in every position.            *)
(***************************************************************************)
EXTENDS Buffer

=============================================================================
