--------------------------- MODULE MCServerOutput ---------------------------
(* ServerOutput for TLC. *)
EXTENDS ServerOutput, TLC

=============================================================================
