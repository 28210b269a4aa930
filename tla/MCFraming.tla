----------------------------- MODULE MCFraming -----------------------------
(* Framing for TLC. *)
EXTENDS Framing, TLC

=============================================================================
