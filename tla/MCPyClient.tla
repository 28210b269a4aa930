----------------------------- MODULE MCPyClient -----------------------------
(* PyClient for TLC. *)
EXTENDS PyClient, TLC

=============================================================================
