--------------------------- MODULE MCLinuxClient ---------------------------
(* LinuxClient for TLC. *)
EXTENDS LinuxClient, TLC

=============================================================================
