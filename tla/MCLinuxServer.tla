--------------------------- MODULE MCLinuxServer ---------------------------
(* LinuxServer for TLC. *)
EXTENDS LinuxServer, TLC

\* The descriptor fields of a client on the free list are written by
\* client_init() before anyone reads them, except that process() reads those
\* of the clients stop() has freed: states that differ only in the numbers a
\* failed client_init() left are the same to TLC (with StaleNumbers FALSE).
Live(field) ==
    [c \in Slots |-> IF c \in FreeSlots \ known THEN NoFd ELSE field[c]]

View == <<lists, Live(client_fd), Live(keep_alive_timer_fd), listener_fd,
          stopped, current_client_p, open, pc, client_p, bcast, known>>

=============================================================================
