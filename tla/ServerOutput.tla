---------------------------- MODULE ServerOutput ----------------------------
(***************************************************************************)
(* The output side of one client of the Linux server (server.c):           *)
(* client_write() writes what the non-blocking socket takes and queues the *)
(* rest, process_client_socket_out() flushes the queue when epoll reports  *)
(* the socket writable, and a disconnect frees the queue.                  *)
(*                                                                         *)
(* A message is an interval of the stream of bytes handed to client_write()*)
(* on a connection: its first byte and its size.  The wire has received    *)
(* the first `wired' bytes of the stream as long as nothing is skipped.    *)
(*                                                                         *)
(* epoll_ctl_mod() is taken to succeed: the descriptor it is called with   *)
(* is open and registered, and both callers ignore its result.             *)
(***************************************************************************)
EXTENDS Integers, Sequences

CONSTANTS
    MaxMessage,   \* largest message, header included
    MaxProduced,  \* bound on the bytes handed to client_write()
    LateErrors,   \* write() may fail after a flush has freed an item
    SendsToPending \* the application sends to a client whose disconnect is
                  \* pending

ASSUME SizesAssumption == MaxMessage \in Nat \ {0} /\ MaxProduced \in Nat
ASSUME FaultsAssumption == LateErrors \in BOOLEAN /\ SendsToPending \in BOOLEAN

VARIABLES
    connected,  \* client_fd # -1
    queue,      \* the items from item_p on: <<[first, size], ...>>
    head_p,     \* "null", "first" (the first item of queue), or "freed" (an
                \* item that was freed)
    epollout,   \* EPOLLOUT is registered for the socket
    pc,         \* "idle", or in the loop of "write" or "flush"
    buf,        \* what the loop of client_write() has left to write
    produced,   \* history: bytes handed to client_write() on the connection
    wired,      \* history: bytes of them written to the socket
    dropped,    \* history: bytes of the connection were dropped
    corrupted   \* history: an item was used after it was freed

vars == <<connected, queue, head_p, epollout, pc, buf, produced, wired,
          dropped, corrupted>>

Pieces == [first : Nat, size : Nat]

TypeOK ==
    /\ connected \in BOOLEAN
    /\ queue \in Seq(Pieces)
    /\ head_p \in {"null", "first", "freed"}
    /\ epollout \in BOOLEAN
    /\ pc \in {"idle", "write", "flush"}
    /\ buf \in Pieces
    /\ produced \in Nat
    /\ wired \in Nat
    /\ dropped \in BOOLEAN
    /\ corrupted \in BOOLEAN

-----------------------------------------------------------------------------

\* Mutant: EPOLLOUT is not requested for the first item.
AppendSilently(item) ==
    /\ queue' = Append(queue, item)
    /\ head_p' = "first"
    /\ UNCHANGED <<epollout, dropped>>

\* client_output_append().  When malloc() fails the bytes are dropped, and
\* nobody is told.
client_output_append(item) ==
    \/ /\ queue' = Append(queue, item)
       /\ IF head_p = "null" THEN head_p' = "first" /\ epollout' = TRUE
                             ELSE UNCHANGED <<head_p, epollout>>
       /\ UNCHANGED dropped
    \/ /\ dropped' = TRUE
       /\ UNCHANGED <<queue, head_p, epollout>>

\* client_pending_disconnect() with free_client_output(), which frees from
\* head_p on; new_head is what the caller leaves in head_p.
client_pending_disconnect(new_head) ==
    /\ connected' = FALSE
    /\ queue' = <<>>
    /\ epollout' = FALSE
    /\ corrupted' = (corrupted \/ head_p = "freed")
    /\ head_p' = new_head

\* client_init().
Connect ==
    /\ ~connected
    /\ connected' = TRUE
    /\ head_p' = "null"
    /\ produced' = 0
    /\ wired' = 0
    /\ dropped' = FALSE
    /\ UNCHANGED <<queue, epollout, pc, buf, corrupted>>

-----------------------------------------------------------------------------
(* client_write(). *)

\* Mutant: a message overtakes the ones in the queue.
WriteOvertakes ==
    /\ pc = "idle"
    /\ connected
    /\ \E size \in 1..MaxMessage :
           /\ produced + size <= MaxProduced
           /\ produced' = produced + size
           /\ buf' = [first |-> produced, size |-> size]
           /\ pc' = "write"
    /\ UNCHANGED <<connected, queue, head_p, epollout, wired, dropped,
                   corrupted>>

\* A message goes behind the ones in the queue, or into the write loop.
WriteConnected ==
    /\ connected
    /\ \E size \in 1..MaxMessage :
           /\ produced + size <= MaxProduced
           /\ produced' = produced + size
           /\ \/ /\ head_p # "null"
                 /\ client_output_append([first |-> produced, size |-> size])
                 /\ UNCHANGED <<pc, buf>>
              \/ /\ head_p = "null"
                 /\ buf' = [first |-> produced, size |-> size]
                 /\ pc' = "write"
                 /\ UNCHANGED <<queue, head_p, epollout, dropped>>
    /\ UNCHANGED <<connected, wired, corrupted>>

\* The client's disconnect is pending.  With head_p NULL write(-1) fails and
\* client_pending_disconnect() returns at once: nothing changes.  With the
\* head_p a failed flush leaves, the message is linked to the freed tail_p.
WritePending ==
    /\ SendsToPending
    /\ ~connected
    /\ head_p = "freed"
    /\ corrupted' = TRUE
    /\ UNCHANGED <<connected, queue, head_p, epollout, pc, buf, produced,
                   wired, dropped>>

Write ==
    /\ pc = "idle"
    /\ WriteConnected \/ WritePending

\* write() takes n bytes of the rest.
WriteSome ==
    /\ pc = "write"
    /\ \E n \in 1..buf.size :
           /\ wired' = wired + n
           /\ buf' = [first |-> buf.first + n, size |-> buf.size - n]
           /\ pc' = IF n = buf.size THEN "idle" ELSE "write"
    /\ UNCHANGED <<connected, queue, head_p, epollout, produced, dropped,
                   corrupted>>

WriteWouldBlock ==
    /\ pc = "write"
    /\ client_output_append(buf)
    /\ buf' = [first |-> 0, size |-> 0]
    /\ pc' = "idle"
    /\ UNCHANGED <<connected, produced, wired, corrupted>>

WriteError ==
    /\ pc = "write"
    /\ client_pending_disconnect("null")
    /\ pc' = "idle"
    /\ UNCHANGED <<buf, produced, wired, dropped>>

-----------------------------------------------------------------------------
(* process_client_socket_out(). *)

Flush ==
    /\ pc = "idle"
    /\ connected
    /\ epollout
    /\ pc' = "flush"
    /\ UNCHANGED <<connected, queue, head_p, epollout, buf, produced, wired,
                   dropped, corrupted>>

\* write() takes n bytes of the first item; an item written in full is freed
\* while head_p still points to it.
FlushSome ==
    /\ pc = "flush"
    /\ queue # <<>>
    /\ \E n \in 1..Head(queue).size :
           /\ wired' = wired + n
           /\ IF n = Head(queue).size
              THEN queue' = Tail(queue) /\ head_p' = "freed"
              ELSE /\ queue' = [queue EXCEPT ![1] = [first |-> @.first + n,
                                                     size |-> @.size - n]]
                   /\ UNCHANGED head_p
    /\ UNCHANGED <<connected, epollout, pc, buf, produced, dropped, corrupted>>

\* Mutant: head_p is left pointing to an item that was freed.
FlushWouldBlockKeepsHead ==
    /\ pc = "flush"
    /\ queue # <<>>
    /\ pc' = "idle"
    /\ UNCHANGED <<connected, queue, head_p, epollout, buf, produced, wired,
                   dropped, corrupted>>

FlushWouldBlock ==
    /\ pc = "flush"
    /\ queue # <<>>
    /\ head_p' = "first"
    /\ pc' = "idle"
    /\ UNCHANGED <<connected, queue, epollout, buf, produced, wired, dropped,
                   corrupted>>

FlushDone ==
    /\ pc = "flush"
    /\ queue = <<>>
    /\ head_p' = "null"
    /\ epollout' = FALSE
    /\ pc' = "idle"
    /\ UNCHANGED <<connected, queue, buf, produced, wired, dropped, corrupted>>

\* head_p is set back to item_p, which the disconnect has freed.
FlushError ==
    /\ pc = "flush"
    /\ queue # <<>>
    /\ LateErrors \/ head_p # "freed"
    /\ client_pending_disconnect("freed")
    /\ pc' = "idle"
    /\ UNCHANGED <<buf, produced, wired, dropped>>

\* Any other cause: the input side, the keep-alive timer or the application.
Disconnect ==
    /\ pc = "idle"
    /\ connected
    /\ client_pending_disconnect("null")
    /\ UNCHANGED <<pc, buf, produced, wired, dropped>>

-----------------------------------------------------------------------------

Init ==
    /\ connected = FALSE
    /\ queue = <<>>
    /\ head_p = "null"
    /\ epollout = FALSE
    /\ pc = "idle"
    /\ buf = [first |-> 0, size |-> 0]
    /\ produced = 0
    /\ wired = 0
    /\ dropped = FALSE
    /\ corrupted = FALSE

Next ==
    \/ Connect
    \/ Write
    \/ WriteSome
    \/ WriteWouldBlock
    \/ WriteError
    \/ Flush
    \/ FlushSome
    \/ FlushWouldBlock
    \/ FlushDone
    \/ FlushError
    \/ Disconnect

Spec == Init /\ [][Next]_vars

\* epoll reports a writable socket again and again, and a peer that is alive
\* makes room: the loops make progress.
Fairness ==
    /\ WF_vars(Flush)
    /\ SF_vars(FlushSome)
    /\ WF_vars(FlushDone)
    /\ WF_vars(WriteSome)

FairSpec == Spec /\ Fairness

-----------------------------------------------------------------------------
(* Properties. *)

\* What is left to write: of a message in the loop of client_write(), which
\* is entered with an empty queue only, or in the queue.
Unwritten == IF pc = "write" THEN <<buf>> ELSE queue

\* The first piece starts at `from', each one where the one before ends, and
\* the last one ends at `to'.
Contiguous(pieces, from, to) ==
    /\ Len(pieces) = 0 => from = to
    /\ Len(pieces) > 0 => /\ pieces[1].first = from
                          /\ pieces[Len(pieces)].first
                                 + pieces[Len(pieces)].size = to
    /\ \A i \in 1..(Len(pieces) - 1) :
           pieces[i + 1].first = pieces[i].first + pieces[i].size

\* On a live connection what was written and what is queued are together all
\* that was sent, in order, without a gap, until malloc() has failed on it:
\* the peer can find the messages in the stream.
InOrder == connected /\ ~dropped => Contiguous(Unwritten, wired, produced)

\* Between two events EPOLLOUT is registered if and only if there is output
\* to flush: neither is output stuck, nor does the loop spin.
EpolloutWhileQueued ==
    pc = "idle" =>
        /\ epollout <=> queue # <<>>
        /\ connected => (head_p = IF queue = <<>> THEN "null" ELSE "first")

\* An item of the queue is freed once, and neither free_client_output() nor
\* client_output_append() follows a pointer to it afterwards.
NoUseAfterFree == ~corrupted

\* How queue, head_p and the two loops go together: the part that makes the
\* invariants above inductive.
Structure ==
    /\ \A i \in 1..Len(queue) : queue[i].size > 0
    /\ ~connected => queue = <<>> /\ ~epollout /\ pc = "idle"
    /\ pc = "write" => /\ queue = <<>> /\ head_p = "null" /\ ~epollout
                       /\ buf.size > 0
    /\ pc = "flush" => /\ epollout
                       /\ head_p # "null"
                       /\ queue # <<>> \/ head_p = "freed"

\* The stream is eventually on the wire, unless the client is disconnected or
\* part of the stream was dropped.
Delivered ==
    connected /\ wired < produced ~> wired = produced \/ dropped \/ ~connected

=============================================================================
