---------------------------- MODULE LinuxServer ----------------------------
(***************************************************************************)
(* The generated Linux server (templates/linux/server.c): a fixed array of *)
(* client slots threaded on three lists (free, connected, pending          *)
(* disconnect), a socket and a 3 s keep-alive timerfd per client, and      *)
(* callbacks into a single-threaded application that may call send(),      *)
(* reply(), broadcast() and disconnect() from them.                        *)
(*                                                                         *)
(* The linked lists are modelled pointer by pointer, one operator per list *)
(* function of the code.  Whether a write() to a client succeeds is a      *)
(* choice (module ServerOutput has the output queue), and so is what a     *)
(* read() brings (module Framing has the reassembly of messages).          *)
(***************************************************************************)
EXTENDS Naturals, FiniteSets

CONSTANTS
    ClientsMax,          \* clients_max of init()
    CallsInDisconnected, \* the application also calls the server from
                         \* on_client_disconnected()
    StaleNumbers         \* after stop() the number of a timer may be one that
                         \* a failed client_init() left in a free client

ASSUME ClientsMaxAssumption == ClientsMax \in Nat \ {0}
ASSUME CallsAssumption == CallsInDisconnected \in BOOLEAN
ASSUME StaleAssumption == StaleNumbers \in BOOLEAN

Slots == 1..ClientsMax
NULL == 0
Uninit == ClientsMax + 1  \* a pointer nobody has assigned
Pointers == Slots \cup {NULL}

\* Enough descriptor numbers for the listener, every client, and one accept()
\* too many.
Fds == 1..(2 * ClientsMax + 2)
NoFd == 0                 \* the value -1

Callbacks == {"on_client_connected", "on_message", "on_client_disconnected"}
Points == {"initialized", "idle", "read", "destroy", "broadcast", "stop"}
              \cup Callbacks

VARIABLES
    lists,     \* the list heads, and next_p and prev_p of every slot
    client_fd, keep_alive_timer_fd,  \* of every slot
    listener_fd,
    stopped,   \* stop() was called
    current_client_p,
    open,      \* open descriptors of the server
    pc,        \* where control is
    client_p,  \* the local variable client_p of process() and stop()
    bcast,     \* broadcast(): its client_p, the clients it still owes the
               \* message to (history), and where it was called from
    known      \* history: clients reported as connected, and not yet as
               \* disconnected

vars == <<lists, client_fd, keep_alive_timer_fd, listener_fd, stopped,
          current_client_p, open, pc, client_p, bcast, known>>
fields == <<lists, client_fd, keep_alive_timer_fd, open>>

TypeOK ==
    /\ lists \in [free_list_p : Pointers, connected_list_p : Pointers,
                  pending_disconnect_list_p : Pointers,
                  next_p : [Slots -> Pointers \cup {Uninit}],
                  prev_p : [Slots -> Pointers \cup {Uninit}],
                  wild : BOOLEAN]
    /\ client_fd \in [Slots -> Fds \cup {NoFd}]
    /\ keep_alive_timer_fd \in [Slots -> Fds \cup {NoFd}]
    /\ listener_fd \in Fds \cup {NoFd}
    /\ stopped \in BOOLEAN
    /\ current_client_p \in Pointers
    /\ open \subseteq Fds
    /\ pc \in Points
    /\ client_p \in Pointers
    /\ bcast \in [client_p : Pointers, owed : SUBSET Slots, back : Points]
    /\ known \subseteq Slots

-----------------------------------------------------------------------------
(* The list functions, as functions of the memory l they work on.          *)
(* l.wild records that a pointer that is not a client was followed.        *)

alloc_client(l) ==
    LET c == l.free_list_p
        old == l.connected_list_p
    IN  [l EXCEPT !.free_list_p = l.next_p[c],
                  !.next_p[c] = old,
                  !.prev_p = IF old = NULL THEN @ ELSE [@ EXCEPT ![old] = c],
                  !.connected_list_p = c]

\* Mutant: the back link of the next client is left as it was.
remove_client_no_back_link(l, head, c) ==
    IF c = head THEN l
    ELSE [l EXCEPT !.next_p[l.prev_p[c]] = l.next_p[c]]

\* The part of remove_client_from_list() that works on next_p and prev_p;
\* head is *list_pp.
remove_client_links(l, head, c) ==
    LET prev == l.prev_p[c]
        next == l.next_p[c]
        forward == IF c = head \/ prev \notin Slots THEN l
                   ELSE [l EXCEPT !.next_p[prev] = next]
    IN  [forward EXCEPT
            !.prev_p = IF next \notin Slots THEN @
                                            ELSE [@ EXCEPT ![next] = prev],
            !.wild = @ \/ (c # head /\ prev \notin Slots)]

\* Mutant: next_p and prev_p swapped.
remove_client_head_prev(l, head, c) == IF c = head THEN l.prev_p[c] ELSE head

\* The new value of *list_pp.
remove_client_head(l, head, c) == IF c = head THEN l.next_p[c] ELSE head

push_free(l, c) ==
    [l EXCEPT !.next_p[c] = l.free_list_p, !.free_list_p = c]

free_connected_client(l, c) ==
    LET head == l.connected_list_p
    IN  push_free([remove_client_links(l, head, c) EXCEPT
                      !.connected_list_p = remove_client_head(l, head, c)], c)

free_pending_disconnect_client(l, c) ==
    LET head == l.pending_disconnect_list_p
    IN  push_free([remove_client_links(l, head, c) EXCEPT
                      !.pending_disconnect_list_p =
                          remove_client_head(l, head, c)], c)

move_client_to_pending_disconnect_list(l, c) ==
    LET head == l.connected_list_p
        removed == [remove_client_links(l, head, c) EXCEPT
                       !.connected_list_p = remove_client_head(l, head, c)]
    IN  [removed EXCEPT !.next_p[c] = l.pending_disconnect_list_p,
                        !.pending_disconnect_list_p = c]

\* The clients met by following next_p from head: those in every set that
\* holds head and, with each client, the next one.
Members(l, head) ==
    {c \in Slots : \A S \in SUBSET Slots :
        /\ head \in Slots => head \in S
        /\ \A d \in S : l.next_p[d] \in Slots => l.next_p[d] \in S
        => c \in S}

Connected == Members(lists, lists.connected_list_p)
Pending == Members(lists, lists.pending_disconnect_list_p)
FreeSlots == Members(lists, lists.free_list_p)

-----------------------------------------------------------------------------
\* Control is at p.  A process that has followed an invalid pointer is taken
\* to have crashed.
At(p) == pc = p /\ ~lists.wild

(* Descriptors: the kernel hands out the lowest free number. *)

Lowest(S) == CHOOSE f \in Fds \ S : \A g \in Fds \ S : f <= g

\* client_pending_disconnect(): closed once, -1 tells the second call.
client_pending_disconnect(c) ==
    \/ client_fd[c] = NoFd /\ UNCHANGED fields
    \/ /\ client_fd[c] # NoFd
       /\ open' = open \ {client_fd[c]}
       /\ client_fd' = [client_fd EXCEPT ![c] = NoFd]
       /\ lists' = move_client_to_pending_disconnect_list(lists, c)
       /\ UNCHANGED keep_alive_timer_fd

\* client_write(): the bytes are written or queued, or the client is
\* disconnected; write(-1) can only fail.
client_write(c) ==
    \/ client_fd[c] # NoFd /\ UNCHANGED fields
    \/ client_pending_disconnect(c)

-----------------------------------------------------------------------------
(* process() on the listener. *)

Start ==
    /\ At("initialized")
    /\ listener_fd' = Lowest(open)
    /\ open' = open \cup {Lowest(open)}
    /\ pc' = "idle"
    /\ UNCHANGED <<lists, client_fd, keep_alive_timer_fd, stopped,
                   current_client_p, client_p, bcast, known>>

\* process() goes on with destroy_pending_disconnect_clients().
Destroy(l) ==
    /\ pc' = "destroy"
    /\ client_p' = l.pending_disconnect_list_p

\* epoll reports the listener while it is open.
Accepting == At("idle") /\ ~stopped

\* The connection is closed again: a call on the new socket failed, or there
\* is no free client.
RejectClient ==
    /\ Accepting
    /\ Destroy(lists)
    /\ UNCHANGED <<fields, listener_fd, stopped, current_client_p, bcast,
                   known>>

\* client_init() fails for a client already taken from the free list.
ClientInitFails ==
    /\ Accepting
    /\ lists.free_list_p # NULL
    /\ LET c == lists.free_list_p
           fd == Lowest(open)
       IN  /\ lists' = free_connected_client(alloc_client(lists), c)
           /\ client_fd' = [client_fd EXCEPT ![c] = fd]
           /\ \E timer_fd \in {NoFd, Lowest(open \cup {fd})} :
                  keep_alive_timer_fd' =
                      [keep_alive_timer_fd EXCEPT ![c] = timer_fd]
           /\ Destroy(lists')
    /\ UNCHANGED <<listener_fd, stopped, current_client_p, open, bcast,
                   known>>

AcceptClient ==
    /\ Accepting
    /\ lists.free_list_p # NULL
    /\ LET c == lists.free_list_p
           fd == Lowest(open)
           timer_fd == Lowest(open \cup {fd})
       IN  /\ lists' = alloc_client(lists)
           /\ client_fd' = [client_fd EXCEPT ![c] = fd]
           /\ keep_alive_timer_fd' =
                  [keep_alive_timer_fd EXCEPT ![c] = timer_fd]
           /\ open' = open \cup {fd, timer_fd}
           /\ known' = known \cup {c}
           /\ client_p' = c
    /\ pc' = "on_client_connected"
    /\ UNCHANGED <<listener_fd, stopped, current_client_p, bcast>>

OnClientConnectedReturns ==
    /\ At("on_client_connected")
    /\ Destroy(lists)
    /\ UNCHANGED <<fields, listener_fd, stopped, current_client_p, bcast,
                   known>>

-----------------------------------------------------------------------------
(* process() on a descriptor of a client. *)

\* The first client from connected_list_p on that f belongs to, or NULL: the
\* one from which the list leads to all others.  stop() leaves that pointer as
\* it is: process() then compares f with the numbers in a client stop() has
\* freed and goes on into the rest of the free list, where (StaleNumbers) a
\* failed client_init() may have left the number that f has now.
Owner(f) ==
    LET owners == {c \in Connected :
                      /\ f \in {client_fd[c], keep_alive_timer_fd[c]}
                      /\ StaleNumbers \/ c \in known}
    IN  IF owners = {} THEN NULL
        ELSE CHOOSE c \in owners : owners \subseteq Members(lists, c)

\* process_client_socket(): EPOLLOUT first (the queue is flushed, or the
\* write fails and the client goes), then EPOLLIN.
ProcessClientSocket ==
    /\ At("idle")
    /\ \E f \in open, c \in Slots :
           /\ c = Owner(f) /\ f = client_fd[c]
           /\ client_write(c)
           /\ \/ pc' = "read" /\ client_p' = c
              \/ Destroy(lists')
    /\ UNCHANGED <<listener_fd, stopped, current_client_p, bcast, known>>

\* process_client_socket_in(): no more to read.
ReadWouldBlock ==
    /\ At("read")
    /\ client_fd[client_p] # NoFd
    /\ Destroy(lists)
    /\ UNCHANGED <<fields, listener_fd, stopped, current_client_p, bcast,
                   known>>

\* End of file or an error (certain once the socket is closed), a message
\* that is too big, unknown or does not decode, or a ping for which the
\* keep-alive timer cannot be set.
ReadFails ==
    /\ At("read")
    /\ client_pending_disconnect(client_p)
    /\ Destroy(lists')
    /\ UNCHANGED <<listener_fd, stopped, current_client_p, bcast, known>>

ReadPing ==
    /\ At("read")
    /\ client_fd[client_p] # NoFd
    /\ client_write(client_p)
    /\ UNCHANGED <<listener_fd, stopped, current_client_p, pc, client_p,
                   bcast, known>>

ReadUserMessage ==
    /\ At("read")
    /\ client_fd[client_p] # NoFd
    /\ current_client_p' = client_p
    /\ pc' = "on_message"
    /\ UNCHANGED <<fields, listener_fd, stopped, client_p, bcast, known>>

OnMessageReturns ==
    /\ At("on_message")
    /\ current_client_p' = NULL
    /\ pc' = "read"
    /\ UNCHANGED <<fields, listener_fd, stopped, client_p, bcast, known>>

ProcessKeepAliveTimer ==
    /\ At("idle")
    /\ \E f \in open, c \in Slots :
           /\ c = Owner(f) /\ f # client_fd[c]
           /\ client_pending_disconnect(c)
    /\ Destroy(lists')
    /\ UNCHANGED <<listener_fd, stopped, current_client_p, bcast, known>>

\* Mutant: process() returns when the descriptor is of no connected client.
ProcessOtherFdReturns ==
    /\ At("idle")
    /\ \E f \in open \ {listener_fd} : Owner(f) = NULL
    /\ UNCHANGED vars

\* A descriptor of no connected client: the timer of one whose disconnect is
\* pending, which stop() leaves open and registered with epoll.
ProcessOtherFd ==
    /\ At("idle")
    /\ \E f \in open \ {listener_fd} : Owner(f) = NULL
    /\ Destroy(lists)
    /\ UNCHANGED <<fields, listener_fd, stopped, current_client_p, bcast,
                   known>>

-----------------------------------------------------------------------------
(* The loop of destroy_pending_disconnect_clients(). *)

\* Mutant: the timer's descriptor is forgotten, not closed.
DestroyClientNoClose ==
    /\ At("destroy")
    /\ client_p # NULL
    /\ keep_alive_timer_fd' = [keep_alive_timer_fd EXCEPT ![client_p] = NoFd]
    /\ pc' = "on_client_disconnected"
    /\ known' = known \ {client_p}
    /\ UNCHANGED <<lists, client_fd, listener_fd, stopped, current_client_p,
                   open, client_p, bcast>>

DestroyClient ==
    /\ At("destroy")
    /\ client_p # NULL
    /\ open' = open \ {keep_alive_timer_fd[client_p]}
    /\ keep_alive_timer_fd' = [keep_alive_timer_fd EXCEPT ![client_p] = NoFd]
    /\ pc' = "on_client_disconnected"
    /\ known' = known \ {client_p}
    /\ UNCHANGED <<lists, client_fd, listener_fd, stopped, current_client_p,
                   client_p, bcast>>

\* Mutant: the client is freed again in the next round.
OnClientDisconnectedReturnsKeeping ==
    /\ At("on_client_disconnected")
    /\ client_p' = lists.next_p[client_p]
    /\ pc' = "destroy"
    /\ UNCHANGED <<fields, listener_fd, stopped, current_client_p, bcast,
                   known>>

OnClientDisconnectedReturns ==
    /\ At("on_client_disconnected")
    /\ client_p' = lists.next_p[client_p]
    /\ lists' = free_pending_disconnect_client(lists, client_p)
    /\ pc' = "destroy"
    /\ UNCHANGED <<client_fd, keep_alive_timer_fd, listener_fd, stopped,
                   current_client_p, open, bcast, known>>

ProcessReturns ==
    /\ At("destroy")
    /\ client_p = NULL
    /\ pc' = "idle"
    /\ UNCHANGED <<fields, listener_fd, stopped, current_client_p, client_p,
                   bcast, known>>

-----------------------------------------------------------------------------
(* The calls of the application. *)

\* Where the application calls the server: anywhere but after stop().
MayCall ==
    /\ ~stopped
    /\ \/ At("idle") \/ At("on_client_connected") \/ At("on_message")
       \/ CallsInDisconnected /\ At("on_client_disconnected")

\* send() to a client the application knows of; reply() is send() to
\* current_client_p, which is one of them.
Send ==
    /\ MayCall
    /\ \E c \in known : client_write(c)
    /\ UNCHANGED <<listener_fd, stopped, current_client_p, pc, client_p,
                   bcast, known>>

\* disconnect() of a given client, or of the current one.
Disconnect ==
    /\ MayCall
    /\ \E c \in known \cup ({current_client_p} \ {NULL}) :
           client_pending_disconnect(c)
    /\ UNCHANGED <<listener_fd, stopped, current_client_p, pc, client_p,
                   bcast, known>>

Broadcast ==
    /\ MayCall
    /\ bcast' = [client_p |-> lists.connected_list_p, owed |-> Connected,
                 back |-> pc]
    /\ pc' = "broadcast"
    /\ UNCHANGED <<fields, listener_fd, stopped, current_client_p, client_p,
                   known>>

\* Mutant: the next client is looked up after the write.
BroadcastWriteNextAfter ==
    /\ At("broadcast")
    /\ bcast.client_p # NULL
    /\ client_write(bcast.client_p)
    /\ bcast' = [bcast EXCEPT !.client_p = lists'.next_p[@],
                              !.owed = @ \ {bcast.client_p}]
    /\ UNCHANGED <<listener_fd, stopped, current_client_p, pc, client_p,
                   known>>

\* One round of the loop: next_p is read before the client may be moved.
BroadcastWrite ==
    /\ At("broadcast")
    /\ bcast.client_p # NULL
    /\ client_write(bcast.client_p)
    /\ bcast' = [bcast EXCEPT !.client_p = lists.next_p[@],
                              !.owed = @ \ {bcast.client_p}]
    /\ UNCHANGED <<listener_fd, stopped, current_client_p, pc, client_p,
                   known>>

BroadcastReturns ==
    /\ At("broadcast")
    /\ bcast.client_p = NULL
    /\ pc' = bcast.back
    /\ bcast' = [client_p |-> NULL, owed |-> {}, back |-> "idle"]
    /\ UNCHANGED <<fields, listener_fd, stopped, current_client_p, client_p,
                   known>>

\* stop() is called once, outside of callbacks.
Stop ==
    /\ At("idle")
    /\ ~stopped
    /\ open' = open \ {listener_fd}
    /\ client_p' = lists.connected_list_p
    /\ pc' = "stop"
    /\ stopped' = TRUE
    /\ UNCHANGED <<lists, client_fd, keep_alive_timer_fd, listener_fd,
                   current_client_p, bcast, known>>

\* Mutant: the timers are left open.
StopClientKeepsTimer ==
    /\ At("stop")
    /\ client_p # NULL
    /\ open' = open \ {client_fd[client_p]}
    /\ lists' = push_free(lists, client_p)
    /\ client_p' = lists.next_p[client_p]
    /\ UNCHANGED <<client_fd, keep_alive_timer_fd, listener_fd, stopped,
                   current_client_p, pc, bcast, known>>

\* One round of the loop of stop(); the list head and the descriptor fields
\* are left as they are.
StopClient ==
    /\ At("stop")
    /\ client_p # NULL
    /\ open' = open \ {client_fd[client_p], keep_alive_timer_fd[client_p]}
    /\ lists' = push_free(lists, client_p)
    /\ client_p' = lists.next_p[client_p]
    /\ UNCHANGED <<client_fd, keep_alive_timer_fd, listener_fd, stopped,
                   current_client_p, pc, bcast, known>>

StopReturns ==
    /\ At("stop")
    /\ client_p = NULL
    /\ pc' = "idle"
    /\ UNCHANGED <<fields, listener_fd, stopped, current_client_p, client_p,
                   bcast, known>>

-----------------------------------------------------------------------------

\* The state init() leaves: every client on the free list, in array order.
Init ==
    /\ lists = [free_list_p |-> 1, connected_list_p |-> NULL,
                pending_disconnect_list_p |-> NULL,
                next_p |-> [c \in Slots |-> IF c = ClientsMax THEN NULL
                                                              ELSE c + 1],
                prev_p |-> [c \in Slots |-> Uninit],
                wild |-> FALSE]
    /\ client_fd = [c \in Slots |-> NoFd]
    /\ keep_alive_timer_fd = [c \in Slots |-> NoFd]
    /\ listener_fd = NoFd
    /\ stopped = FALSE
    /\ current_client_p = NULL
    /\ open = {}
    /\ pc = "initialized"
    /\ client_p = NULL
    /\ bcast = [client_p |-> NULL, owed |-> {}, back |-> "idle"]
    /\ known = {}

Process ==
    \/ RejectClient
    \/ ClientInitFails
    \/ AcceptClient
    \/ OnClientConnectedReturns
    \/ ProcessClientSocket
    \/ ReadWouldBlock
    \/ ReadFails
    \/ ReadPing
    \/ ReadUserMessage
    \/ OnMessageReturns
    \/ ProcessKeepAliveTimer
    \/ ProcessOtherFd
    \/ DestroyClient
    \/ OnClientDisconnectedReturns
    \/ ProcessReturns

Application ==
    \/ Start
    \/ Send
    \/ Disconnect
    \/ Broadcast
    \/ BroadcastWrite
    \/ BroadcastReturns
    \/ Stop
    \/ StopClient
    \/ StopReturns

Next == Process \/ Application

Spec == Init /\ [][Next]_vars

\* Expired timers are handed to process() (epoll serves its ready list in
\* turn), callbacks return, and no client outpaces the read loop for ever.
Fairness ==
    /\ SF_vars(ProcessOtherFd)
    /\ SF_vars(ReadWouldBlock \/ ReadFails)
    /\ SF_vars(OnClientConnectedReturns)
    /\ SF_vars(OnMessageReturns)
    /\ WF_vars(DestroyClient)
    /\ WF_vars(OnClientDisconnectedReturns)
    /\ WF_vars(ProcessReturns)
    /\ WF_vars(BroadcastWrite)
    /\ WF_vars(BroadcastReturns)
    /\ WF_vars(StopClient)
    /\ WF_vars(StopReturns)

FairSpec == Spec /\ Fairness

-----------------------------------------------------------------------------
(* Properties. *)

Running == ~stopped

\* The client whose on_client_disconnected() is running: reported, but not
\* yet off the pending list.
Reporting ==
    IF "on_client_disconnected" \in {pc, bcast.back} THEN {client_p} ELSE {}

\* Every slot is on exactly one of the three lists, whose pointers make no
\* cycle; the back links that remove_client_from_list() will follow are
\* right although alloc_client() and the pending list do not maintain all of
\* them; and no invalid pointer was ever followed.
ListsWellFormed ==
    Running =>
        /\ Connected \cup Pending \cup FreeSlots = Slots
        /\ Connected \cap (Pending \cup FreeSlots) = {}
        /\ Pending \cap FreeSlots = {}
        /\ \A c \in Slots :
               /\ c \notin Members(lists, lists.next_p[c])
               /\ c \in Connected /\ lists.next_p[c] # NULL
                      => lists.prev_p[lists.next_p[c]] = c
        /\ ~lists.wild

\* No client is lost: the ones reported to the application as connected and
\* not as disconnected are the ones on the connected and pending lists.
KnownClientsServed ==
    Running => (Connected \cup Pending) \ Reporting = known

\* client_fd = -1, the test for "already pending", agrees with the lists, and
\* the open descriptors are exactly the listener's, two for every connected
\* client and the timer of every pending one, all different.
DescriptorsOwned ==
    LET timers == (Connected \cup Pending) \ Reporting
    IN  Running =>
        /\ \A c \in Pending : client_fd[c] = NoFd
        /\ open = ({listener_fd} \ {NoFd})
                  \cup {client_fd[c] : c \in Connected}
                  \cup {keep_alive_timer_fd[c] : c \in timers}
        /\ pc # "initialized" =>
               Cardinality(open) =
                   1 + Cardinality(Connected) + Cardinality(timers)

\* on_client_disconnected() is called once for each client that was reported
\* connected, and not for any other.
ReportedOnce ==
    [][pc' = "on_client_disconnected" /\ pc # "on_client_disconnected"
       /\ pc # "broadcast" => client_p' \in known]_vars

\* What the application sees of the server, for ServerLifecycle.
Phase == IF pc = "initialized" THEN "initialized"
         ELSE IF Running THEN "started" ELSE "stopped"

Call ==
    LET at == IF pc = "broadcast" THEN bcast.back ELSE pc
    IN  IF at \in Callbacks THEN <<at, client_p>> ELSE <<>>

Lost == Pending \ Reporting

Lifecycle == INSTANCE ServerLifecycle
             WITH Clients <- Slots, phase <- Phase, lost <- Lost, call <- Call

\* A client is announced, sends messages until it is lost, which the pending
\* list stands for, and is then reported once; callbacks do not nest.  After
\* stop() no client is announced and no message is handed out, although
\* process() still walks the freed clients; the clients lost before may still
\* be reported, by process() on one of their timers.
ImplementsLifecycle == Lifecycle!Spec

\* broadcast() reaches every client that was connected when it was called,
\* although a failing write takes clients off the list it walks.
BroadcastReachesAll ==
    pc = "broadcast" /\ bcast.client_p = NULL => bcast.owed = {}

\* stop() closes what the server holds, except the timers of clients whose
\* disconnect is still pending, which it does not look at; a process() after
\* it closes these and nothing else.
StopCloses ==
    stopped /\ pc # "stop" =>
        open = {keep_alive_timer_fd[c] : c \in Pending \ Reporting}

\* A client whose disconnect became pending outside process() is reported,
\* because its keep-alive timer keeps running, unless the server is stopped.
PendingIsReported ==
    \A c \in Slots : c \in Pending ~> c \notin known \/ ~Running

=============================================================================
