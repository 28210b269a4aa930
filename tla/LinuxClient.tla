---------------------------- MODULE LinuxClient ----------------------------
(***************************************************************************)
(* The generated Linux client (templates/linux/client.c): one TCP socket,  *)
(* a 2 s keep-alive timerfd while connected, a 1 s reconnect timerfd while *)
(* disconnected, all of them in the epoll instance of a single-threaded    *)
(* application.  Code runs to completion inside start(), stop(), send()    *)
(* and process(), except that it calls the application back, and the       *)
(* application may call send() and stop() from the callback: `pc' names    *)
(* the callback, or the point of process(), where control is.              *)
(*                                                                         *)
(* Descriptors are numbers the kernel hands out again after a close(), to  *)
(* the client or to the rest of the application, so a field that keeps the *)
(* number of a closed descriptor is visible here.  Message contents and    *)
(* partial reads are abstracted (module Framing has the reassembly).       *)
(***************************************************************************)
EXTENDS Naturals, FiniteSets

CONSTANTS
    Fds,        \* descriptor numbers of the process
    NoFd,       \* the value -1
    MaxFaults,  \* bound on connection failures in a behaviour
    MaxAppFds,  \* bound on descriptors the rest of the application holds
    SendsWhileDisconnected, \* send() is also called with no connection
    StopsInCallback,        \* stop() is also called from a callback
    TimerFaults             \* timerfd_*() and its epoll_ctl() may fail

ASSUME FdsAssumption == NoFd \notin Fds
ASSUME BoundsAssumption == MaxFaults \in Nat /\ MaxAppFds \in Nat
\* The client needs two descriptors at a time: the process has them to spare.
\* Running out of descriptors is one of the faults of TimerFaults.
ASSUME SpareAssumption ==
    IsFiniteSet(Fds) /\ Cardinality(Fds) >= MaxAppFds + 2
ASSUME UsageAssumption ==
    {SendsWhileDisconnected, StopsInCallback, TimerFaults} \subseteq BOOLEAN

Reasons == {"message_encode_error", "message_decode_error",
            "connection_closed", "keep_alive_timeout", "general_error",
            "message_too_big"}
NoReason == "none"

\* What the kernel knows of a descriptor.  Every open descriptor of the
\* client is in the epoll set: each error path that closes one, or fails to
\* add it, removes both.  "disarmed" is a timerfd that will not expire.
Kinds == {"free", "application", "socket", "keep_alive", "reconnect",
          "disarmed"}

Callbacks == {"on_connected", "on_message", "on_disconnected"}
Points == {"idle", "process_socket", "process_tail"} \cup Callbacks

VARIABLES
    server_fd, keep_alive_timer_fd, reconnect_timer_fd,
    pending_disconnect, disconnect_reason, pong_received,
    kind,       \* [Fds -> Kinds], the kernel's descriptor table
    pc,         \* where control is
    caller,     \* who called connect_to_server(): "start" or "process"
    started,    \* start() was called, and no stop() since
    up,         \* history: on_connected() was called, and no
                \* on_disconnected() or stop() since
    cause,      \* history: the first failure since the last connect, report
                \* or stop
    faults      \* failures so far

self == <<server_fd, keep_alive_timer_fd, reconnect_timer_fd,
          pending_disconnect, disconnect_reason, pong_received>>
vars == <<self, kind, pc, caller, started, up, cause, faults>>

TypeOK ==
    /\ server_fd \in Fds \cup {NoFd}
    /\ keep_alive_timer_fd \in Fds \cup {NoFd}
    /\ reconnect_timer_fd \in Fds \cup {NoFd}
    /\ pending_disconnect \in BOOLEAN
    /\ pong_received \in BOOLEAN
    /\ started \in BOOLEAN
    /\ up \in BOOLEAN
    /\ disconnect_reason \in Reasons
    /\ kind \in [Fds -> Kinds]
    /\ pc \in Points
    /\ caller \in {"start", "process"}
    /\ cause \in Reasons \cup {NoReason}
    /\ faults \in 0..MaxFaults

-----------------------------------------------------------------------------
(* Descriptors. *)

Free(k) == {f \in Fds : k[f] = "free"}

\* Mutant: the descriptor leaves the epoll set but is not closed.
ClosedNot(k, S) == k

\* close_fd() of each descriptor of S; closing -1 fails with EBADF.
Closed(k, S) == [f \in Fds |-> IF f \in S THEN "free" ELSE k[f]]

Opened(k, f, what) == [k EXCEPT ![f] = what]

\* The expiration of timer f was read; f may be no timer.
Disarmed(k, f) ==
    IF k[f] = "application" THEN k ELSE Opened(k, f, "disarmed")

Fault == faults < MaxFaults /\ faults' = faults + 1

-----------------------------------------------------------------------------
(* Static functions of client.c.  k is the descriptor table they start from. *)

\* Mutant: the first failure's reason is overwritten by a later one.
PendingDisconnectLastReason(reason, k) ==
    /\ disconnect_reason' = reason
    /\ kind' = Closed(k, {server_fd})
    /\ server_fd' = NoFd
    /\ pending_disconnect' = TRUE
    /\ cause' = IF cause = NoReason THEN reason ELSE cause
    /\ IF server_fd = NoFd THEN UNCHANGED faults ELSE Fault

\* pending_disconnect().  The first failure of an open connection is charged
\* to the fault budget here.
PendingDisconnect(reason, k) ==
    \/ /\ pending_disconnect
       /\ kind' = k
       /\ UNCHANGED <<server_fd, disconnect_reason, pending_disconnect,
                      cause, faults>>
    \/ /\ ~pending_disconnect
       /\ disconnect_reason' = reason
       /\ kind' = Closed(k, {server_fd})
       /\ server_fd' = NoFd
       /\ pending_disconnect' = TRUE
       /\ cause' = IF cause = NoReason THEN reason ELSE cause
       /\ IF server_fd = NoFd THEN UNCHANGED faults ELSE Fault

\* Mutant: the number of the closed keep-alive timer is kept.
DisconnectKeepsTimer(S) ==
    /\ disconnect_reason' = IF pending_disconnect THEN disconnect_reason
                            ELSE "message_encode_error"
    /\ server_fd' = IF pending_disconnect THEN server_fd ELSE NoFd
    /\ kind' = Closed(kind, S \cup {keep_alive_timer_fd}
                              \cup (IF pending_disconnect THEN {}
                                                          ELSE {server_fd}))
    /\ pending_disconnect' = FALSE
    /\ UNCHANGED keep_alive_timer_fd

\* disconnect(), and the close_fd() of S that its caller goes on with.  It
\* calls pending_disconnect() with reason 0, which leaves the socket alone
\* when a disconnect is already pending.
Disconnect(S) ==
    /\ disconnect_reason' = IF pending_disconnect THEN disconnect_reason
                            ELSE "message_encode_error"
    /\ server_fd' = IF pending_disconnect THEN server_fd ELSE NoFd
    /\ kind' = Closed(kind, S \cup {keep_alive_timer_fd}
                              \cup (IF pending_disconnect THEN {}
                                                          ELSE {server_fd}))
    /\ keep_alive_timer_fd' = NoFd
    /\ pending_disconnect' = FALSE

\* Mutant: the timer is created but never set.
StartReconnectTimerDisarmed(k) ==
    \E f \in Free(k) : /\ reconnect_timer_fd' = f
                       /\ kind' = Opened(k, f, "disarmed")

\* start_reconnect_timer(): no caller looks at its result.
StartReconnectTimer(k) ==
    \/ \E f \in Free(k) : /\ reconnect_timer_fd' = f
                          /\ kind' = Opened(k, f, "reconnect")
    \/ \* timerfd_create() or epoll_ctl() fails
       /\ TimerFaults
       /\ reconnect_timer_fd' = NoFd
       /\ kind' = k
    \/ \* timerfd_settime() fails: the timer stays open
       /\ TimerFaults
       /\ \E f \in Free(k) : /\ reconnect_timer_fd' = f
                             /\ kind' = Opened(k, f, "disarmed")

\* connect_to_server() up to the return of a failure.
ConnectFails(k) ==
    \/ \* socket(), connect(), fcntl() or the first epoll_ctl() fails
       /\ Fault
       /\ UNCHANGED keep_alive_timer_fd
    \/ \* timerfd_create() fails (out2)
       /\ TimerFaults
       /\ Fault
       /\ keep_alive_timer_fd' = NoFd
    \/ \* epoll_ctl() or timerfd_settime() fails (out3, out4): both
       \* descriptors are closed, the field keeps the number of the timer
       /\ TimerFaults
       /\ Fault
       /\ \E t \in Free(k) : keep_alive_timer_fd' = t

\* connect_to_server() up to the call of on_connected().
ConnectSucceeds(k, who) ==
    /\ \E s, t \in Free(k) :
           /\ s # t
           /\ server_fd' = s
           /\ keep_alive_timer_fd' = t
           /\ kind' = Opened(Opened(k, s, "socket"), t, "keep_alive")
    /\ pong_received' = TRUE
    /\ pc' = "on_connected"
    /\ caller' = who
    /\ up' = TRUE
    /\ cause' = NoReason
    /\ UNCHANGED <<pending_disconnect, disconnect_reason, faults>>

\* The common body of start() and process_reconnect_timer(): connect, or
\* start the reconnect timer and return to `back'.
ConnectOrRetry(k, who, back) ==
    \/ /\ ConnectSucceeds(k, who)
       /\ reconnect_timer_fd' = IF who = "process" THEN NoFd
                                                   ELSE reconnect_timer_fd
    \/ /\ ConnectFails(k)
       /\ StartReconnectTimer(k)
       /\ pc' = back
       /\ UNCHANGED <<server_fd, pong_received, pending_disconnect,
                      disconnect_reason, caller, up, cause>>

-----------------------------------------------------------------------------
(* start(), stop() and send(), called by the application. *)

InApplication == pc \in {"idle"} \cup Callbacks

Start ==
    /\ pc = "idle"
    /\ ~started
    /\ started' = TRUE
    /\ ConnectOrRetry(kind, "start", "idle")

\* Mutant: stop() leaves the reconnect timer running.
StopKeepsReconnecting ==
    /\ pc = "idle" \/ (StopsInCallback /\ pc \in Callbacks)
    /\ started
    /\ started' = FALSE
    /\ up' = FALSE
    /\ Disconnect({})
    /\ cause' = NoReason
    /\ UNCHANGED <<reconnect_timer_fd, pong_received, pc, caller, faults>>

Stop ==
    /\ pc = "idle" \/ (StopsInCallback /\ pc \in Callbacks)
    /\ started
    /\ started' = FALSE
    /\ up' = FALSE
    /\ Disconnect({reconnect_timer_fd})
    /\ reconnect_timer_fd' = NoFd
    /\ cause' = NoReason
    /\ UNCHANGED <<pong_received, pc, caller, faults>>

\* send(): encoding fails, or write() does not take the whole frame (it
\* cannot without a socket), or all is well.
Send ==
    /\ InApplication
    /\ up \/ SendsWhileDisconnected
    /\ \/ server_fd # NoFd /\ UNCHANGED <<self, kind, cause, faults>>
       \/ /\ \E reason \in {"message_encode_error", "connection_closed"} :
                 PendingDisconnect(reason, kind)
          /\ UNCHANGED <<keep_alive_timer_fd, reconnect_timer_fd,
                         pong_received>>
    /\ UNCHANGED <<pc, caller, started, up>>

-----------------------------------------------------------------------------
(* process() on the socket: process_socket() is a loop of read() calls. *)

ProcessSocket ==
    /\ pc = "idle"
    /\ server_fd # NoFd
    /\ pc' = "process_socket"
    /\ UNCHANGED <<self, kind, caller, started, up, cause, faults>>

ReadWouldBlock ==
    /\ pc = "process_socket"
    /\ server_fd # NoFd
    /\ pc' = "process_tail"
    /\ UNCHANGED <<self, kind, caller, started, up, cause, faults>>

\* End of file, an error (certain once the socket is closed), or the header
\* of a message that does not fit the input buffer.
ReadFails ==
    /\ pc = "process_socket"
    /\ \/ PendingDisconnect("connection_closed", kind)
       \/ server_fd # NoFd /\ PendingDisconnect("message_too_big", kind)
    /\ pc' = "process_tail"
    /\ UNCHANGED <<keep_alive_timer_fd, reconnect_timer_fd, pong_received,
                   caller, started, up>>

\* A whole message: a user message for the callback, one that does not
\* decode (the loop goes on, read() of the closed socket ends it), or a pong.
ReadMessage ==
    /\ pc = "process_socket"
    /\ server_fd # NoFd
    /\ \/ pc' = "on_message" /\ UNCHANGED <<self, kind, cause, faults>>
       \/ /\ PendingDisconnect("message_decode_error", kind)
          /\ UNCHANGED <<keep_alive_timer_fd, reconnect_timer_fd,
                         pong_received, pc>>
       \/ /\ pong_received' = TRUE
          /\ UNCHANGED <<server_fd, keep_alive_timer_fd, reconnect_timer_fd,
                         pending_disconnect, disconnect_reason, pc, kind,
                         cause, faults>>
    /\ UNCHANGED <<caller, started, up>>

OnMessageReturns ==
    /\ pc = "on_message"
    /\ pc' = "process_socket"
    /\ UNCHANGED <<self, kind, caller, started, up, cause, faults>>

-----------------------------------------------------------------------------
(* process() on the timers. *)

\* process_keep_alive_timer(): reading the expiration disarms the timer until
\* it is set again.  process() goes by the number alone: with a stale field
\* the descriptor may be another one.
ProcessKeepAliveTimer ==
    /\ pc = "idle"
    /\ keep_alive_timer_fd # NoFd
    /\ kind[keep_alive_timer_fd] \in {"keep_alive", "reconnect", "application"}
    /\ \/ \* read() fails
          /\ PendingDisconnect("general_error", kind)
          /\ UNCHANGED pong_received
       \/ /\ ~pong_received
          /\ PendingDisconnect("keep_alive_timeout",
                               Disarmed(kind, keep_alive_timer_fd))
          /\ UNCHANGED pong_received
       \/ \* timerfd_settime() fails
          /\ pong_received
          /\ TimerFaults
          /\ PendingDisconnect("general_error",
                               Disarmed(kind, keep_alive_timer_fd))
          /\ UNCHANGED pong_received
       \/ \* write() of the ping fails
          /\ pong_received
          /\ PendingDisconnect("general_error", kind)
          /\ UNCHANGED pong_received
       \/ /\ pong_received
          /\ server_fd # NoFd
          /\ pong_received' = FALSE
          /\ UNCHANGED <<server_fd, pending_disconnect, disconnect_reason,
                         kind, cause, faults>>
    /\ pc' = "process_tail"
    /\ UNCHANGED <<keep_alive_timer_fd, reconnect_timer_fd, caller, started,
                   up>>

ProcessReconnectTimer ==
    /\ pc = "idle"
    /\ reconnect_timer_fd \notin {NoFd, server_fd, keep_alive_timer_fd}
    /\ kind[reconnect_timer_fd] = "reconnect"
    /\ ConnectOrRetry(Closed(kind, {reconnect_timer_fd}), "process",
                      "process_tail")
    /\ UNCHANGED started

\* process() on a descriptor that is none of the three: another one of the
\* application, or a timer the client has lost track of.
ProcessOtherFd ==
    /\ pc = "idle"
    /\ \E f \in Fds : /\ kind[f] \in {"application", "reconnect"}
                      /\ f \notin {server_fd, keep_alive_timer_fd,
                                   reconnect_timer_fd}
    /\ pc' = "process_tail"
    /\ UNCHANGED <<self, kind, caller, started, up, cause, faults>>

-----------------------------------------------------------------------------
(* The callbacks return, and the end of process(). *)

OnConnectedReturns ==
    /\ pc = "on_connected"
    /\ pc' = IF caller = "start" THEN "idle" ELSE "process_tail"
    /\ UNCHANGED <<self, kind, caller, started, up, cause, faults>>

ProcessReturns ==
    /\ pc = "process_tail"
    /\ ~pending_disconnect
    /\ pc' = "idle"
    /\ UNCHANGED <<self, kind, caller, started, up, cause, faults>>

\* Mutant: the callback is called whether or not a disconnect is pending.
ProcessDisconnectsAlways ==
    /\ pc = "process_tail"
    /\ Disconnect({})
    /\ pc' = "on_disconnected"
    /\ up' = FALSE
    /\ UNCHANGED <<reconnect_timer_fd, pong_received, caller, started, cause,
                   faults>>

\* Mutant: only an event on the socket completes a pending disconnect.
ProcessDisconnectsWithSocket ==
    /\ server_fd # NoFd
    /\ ProcessDisconnectsAlways

ProcessDisconnects ==
    /\ pc = "process_tail"
    /\ pending_disconnect
    /\ Disconnect({})
    /\ pc' = "on_disconnected"
    /\ up' = FALSE
    /\ UNCHANGED <<reconnect_timer_fd, pong_received, caller, started, cause,
                   faults>>

\* Mutant: no reconnect timer after a disconnect.
OnDisconnectedReturnsOnly ==
    /\ pc = "on_disconnected"
    /\ pc' = "idle"
    /\ UNCHANGED <<self, kind, caller, started, up, cause, faults>>

OnDisconnectedReturns ==
    /\ pc = "on_disconnected"
    /\ StartReconnectTimer(kind)
    /\ pc' = "idle"
    /\ cause' = NoReason
    /\ UNCHANGED <<server_fd, keep_alive_timer_fd, pending_disconnect,
                   disconnect_reason, pong_received, caller, started, up,
                   faults>>

-----------------------------------------------------------------------------
(* The rest of the application opens and closes descriptors of its own. *)

ApplicationOpens ==
    /\ InApplication
    /\ Cardinality({f \in Fds : kind[f] = "application"}) < MaxAppFds
    /\ \E f \in Free(kind) : kind' = Opened(kind, f, "application")
    /\ UNCHANGED <<self, pc, caller, started, up, cause, faults>>

ApplicationCloses ==
    /\ InApplication
    /\ \E f \in Fds : /\ kind[f] = "application"
                      /\ kind' = Closed(kind, {f})
    /\ UNCHANGED <<self, pc, caller, started, up, cause, faults>>

-----------------------------------------------------------------------------

\* init() sets neither disconnect_reason nor pong_received.
Init ==
    /\ server_fd = NoFd
    /\ keep_alive_timer_fd = NoFd
    /\ reconnect_timer_fd = NoFd
    /\ pending_disconnect = FALSE
    /\ disconnect_reason \in Reasons
    /\ pong_received \in BOOLEAN
    /\ kind = [f \in Fds |-> "free"]
    /\ pc = "idle"
    /\ caller = "start"
    /\ started = FALSE
    /\ up = FALSE
    /\ cause = NoReason
    /\ faults = 0

Next ==
    \/ Start
    \/ Stop
    \/ Send
    \/ ProcessSocket
    \/ ReadWouldBlock
    \/ ReadFails
    \/ ReadMessage
    \/ OnMessageReturns
    \/ ProcessKeepAliveTimer
    \/ ProcessReconnectTimer
    \/ ProcessOtherFd
    \/ OnConnectedReturns
    \/ ProcessReturns
    \/ ProcessDisconnects
    \/ OnDisconnectedReturns
    \/ ApplicationOpens
    \/ ApplicationCloses

Spec == Init /\ [][Next]_vars

\* An expired timer stays in epoll's ready list, which is served in turn, so
\* the application's loop hands it to process() whatever else is ready.
\* Callbacks return, and the peer does not outpace the read loop for ever.
Fairness ==
    /\ SF_vars(ProcessKeepAliveTimer)
    /\ SF_vars(ProcessReconnectTimer)
    /\ WF_vars(OnConnectedReturns)
    /\ WF_vars(OnMessageReturns)
    /\ WF_vars(OnDisconnectedReturns)
    /\ WF_vars(ProcessReturns)
    /\ WF_vars(ProcessDisconnects)
    /\ SF_vars(ReadWouldBlock \/ ReadFails)

FairSpec == Spec /\ Fairness

-----------------------------------------------------------------------------
(* Properties. *)

\* Each descriptor field is -1 or names an open descriptor of the client of
\* the right sort: process() compares events with the fields and stop() and
\* disconnect() close them, so a stale number would make the client read
\* and close a descriptor of someone else.
OwnsItsFields ==
    /\ server_fd = NoFd \/ (server_fd \in Fds /\ kind[server_fd] = "socket")
    /\ \/ keep_alive_timer_fd = NoFd
       \/ /\ keep_alive_timer_fd \in Fds
          /\ kind[keep_alive_timer_fd] = "keep_alive"
       \/ /\ keep_alive_timer_fd \in Fds
          /\ kind[keep_alive_timer_fd] = "disarmed"
          /\ pending_disconnect
          /\ pc = "process_tail"
    /\ \/ reconnect_timer_fd = NoFd
       \/ /\ reconnect_timer_fd \in Fds
          /\ kind[reconnect_timer_fd] = "reconnect"

\* No descriptor is lost over any sequence of connects, failures, stops and
\* reconnects: what is open is in its field.
NoLeak ==
    \A f \in Fds :
        /\ kind[f] = "socket" => f = server_fd
        /\ kind[f] = "keep_alive" => f = keep_alive_timer_fd
        /\ kind[f] = "reconnect" => f = reconnect_timer_fd
        /\ kind[f] = "disarmed"
               => f \in {keep_alive_timer_fd, reconnect_timer_fd}

\* Between two events a started client can always be woken up: it is
\* connected with the keep-alive timer armed, or a failure is pending and the
\* same timer will report it, or the reconnect timer is armed.
NeverStranded ==
    started /\ pc = "idle" =>
        \/ /\ keep_alive_timer_fd # NoFd
           /\ kind[keep_alive_timer_fd] = "keep_alive"
           /\ up
           /\ pending_disconnect <=> (server_fd = NoFd)
        \/ /\ reconnect_timer_fd # NoFd
           /\ kind[reconnect_timer_fd] = "reconnect"
           /\ ~up /\ ~pending_disconnect

\* A client that was stopped holds no descriptor and no pending disconnect,
\* so nothing connects it again until start() is called.
StoppedIsQuiet ==
    ~started /\ pc = "idle" =>
        /\ \A f \in Fds : kind[f] \in {"free", "application"}
        /\ ~pending_disconnect

\* on_disconnected() gets the reason of the first failure, whatever failed
\* in consequence before process() came to report it.
FirstCauseReported ==
    pc = "on_disconnected" /\ started => disconnect_reason = cause

\* The callback that runs, for ClientLifecycle; `started' and `up' are its own.
Call == IF pc \in Callbacks THEN pc ELSE "none"

Lifecycle == INSTANCE ClientLifecycle WITH call <- Call, Raises <- FALSE

\* The client keeps the promises every generated client makes: its callbacks
\* alternate, messages come in between, and none is called once stop() was.
ImplementsLifecycle == Lifecycle!Spec

\* "Automatic reconnect if disconnected": with finitely many failures, a
\* started client that is not connected becomes so, unless it is stopped.
Reconnects == started /\ ~up ~> up \/ ~started

\* A failure that send() meets outside process() is reported: the keep-alive
\* timer is what makes process() run.
PendingIsReported ==
    pending_disconnect ~> pc = "on_disconnected" \/ ~started

\* How the callbacks, the flags and the fields go together for a client whose
\* application keeps the rules and whose timers do not fail: the part that
\* makes the invariants above inductive.
Phase ==
    /\ up =>
        /\ started
        /\ pc # "on_disconnected"
        /\ keep_alive_timer_fd # NoFd
        /\ reconnect_timer_fd = NoFd
        /\ pending_disconnect <=> (server_fd = NoFd)
        /\ cause = IF pending_disconnect THEN disconnect_reason ELSE NoReason
    /\ ~up =>
        /\ pc \in {"idle", "process_tail", "on_disconnected"}
        /\ server_fd = NoFd
        /\ keep_alive_timer_fd = NoFd
        /\ ~pending_disconnect
        /\ IF pc = "on_disconnected"
           THEN started /\ reconnect_timer_fd = NoFd /\ disconnect_reason = cause
           ELSE /\ started <=> (reconnect_timer_fd # NoFd)
                /\ cause = NoReason

\* The inductive invariant of client.c.
Inductive == TypeOK /\ OwnsItsFields /\ NoLeak /\ Phase

=============================================================================
