------------------------------ MODULE PyClient ------------------------------
(***************************************************************************)
(* The generated Python client (py_source/templates/client.py): start()    *)
(* creates an asyncio task that runs _main(), which connects, creates a    *)
(* keep-alive task for the connection and reads messages until the         *)
(* connection is lost; stop() cancels the task of _main().                 *)
(*                                                                         *)
(* A task runs from one await to the next: `pc' names the await where      *)
(* _main() is suspended, or the coroutine of the application it awaits.    *)
(* cancel() raises CancelledError at that await.  Only when the application*)
(* calls stop() from its own coroutine may this one return first, and the  *)
(* error comes at the next await.  send() writes to the socket and leaves  *)
(* the client as it is.                                                    *)
(*                                                                         *)
(* start() is called when the task of an earlier start() has ended: two    *)
(* _main() tasks on one object are outside of this model.                  *)
(***************************************************************************)
EXTENDS Naturals

CONSTANTS
    MaxFaults  \* bound on failures in a behaviour

ASSUME BoundAssumption == MaxFaults \in Nat

\* Connections are numbered alternately: the newest and the one before.
Conns == {0, 1}

\* Where _main() is: not running, inside its try block, or outside of it.
Ended == {"none", "done", "given_up", "raised"}
Reading == {"read", "on_message"}
Outside == {"connect", "on_connect_failure", "sleep", "on_connected",
            "on_disconnected"}
Callbacks == {"on_connect_failure", "on_connected", "on_message",
              "on_disconnected"}

VARIABLES
    pc,          \* where _main() is; "none" before it, "given_up" when it
                 \* has ended by itself, "done" when it was cancelled,
                 \* "raised" when a coroutine of the application raised
    cancelled,   \* CancelledError is to be raised in _main()
    task,        \* self._task is not None
    writer,      \* self._writer is not None
    link,        \* the newest connection: "none", "up", "silent" when the
                 \* peer neither sends nor closes any more, "lost" when the
                 \* peer has closed it, "closed" when the client has
    conn,        \* the number of the newest connection
    keep_alive,  \* the keep-alive task of each connection: suspended in
                 \* "sleep" or "wait", "cancelled" but not run since, "done"
    pong,        \* self._pong_event is set
    up,          \* history: on_connected() was called, and no
                 \* on_disconnected() since
    cut,         \* history: stop() was called while connected, or
                 \* on_connected() has raised
    faults       \* failures so far

connection == <<writer, link, conn, keep_alive, pong>>
history == <<up, cut, faults>>
vars == <<pc, cancelled, task, connection, history>>

TypeOK ==
    /\ pc \in Ended \cup Reading \cup Outside
    /\ cancelled \in BOOLEAN
    /\ task \in BOOLEAN
    /\ writer \in BOOLEAN
    /\ link \in {"none", "up", "silent", "lost", "closed"}
    /\ conn \in Conns
    /\ keep_alive \in
           [Conns -> {"none", "sleep", "wait", "cancelled", "done"}]
    /\ pong \in BOOLEAN
    /\ up \in BOOLEAN
    /\ cut \in BOOLEAN
    /\ faults \in 0..MaxFaults

Fault == faults < MaxFaults /\ faults' = faults + 1

\* _close(): whatever self._writer is at this time.
_close ==
    /\ writer' = FALSE
    /\ link' = IF writer THEN "closed" ELSE link

-----------------------------------------------------------------------------
(* Called by the application. *)

Start ==
    /\ ~task
    /\ pc \in Ended
    /\ task' = TRUE
    /\ pc' = "connect"
    /\ UNCHANGED <<cancelled, connection, history>>

\* Mutant: stop() forgets the task without cancelling it.
StopForgets ==
    /\ task
    /\ task' = FALSE
    /\ UNCHANGED <<pc, cancelled, history, connection>>

Stop ==
    /\ task
    /\ task' = FALSE
    /\ cut' = (cut \/ up)
    /\ cancelled' = (pc \notin Ended)
    /\ UNCHANGED <<pc, connection, up, faults>>

-----------------------------------------------------------------------------
(* _main() and _connect(). *)

\* open_connection() succeeds.  It takes more rounds of the event loop than
\* the delivery of a cancellation, so the keep-alive task of the previous
\* connection has ended by now.
Connected ==
    /\ pc = "connect"
    /\ ~cancelled
    /\ \A c \in Conns : keep_alive[c] # "cancelled"
    /\ conn' = 1 - conn
    /\ writer' = TRUE
    /\ link' = "up"
    /\ pc' = "on_connected"
    /\ up' = TRUE
    /\ UNCHANGED <<cancelled, task, keep_alive, pong, faults, cut>>

\* Mutant: a failed attempt is reported as a disconnect.
ConnectFailsReports ==
    /\ pc = "connect"
    /\ ~cancelled
    /\ Fault
    /\ pc' = "on_disconnected"
    /\ UNCHANGED <<cancelled, task, connection, up, cut>>

\* It is refused, times out or fails otherwise.
ConnectFails ==
    /\ pc = "connect"
    /\ ~cancelled
    /\ Fault
    /\ pc' = "on_connect_failure"
    /\ UNCHANGED <<cancelled, task, connection, up, cut>>

\* Mutant: None is handed to sleep() like any other delay.
OnConnectFailureReturnsUnchecked ==
    /\ pc = "on_connect_failure"
    /\ \/ pc' = "sleep" /\ UNCHANGED cancelled
       \/ pc' = "type_error" /\ cancelled' = FALSE
    /\ UNCHANGED <<task, connection, history>>

\* on_connect_failure() returns a delay, or None to give up.
OnConnectFailureReturns ==
    /\ pc = "on_connect_failure"
    /\ \/ pc' = "sleep" /\ UNCHANGED cancelled
       \/ pc' = "given_up" /\ cancelled' = FALSE
    /\ UNCHANGED <<task, connection, history>>

SleepEnds ==
    /\ pc = "sleep"
    /\ ~cancelled
    /\ pc' = "connect"
    /\ UNCHANGED <<cancelled, task, connection, history>>

OnConnectedReturns ==
    /\ pc = "on_connected"
    /\ pong' = FALSE
    /\ keep_alive' = [keep_alive EXCEPT ![conn] = "sleep"]
    /\ pc' = "read"
    /\ UNCHANGED <<cancelled, task, writer, link, conn, history>>

\* Mutant: the keep-alive task is not cancelled.
ReaderStopsOnly ==
    /\ _close
    /\ pc' = "on_disconnected"
    /\ up' = FALSE
    /\ UNCHANGED <<task, conn, keep_alive, pong, cut>>

\* Mutant: the connection is not closed.
ReaderStopsNoClose ==
    /\ keep_alive' = [keep_alive EXCEPT ![conn] =
                          IF @ = "done" THEN @ ELSE "cancelled"]
    /\ pc' = "on_disconnected"
    /\ up' = FALSE
    /\ UNCHANGED <<task, writer, link, conn, pong, cut>>

\* The except clause of _main() and what follows, up to on_disconnected().
ReaderStops ==
    /\ _close
    /\ keep_alive' = [keep_alive EXCEPT ![conn] =
                          IF @ = "done" THEN @ ELSE "cancelled"]
    /\ pc' = "on_disconnected"
    /\ up' = FALSE
    /\ UNCHANGED <<task, conn, pong, cut>>

\* Mutant: a lost connection ends _main().
OnDisconnectedReturnsOnly ==
    /\ pc = "on_disconnected"
    /\ pc' = "done"
    /\ cancelled' = FALSE
    /\ UNCHANGED <<task, connection, history>>

OnDisconnectedReturns ==
    /\ pc = "on_disconnected"
    /\ pc' = "connect"
    /\ UNCHANGED <<cancelled, task, connection, history>>

\* A coroutine of the application that is awaited outside of the try block
\* raises: _main() ends, after on_connected() with the connection open.
CallbackRaises ==
    /\ pc \in {"on_connect_failure", "on_connected", "on_disconnected"}
    /\ Fault
    /\ pc' = "raised"
    /\ cancelled' = FALSE
    /\ cut' = (cut \/ pc = "on_connected")
    /\ UNCHANGED <<task, connection, up>>

\* CancelledError outside of the try block ends the task.
MainCancelled ==
    /\ cancelled
    /\ pc \in Outside
    /\ pc' = "done"
    /\ cancelled' = FALSE
    /\ UNCHANGED <<task, connection, history>>

-----------------------------------------------------------------------------
(* _reader_loop(). *)

\* A pong, or a user message for the application.  What was received before
\* the connection was closed is still read.  readexactly() does not suspend
\* when it has the bytes, so a cancellation may have to wait.
ReadMessage ==
    /\ pc = "read"
    /\ link \in {"up", "lost", "closed"}
    /\ \/ pong' = TRUE /\ UNCHANGED pc
       \/ pc' = "on_message" /\ UNCHANGED pong
    /\ UNCHANGED <<cancelled, task, writer, link, conn, keep_alive, history>>

OnMessageReturns ==
    /\ pc = "on_message"
    /\ pc' = "read"
    /\ UNCHANGED <<cancelled, task, connection, history>>

\* readexactly() finds the connection closed, by whomever.
ReadFails ==
    /\ pc = "read"
    /\ link \in {"lost", "closed"}
    /\ ReaderStops
    /\ UNCHANGED <<cancelled, faults>>

\* The message does not parse, or the application's coroutine raises.
MessageRaises ==
    /\ pc = "on_message"
    /\ Fault
    /\ ReaderStops
    /\ UNCHANGED cancelled

\* CancelledError is caught like any other exception.
ReaderCancelled ==
    /\ cancelled
    /\ pc \in Reading
    /\ ReaderStops
    /\ cancelled' = FALSE
    /\ UNCHANGED faults

-----------------------------------------------------------------------------
(* _keep_alive_main() of connection c. *)

\* Mutant: a pong that came before the ping counts.
KeepAliveSleepEndsKeepsPong(c) ==
    /\ keep_alive[c] = "sleep"
    /\ keep_alive' = [keep_alive EXCEPT ![c] = IF writer THEN "wait"
                                                         ELSE "done"]
    /\ UNCHANGED <<pc, cancelled, task, writer, link, conn, pong, history>>

\* The ping; without a writer the write raises and the task ends.
KeepAliveSleepEnds(c) ==
    /\ keep_alive[c] = "sleep"
    /\ keep_alive' = [keep_alive EXCEPT ![c] = IF writer THEN "wait"
                                                         ELSE "done"]
    /\ pong' = FALSE
    /\ UNCHANGED <<pc, cancelled, task, writer, link, conn, history>>

\* The event a task waits for is the one of its own connection.
KeepAlivePong(c) ==
    /\ keep_alive[c] = "wait"
    /\ c = conn
    /\ pong
    /\ keep_alive' = [keep_alive EXCEPT ![c] = "sleep"]
    /\ UNCHANGED <<pc, cancelled, task, writer, link, conn, pong, history>>

KeepAliveTimeout(c) ==
    /\ keep_alive[c] = "wait"
    /\ ~(c = conn /\ pong)
    /\ keep_alive' = [keep_alive EXCEPT ![c] = "done"]
    /\ _close
    /\ IF link = "up" THEN Fault ELSE UNCHANGED faults
    /\ UNCHANGED <<pc, cancelled, task, conn, pong, up, cut>>

KeepAliveCancelled(c) ==
    /\ keep_alive[c] = "cancelled"
    /\ keep_alive' = [keep_alive EXCEPT ![c] = "done"]
    /\ _close
    /\ UNCHANGED <<pc, cancelled, task, conn, pong, history>>

KeepAlive(c) ==
    \/ KeepAliveSleepEnds(c)
    \/ KeepAlivePong(c)
    \/ KeepAliveTimeout(c)
    \/ KeepAliveCancelled(c)

-----------------------------------------------------------------------------
(* The peer. *)

\* It closes the connection, or is not heard of any more.
PeerFails ==
    /\ link = "up"
    /\ Fault
    /\ link' \in {"lost", "silent"}
    /\ UNCHANGED <<pc, cancelled, task, writer, conn, keep_alive, pong, up,
                   cut>>

-----------------------------------------------------------------------------

Init ==
    /\ pc = "none"
    /\ cancelled = FALSE
    /\ task = FALSE
    /\ writer = FALSE
    /\ link = "none"
    /\ conn = 0
    /\ cut = FALSE
    /\ keep_alive = [c \in Conns |-> "none"]
    /\ pong = FALSE
    /\ up = FALSE
    /\ faults = 0

Next ==
    \/ Start
    \/ Stop
    \/ Connected
    \/ ConnectFails
    \/ OnConnectFailureReturns
    \/ SleepEnds
    \/ OnConnectedReturns
    \/ OnDisconnectedReturns
    \/ CallbackRaises
    \/ MainCancelled
    \/ ReadMessage
    \/ OnMessageReturns
    \/ ReadFails
    \/ MessageRaises
    \/ ReaderCancelled
    \/ \E c \in Conns : KeepAlive(c)
    \/ PeerFails

Spec == Init /\ [][Next]_vars

\* The event loop runs every task that can run, sleeps and timeouts end, the
\* application's coroutines return, and the reader loop reads to the end of
\* what was received.
Fairness ==
    /\ WF_vars(Connected \/ ConnectFails)
    /\ WF_vars(OnConnectFailureReturns)
    /\ WF_vars(SleepEnds)
    /\ WF_vars(OnConnectedReturns)
    /\ WF_vars(OnDisconnectedReturns)
    /\ WF_vars(MainCancelled \/ ReaderCancelled)
    /\ WF_vars(OnMessageReturns)
    /\ SF_vars(ReadFails)
    /\ \A c \in Conns : WF_vars(KeepAlive(c))

FairSpec == Spec /\ Fairness

-----------------------------------------------------------------------------
(* Properties. *)

\* Once the cancellation of stop() has been delivered, _main() has ended and
\* the connection is closed: only start() connects again.
StoppedIsQuiet ==
    ~task /\ ~cancelled => pc \in Ended /\ ~writer

\* It is so for a stop() between two connections: in whichever of its awaits
\* the cancellation meets _main(), the task ends.
StopEndsTask ==
    ~task /\ ~cancelled /\ ~cut => pc \in Ended /\ ~writer

\* _main() opens a connection, or ends, only when the previous one is closed:
\* through lost and silent peers, failed and given up attempts and exceptions
\* of the application's other coroutines, until stop() meets a connected
\* client or on_connected() raises.
NoLeak ==
    pc \in {"connect", "on_connect_failure", "sleep"} \cup Ended /\ ~cut
        => ~writer /\ link \in {"none", "closed"}

\* While _main() reads, the keep-alive task of that connection runs, unless
\* it has just closed the connection; that of an earlier one does not run,
\* so that it cannot close the connection of its successor.
Watched ==
    /\ pc \in Reading /\ writer => keep_alive[conn] \in {"sleep", "wait"}
    /\ \A c \in Conns : keep_alive[c] \in {"sleep", "wait"}
           => c = conn /\ pc \in Reading

\* The callback that runs, for ClientLifecycle.
Call == IF pc \in Callbacks THEN pc ELSE "none"

Lifecycle == INSTANCE ClientLifecycle
             WITH started <- task, call <- Call, Raises <- TRUE

\* The client makes the callbacks every generated client promises, and none
\* after stop(), until stop() is called while it is connected or
\* on_connected() raises.
KeepsLifecycle ==
    Lifecycle!Init /\ [][cut' \/ [Lifecycle!Next]_(Lifecycle!state)]_vars

\* "Automatic reconnect if disconnected": with finitely many failures, a
\* started client that is not connected becomes so, unless it is stopped or
\* on_connect_failure() gives up, or a coroutine of the application raises.
Reconnects == task /\ ~up ~> up \/ ~task \/ pc \in {"given_up", "raised"}

\* A peer that falls silent is noticed by its missing pong, and the
\* application is told, unless it has called stop() meanwhile or
\* on_connected() has raised.
SilentPeerNoticed == link = "silent" ~> pc = "on_disconnected" \/ cut

=============================================================================
