---------------------------- MODULE AsyncClient ----------------------------
(***************************************************************************)
(* The generated client on the async framework (templates/async/client.c). *)
(* The framework's loop calls on_stcp_*() for the TCP client, the timeout  *)
(* functions of two one-shot timers, and functions queued by async_call(). *)
(* A lost connection is reported through such a queued call, so that other *)
(* calls may come between the failure and its report.                      *)
(*                                                                         *)
(* The framework is modelled from how client.c uses it: a stopped timer    *)
(* does not expire, a disconnected TCP client has no event and reads       *)
(* nothing, and queued calls cannot be taken back.  Reassembly of messages *)
(* is in module Framing.                                                   *)
(***************************************************************************)
EXTENDS Naturals

CONSTANTS
    MaxFaults,              \* bound on failures in a behaviour
    SendsWhileDisconnected  \* send() is also called with no connection

ASSUME BoundAssumption == MaxFaults \in Nat
ASSUME UsageAssumption == SendsWhileDisconnected \in BOOLEAN

Reasons == {"message_encode_error", "message_decode_error",
            "connection_closed", "keep_alive_timeout", "message_too_big"}
NoReason == "none"

Callbacks == {"on_connected", "on_message", "on_disconnected"}

VARIABLES
    is_connected, disconnect_reason, pong_received,
    keep_alive_timer, reconnect_timer,  \* TRUE while the timer runs
    stcp,     \* "closed", "connecting" or "open"
    calls,    \* calls of on_disconnected() in the framework's queue
    pc,       \* "idle" in the framework's loop, a callback of the
              \* application, or the read loop of on_stcp_input()
    peer,     \* "alive", or "silent": neither sends nor closes any more
    started,  \* start() was called, and no stop() since
    up,       \* history: on_connected() was called, and no
              \* on_disconnected() or stop() since
    cause,    \* history: the first failure since the last connect, report
              \* or stop
    cut,      \* history: stop() was called while the report of a lost
              \* connection was queued or running
    faults    \* failures so far

self == <<is_connected, disconnect_reason, pong_received, keep_alive_timer,
          reconnect_timer, stcp, calls>>
vars == <<self, pc, peer, started, up, cause, cut, faults>>

TypeOK ==
    /\ is_connected \in BOOLEAN
    /\ pong_received \in BOOLEAN
    /\ keep_alive_timer \in BOOLEAN
    /\ reconnect_timer \in BOOLEAN
    /\ started \in BOOLEAN
    /\ up \in BOOLEAN
    /\ disconnect_reason \in Reasons
    /\ stcp \in {"closed", "connecting", "open"}
    /\ calls \in Nat
    /\ pc \in Callbacks \cup {"idle", "on_stcp_input"}
    /\ peer \in {"alive", "silent"}
    /\ cause \in Reasons \cup {NoReason}
    /\ cut \in BOOLEAN
    /\ faults \in 0..MaxFaults

Fault == faults < MaxFaults /\ faults' = faults + 1

-----------------------------------------------------------------------------

\* Mutant: the connection is given up without stopping the keep-alive timer
\* and without marking it as lost.
disconnect_keeps_connected(reason) ==
    /\ stcp' = "closed"
    /\ disconnect_reason' = reason
    /\ calls' = calls + 1
    /\ cause' = IF cause = NoReason THEN reason ELSE cause
    /\ IF peer = "silent" \/ stcp # "open" THEN UNCHANGED faults ELSE Fault
    /\ UNCHANGED <<is_connected, keep_alive_timer>>

\* disconnect_and_start_reconnect_timer(): the reconnect timer is started by
\* the call it queues.
disconnect_and_start_reconnect_timer(reason) ==
    \/ /\ ~is_connected
       /\ UNCHANGED <<is_connected, keep_alive_timer, stcp,
                      disconnect_reason, calls, cause, faults>>
    \/ /\ is_connected
       /\ is_connected' = FALSE
       /\ keep_alive_timer' = FALSE
       /\ stcp' = "closed"
       /\ disconnect_reason' = reason
       /\ calls' = calls + 1
       /\ cause' = IF cause = NoReason THEN reason ELSE cause
       /\ IF peer = "silent" \/ stcp # "open" THEN UNCHANGED faults ELSE Fault

-----------------------------------------------------------------------------
(* start(), stop() and send(), called by the application. *)

InApplication == pc \in Callbacks \cup {"idle"}

\* A lost connection is about to be reported, or being reported.
Reporting == calls > 0 \/ pc = "on_disconnected"

Start ==
    /\ InApplication
    /\ ~started
    /\ started' = TRUE
    /\ stcp' = "connecting"
    /\ UNCHANGED <<is_connected, disconnect_reason, pong_received,
                   keep_alive_timer, reconnect_timer, calls, pc, peer, up,
                   cause, faults, cut>>

\* Mutant: stop() leaves the reconnect timer running.
StopKeepsReconnecting ==
    /\ InApplication
    /\ started
    /\ started' = FALSE
    /\ stcp' = "closed"
    /\ keep_alive_timer' = FALSE
    /\ up' = FALSE
    /\ cause' = NoReason
    /\ cut' = (cut \/ Reporting)
    /\ UNCHANGED <<is_connected, disconnect_reason, pong_received,
                   reconnect_timer, calls, pc, peer, faults>>

\* stop() clears neither is_connected nor the queue, and on_disconnected()
\* starts the reconnect timer when the application's callback has returned.
Stop ==
    /\ InApplication
    /\ started
    /\ started' = FALSE
    /\ stcp' = "closed"
    /\ reconnect_timer' = FALSE
    /\ keep_alive_timer' = FALSE
    /\ up' = FALSE
    /\ cause' = NoReason
    /\ cut' = (cut \/ Reporting)
    /\ UNCHANGED <<is_connected, disconnect_reason, pong_received, calls, pc,
                   peer, faults>>

\* send() of a message that cannot be encoded.  Otherwise send() writes to
\* the TCP client and leaves the client as it is.
SendFails ==
    /\ InApplication
    /\ up \/ SendsWhileDisconnected
    /\ disconnect_and_start_reconnect_timer("message_encode_error")
    /\ UNCHANGED <<pong_received, reconnect_timer, pc, peer, started, up, cut>>

-----------------------------------------------------------------------------
(* Events of the TCP client. *)

\* on_stcp_connected() with res = 0.
StcpConnected ==
    /\ pc = "idle"
    /\ stcp = "connecting"
    /\ stcp' = "open"
    /\ keep_alive_timer' = TRUE
    /\ pong_received' = TRUE
    /\ is_connected' = TRUE
    /\ pc' = "on_connected"
    /\ peer' = "alive"
    /\ up' = TRUE
    /\ cause' = NoReason
    /\ UNCHANGED <<disconnect_reason, reconnect_timer, calls, started, faults,
                   cut>>

\* Mutant: a failed connection attempt is not tried again.
StcpConnectFailedForGood ==
    /\ pc = "idle"
    /\ stcp = "connecting"
    /\ stcp' = "closed"
    /\ Fault
    /\ UNCHANGED <<is_connected, disconnect_reason, pong_received,
                   keep_alive_timer, reconnect_timer, calls, pc, peer,
                   started, up, cause, cut>>

\* Mutant: a failed connection attempt is reported like a lost connection.
StcpConnectFailedReports ==
    /\ pc = "idle"
    /\ stcp = "connecting"
    /\ stcp' = "closed"
    /\ calls' = calls + 1
    /\ Fault
    /\ UNCHANGED <<is_connected, disconnect_reason, pong_received,
                   keep_alive_timer, reconnect_timer, pc, peer, started, up,
                   cause, cut>>

\* on_stcp_connected() with another result.
StcpConnectFailed ==
    /\ pc = "idle"
    /\ stcp = "connecting"
    /\ stcp' = "closed"
    /\ reconnect_timer' = TRUE
    /\ Fault
    /\ UNCHANGED <<is_connected, disconnect_reason, pong_received,
                   keep_alive_timer, calls, pc, peer, started, up, cause, cut>>

StcpDisconnected ==
    /\ pc = "idle"
    /\ stcp = "open"
    /\ peer = "alive"
    /\ disconnect_and_start_reconnect_timer("connection_closed")
    /\ UNCHANGED <<pong_received, reconnect_timer, pc, peer, started, up, cut>>

StcpInput ==
    /\ pc = "idle"
    /\ stcp = "open"
    /\ peer = "alive"
    /\ pc' = "on_stcp_input"
    /\ UNCHANGED <<self, peer, started, up, cause, faults, cut>>

\* async_stcp_client_read() returns 0.
ReadNothing ==
    /\ pc = "on_stcp_input"
    /\ pc' = "idle"
    /\ UNCHANGED <<self, peer, started, up, cause, faults, cut>>

\* A header that announces more than the input buffer holds.
ReadTooBig ==
    /\ pc = "on_stcp_input"
    /\ stcp = "open"
    /\ disconnect_and_start_reconnect_timer("message_too_big")
    /\ pc' = "idle"
    /\ UNCHANGED <<pong_received, reconnect_timer, peer, started, up, cut>>

\* handle_message(): a user message for the callback, one that does not
\* decode (the loop goes on and reads nothing), or a pong.
ReadMessage ==
    /\ pc = "on_stcp_input"
    /\ stcp = "open"
    /\ \/ pc' = "on_message" /\ UNCHANGED <<self, cause, faults>>
       \/ /\ disconnect_and_start_reconnect_timer("message_decode_error")
          /\ UNCHANGED <<pong_received, reconnect_timer, pc>>
       \/ /\ pong_received' = TRUE
          /\ UNCHANGED <<is_connected, disconnect_reason, keep_alive_timer,
                         reconnect_timer, stcp, calls, pc, cause, faults>>
    /\ UNCHANGED <<peer, started, up, cut>>

\* The peer, or the network in between, falls silent.
PeerFallsSilent ==
    /\ stcp = "open"
    /\ peer = "alive"
    /\ peer' = "silent"
    /\ Fault
    /\ UNCHANGED <<self, pc, started, up, cause, cut>>

-----------------------------------------------------------------------------
(* The timers, and the queue. *)

\* Mutant: the pong of an earlier ping counts for ever.
KeepAliveTimeoutForgets ==
    /\ pc = "idle"
    /\ keep_alive_timer
    /\ \/ pong_received /\ UNCHANGED <<self, cause, faults>>
       \/ /\ ~pong_received
          /\ disconnect_and_start_reconnect_timer("keep_alive_timeout")
          /\ UNCHANGED <<pong_received, reconnect_timer>>
    /\ UNCHANGED <<pc, peer, started, up, cut>>

\* on_keep_alive_timeout(): the timer is started again for the next ping.
KeepAliveTimeout ==
    /\ pc = "idle"
    /\ keep_alive_timer
    /\ \/ /\ pong_received
          /\ pong_received' = FALSE
          /\ UNCHANGED <<is_connected, disconnect_reason, keep_alive_timer,
                         reconnect_timer, stcp, calls, cause, faults>>
       \/ /\ ~pong_received
          /\ disconnect_and_start_reconnect_timer("keep_alive_timeout")
          /\ UNCHANGED <<pong_received, reconnect_timer>>
    /\ UNCHANGED <<pc, peer, started, up, cut>>

\* The function of the reconnect timer is start().
ReconnectTimeout ==
    /\ pc = "idle"
    /\ reconnect_timer
    /\ reconnect_timer' = FALSE
    /\ stcp' = "connecting"
    /\ UNCHANGED <<is_connected, disconnect_reason, pong_received,
                   keep_alive_timer, calls, pc, peer, started, up, cause,
                   faults, cut>>

\* The queued call of on_disconnected(), up to the application's callback.
CallOnDisconnected ==
    /\ pc = "idle"
    /\ calls > 0
    /\ calls' = calls - 1
    /\ pc' = "on_disconnected"
    /\ up' = FALSE
    /\ UNCHANGED <<is_connected, disconnect_reason, pong_received,
                   keep_alive_timer, reconnect_timer, stcp, peer, started,
                   cause, faults, cut>>

-----------------------------------------------------------------------------
(* The callbacks return. *)

OnConnectedReturns ==
    /\ pc = "on_connected"
    /\ pc' = "idle"
    /\ UNCHANGED <<self, peer, started, up, cause, faults, cut>>

OnMessageReturns ==
    /\ pc = "on_message"
    /\ pc' = "on_stcp_input"
    /\ UNCHANGED <<self, peer, started, up, cause, faults, cut>>

OnDisconnectedReturns ==
    /\ pc = "on_disconnected"
    /\ reconnect_timer' = TRUE
    /\ pc' = "idle"
    /\ cause' = NoReason
    /\ UNCHANGED <<is_connected, disconnect_reason, pong_received,
                   keep_alive_timer, stcp, calls, peer, started, up, faults,
                   cut>>

-----------------------------------------------------------------------------

\* init() sets neither disconnect_reason nor pong_received.
Init ==
    /\ is_connected = FALSE
    /\ disconnect_reason \in Reasons
    /\ pong_received \in BOOLEAN
    /\ keep_alive_timer = FALSE
    /\ reconnect_timer = FALSE
    /\ stcp = "closed"
    /\ calls = 0
    /\ pc = "idle"
    /\ peer = "alive"
    /\ started = FALSE
    /\ up = FALSE
    /\ cause = NoReason
    /\ cut = FALSE
    /\ faults = 0

Next ==
    \/ Start
    \/ Stop
    \/ SendFails
    \/ StcpConnected
    \/ StcpConnectFailed
    \/ StcpDisconnected
    \/ StcpInput
    \/ ReadNothing
    \/ ReadTooBig
    \/ ReadMessage
    \/ PeerFallsSilent
    \/ KeepAliveTimeout
    \/ ReconnectTimeout
    \/ CallOnDisconnected
    \/ OnConnectedReturns
    \/ OnMessageReturns
    \/ OnDisconnectedReturns

Spec == Init /\ [][Next]_vars

\* The framework's loop serves its queue, its timers and its sockets in
\* turn, a connection attempt ends, callbacks return, and the peer does not
\* outpace the read loop for ever.
Fairness ==
    /\ SF_vars(StcpConnected \/ StcpConnectFailed)
    /\ SF_vars(KeepAliveTimeout)
    /\ SF_vars(ReconnectTimeout)
    /\ SF_vars(CallOnDisconnected)
    /\ SF_vars(ReadNothing)
    /\ WF_vars(OnConnectedReturns)
    /\ WF_vars(OnMessageReturns)
    /\ WF_vars(OnDisconnectedReturns)

FairSpec == Spec /\ Fairness

-----------------------------------------------------------------------------
(* Properties. *)

\* A started client always has exactly one way on: an attempt to connect, an
\* open connection that the keep-alive timer watches, the report of a lost
\* one, or the reconnect timer.  With none it would stay disconnected for
\* ever; with two, start() would connect a TCP client that is in use.  It is
\* so until stop() is called while a lost connection is being reported.
OneWayOn ==
    started /\ ~cut =>
        \/ stcp = "connecting" /\ ~keep_alive_timer /\ ~Reporting
                               /\ ~reconnect_timer
        \/ stcp = "open" /\ keep_alive_timer /\ is_connected /\ ~Reporting
                         /\ ~reconnect_timer
        \/ stcp = "closed" /\ ~keep_alive_timer /\ Reporting
                           /\ ~reconnect_timer
        \/ stcp = "closed" /\ ~keep_alive_timer /\ ~Reporting
                           /\ reconnect_timer

\* on_disconnected() gets the reason of the failure that ended the
\* connection, whatever was called between the failure and its report.
FirstCauseReported ==
    pc = "on_disconnected" /\ started /\ ~cut => disconnect_reason = cause

\* A stopped client has no way on.
StoppedForGood ==
    ~started => /\ stcp = "closed"
                /\ ~keep_alive_timer
                /\ ~reconnect_timer
                /\ ~Reporting

\* How what the application was told goes with the state of the client.
\* is_connected may be stale, but only while nothing reads it.
Link ==
    /\ calls <= 1
    /\ up => /\ started
             /\ pc # "on_disconnected"
             /\ stcp # "connecting"
             /\ ~reconnect_timer
             /\ is_connected <=> (stcp = "open")
             /\ cause = IF stcp = "open" THEN NoReason ELSE disconnect_reason
    /\ ~up => /\ calls = 0
              /\ stcp # "open"
              /\ pc = "on_disconnected" => disconnect_reason = cause
              /\ pc # "on_disconnected" => cause = NoReason

\* The inductive invariant of async/client.c: how its parts go together until
\* stop() is called while a lost connection is being reported.
Inductive == TypeOK /\ OneWayOn /\ (~cut => StoppedForGood /\ Link)

\* The callback that runs, for ClientLifecycle; `started' and `up' are its own.
Call == IF pc \in Callbacks THEN pc ELSE "none"

Lifecycle == INSTANCE ClientLifecycle WITH call <- Call, Raises <- FALSE

\* The client keeps the promises every generated client makes: its callbacks
\* alternate although one of them is a queued call, messages come in between,
\* and none is called once stop() was, until stop() is called while a lost
\* connection is being reported.
KeepsLifecycle ==
    Lifecycle!Init /\ [][cut' \/ [Lifecycle!Next]_(Lifecycle!state)]_vars

\* "Automatic reconnect if disconnected": with finitely many failures, a
\* started client that is not connected becomes so, unless it is stopped.
Reconnects == started /\ ~up ~> up \/ ~started

\* A peer that falls silent is noticed by its missing pong, and the
\* application is told, unless it calls stop(), or has called it while a lost
\* connection was being reported.
SilentPeerNoticed ==
    stcp = "open" /\ peer = "silent"
        ~> pc = "on_disconnected" \/ ~started \/ cut

=============================================================================
