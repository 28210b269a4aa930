-------------------------- MODULE ClientLifecycle --------------------------
(***************************************************************************)
(* What every generated client promises its application, whatever it is    *)
(* built on.  One callback runs at a time; on_connected() and              *)
(* on_disconnected() alternate, and messages come in between.  stop() ends *)
(* a connection without a report, and from then on no callback is made     *)
(* until start() is called.                                                *)
(* LinuxClient, AsyncClient and PyClient implement it.                     *)
(***************************************************************************)

CONSTANT Raises  \* on_message() may raise an exception, which ends the
                 \* connection; C has none

VARIABLES
    started,  \* start() was called, and no stop() since
    up,       \* on_connected() was called, and no on_disconnected() or
              \* stop() since
    call      \* the callback that runs, or "none"

state == <<started, up, call>>

Init ==
    /\ started = FALSE
    /\ up = FALSE
    /\ call = "none"

\* The client calls the application.
Call(callback) ==
    /\ call = "none"
    /\ call' = callback

\* start() may find the server at once.
Start ==
    /\ ~started
    /\ started' = TRUE
    /\ \/ UNCHANGED <<up, call>>
       \/ up' = TRUE /\ Call("on_connected")

CallOnConnected ==
    /\ started /\ ~up
    /\ up' = TRUE
    /\ Call("on_connected")
    /\ UNCHANGED started

\* Only the Python client reports that an attempt has failed.
CallOnConnectFailure ==
    /\ started /\ ~up
    /\ Call("on_connect_failure")
    /\ UNCHANGED <<started, up>>

CallOnMessage ==
    /\ started /\ up
    /\ Call("on_message")
    /\ UNCHANGED <<started, up>>

CallOnDisconnected ==
    /\ started /\ up
    /\ up' = FALSE
    /\ call = "none" \/ (Raises /\ call = "on_message")
    /\ call' = "on_disconnected"
    /\ UNCHANGED started

CallbackReturns ==
    /\ call # "none"
    /\ call' = "none"
    /\ UNCHANGED <<started, up>>

\* stop(), which may be called from a callback.
Stop ==
    /\ started
    /\ started' = FALSE
    /\ up' = FALSE
    /\ UNCHANGED call

Next ==
    \/ Start
    \/ CallOnConnected
    \/ CallOnConnectFailure
    \/ CallOnMessage
    \/ CallOnDisconnected
    \/ CallbackReturns
    \/ Stop

Spec == Init /\ [][Next]_state

=============================================================================
