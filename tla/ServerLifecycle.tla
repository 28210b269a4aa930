-------------------------- MODULE ServerLifecycle --------------------------
(***************************************************************************)
(* What the generated server promises its application about its clients.   *)
(* A client is announced by on_client_connected(), sends messages while it *)
(* is neither lost nor disconnected, and is reported exactly once, by      *)
(* on_client_disconnected(), after it was lost.  One callback runs at a    *)
(* time.  stop() ends announcements and messages, but not the reports of   *)
(* clients that were lost before it.  LinuxServer implements it.           *)
(***************************************************************************)
CONSTANT Clients

VARIABLES
    phase,  \* of the server: "initialized", "started" or "stopped"
    known,  \* clients announced and not yet reported as disconnected
    lost,   \* those of them whose connection is gone
    call    \* the callback that runs and its client, or <<>>

state == <<phase, known, lost, call>>

Init ==
    /\ phase = "initialized"
    /\ known = {}
    /\ lost = {}
    /\ call = <<>>

Start ==
    /\ phase = "initialized"
    /\ phase' = "started"
    /\ UNCHANGED <<known, lost, call>>

\* The server calls the application about c.
Call(callback, c) ==
    /\ call = <<>>
    /\ call' = <<callback, c>>
    /\ UNCHANGED phase

CallOnClientConnected(c) ==
    /\ phase = "started"
    /\ c \notin known
    /\ Call("on_client_connected", c)
    /\ known' = known \cup {c}
    /\ UNCHANGED lost

CallOnMessage(c) ==
    /\ phase = "started"
    /\ c \in known \ lost
    /\ Call("on_message", c)
    /\ UNCHANGED <<known, lost>>

\* A failure, a timeout, or disconnect() by the application, which may come
\* while a callback runs.
Lose(c) ==
    /\ phase = "started"
    /\ c \in known \ lost
    /\ lost' = lost \cup {c}
    /\ UNCHANGED <<phase, known, call>>

\* Also after stop(), when the application hands the server the timer of a
\* client that was lost before.
CallOnClientDisconnected(c) ==
    /\ c \in lost
    /\ Call("on_client_disconnected", c)
    /\ known' = known \ {c}
    /\ lost' = lost \ {c}

CallbackReturns ==
    /\ call # <<>>
    /\ call' = <<>>
    /\ UNCHANGED <<phase, known, lost>>

\* stop() is called outside of callbacks, and reports nothing.
Stop ==
    /\ phase = "started"
    /\ call = <<>>
    /\ phase' = "stopped"
    /\ UNCHANGED <<known, lost, call>>

Next ==
    \/ Start
    \/ \E c \in Clients : \/ CallOnClientConnected(c)
                          \/ CallOnMessage(c)
                          \/ Lose(c)
                          \/ CallOnClientDisconnected(c)
    \/ CallbackReturns
    \/ Stop

Spec == Init /\ [][Next]_state

=============================================================================
