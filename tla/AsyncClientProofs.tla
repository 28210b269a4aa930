------------------------- MODULE AsyncClientProofs -------------------------
(***************************************************************************)
(* Proofs about AsyncClient, for every number of failures.                 *)
(***************************************************************************)
EXTENDS AsyncClient, TLAPS

\* The condition under which async/client.c keeps its promises: send() is
\* only called while connected.
Disciplined == ~SendsWhileDisconnected

-----------------------------------------------------------------------------

\* The variables keep their types, whatever the application does.
LEMMA TypeStep == TypeOK /\ [Next]_vars => TypeOK'
<1> SUFFICES ASSUME TypeOK, [Next]_vars PROVE TypeOK'
  OBVIOUS
<1> DEFINE Rest == /\ is_connected \in BOOLEAN
                   /\ pong_received \in BOOLEAN
                   /\ keep_alive_timer \in BOOLEAN
                   /\ reconnect_timer \in BOOLEAN
                   /\ started \in BOOLEAN
                   /\ up \in BOOLEAN
                   /\ disconnect_reason \in Reasons
                   /\ stcp \in {"closed", "connecting", "open"}
                   /\ pc \in Callbacks \cup {"idle", "on_stcp_input"}
                   /\ peer \in {"alive", "silent"}
                   /\ cause \in Reasons \cup {NoReason}
                   /\ cut \in BOOLEAN
<1>r. /\ "message_encode_error" \in Reasons
      /\ "message_decode_error" \in Reasons
      /\ "connection_closed" \in Reasons
      /\ "keep_alive_timeout" \in Reasons
      /\ "message_too_big" \in Reasons
  BY DEF Reasons
<1>f. Fault => faults' \in 0..MaxFaults
  BY BoundAssumption DEF Fault, TypeOK
<1>d. ASSUME NEW reason \in Reasons,
             disconnect_and_start_reconnect_timer(reason)
      PROVE  /\ is_connected' \in BOOLEAN /\ keep_alive_timer' \in BOOLEAN
             /\ stcp' \in {"closed", "connecting", "open"}
             /\ disconnect_reason' \in Reasons
             /\ cause' \in Reasons \cup {NoReason}
  BY <1>d DEF disconnect_and_start_reconnect_timer, TypeOK
<1>e. ASSUME NEW reason \in Reasons,
             disconnect_and_start_reconnect_timer(reason)
      PROVE  calls' \in Nat /\ faults' \in 0..MaxFaults
  BY <1>e, <1>f DEF disconnect_and_start_reconnect_timer, TypeOK
<1>1. calls' \in Nat /\ faults' \in 0..MaxFaults
  <2>1. CASE Start BY <2>1 DEF Start, TypeOK
  <2>2. CASE Stop BY <2>2 DEF Stop, TypeOK
  <2>3. CASE SendFails BY <2>3, <1>r, <1>e DEF SendFails
  <2>4. CASE StcpConnected BY <2>4 DEF StcpConnected, TypeOK
  <2>5. CASE StcpConnectFailed BY <2>5, <1>f DEF StcpConnectFailed, TypeOK
  <2>6. CASE StcpDisconnected BY <2>6, <1>r, <1>e DEF StcpDisconnected
  <2>7. CASE ReadTooBig BY <2>7, <1>r, <1>e DEF ReadTooBig
  <2>8. CASE ReadMessage BY <2>8, <1>r, <1>e DEF ReadMessage, self, TypeOK
  <2>9. CASE PeerFallsSilent BY <2>9, <1>f DEF PeerFallsSilent, self, TypeOK
  <2>10. CASE KeepAliveTimeout
    BY <2>10, <1>r, <1>e DEF KeepAliveTimeout, TypeOK
  <2>11. CASE ReconnectTimeout BY <2>11 DEF ReconnectTimeout, TypeOK
  <2>12. CASE CallOnDisconnected BY <2>12 DEF CallOnDisconnected, TypeOK
  <2>13. CASE \/ StcpInput \/ ReadNothing \/ OnConnectedReturns
              \/ OnMessageReturns \/ OnDisconnectedReturns
              \/ UNCHANGED vars
    BY <2>13 DEF StcpInput, ReadNothing, OnConnectedReturns,
                 OnMessageReturns, OnDisconnectedReturns, self, vars, TypeOK
  <2> QED
    BY <2>1, <2>2, <2>3, <2>4, <2>5, <2>6, <2>7, <2>8, <2>9, <2>10, <2>11,
       <2>12, <2>13 DEF Next
<1>2. Rest'
  <2> USE DEF TypeOK, Callbacks
  <2>1. CASE Start BY <2>1 DEF Start
  <2>2. CASE Stop BY <2>2 DEF Stop, NoReason
  <2>3. CASE SendFails BY <2>3, <1>r, <1>d DEF SendFails
  <2>4. CASE StcpConnected BY <2>4 DEF StcpConnected
  <2>5. CASE StcpConnectFailed BY <2>5 DEF StcpConnectFailed
  <2>6. CASE StcpDisconnected BY <2>6, <1>r, <1>d DEF StcpDisconnected
  <2>7. CASE ReadTooBig BY <2>7, <1>r, <1>d DEF ReadTooBig
  <2>8. CASE ReadMessage BY <2>8, <1>r, <1>d DEF ReadMessage, self
  <2>9. CASE PeerFallsSilent BY <2>9 DEF PeerFallsSilent, self
  <2>10. CASE KeepAliveTimeout
    BY <2>10, <1>r, <1>d DEF KeepAliveTimeout
  <2>11. CASE ReconnectTimeout BY <2>11 DEF ReconnectTimeout
  <2>12. CASE CallOnDisconnected BY <2>12 DEF CallOnDisconnected
  <2>13. CASE \/ StcpInput \/ ReadNothing \/ OnConnectedReturns
              \/ OnMessageReturns
    BY <2>13 DEF StcpInput, ReadNothing, OnConnectedReturns,
                 OnMessageReturns, self
  <2>14. CASE OnDisconnectedReturns
    BY <2>14 DEF OnDisconnectedReturns, NoReason
  <2>15. CASE UNCHANGED vars
    BY <2>15 DEF self, vars
  <2> QED
    BY <2>1, <2>2, <2>3, <2>4, <2>5, <2>6, <2>7, <2>8, <2>9, <2>10, <2>11,
       <2>12, <2>13, <2>14, <2>15 DEF Next
<1> QED
  BY <1>1, <1>2 DEF TypeOK

\* The part of the invariant that holds until stop() meets a report.
Uncut == StoppedForGood /\ OneWayOn /\ Link

\* disconnect_and_start_reconnect_timer() on a client that has a connection:
\* the connection is exchanged for one queued report, and a second failure
\* before the report changes nothing.
LEMMA DisconnectKeepsUncut ==
    ASSUME TypeOK, Uncut, ~cut, up,
           NEW reason \in Reasons,
           disconnect_and_start_reconnect_timer(reason),
           pc' \in {pc, "idle"},
           UNCHANGED <<reconnect_timer, peer, started, up, cut>>
    PROVE  Uncut'
<1>1. reason # NoReason
  BY DEF Reasons, NoReason
<1>2. started /\ pc # "on_disconnected" /\ pc' # "on_disconnected"
  BY DEF Uncut, Link
<1>3. CASE ~is_connected
  <2>1. UNCHANGED <<is_connected, keep_alive_timer, stcp, disconnect_reason,
                    calls, cause>>
    BY <1>3 DEF disconnect_and_start_reconnect_timer
  <2> QED
    BY <1>2, <2>1 DEF Uncut, StoppedForGood, OneWayOn, Link, Reporting
<1>4. CASE is_connected
  <2>1. /\ ~is_connected' /\ ~keep_alive_timer' /\ stcp' = "closed"
        /\ disconnect_reason' = reason /\ calls' = calls + 1
        /\ cause' = IF cause = NoReason THEN reason ELSE cause
    BY <1>4 DEF disconnect_and_start_reconnect_timer
  <2>2. calls = 0 /\ cause = NoReason
    BY <1>2, <1>4 DEF Uncut, OneWayOn, Link, Reporting, TypeOK
  <2>3. calls' = 1 /\ calls' <= 1 /\ calls' > 0
    BY <2>1, <2>2
  <2> QED
    BY <1>1, <1>2, <2>1, <2>2, <2>3
       DEF Uncut, StoppedForGood, OneWayOn, Link, Reporting
<1> QED
  BY <1>3, <1>4 DEF TypeOK

\* Every step of client.c and every call of the application preserves the
\* invariant.
LEMMA NextInductive ==
    Disciplined /\ Inductive /\ [Next]_vars => Inductive'
<1> SUFFICES ASSUME Disciplined, TypeOK, ~cut => Uncut, [Next]_vars, ~cut'
             PROVE  Uncut'
  BY TypeStep DEF Inductive, Uncut, OneWayOn
<1>c. ~cut /\ Uncut
  <2>1. cut => cut'
    BY DEF Next, Start, Stop, SendFails, StcpConnected, StcpConnectFailed,
           StcpDisconnected, StcpInput, ReadNothing, ReadTooBig, ReadMessage,
           PeerFallsSilent, KeepAliveTimeout, ReconnectTimeout,
           CallOnDisconnected, OnConnectedReturns, OnMessageReturns,
           OnDisconnectedReturns, vars
  <2> QED
    BY <2>1
<1>r. /\ "message_encode_error" \in Reasons
      /\ "message_decode_error" \in Reasons
      /\ "connection_closed" \in Reasons
      /\ "keep_alive_timeout" \in Reasons
      /\ "message_too_big" \in Reasons
  BY DEF Reasons
<1>o. stcp = "open" => up
  BY <1>c DEF Uncut, Link
<1>z. calls \in Nat /\ (calls = 0 \/ calls = 1)
  BY <1>c DEF TypeOK, Uncut, Link
<1>1. CASE Start
  BY <1>1, <1>c
     DEF Start, TypeOK, Uncut, StoppedForGood, OneWayOn, Link, Reporting
<1>2. CASE Stop
  <2>1. ~Reporting /\ ~Reporting'
    BY <1>2, <1>c DEF Stop, Reporting
  <2>2. calls = 0 /\ calls' = 0 /\ pc' = pc
    BY <1>2, <1>z, <2>1 DEF Stop, Reporting
  <2> QED
    BY <1>2, <1>c, <2>1, <2>2
       DEF Stop, Uncut, StoppedForGood, OneWayOn, Link, Reporting
<1>3. CASE SendFails
  BY <1>3, <1>c, <1>r, DisconnectKeepsUncut DEF SendFails, Disciplined
<1>4. CASE StcpConnected
  BY <1>4, <1>c, <1>z
     DEF StcpConnected, Uncut, StoppedForGood, OneWayOn, Link, Reporting
<1>5. CASE StcpConnectFailed
  BY <1>5, <1>c, <1>z
     DEF StcpConnectFailed, Uncut, StoppedForGood, OneWayOn, Link, Reporting
<1>6. CASE StcpDisconnected
  BY <1>6, <1>c, <1>r, <1>o, DisconnectKeepsUncut DEF StcpDisconnected
<1>7. CASE StcpInput \/ ReadNothing
  BY <1>7, <1>c
     DEF StcpInput, ReadNothing, self, Uncut, StoppedForGood, OneWayOn, Link,
         Reporting
<1>9. CASE ReadTooBig
  BY <1>9, <1>c, <1>r, <1>o, DisconnectKeepsUncut DEF ReadTooBig
<1>10. CASE ReadMessage
  <2>1. CASE pc' = "on_message" /\ UNCHANGED <<self, cause, faults>>
    BY <1>10, <1>c, <2>1
       DEF ReadMessage, self, Uncut, StoppedForGood, OneWayOn, Link,
           Reporting
  <2>2. CASE /\ disconnect_and_start_reconnect_timer("message_decode_error")
             /\ UNCHANGED <<pong_received, reconnect_timer, pc>>
    BY <1>10, <1>c, <1>r, <1>o, <2>2, DisconnectKeepsUncut DEF ReadMessage
  <2>3. CASE /\ pong_received' = TRUE
             /\ UNCHANGED <<is_connected, disconnect_reason,
                            keep_alive_timer, reconnect_timer, stcp, calls,
                            pc, cause, faults>>
    BY <1>10, <1>c, <2>3
       DEF ReadMessage, Uncut, StoppedForGood, OneWayOn, Link, Reporting
  <2> QED
    BY <1>10, <2>1, <2>2, <2>3 DEF ReadMessage
<1>11. CASE PeerFallsSilent
  BY <1>11, <1>c
     DEF PeerFallsSilent, self, Uncut, StoppedForGood, OneWayOn, Link,
         Reporting
<1>12. CASE KeepAliveTimeout
  <2>1. up
    BY <1>12, <1>c
       DEF KeepAliveTimeout, Uncut, StoppedForGood, OneWayOn, Link
  <2>2. CASE pong_received
    <3>1. UNCHANGED <<is_connected, disconnect_reason, keep_alive_timer,
                      reconnect_timer, stcp, calls, cause, pc, started, up,
                      cut>>
      BY <1>12, <2>2 DEF KeepAliveTimeout
    <3> QED
      BY <1>c, <3>1
         DEF Uncut, StoppedForGood, OneWayOn, Link, Reporting
  <2>3. CASE ~pong_received
    BY <1>12, <1>c, <1>r, <2>1, <2>3, DisconnectKeepsUncut
       DEF KeepAliveTimeout
  <2> QED
    BY <2>2, <2>3
<1>13. CASE ReconnectTimeout
  BY <1>13, <1>c
     DEF ReconnectTimeout, Uncut, StoppedForGood, OneWayOn, Link, Reporting
<1>14. CASE CallOnDisconnected
  <2>1. calls = 1 /\ calls' = 0
    BY <1>14, <1>z DEF CallOnDisconnected
  <2>2. up /\ stcp = "closed" /\ ~reconnect_timer /\ ~keep_alive_timer
    BY <1>c, <2>1
       DEF Uncut, StoppedForGood, OneWayOn, Link, Reporting
  <2>3. /\ pc' = "on_disconnected" /\ ~up' /\ calls' <= 1
        /\ UNCHANGED <<is_connected, disconnect_reason, keep_alive_timer,
                       reconnect_timer, stcp, started, cause>>
    BY <1>14, <2>1 DEF CallOnDisconnected
  <2> QED
    BY <1>c, <2>1, <2>2, <2>3
       DEF Uncut, StoppedForGood, OneWayOn, Link, Reporting
<1>15. CASE OnConnectedReturns \/ OnMessageReturns
  BY <1>15, <1>c
     DEF OnConnectedReturns, OnMessageReturns, self, Uncut, StoppedForGood,
         OneWayOn, Link, Reporting
<1>17. CASE OnDisconnectedReturns
  BY <1>17, <1>c
     DEF OnDisconnectedReturns, Uncut, StoppedForGood, OneWayOn, Link,
         Reporting
<1>18. CASE UNCHANGED vars
  BY <1>18, <1>c
     DEF vars, self, Uncut, StoppedForGood, OneWayOn, Link, Reporting
<1> QED
  BY <1>1, <1>2, <1>3, <1>4, <1>5, <1>6, <1>7, <1>9, <1>10, <1>11, <1>12,
     <1>13, <1>14, <1>15, <1>17, <1>18
     DEF Next

\* The invariant holds throughout the life of a client whose application
\* keeps the rule.
THEOREM InductiveInvariant == Disciplined /\ Spec => []Inductive
<1>1. Init => Inductive
  <2>1. 0 \in 0..MaxFaults
    BY BoundAssumption
  <2>2. 0 \in Nat /\ 0 <= 1 /\ ~(0 > 0)
    OBVIOUS
  <2>3. Init => TypeOK
    BY <2>1, <2>2 DEF Init, TypeOK, NoReason, Callbacks
  <2>4. Init => StoppedForGood /\ OneWayOn /\ Link
    BY <2>2 DEF Init, StoppedForGood, OneWayOn, Link, Reporting
  <2> QED
    BY <2>3, <2>4 DEF Inductive
<1>2. CASE Disciplined
  <2>1. Inductive /\ [Next]_vars => Inductive'
    BY <1>2, NextInductive
  <2> QED
    BY <1>1, <2>1, PTL DEF Spec
<1>3. CASE ~Disciplined
  BY <1>3, PTL
<1> QED
  BY <1>2, <1>3

-----------------------------------------------------------------------------
(* What follows from it. *)

\* A started client always has exactly one way on, so it is never stuck and
\* never connects a TCP client that is in use, until stop() is called while a
\* lost connection is being reported.
THEOREM AlwaysOneWayOn == Disciplined /\ Spec => []OneWayOn
<1>1. Inductive => OneWayOn
  BY DEF Inductive
<1> QED
  BY <1>1, InductiveInvariant, PTL

\* on_disconnected() is given the reason of the failure that ended the
\* connection.
THEOREM FirstCause == Disciplined /\ Spec => []FirstCauseReported
<1>1. Inductive => FirstCauseReported
  BY DEF Inductive, TypeOK, Link, FirstCauseReported
<1> QED
  BY <1>1, InductiveInvariant, PTL

\* Every step of the client is one of the abstract client's, or none of the
\* application's business, unless it is the stop() that meets a report or
\* comes after it.
LEMMA LifecycleStep ==
    Inductive /\ [Next]_vars
        => cut' \/ [Lifecycle!Next]_(Lifecycle!state)
<1> SUFFICES ASSUME Inductive, [Next]_vars, ~cut'
             PROVE  [Lifecycle!Next]_(Lifecycle!state)
  OBVIOUS
<1>c. ~cut
  BY DEF Inductive, TypeOK, Next, Start, Stop, SendFails, StcpConnected,
         StcpConnectFailed, StcpDisconnected, StcpInput, ReadNothing,
         ReadTooBig, ReadMessage, PeerFallsSilent, KeepAliveTimeout,
         ReconnectTimeout, CallOnDisconnected, OnConnectedReturns,
         OnMessageReturns, OnDisconnectedReturns, vars
<1>a. /\ TypeOK /\ StoppedForGood /\ Link
      /\ started \in BOOLEAN /\ up \in BOOLEAN
  BY <1>c DEF Inductive, TypeOK
<1> USE DEF Call, Callbacks, Lifecycle!Next, Lifecycle!state, Lifecycle!Call
<1>1. CASE Start
  <2>1. ~started /\ started' /\ up' = up /\ pc' = pc
    BY <1>1 DEF Start
  <2> QED
    BY <2>1 DEF Lifecycle!Start
<1>2. CASE Stop
  <2>1. started /\ started' = FALSE /\ up' = FALSE /\ pc' = pc
    BY <1>2 DEF Stop
  <2> QED
    BY <2>1 DEF Lifecycle!Stop
<1>3. CASE StcpConnected
  <2>1. started /\ ~up
    BY <1>3, <1>a DEF StcpConnected, StoppedForGood, Link
  <2>2. pc = "idle" /\ pc' = "on_connected" /\ up' /\ started' = started
    BY <1>3 DEF StcpConnected
  <2> QED
    BY <2>1, <2>2 DEF Lifecycle!CallOnConnected
<1>4. CASE OnConnectedReturns \/ OnMessageReturns \/ OnDisconnectedReturns
  <2>1. /\ pc \in Callbacks /\ pc' \notin Callbacks
        /\ started' = started /\ up' = up
    BY <1>4
       DEF OnConnectedReturns, OnMessageReturns, OnDisconnectedReturns
  <2> QED
    BY <2>1 DEF Lifecycle!CallbackReturns
<1>5. CASE CallOnDisconnected
  <2>1. up /\ started
    BY <1>5, <1>a DEF CallOnDisconnected, TypeOK, Link
  <2>2. /\ pc = "idle" /\ pc' = "on_disconnected"
        /\ ~up' /\ started' = started
    BY <1>5 DEF CallOnDisconnected
  <2> QED
    BY <2>1, <2>2 DEF Lifecycle!CallOnDisconnected
<1>6. CASE ReadMessage
  <2>1. /\ pc = "on_stcp_input" /\ pc' \in {pc, "on_message"}
        /\ stcp = "open" /\ started' = started /\ up' = up
    BY <1>6 DEF ReadMessage
  <2>2. up /\ started
    BY <2>1, <1>a DEF Link
  <2> QED
    BY <2>1, <2>2 DEF Lifecycle!CallOnMessage
<1>7. CASE \/ SendFails \/ StcpConnectFailed \/ StcpDisconnected
           \/ StcpInput \/ ReadNothing \/ ReadTooBig
           \/ PeerFallsSilent \/ KeepAliveTimeout \/ ReconnectTimeout
           \/ UNCHANGED vars
  <2>1. started' = started /\ up' = up
    BY <1>7
       DEF SendFails, StcpConnectFailed, StcpDisconnected, StcpInput,
           ReadNothing, ReadTooBig, PeerFallsSilent, KeepAliveTimeout,
           ReconnectTimeout, vars
  <2>2. pc' = pc \/ {pc, pc'} \cap Callbacks = {}
    BY <1>7
       DEF SendFails, StcpConnectFailed, StcpDisconnected, StcpInput,
           ReadNothing, ReadTooBig, PeerFallsSilent, KeepAliveTimeout,
           ReconnectTimeout, vars
  <2> QED
    BY <2>1, <2>2
<1> QED
  BY <1>1, <1>2, <1>3, <1>4, <1>5, <1>6, <1>7 DEF Next

\* The client implements ClientLifecycle: its callbacks alternate although
\* one of them is queued, and none is called after stop(), until stop() is
\* called while a lost connection is being reported.
THEOREM LifecycleKept == Disciplined /\ Spec => KeepsLifecycle
<1>1. Init => Lifecycle!Init
  BY DEF Init, Lifecycle!Init, Call, Callbacks
<1>2. Inductive /\ [Next]_vars
          => [cut' \/ [Lifecycle!Next]_(Lifecycle!state)]_vars
  BY LifecycleStep
<1> QED
  BY <1>1, <1>2, InductiveInvariant, PTL DEF Spec, KeepsLifecycle

=============================================================================
