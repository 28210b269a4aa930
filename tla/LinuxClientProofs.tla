------------------------- MODULE LinuxClientProofs -------------------------
(***************************************************************************)
(* Proofs about LinuxClient, for every set of descriptors, every number of *)
(* failures and every behaviour of the rest of the application.            *)
(***************************************************************************)
EXTENDS LinuxClient, TLAPS

\* The conditions under which client.c keeps its promises: the application
\* sends only while connected and does not stop the client from a callback,
\* and the timers can be set up.
Disciplined == ~SendsWhileDisconnected /\ ~StopsInCallback /\ ~TimerFaults

-----------------------------------------------------------------------------
(* What the static functions of client.c assign is of the right type. *)

\* pending_disconnect().
LEMMA PendingDisconnectTypes ==
    ASSUME TypeOK, NEW reason \in Reasons, NEW k \in [Fds -> Kinds],
           PendingDisconnect(reason, k)
    PROVE  /\ kind' \in [Fds -> Kinds]
           /\ server_fd' \in Fds \cup {NoFd}
           /\ pending_disconnect' \in BOOLEAN
           /\ disconnect_reason' \in Reasons
           /\ cause' \in Reasons \cup {NoReason}
           /\ faults' \in 0..MaxFaults
<1>1. Closed(k, {server_fd}) \in [Fds -> Kinds]
  BY DEF Closed, Kinds
<1>2. faults' = faults \/ (faults < MaxFaults /\ faults' = faults + 1)
  BY DEF PendingDisconnect, Fault
<1>3. faults' \in 0..MaxFaults
  BY <1>2, BoundsAssumption DEF TypeOK
<1> QED
  BY <1>1, <1>3 DEF PendingDisconnect, TypeOK

\* start_reconnect_timer().
LEMMA StartReconnectTimerTypes ==
    ASSUME NEW k \in [Fds -> Kinds], StartReconnectTimer(k)
    PROVE  /\ kind' \in [Fds -> Kinds]
           /\ reconnect_timer_fd' \in Fds \cup {NoFd}
  BY DEF StartReconnectTimer, Free, Opened, Kinds

\* connect_to_server(), and the retry of its callers.
LEMMA ConnectOrRetryTypes ==
    ASSUME TypeOK, NEW k \in [Fds -> Kinds],
           NEW who \in {"start", "process"}, NEW back \in Points,
           started' \in BOOLEAN, ConnectOrRetry(k, who, back)
    PROVE  TypeOK'
<1>1. CASE ConnectSucceeds(k, who) /\ reconnect_timer_fd'
                \in {NoFd, reconnect_timer_fd}
  <2>1. kind' \in [Fds -> Kinds]
    BY <1>1 DEF ConnectSucceeds, Free, Opened, Kinds
  <2>2. /\ server_fd' \in Fds \cup {NoFd}
        /\ keep_alive_timer_fd' \in Fds \cup {NoFd}
        /\ reconnect_timer_fd' \in Fds \cup {NoFd}
    BY <1>1 DEF ConnectSucceeds, Free, TypeOK
  <2>3. pc' \in Points
    BY <1>1 DEF ConnectSucceeds, Points, Callbacks
  <2> QED
    BY <1>1, <2>1, <2>2, <2>3 DEF ConnectSucceeds, TypeOK
<1>2. CASE /\ ConnectFails(k)
           /\ StartReconnectTimer(k)
           /\ pc' = back
           /\ UNCHANGED <<server_fd, pong_received, pending_disconnect,
                          disconnect_reason, caller, up, cause>>
  <2>1. /\ kind' \in [Fds -> Kinds]
        /\ reconnect_timer_fd' \in Fds \cup {NoFd}
    BY <1>2, StartReconnectTimerTypes
  <2>2. keep_alive_timer_fd' \in Fds \cup {NoFd}
    BY <1>2 DEF ConnectFails, Free, TypeOK
  <2>3. faults' \in 0..MaxFaults
    BY <1>2, BoundsAssumption DEF ConnectFails, Fault, TypeOK
  <2> QED
    BY <1>2, <2>1, <2>2, <2>3 DEF TypeOK
<1> QED
  BY <1>1, <1>2 DEF ConnectOrRetry

-----------------------------------------------------------------------------
(* Type correctness: no condition on the application or on the timers. *)

\* Every step assigns each variable a value of its type.
LEMMA NextType == TypeOK /\ [Next]_vars => TypeOK'
<1> SUFFICES ASSUME TypeOK, [Next]_vars PROVE TypeOK'
  OBVIOUS
<1>d. {"message_encode_error", "message_decode_error", "connection_closed",
       "keep_alive_timeout", "general_error", "message_too_big"} = Reasons
  BY DEF Reasons
<1>e. {"idle", "process_socket", "process_tail", "on_connected",
       "on_message", "on_disconnected"} = Points
  BY DEF Points, Callbacks
<1>1. CASE Start
  BY <1>1, <1>e, ConnectOrRetryTypes DEF Start, TypeOK
<1>2. CASE Stop
  BY <1>2, <1>d, <1>e DEF Stop, Disconnect, Closed, TypeOK, Kinds
<1>3. CASE Send
  BY <1>3, <1>d, <1>e, PendingDisconnectTypes DEF Send, TypeOK, self
<1>4. CASE ProcessSocket
  BY <1>4, <1>e DEF ProcessSocket, self, TypeOK
<1>5. CASE ReadWouldBlock
  BY <1>5, <1>e DEF ReadWouldBlock, self, TypeOK
<1>6. CASE ReadFails
  BY <1>6, <1>d, <1>e, PendingDisconnectTypes DEF ReadFails, TypeOK
<1>7. CASE ReadMessage
  BY <1>7, <1>d, <1>e, PendingDisconnectTypes DEF ReadMessage, TypeOK, self
<1>8. CASE OnMessageReturns
  BY <1>8, <1>e DEF OnMessageReturns, self, TypeOK
<1>9. CASE ProcessKeepAliveTimer
  <2>1. Disarmed(kind, keep_alive_timer_fd) \in [Fds -> Kinds]
    BY DEF Disarmed, Opened, TypeOK, Kinds
  <2> QED
    BY <1>9, <1>d, <1>e, <2>1, PendingDisconnectTypes
       DEF ProcessKeepAliveTimer, TypeOK
<1>10. CASE ProcessReconnectTimer
  <2>1. Closed(kind, {reconnect_timer_fd}) \in [Fds -> Kinds]
    BY DEF Closed, TypeOK, Kinds
  <2> QED
    BY <1>10, <1>e, <2>1, ConnectOrRetryTypes
       DEF ProcessReconnectTimer, TypeOK
<1>11. CASE ProcessOtherFd
  BY <1>11, <1>e DEF ProcessOtherFd, self, TypeOK
<1>12. CASE OnConnectedReturns
  BY <1>12, <1>e DEF OnConnectedReturns, self, TypeOK
<1>13. CASE ProcessReturns
  BY <1>13, <1>e DEF ProcessReturns, self, TypeOK
<1>14. CASE ProcessDisconnects
  BY <1>14, <1>d, <1>e
     DEF ProcessDisconnects, Disconnect, Closed, TypeOK, Kinds
<1>15. CASE OnDisconnectedReturns
  BY <1>15, <1>e, StartReconnectTimerTypes DEF OnDisconnectedReturns, TypeOK
<1>16. CASE ApplicationOpens
  BY <1>16 DEF ApplicationOpens, self, Free, Opened, TypeOK, Kinds
<1>17. CASE ApplicationCloses
  BY <1>17 DEF ApplicationCloses, self, Closed, TypeOK, Kinds
<1>18. CASE UNCHANGED vars
  BY <1>18 DEF vars, self, TypeOK
<1> QED
  BY <1>1, <1>2, <1>3, <1>4, <1>5, <1>6, <1>7, <1>8, <1>9, <1>10, <1>11,
     <1>12, <1>13, <1>14, <1>15, <1>16, <1>17, <1>18
     DEF Next

\* Whatever the application does and whichever call fails, the fields of the
\* client and the descriptor table keep their types.
THEOREM TypeCorrect == Spec => []TypeOK
<1>1. Init => TypeOK
  <2>1. 0 \in 0..MaxFaults
    BY BoundsAssumption
  <2> QED
    BY <2>1 DEF Init, TypeOK, Reasons, Kinds, Points, Callbacks, NoReason
<1> QED
  BY <1>1, NextType, PTL DEF Spec

-----------------------------------------------------------------------------
(* The inductive invariant. *)

\* The state init() leaves satisfies the inductive invariant.
LEMMA InitInductive == Init => Inductive
<1> SUFFICES ASSUME Init PROVE Inductive
  OBVIOUS
<1>1. TypeOK
  <2>1. 0 \in 0..MaxFaults
    BY BoundsAssumption
  <2> QED
    BY <2>1 DEF Init, TypeOK, Reasons, Kinds, Points, Callbacks, NoReason
<1>2. OwnsItsFields
  BY DEF Init, OwnsItsFields
<1>3. NoLeak
  BY DEF Init, NoLeak
<1>4. Phase
  BY DEF Init, Phase
<1> QED
  BY <1>1, <1>2, <1>3, <1>4 DEF Inductive

\* Every function of client.c, every callback and everything the rest of
\* the application does with its descriptors preserves the invariant.
LEMMA NextInductive ==
    Disciplined /\ Inductive /\ [Next]_vars => Inductive'
<1> SUFFICES ASSUME Disciplined, Inductive, [Next]_vars
             PROVE  Inductive'
  OBVIOUS
<1>a. TypeOK /\ OwnsItsFields /\ NoLeak /\ Phase
  BY DEF Inductive
<1>b. NoFd \notin Fds
  BY FdsAssumption
<1>c. ~SendsWhileDisconnected /\ ~StopsInCallback /\ ~TimerFaults
  BY DEF Disciplined
<1>d. TypeOK'
  BY <1>a, NextType
<1>1. CASE Start
  <2>1. OwnsItsFields'
    BY <1>1, <1>a, <1>b, <1>c
       DEF Start, ConnectOrRetry, ConnectSucceeds, ConnectFails,
           StartReconnectTimer, Free, Opened, Fault, OwnsItsFields,
           Phase, TypeOK, Kinds
  <2>2. NoLeak'
    BY <1>1, <1>a, <1>b, <1>c
       DEF Start, ConnectOrRetry, ConnectSucceeds, ConnectFails,
           StartReconnectTimer, Free, Opened, Fault, OwnsItsFields,
           NoLeak, Phase, TypeOK, Kinds
  <2>3. Phase'
    BY <1>1, <1>a, <1>b, <1>c
       DEF Start, ConnectOrRetry, ConnectSucceeds, ConnectFails,
           StartReconnectTimer, Free, Opened, Fault, OwnsItsFields,
           Phase, TypeOK
  <2> QED
    BY <1>d, <2>1, <2>2, <2>3 DEF Inductive
<1>2. CASE Stop
  <2>1. OwnsItsFields'
    BY <1>2, <1>a, <1>b, <1>c
       DEF Stop, Disconnect, Closed, OwnsItsFields, Phase, TypeOK, Kinds,
           Callbacks
  <2>2. NoLeak'
    BY <1>2, <1>a, <1>b, <1>c
       DEF Stop, Disconnect, Closed, OwnsItsFields, NoLeak, Phase,
           TypeOK, Kinds, Callbacks
  <2>3. Phase'
    BY <1>2, <1>a, <1>b, <1>c
       DEF Stop, Disconnect, Closed, OwnsItsFields, Phase, TypeOK,
           Callbacks
  <2> QED
    BY <1>d, <2>1, <2>2, <2>3 DEF Inductive
<1>3. CASE Send
  <2>1. OwnsItsFields'
    BY <1>3, <1>a, <1>b, <1>c
       DEF Send, PendingDisconnect, Closed, Fault, self, InApplication,
           OwnsItsFields, Phase, TypeOK, Kinds, Callbacks
  <2>2. NoLeak'
    BY <1>3, <1>a, <1>b, <1>c
       DEF Send, PendingDisconnect, Closed, Fault, self, InApplication,
           OwnsItsFields, NoLeak, Phase, TypeOK, Kinds, Callbacks
  <2>3. Phase'
    BY <1>3, <1>a, <1>b, <1>c
       DEF Send, PendingDisconnect, Closed, Fault, self, InApplication,
           OwnsItsFields, Phase, TypeOK, Callbacks
  <2> QED
    BY <1>d, <2>1, <2>2, <2>3 DEF Inductive
<1>4. CASE ProcessSocket
  <2>1. OwnsItsFields'
    BY <1>4, <1>a, <1>b, <1>c
       DEF ProcessSocket, self, OwnsItsFields, Phase, TypeOK, Kinds
  <2>2. NoLeak'
    BY <1>4, <1>a, <1>b, <1>c
       DEF ProcessSocket, self, OwnsItsFields, NoLeak, Phase, TypeOK,
           Kinds
  <2>3. Phase'
    BY <1>4, <1>a, <1>b, <1>c
       DEF ProcessSocket, self, OwnsItsFields, Phase, TypeOK
  <2> QED
    BY <1>d, <2>1, <2>2, <2>3 DEF Inductive
<1>5. CASE ReadWouldBlock
  <2>1. OwnsItsFields'
    BY <1>5, <1>a, <1>b, <1>c
       DEF ReadWouldBlock, self, OwnsItsFields, Phase, TypeOK, Kinds
  <2>2. NoLeak'
    BY <1>5, <1>a, <1>b, <1>c
       DEF ReadWouldBlock, self, OwnsItsFields, NoLeak, Phase, TypeOK,
           Kinds
  <2>3. Phase'
    BY <1>5, <1>a, <1>b, <1>c
       DEF ReadWouldBlock, self, OwnsItsFields, Phase, TypeOK
  <2> QED
    BY <1>d, <2>1, <2>2, <2>3 DEF Inductive
<1>6. CASE ReadFails
  <2>1. OwnsItsFields'
    BY <1>6, <1>a, <1>b, <1>c
       DEF ReadFails, PendingDisconnect, Closed, Fault, OwnsItsFields,
           Phase, TypeOK, Kinds
  <2>2. NoLeak'
    BY <1>6, <1>a, <1>b, <1>c
       DEF ReadFails, PendingDisconnect, Closed, Fault, OwnsItsFields,
           NoLeak, Phase, TypeOK, Kinds
  <2>3. Phase'
    BY <1>6, <1>a, <1>b, <1>c
       DEF ReadFails, PendingDisconnect, Closed, Fault, OwnsItsFields,
           Phase, TypeOK
  <2> QED
    BY <1>d, <2>1, <2>2, <2>3 DEF Inductive
<1>7. CASE ReadMessage
  <2>1. OwnsItsFields'
    BY <1>7, <1>a, <1>b, <1>c
       DEF ReadMessage, PendingDisconnect, Closed, Fault, self,
           OwnsItsFields, Phase, TypeOK, Kinds
  <2>2. NoLeak'
    BY <1>7, <1>a, <1>b, <1>c
       DEF ReadMessage, PendingDisconnect, Closed, Fault, self,
           OwnsItsFields, NoLeak, Phase, TypeOK, Kinds
  <2>3. Phase'
    BY <1>7, <1>a, <1>b, <1>c
       DEF ReadMessage, PendingDisconnect, Closed, Fault, self,
           OwnsItsFields, Phase, TypeOK
  <2> QED
    BY <1>d, <2>1, <2>2, <2>3 DEF Inductive
<1>8. CASE OnMessageReturns
  <2>1. OwnsItsFields'
    BY <1>8, <1>a, <1>b, <1>c
       DEF OnMessageReturns, self, OwnsItsFields, Phase, TypeOK, Kinds
  <2>2. NoLeak'
    BY <1>8, <1>a, <1>b, <1>c
       DEF OnMessageReturns, self, OwnsItsFields, NoLeak, Phase, TypeOK,
           Kinds
  <2>3. Phase'
    BY <1>8, <1>a, <1>b, <1>c
       DEF OnMessageReturns, self, OwnsItsFields, Phase, TypeOK
  <2> QED
    BY <1>d, <2>1, <2>2, <2>3 DEF Inductive
<1>9. CASE ProcessKeepAliveTimer
  <2>1. OwnsItsFields'
    BY <1>9, <1>a, <1>b, <1>c
       DEF ProcessKeepAliveTimer, PendingDisconnect, Closed, Fault,
           Disarmed, Opened, OwnsItsFields, Phase, TypeOK, Kinds
  <2>2. NoLeak'
    BY <1>9, <1>a, <1>b, <1>c
       DEF ProcessKeepAliveTimer, PendingDisconnect, Closed, Fault,
           Disarmed, Opened, OwnsItsFields, NoLeak, Phase, TypeOK, Kinds
  <2>3. Phase'
    BY <1>9, <1>a, <1>b, <1>c
       DEF ProcessKeepAliveTimer, PendingDisconnect, Closed, Fault,
           Disarmed, Opened, OwnsItsFields, Phase, TypeOK
  <2> QED
    BY <1>d, <2>1, <2>2, <2>3 DEF Inductive
<1>10. CASE ProcessReconnectTimer
  <2>1. OwnsItsFields'
    BY <1>10, <1>a, <1>b, <1>c
       DEF ProcessReconnectTimer, ConnectOrRetry, ConnectSucceeds,
           ConnectFails, StartReconnectTimer, Free, Opened, Fault,
           Closed, OwnsItsFields, Phase, TypeOK, Kinds
  <2>2. NoLeak'
    BY <1>10, <1>a, <1>b, <1>c
       DEF ProcessReconnectTimer, ConnectOrRetry, ConnectSucceeds,
           ConnectFails, StartReconnectTimer, Free, Opened, Fault,
           Closed, OwnsItsFields, NoLeak, Phase, TypeOK, Kinds
  <2>3. Phase'
    <3> DEFINE k == Closed(kind, {reconnect_timer_fd})
    <3>1. ~up /\ started /\ started' = started
      BY <1>10, <1>a DEF ProcessReconnectTimer, Phase
    <3>2. \A f \in Free(k) : f # NoFd
      BY <1>b DEF Free
    <3>3. CASE ConnectSucceeds(k, "process") /\ reconnect_timer_fd' = NoFd
      <4>1. server_fd' # NoFd /\ keep_alive_timer_fd' # NoFd
        BY <3>2, <3>3 DEF ConnectSucceeds
      <4> QED
        BY <1>a, <3>1, <3>3, <4>1 DEF ConnectSucceeds, Phase
    <3>4. CASE /\ ConnectFails(k)
               /\ StartReconnectTimer(k)
               /\ pc' = "process_tail"
               /\ UNCHANGED <<server_fd, pong_received, pending_disconnect,
                              disconnect_reason, caller, up, cause>>
      <4>1. reconnect_timer_fd' # NoFd
        BY <1>c, <3>2, <3>4 DEF StartReconnectTimer
      <4>2. keep_alive_timer_fd' = keep_alive_timer_fd
        BY <1>c, <3>4 DEF ConnectFails
      <4>3. pc # "on_disconnected"
        BY <1>10 DEF ProcessReconnectTimer
      <4> QED
        BY <1>a, <3>1, <3>4, <4>1, <4>2, <4>3 DEF Phase
    <3> QED
      BY <1>10, <3>3, <3>4 DEF ProcessReconnectTimer, ConnectOrRetry
  <2> QED
    BY <1>d, <2>1, <2>2, <2>3 DEF Inductive
<1>11. CASE ProcessOtherFd
  <2>1. OwnsItsFields'
    BY <1>11, <1>a, <1>b, <1>c
       DEF ProcessOtherFd, self, OwnsItsFields, Phase, TypeOK, Kinds
  <2>2. NoLeak'
    BY <1>11, <1>a, <1>b, <1>c
       DEF ProcessOtherFd, self, OwnsItsFields, NoLeak, Phase, TypeOK,
           Kinds
  <2>3. Phase'
    BY <1>11, <1>a, <1>b, <1>c
       DEF ProcessOtherFd, self, OwnsItsFields, Phase, TypeOK
  <2> QED
    BY <1>d, <2>1, <2>2, <2>3 DEF Inductive
<1>12. CASE OnConnectedReturns
  <2>1. OwnsItsFields'
    BY <1>12, <1>a, <1>b, <1>c
       DEF OnConnectedReturns, self, OwnsItsFields, Phase, TypeOK, Kinds
  <2>2. NoLeak'
    BY <1>12, <1>a, <1>b, <1>c
       DEF OnConnectedReturns, self, OwnsItsFields, NoLeak, Phase,
           TypeOK, Kinds
  <2>3. Phase'
    BY <1>12, <1>a, <1>b, <1>c
       DEF OnConnectedReturns, self, OwnsItsFields, Phase, TypeOK
  <2> QED
    BY <1>d, <2>1, <2>2, <2>3 DEF Inductive
<1>13. CASE ProcessReturns
  <2>1. OwnsItsFields'
    BY <1>13, <1>a, <1>b, <1>c
       DEF ProcessReturns, self, OwnsItsFields, Phase, TypeOK, Kinds
  <2>2. NoLeak'
    BY <1>13, <1>a, <1>b, <1>c
       DEF ProcessReturns, self, OwnsItsFields, NoLeak, Phase, TypeOK,
           Kinds
  <2>3. Phase'
    BY <1>13, <1>a, <1>b, <1>c
       DEF ProcessReturns, self, OwnsItsFields, Phase, TypeOK
  <2> QED
    BY <1>d, <2>1, <2>2, <2>3 DEF Inductive
<1>14. CASE ProcessDisconnects
  <2>1. OwnsItsFields'
    BY <1>14, <1>a, <1>b, <1>c
       DEF ProcessDisconnects, Disconnect, Closed, OwnsItsFields, Phase,
           TypeOK, Kinds
  <2>2. NoLeak'
    BY <1>14, <1>a, <1>b, <1>c
       DEF ProcessDisconnects, Disconnect, Closed, OwnsItsFields, NoLeak,
           Phase, TypeOK, Kinds
  <2>3. Phase'
    BY <1>14, <1>a, <1>b, <1>c
       DEF ProcessDisconnects, Disconnect, Closed, OwnsItsFields, Phase,
           TypeOK
  <2> QED
    BY <1>d, <2>1, <2>2, <2>3 DEF Inductive
<1>15. CASE OnDisconnectedReturns
  <2>1. OwnsItsFields'
    BY <1>15, <1>a, <1>b, <1>c
       DEF OnDisconnectedReturns, StartReconnectTimer, Free, Opened,
           OwnsItsFields, Phase, TypeOK, Kinds
  <2>2. NoLeak'
    BY <1>15, <1>a, <1>b, <1>c
       DEF OnDisconnectedReturns, StartReconnectTimer, Free, Opened,
           OwnsItsFields, NoLeak, Phase, TypeOK, Kinds
  <2>3. Phase'
    BY <1>15, <1>a, <1>b, <1>c
       DEF OnDisconnectedReturns, StartReconnectTimer, Free, Opened,
           OwnsItsFields, Phase, TypeOK
  <2> QED
    BY <1>d, <2>1, <2>2, <2>3 DEF Inductive
<1>16. CASE ApplicationOpens
  <2>1. OwnsItsFields'
    BY <1>16, <1>a, <1>b, <1>c
       DEF ApplicationOpens, self, Free, Opened, InApplication,
           OwnsItsFields, Phase, TypeOK, Kinds, Callbacks
  <2>2. NoLeak'
    BY <1>16, <1>a, <1>b, <1>c
       DEF ApplicationOpens, self, Free, Opened, InApplication,
           OwnsItsFields, NoLeak, Phase, TypeOK, Kinds, Callbacks
  <2>3. Phase'
    BY <1>16, <1>a, <1>b, <1>c
       DEF ApplicationOpens, self, Free, Opened, InApplication,
           OwnsItsFields, Phase, TypeOK, Callbacks
  <2> QED
    BY <1>d, <2>1, <2>2, <2>3 DEF Inductive
<1>17. CASE ApplicationCloses
  <2>1. OwnsItsFields'
    BY <1>17, <1>a, <1>b, <1>c
       DEF ApplicationCloses, self, Closed, InApplication, OwnsItsFields,
           Phase, TypeOK, Kinds, Callbacks
  <2>2. NoLeak'
    BY <1>17, <1>a, <1>b, <1>c
       DEF ApplicationCloses, self, Closed, InApplication, OwnsItsFields,
           NoLeak, Phase, TypeOK, Kinds, Callbacks
  <2>3. Phase'
    BY <1>17, <1>a, <1>b, <1>c
       DEF ApplicationCloses, self, Closed, InApplication, OwnsItsFields,
           Phase, TypeOK, Callbacks
  <2> QED
    BY <1>d, <2>1, <2>2, <2>3 DEF Inductive
<1>18. CASE UNCHANGED vars
  BY <1>18, <1>a, <1>d
     DEF vars, self, Inductive, OwnsItsFields, NoLeak, Phase
<1> QED
  BY <1>1, <1>2, <1>3, <1>4, <1>5, <1>6, <1>7, <1>8, <1>9, <1>10, <1>11,
     <1>12, <1>13, <1>14, <1>15, <1>16, <1>17, <1>18
     DEF Next

\* The invariant holds throughout the life of a client whose application
\* keeps the rules.
THEOREM InductiveInvariant == Disciplined /\ Spec => []Inductive
<1>1. Disciplined /\ Inductive /\ [Next]_vars => Inductive'
  BY NextInductive
<1>2. CASE Disciplined
  <2>1. Inductive /\ [Next]_vars => Inductive'
    BY <1>1, <1>2
  <2> QED
    BY InitInductive, <2>1, PTL DEF Spec
<1>3. CASE ~Disciplined
  BY <1>3, PTL
<1> QED
  BY <1>2, <1>3

-----------------------------------------------------------------------------
(* What follows from it. *)

\* The fields never hold the number of a closed or foreign descriptor, so
\* process(), stop() and disconnect() never touch a descriptor of the
\* application.
THEOREM FieldsOwned == Disciplined /\ Spec => []OwnsItsFields
<1>1. Inductive => OwnsItsFields
  BY DEF Inductive
<1> QED
  BY <1>1, InductiveInvariant, PTL

\* No sequence of connects, failures, stops and reconnects loses a
\* descriptor.
THEOREM NothingLeaks == Disciplined /\ Spec => []NoLeak
<1>1. Inductive => NoLeak
  BY DEF Inductive
<1> QED
  BY <1>1, InductiveInvariant, PTL

\* Between two events a started client has an armed timer to wake it up.
THEOREM AlwaysWoken == Disciplined /\ Spec => []NeverStranded
<1>1. Inductive => NeverStranded
  BY DEF Inductive, TypeOK, OwnsItsFields, Phase, NeverStranded
<1> QED
  BY <1>1, InductiveInvariant, PTL

\* After stop() the client holds no descriptor that could connect it again.
THEOREM StoppedStaysQuiet == Disciplined /\ Spec => []StoppedIsQuiet
<1>1. Inductive => StoppedIsQuiet
  BY FdsAssumption DEF Inductive, TypeOK, Kinds, NoLeak, Phase, StoppedIsQuiet
<1> QED
  BY <1>1, InductiveInvariant, PTL

\* on_disconnected() is given the first cause.
THEOREM FirstCause == Disciplined /\ Spec => []FirstCauseReported
<1>1. Inductive => FirstCauseReported
  BY DEF Inductive, Phase, FirstCauseReported
<1> QED
  BY <1>1, InductiveInvariant, PTL

\* A client whose application keeps the rules implements ClientLifecycle:
\* on_connected() and on_disconnected() alternate, messages come in between,
\* and no callback is made after stop() until start() is called.
THEOREM ClientImplementsLifecycle ==
    Disciplined /\ Spec => ImplementsLifecycle
<1>1. Init => Lifecycle!Init
  BY DEF Init, Lifecycle!Init, Call, Callbacks
<1>2. Disciplined /\ Inductive /\ [Next]_vars
          => [Lifecycle!Next]_(Lifecycle!state)
  <2> SUFFICES ASSUME Disciplined, Inductive, [Next]_vars
               PROVE  [Lifecycle!Next]_(Lifecycle!state)
    OBVIOUS
  <2>a. Phase /\ started \in BOOLEAN /\ up \in BOOLEAN
    BY DEF Inductive, TypeOK
  <2>b. (up => started) /\ (pc = "on_disconnected" => ~up)
    BY <2>a DEF Phase
  <2> USE DEF Call, Callbacks, Lifecycle!Next, Lifecycle!state,
              Lifecycle!Call
  <2>1. CASE Start
    <3>1. ~started /\ started' = TRUE /\ pc = "idle"
      BY <2>1 DEF Start
    <3>2. \/ up' = TRUE /\ pc' = "on_connected"
          \/ up' = up /\ pc' = "idle"
      BY <2>1 DEF Start, ConnectOrRetry, ConnectSucceeds
    <3> QED
      BY <3>1, <3>2 DEF Lifecycle!Start
  <2>2. CASE Stop
    <3>1. started /\ started' = FALSE /\ up' = FALSE /\ pc' = pc
      BY <2>2 DEF Stop
    <3> QED
      BY <3>1 DEF Lifecycle!Stop
  <2>3. CASE ProcessReconnectTimer
    <3>1. pc = "idle" /\ ~up /\ started /\ started' = started
      BY <2>3, <2>a DEF ProcessReconnectTimer, Phase
    <3>2. \/ up' = TRUE /\ pc' = "on_connected"
          \/ up' = up /\ pc' = "process_tail"
      BY <2>3 DEF ProcessReconnectTimer, ConnectOrRetry, ConnectSucceeds
    <3> QED
      BY <3>1, <3>2 DEF Lifecycle!CallOnConnected
  <2>4. CASE OnConnectedReturns \/ OnMessageReturns \/ OnDisconnectedReturns
    <3>1. /\ pc \in Callbacks /\ pc' \notin Callbacks
          /\ started' = started /\ up' = up
      BY <2>4
         DEF OnConnectedReturns, OnMessageReturns, OnDisconnectedReturns
    <3> QED
      BY <3>1 DEF Lifecycle!CallbackReturns
  <2>5. CASE ProcessDisconnects
    <3>1. /\ pc = "process_tail" /\ pc' = "on_disconnected"
          /\ pending_disconnect /\ up' = FALSE /\ started' = started
      BY <2>5 DEF ProcessDisconnects
    <3>2. up /\ started
      BY <2>a, <3>1 DEF Phase
    <3> QED
      BY <3>1, <3>2 DEF Lifecycle!CallOnDisconnected
  <2>6. CASE ReadMessage
    <3>1. /\ pc = "process_socket" /\ pc' \in {pc, "on_message"}
          /\ started' = started /\ up' = up
      BY <2>6 DEF ReadMessage
    <3>2. up /\ started
      BY <2>a, <3>1 DEF Phase
    <3> QED
      BY <3>1, <3>2 DEF Lifecycle!CallOnMessage
  <2>7. CASE \/ Send \/ ProcessSocket \/ ReadWouldBlock \/ ReadFails
             \/ ProcessKeepAliveTimer \/ ProcessOtherFd \/ ProcessReturns
             \/ ApplicationOpens \/ ApplicationCloses \/ UNCHANGED vars
    <3>1. started' = started /\ up' = up
      BY <2>7
         DEF Send, ProcessSocket, ReadWouldBlock, ReadFails,
             ProcessKeepAliveTimer, ProcessOtherFd, ProcessReturns,
             ApplicationOpens, ApplicationCloses, vars
    <3>2. pc' = pc \/ {pc, pc'} \cap Callbacks = {}
      BY <2>7
         DEF Send, ProcessSocket, ReadWouldBlock, ReadFails,
             ProcessKeepAliveTimer, ProcessOtherFd, ProcessReturns,
             ApplicationOpens, ApplicationCloses, vars
    <3> QED
      BY <3>1, <3>2
  <2> QED
    BY <2>1, <2>2, <2>3, <2>4, <2>5, <2>6, <2>7 DEF Next
<1>3. CASE Disciplined
  <2>1. Inductive /\ [Next]_vars => [Lifecycle!Next]_(Lifecycle!state)
    BY <1>2, <1>3
  <2> QED
    BY <1>1, <2>1, InductiveInvariant, <1>3, PTL
       DEF Spec, ImplementsLifecycle, Lifecycle!Spec
<1>4. CASE ~Disciplined
  BY <1>4, PTL
<1> QED
  BY <1>3, <1>4

=============================================================================
