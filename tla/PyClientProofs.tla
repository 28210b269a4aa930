--------------------------- MODULE PyClientProofs ---------------------------
(***************************************************************************)
(* Proofs about the Python client, for every bound on the failures.        *)
(*                                                                         *)
(* Structure is the inductive invariant.  A connection that nobody has     *)
(* closed is one self._writer still refers to (WriterHoldsLink), and       *)
(* _main() lets go of it before it calls on_disconnected().  What goes     *)
(* wrong when stop() meets a connected client, or on_connected() raises,   *)
(* is excluded by `cut': until then the awaits at which _main() is         *)
(* connected are those with `up', and no cancellation is under way at any  *)
(* of them.                                                                *)
(***************************************************************************)
EXTENDS PyClient, TLAPS

\* The awaits of _main() with an open connection.
InConnection == Reading \cup {"on_connected"}

\* Only _close() makes a writer None, and it closes the connection.
WriterHoldsLink == ~writer => link \in {"none", "closed"}

\* Between two connections _main() has no writer.
ClosedBetween ==
    /\ pc = "on_disconnected" => ~writer
    /\ pc \notin InConnection /\ ~cut => ~writer

\* Until stop() meets a connected client: on_connected() was called for the
\* connection _main() is in, CancelledError is not on its way there, and
\* after stop() either it is on its way or _main() has ended.
Uncut ==
    ~cut =>
        /\ up <=> pc \in InConnection
        /\ cancelled => pc \notin InConnection
        /\ ~task /\ ~cancelled => pc \in Ended

Structure ==
    /\ TypeOK
    /\ WriterHoldsLink
    /\ ClosedBetween
    /\ Uncut
    /\ Watched

\* __init__() leaves a client without task, writer or connection.
LEMMA InitStructure == Init => Structure
<1> SUFFICES ASSUME Init PROVE Structure
  OBVIOUS
<1> USE DEF Init, Conns, Ended, Reading, Outside, InConnection
<1>1. TypeOK
  <2>1. faults \in 0..MaxFaults BY BoundAssumption
  <2>2. keep_alive \in
            [Conns -> {"none", "sleep", "wait", "cancelled", "done"}]
    OBVIOUS
  <2> QED BY <2>1, <2>2 DEF TypeOK
<1>2. WriterHoldsLink /\ ClosedBetween /\ Uncut
  BY DEF WriterHoldsLink, ClosedBetween, Uncut
<1>3. Watched BY DEF Watched
<1> QED BY <1>1, <1>2, <1>3 DEF Structure

\* The variables keep their types.
LEMMA TypeStep == TypeOK /\ [Next]_vars => TypeOK'
<1> SUFFICES ASSUME TypeOK, [Next]_vars PROVE TypeOK'
  OBVIOUS
<1> USE BoundAssumption DEF TypeOK, Conns, Ended, Reading, Outside, history,
        connection
<1>1. CASE Start BY <1>1 DEF Start
<1>2. CASE Stop BY <1>2 DEF Stop
<1>3. CASE Connected BY <1>3 DEF Connected
<1>4. CASE ConnectFails BY <1>4 DEF ConnectFails, Fault
<1>5. CASE OnConnectFailureReturns BY <1>5 DEF OnConnectFailureReturns
<1>6. CASE SleepEnds BY <1>6 DEF SleepEnds
<1>7. CASE OnConnectedReturns BY <1>7 DEF OnConnectedReturns
<1>8. CASE OnDisconnectedReturns BY <1>8 DEF OnDisconnectedReturns
<1>9. CASE MainCancelled BY <1>9 DEF MainCancelled
<1>10. CASE ReadMessage BY <1>10 DEF ReadMessage
<1>11. CASE OnMessageReturns BY <1>11 DEF OnMessageReturns
<1>12. CASE ReadFails BY <1>12 DEF ReadFails, ReaderStops, _close
<1>13. CASE MessageRaises
  <2>1. faults' \in 0..MaxFaults BY <1>13 DEF MessageRaises, Fault
  <2> QED BY <1>13, <2>1 DEF MessageRaises, ReaderStops, _close
<1>14. CASE ReaderCancelled BY <1>14 DEF ReaderCancelled, ReaderStops, _close
<1>15. ASSUME NEW c \in Conns, KeepAlive(c) PROVE TypeOK'
  <2>1. CASE KeepAliveSleepEnds(c) BY <2>1 DEF KeepAliveSleepEnds
  <2>2. CASE KeepAlivePong(c) BY <2>2 DEF KeepAlivePong
  <2>3. CASE KeepAliveTimeout(c)
    <3>1. faults' \in 0..MaxFaults BY <2>3 DEF KeepAliveTimeout, Fault
    <3> QED BY <2>3, <3>1 DEF KeepAliveTimeout, _close
  <2>4. CASE KeepAliveCancelled(c) BY <2>4 DEF KeepAliveCancelled, _close
  <2> QED BY <1>15, <2>1, <2>2, <2>3, <2>4 DEF KeepAlive
<1>16. CASE PeerFails BY <1>16 DEF PeerFails, Fault
<1>17. CASE UNCHANGED vars BY <1>17 DEF vars
<1>18. CASE CallbackRaises
  <2>1. faults' \in 0..MaxFaults BY <1>18 DEF CallbackRaises, Fault
  <2>2. cut' \in BOOLEAN BY <1>18 DEF CallbackRaises
  <2> QED BY <1>18, <2>1, <2>2 DEF CallbackRaises
<1> QED
  BY <1>1, <1>2, <1>3, <1>4, <1>5, <1>6, <1>7, <1>8, <1>9, <1>10, <1>11,
     <1>12, <1>13, <1>14, <1>15, <1>16, <1>17, <1>18 DEF Next

\* The writer, the connection and the awaits of _main() stay related.
LEMMA ConnectionStep ==
    Structure /\ [Next]_vars => (WriterHoldsLink /\ ClosedBetween /\ Uncut)'
<1> SUFFICES ASSUME Structure, [Next]_vars
             PROVE  (WriterHoldsLink /\ ClosedBetween /\ Uncut)'
  OBVIOUS
<1> USE DEF Structure, TypeOK, WriterHoldsLink, ClosedBetween, Uncut, Conns,
        Ended, Reading, Outside, InConnection, history, connection
<1>1. CASE Start BY <1>1 DEF Start
<1>2. CASE Stop BY <1>2 DEF Stop
<1>3. CASE Connected BY <1>3 DEF Connected
<1>4. CASE ConnectFails BY <1>4 DEF ConnectFails, Fault
<1>5. CASE OnConnectFailureReturns BY <1>5 DEF OnConnectFailureReturns
<1>6. CASE SleepEnds BY <1>6 DEF SleepEnds
<1>7. CASE OnConnectedReturns BY <1>7 DEF OnConnectedReturns
<1>8. CASE OnDisconnectedReturns BY <1>8 DEF OnDisconnectedReturns
<1>9. CASE MainCancelled BY <1>9 DEF MainCancelled
<1>10. CASE ReadMessage BY <1>10 DEF ReadMessage
<1>11. CASE OnMessageReturns BY <1>11 DEF OnMessageReturns
<1>12. CASE ReadFails BY <1>12 DEF ReadFails, ReaderStops, _close
<1>13. CASE MessageRaises
  BY <1>13 DEF MessageRaises, ReaderStops, _close, Fault
<1>14. CASE ReaderCancelled BY <1>14 DEF ReaderCancelled, ReaderStops, _close
<1>15. ASSUME NEW c \in Conns, KeepAlive(c)
       PROVE  (WriterHoldsLink /\ ClosedBetween /\ Uncut)'
  <2>1. CASE KeepAliveSleepEnds(c) BY <2>1 DEF KeepAliveSleepEnds
  <2>2. CASE KeepAlivePong(c) BY <2>2 DEF KeepAlivePong
  <2>3. CASE KeepAliveTimeout(c) BY <2>3 DEF KeepAliveTimeout, _close, Fault
  <2>4. CASE KeepAliveCancelled(c) BY <2>4 DEF KeepAliveCancelled, _close
  <2> QED BY <1>15, <2>1, <2>2, <2>3, <2>4 DEF KeepAlive
<1>16. CASE PeerFails BY <1>16 DEF PeerFails, Fault
<1>17. CASE UNCHANGED vars BY <1>17 DEF vars
<1>18. CASE CallbackRaises BY <1>18 DEF CallbackRaises, Fault
<1> QED
  BY <1>1, <1>2, <1>3, <1>4, <1>5, <1>6, <1>7, <1>8, <1>9, <1>10, <1>11,
     <1>12, <1>13, <1>14, <1>15, <1>16, <1>17, <1>18 DEF Next

\* No keep-alive task outlives its connection.
LEMMA WatchedStep == TypeOK /\ Watched /\ [Next]_vars => Watched'
<1> SUFFICES ASSUME TypeOK, Watched, [Next]_vars PROVE Watched'
  OBVIOUS
<1> USE DEF TypeOK, Watched, Conns, Ended, Reading, Outside, history, connection
<1>1. CASE Start BY <1>1 DEF Start
<1>2. CASE Stop BY <1>2 DEF Stop
<1>3. CASE Connected BY <1>3 DEF Connected
<1>4. CASE ConnectFails BY <1>4 DEF ConnectFails, Fault
<1>5. CASE OnConnectFailureReturns BY <1>5 DEF OnConnectFailureReturns
<1>6. CASE SleepEnds BY <1>6 DEF SleepEnds
<1>7. CASE OnConnectedReturns BY <1>7 DEF OnConnectedReturns
<1>8. CASE OnDisconnectedReturns BY <1>8 DEF OnDisconnectedReturns
<1>9. CASE MainCancelled BY <1>9 DEF MainCancelled
<1>10. CASE ReadMessage BY <1>10 DEF ReadMessage
<1>11. CASE OnMessageReturns BY <1>11 DEF OnMessageReturns
<1>12. CASE ReadFails BY <1>12 DEF ReadFails, ReaderStops, _close
<1>13. CASE MessageRaises
  BY <1>13 DEF MessageRaises, ReaderStops, _close, Fault
<1>14. CASE ReaderCancelled BY <1>14 DEF ReaderCancelled, ReaderStops, _close
<1>15. ASSUME NEW c \in Conns, KeepAlive(c) PROVE Watched'
  <2>1. CASE KeepAliveSleepEnds(c) BY <2>1 DEF KeepAliveSleepEnds
  <2>2. CASE KeepAlivePong(c) BY <2>2 DEF KeepAlivePong
  <2>3. CASE KeepAliveTimeout(c) BY <2>3 DEF KeepAliveTimeout, _close, Fault
  <2>4. CASE KeepAliveCancelled(c) BY <2>4 DEF KeepAliveCancelled, _close
  <2> QED BY <1>15, <2>1, <2>2, <2>3, <2>4 DEF KeepAlive
<1>16. CASE PeerFails BY <1>16 DEF PeerFails, Fault
<1>17. CASE UNCHANGED vars BY <1>17 DEF vars
<1>18. CASE CallbackRaises BY <1>18 DEF CallbackRaises, Fault
<1> QED
  BY <1>1, <1>2, <1>3, <1>4, <1>5, <1>6, <1>7, <1>8, <1>9, <1>10, <1>11,
     <1>12, <1>13, <1>14, <1>15, <1>16, <1>17, <1>18 DEF Next

\* Every step of _main(), of a keep-alive task, of the peer and of the
\* application keeps the invariant.
LEMMA StructureStep == Structure /\ [Next]_vars => Structure'
  BY TypeStep, ConnectionStep, WatchedStep DEF Structure

\* The inductive invariant: through every order of cancellations, failures
\* and awaits, self._writer, the connection, the keep-alive tasks and the
\* point where _main() is suspended go together.
THEOREM StructureInvariant == Spec => []Structure
<1>1. Init => Structure BY InitStructure
<1>2. Structure /\ [Next]_vars => Structure' BY StructureStep
<1> QED BY <1>1, <1>2, PTL DEF Spec

-----------------------------------------------------------------------------

\* The variables of the client and of its keep-alive tasks keep their types.
THEOREM TypeCorrect == Spec => []TypeOK
<1>1. Structure => TypeOK BY DEF Structure
<1> QED BY <1>1, StructureInvariant, PTL

\* A stop() between two connections ends _main(), at whichever of its awaits
\* CancelledError is raised: nothing is left connected or running.
THEOREM StopEndsTaskHolds == Spec => []StopEndsTask
<1>1. Structure => StopEndsTask
  BY DEF Structure, StopEndsTask, ClosedBetween, Uncut, Ended, InConnection,
         Reading
<1> QED BY <1>1, StructureInvariant, PTL

\* _main() never opens a connection, and never ends, with an earlier one
\* left open, until stop() meets a connected client or on_connected() raises.
THEOREM NoLeakHolds == Spec => []NoLeak
<1>1. Structure => NoLeak
  BY DEF Structure, NoLeak, WriterHoldsLink, ClosedBetween, Ended,
         InConnection, Reading
<1> QED BY <1>1, StructureInvariant, PTL

\* A connection that is read has its keep-alive task, and no task of an
\* earlier connection is left that could close it.
THEOREM WatchedHolds == Spec => []Watched
<1>1. Structure => Watched BY DEF Structure
<1> QED BY <1>1, StructureInvariant, PTL

\* Every step of the client is one of the abstract client's, or none of the
\* application's business, until stop() is called while it is connected or
\* on_connected() raises.
LEMMA LifecycleStep ==
    Structure /\ [Next]_vars
        => cut' \/ [Lifecycle!Next]_(Lifecycle!state)
<1> SUFFICES ASSUME Structure, [Next]_vars, ~cut'
             PROVE  [Lifecycle!Next]_(Lifecycle!state)
  OBVIOUS
<1> USE DEF Structure, TypeOK, Uncut, Conns, Ended, Reading, Outside,
        InConnection, history, connection, Callbacks, Call, Lifecycle!Next,
        Lifecycle!state, Lifecycle!Call, Lifecycle!Start,
        Lifecycle!CallOnConnected, Lifecycle!CallOnConnectFailure,
        Lifecycle!CallOnMessage, Lifecycle!CallOnDisconnected,
        Lifecycle!CallbackReturns, Lifecycle!Stop
<1>1. CASE Start BY <1>1 DEF Start
<1>2. CASE Stop BY <1>2 DEF Stop
<1>3. CASE Connected BY <1>3 DEF Connected
<1>4. CASE ConnectFails BY <1>4 DEF ConnectFails, Fault
<1>5. CASE OnConnectFailureReturns BY <1>5 DEF OnConnectFailureReturns
<1>6. CASE SleepEnds BY <1>6 DEF SleepEnds
<1>7. CASE OnConnectedReturns BY <1>7 DEF OnConnectedReturns
<1>8. CASE OnDisconnectedReturns BY <1>8 DEF OnDisconnectedReturns
<1>9. CASE MainCancelled BY <1>9 DEF MainCancelled
<1>10. CASE ReadMessage BY <1>10 DEF ReadMessage
<1>11. CASE OnMessageReturns BY <1>11 DEF OnMessageReturns
<1>12. CASE ReadFails BY <1>12 DEF ReadFails, ReaderStops, _close
<1>13. CASE MessageRaises
  BY <1>13 DEF MessageRaises, ReaderStops, _close, Fault
<1>14. CASE ReaderCancelled BY <1>14 DEF ReaderCancelled, ReaderStops, _close
<1>15. ASSUME NEW c \in Conns, KeepAlive(c)
       PROVE  [Lifecycle!Next]_(Lifecycle!state)
  <2>1. CASE KeepAliveSleepEnds(c) BY <2>1 DEF KeepAliveSleepEnds
  <2>2. CASE KeepAlivePong(c) BY <2>2 DEF KeepAlivePong
  <2>3. CASE KeepAliveTimeout(c) BY <2>3 DEF KeepAliveTimeout, _close, Fault
  <2>4. CASE KeepAliveCancelled(c) BY <2>4 DEF KeepAliveCancelled, _close
  <2> QED BY <1>15, <2>1, <2>2, <2>3, <2>4 DEF KeepAlive
<1>16. CASE PeerFails BY <1>16 DEF PeerFails, Fault
<1>17. CASE UNCHANGED vars BY <1>17 DEF vars
<1>18. CASE CallbackRaises BY <1>18 DEF CallbackRaises, Fault
<1> QED
  BY <1>1, <1>2, <1>3, <1>4, <1>5, <1>6, <1>7, <1>8, <1>9, <1>10, <1>11,
     <1>12, <1>13, <1>14, <1>15, <1>16, <1>17, <1>18 DEF Next

\* The Python client implements the client life cycle that all three clients
\* promise, and calls nobody after stop(), until stop() is called while it is
\* connected or on_connected() raises.
THEOREM LifecycleKept == Spec => KeepsLifecycle
<1>1. Init => Lifecycle!Init
  BY DEF Init, Lifecycle!Init, Call, Callbacks
<1>2. Structure /\ [Next]_vars
          => [cut' \/ [Lifecycle!Next]_(Lifecycle!state)]_vars
  BY LifecycleStep
<1> QED BY <1>1, <1>2, StructureInvariant, PTL DEF Spec, KeepsLifecycle

=============================================================================
