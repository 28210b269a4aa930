-------------------------- MODULE KeepAliveProofs --------------------------
(***************************************************************************)
(* Proofs about KeepAlive, for every period, timeout, delay and lateness.  *)
(*                                                                         *)
(* How long an end waits for a dead one needs no assumption on the load:   *)
(* Base is inductive by itself.  That no live peer is given up needs       *)
(* Prompt, and InStep on top of Base.                                      *)
(***************************************************************************)
EXTENDS KeepAlive, TLAPS

Base == TypeOK /\ Receivers /\ OneOnItsWay /\ Waited

\* Every action keeps Base.
LEMMA BaseStep == Base /\ [Next]_vars => Base'
<1> SUFFICES ASSUME Base, [Next]_vars PROVE Base'
  OBVIOUS
<1> USE DEF Base, TypeOK, Ages, None, Accepting
<1>1. CASE Connect
  BY <1>1, TimesAssumption DEF Connect, Receivers, OneOnItsWay, Waited
<1>2. CASE Ping
  <2>1. TypeOK'
    <3>1. pong_received' \in BOOLEAN
      BY <1>2 DEF Ping
    <3>2. client_timer' \in 0..(Period + Late) /\ ping' \in Ages \cup {None}
      BY <1>2, TimesAssumption DEF Ping
    <3> QED
      BY <1>2, <3>1, <3>2 DEF Ping
  <2>2. Receivers'
    BY <1>2, TimesAssumption DEF Ping, Receivers, OneOnItsWay, Waited
  <2>3. OneOnItsWay'
    BY <1>2, TimesAssumption DEF Ping, Receivers, OneOnItsWay, Waited
  <2>4. Waited'
    BY <1>2, TimesAssumption DEF Ping, Receivers, OneOnItsWay, Waited
  <2> QED
    BY <2>1, <2>2, <2>3, <2>4
<1>3. CASE ClientTimesOut
  BY <1>3, TimesAssumption DEF ClientTimesOut, ClientCloses, Receivers, OneOnItsWay, Waited
<1>4. CASE handle_message_pong
  BY <1>4, TimesAssumption DEF handle_message_pong, Receivers, OneOnItsWay, Waited
<1>5. CASE Stop
  BY <1>5, TimesAssumption DEF Stop, ClientCloses, Receivers, OneOnItsWay, Waited
<1>6. CASE ClientReadsEnd
  BY <1>6, TimesAssumption DEF ClientReadsEnd, ClientCloses, Receivers, OneOnItsWay, Waited
<1>7. CASE Accept
  <2>1. TypeOK'
    BY <1>7, TimesAssumption DEF Accept, Receivers, OneOnItsWay, Waited
  <2>2. Receivers'
    BY <1>7, TimesAssumption DEF Accept, Receivers, OneOnItsWay, Waited
  <2>3. OneOnItsWay'
    BY <1>7, TimesAssumption DEF Accept, Receivers, OneOnItsWay, Waited
  <2>4. Waited'
    BY <1>7, TimesAssumption DEF Accept, Receivers, OneOnItsWay, Waited
  <2> QED
    BY <2>1, <2>2, <2>3, <2>4
<1>8. CASE handle_message_ping
  BY <1>8, TimesAssumption DEF handle_message_ping, Receivers, OneOnItsWay, Waited
<1>9. CASE ServerTimesOut
  BY <1>9, TimesAssumption DEF ServerTimesOut, ServerCloses, Receivers, OneOnItsWay, Waited
<1>10. CASE Disconnect
  BY <1>10, TimesAssumption DEF Disconnect, ServerCloses, Receivers, OneOnItsWay, Waited
<1>11. CASE ServerReadsEnd
  BY <1>11, TimesAssumption DEF ServerReadsEnd, ServerCloses, Receivers, OneOnItsWay, Waited
<1>12. CASE ServerDies
  BY <1>12, TimesAssumption DEF ServerDies, Receivers, OneOnItsWay, Waited
<1>13. CASE ClientDies
  BY <1>13, TimesAssumption DEF ClientDies, Receivers, OneOnItsWay, Waited
<1>14. CASE Tick
  BY <1>14, TimesAssumption DEF Tick, ClientRuns, ServerRuns, Waiting, Older, Receivers, OneOnItsWay, Waited
<1>15. CASE UNCHANGED vars
  BY <1>15 DEF vars, Receivers, OneOnItsWay, Waited
<1> QED
  BY <1>1, <1>2, <1>3, <1>4, <1>5, <1>6, <1>7, <1>8, <1>9, <1>10, <1>11, <1>12, <1>13, <1>14, <1>15 DEF Next

\* Every action keeps the timers in step, when all is prompt.
LEMMA InStepStep == Prompt /\ Base /\ InStep /\ [Next]_vars => InStep'
<1> SUFFICES ASSUME Prompt, Base, InStep, [Next]_vars PROVE InStep'
  OBVIOUS
<1> USE DEF Prompt, Base, TypeOK, Ages, None, Accepting, Receivers, OneOnItsWay
<1>1. CASE Connect
  BY <1>1, TimesAssumption DEF Connect, InStep
<1>2. CASE Ping
  BY <1>2, TimesAssumption DEF Ping, InStep, Waited
<1>3. CASE ClientTimesOut
  BY <1>3, TimesAssumption DEF ClientTimesOut, ClientCloses, InStep
<1>4. CASE handle_message_pong
  BY <1>4, TimesAssumption DEF handle_message_pong, InStep
<1>5. CASE Stop
  BY <1>5, TimesAssumption DEF Stop, ClientCloses, InStep
<1>6. CASE ClientReadsEnd
  BY <1>6, TimesAssumption DEF ClientReadsEnd, ClientCloses, InStep
<1>7. CASE Accept
  BY <1>7, TimesAssumption DEF Accept, InStep
<1>8. CASE handle_message_ping
  BY <1>8, TimesAssumption DEF handle_message_ping, InStep
<1>9. CASE ServerTimesOut
  BY <1>9, TimesAssumption DEF ServerTimesOut, ServerCloses, InStep
<1>10. CASE Disconnect
  BY <1>10, TimesAssumption DEF Disconnect, ServerCloses, InStep
<1>11. CASE ServerReadsEnd
  BY <1>11, TimesAssumption DEF ServerReadsEnd, ServerCloses, InStep
<1>12. CASE ServerDies
  BY <1>12, TimesAssumption DEF ServerDies, InStep
<1>13. CASE ClientDies
  BY <1>13, TimesAssumption DEF ClientDies, InStep
<1>14. CASE Tick
  BY <1>14, TimesAssumption DEF Tick, ClientRuns, ServerRuns, Waiting, Older, InStep
<1>15. CASE UNCHANGED vars
  BY <1>15 DEF vars, InStep
<1> QED
  BY <1>1, <1>2, <1>3, <1>4, <1>5, <1>6, <1>7, <1>8, <1>9, <1>10, <1>11, <1>12, <1>13, <1>14, <1>15 DEF Next

\* Base holds in every reachable state.
LEMMA BaseHolds == Spec => []Base
<1>1. ASSUME Init PROVE Base
  <2> USE DEF Ages, None, Accepting
  <2>1. TypeOK
    <3>1. pong_received \in BOOLEAN
      BY <1>1 DEF Init
    <3> QED
      BY <1>1, <3>1, TimesAssumption DEF Init, TypeOK
  <2>2. Receivers
    BY <1>1, TimesAssumption DEF Init, Receivers
  <2>3. OneOnItsWay
    BY <1>1, TimesAssumption DEF Init, OneOnItsWay
  <2>4. Waited
    BY <1>1, TimesAssumption DEF Init, Waited
  <2> QED
    BY <2>1, <2>2, <2>3, <2>4 DEF Base
<1> QED
  BY <1>1, BaseStep, PTL DEF Spec

\* Whatever the delays: a client notices a dead server (process_keep_alive_
\* timer()) and a server a dead client (process_client_keep_alive_timer())
\* within the time that NoticedInTime states.
THEOREM DeadPeerNoticed == Spec => []NoticedInTime
<1>1. Base => NoticedInTime
  BY TimesAssumption DEF Base, TypeOK, Waited, NoticedInTime, Ages, None
<1> QED
  BY <1>1, BaseHolds, PTL

\* Under Prompt the whole inductive invariant holds.
THEOREM InductiveInvariant == Prompt /\ Spec => []Inductive
<1> SUFFICES ASSUME Prompt PROVE Spec => []Inductive
  OBVIOUS
<1>1. Init => InStep
  BY DEF Init, InStep
<1>2. Base /\ InStep /\ [Next]_vars => InStep'
  BY InStepStep
<1>3. Base /\ InStep => Inductive
  BY DEF Base, Inductive
<1> QED
  BY <1>1, <1>2, <1>3, BaseHolds, PTL DEF Spec

\* Under Prompt, which the 2 s and 3 s of the code turn into a bound on delay
\* and lateness, neither end gives up a live one.
THEOREM LivePeerKept == Prompt /\ Spec => []NoFalseAlarm
<1> SUFFICES ASSUME Prompt PROVE Spec => []NoFalseAlarm
  OBVIOUS
<1>1. Inductive => NoFalseAlarm
  BY TimesAssumption DEF Prompt, Inductive, TypeOK, OneOnItsWay, InStep,
                         NoFalseAlarm, Ages, None, Accepting
<1> QED
  BY <1>1, InductiveInvariant, PTL

=============================================================================
