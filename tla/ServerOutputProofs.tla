------------------------- MODULE ServerOutputProofs -------------------------
(***************************************************************************)
(* Proofs about ServerOutput, for messages of every size and queues of     *)
(* every length.                                                           *)
(***************************************************************************)
EXTENDS ServerOutput, TLAPS

-----------------------------------------------------------------------------
(* Contiguous sequences of pieces. *)

\* The fields of the pieces of a sequence are numbers.
LEMMA PieceFields ==
    ASSUME NEW q \in Seq(Pieces), NEW i \in 1..Len(q)
    PROVE  q[i] \in Pieces /\ q[i].first \in Nat /\ q[i].size \in Nat
<1>1. q[i] \in Pieces
  OBVIOUS
<1> QED
  BY <1>1 DEF Pieces

\* A queue stays contiguous when the next piece of the stream is appended.
LEMMA AppendContiguous ==
    ASSUME NEW q \in Seq(Pieces), NEW p \in Pieces, NEW from \in Nat,
           Contiguous(q, from, p.first)
    PROVE  Contiguous(Append(q, p), from, p.first + p.size)
<1> DEFINE r == Append(q, p)
<1>1. Len(r) = Len(q) + 1 /\ Len(q) \in Nat
  OBVIOUS
<1>2. /\ \A i \in 1..Len(q) : r[i] = q[i]
      /\ r[Len(q) + 1] = p
  OBVIOUS
<1> HIDE DEF r
<1>3. r[1].first = from
  BY <1>1, <1>2 DEF Contiguous
<1>4. ASSUME NEW i \in 1..(Len(r) - 1)
      PROVE  r[i + 1].first = r[i].first + r[i].size
  <2>1. CASE i < Len(q)
    <3>1. r[i + 1] = q[i + 1] /\ r[i] = q[i]
      BY <1>1, <1>2, <2>1
    <3> QED
      BY <1>1, <3>1, <2>1 DEF Contiguous
  <2>2. CASE i = Len(q)
    BY <1>1, <1>2, <2>2 DEF Contiguous
  <2> QED
    BY <1>1, <2>1, <2>2
<1>5. Contiguous(r, from, p.first + p.size)
  BY <1>1, <1>2, <1>3, <1>4 DEF Contiguous
<1> QED
  BY <1>5 DEF r

\* What follows the first piece is contiguous.
LEMMA TailContiguous ==
    ASSUME NEW q \in Seq(Pieces), NEW from \in Nat, NEW to \in Nat,
           q # <<>>, Contiguous(q, from, to)
    PROVE  Contiguous(Tail(q), from + q[1].size, to)
<1> DEFINE r == Tail(q)
<1>1. /\ Len(q) \in Nat /\ Len(q) > 0 /\ Len(r) = Len(q) - 1
      /\ \A i \in 1..Len(r) : r[i] = q[i + 1]
  OBVIOUS
<1> HIDE DEF r
<1>2. q[1].first = from /\ q[Len(q)].first + q[Len(q)].size = to
  BY <1>1 DEF Contiguous
<1>3. CASE Len(q) = 1
  <2>1. from + q[1].size = to /\ Len(r) = 0
    BY <1>1, <1>2, <1>3
  <2>2. Contiguous(r, from + q[1].size, to)
    BY <2>1 DEF Contiguous
  <2> QED
    BY <2>2 DEF r
<1>4. CASE Len(q) > 1
  <2>1. r[1] = q[2] /\ r[Len(r)] = q[Len(q)]
    BY <1>1, <1>4
  <2>2. q[2].first = q[1].first + q[1].size
    BY <1>1, <1>4 DEF Contiguous
  <2>3. ASSUME NEW i \in 1..(Len(r) - 1)
        PROVE  r[i + 1].first = r[i].first + r[i].size
    <3>1. r[i + 1] = q[(i + 1) + 1] /\ r[i] = q[i + 1]
      BY <1>1
    <3> QED
      BY <1>1, <3>1 DEF Contiguous
  <2>4. Contiguous(r, from + q[1].size, to)
    BY <1>1, <1>2, <1>4, <2>1, <2>2, <2>3 DEF Contiguous
  <2> QED
    BY <2>4 DEF r
<1> QED
  BY <1>1, <1>3, <1>4

\* A partial write moves the start of the first piece, and the stream with
\* it.
LEMMA AdvanceContiguous ==
    ASSUME NEW q \in Seq(Pieces), NEW from \in Nat, NEW to \in Nat,
           NEW n \in Nat, q # <<>>, n <= q[1].size, Contiguous(q, from, to)
    PROVE  Contiguous([q EXCEPT ![1] = [first |-> @.first + n,
                                        size |-> @.size - n]],
                      from + n, to)
<1> DEFINE r == [q EXCEPT ![1] = [first |-> @.first + n,
                                  size |-> @.size - n]]
<1>1. Len(q) \in Nat /\ Len(q) > 0 /\ Len(r) = Len(q)
  OBVIOUS
<1>2. \A i \in 1..Len(q) : q[i].first \in Nat /\ q[i].size \in Nat
  BY PieceFields
<1>3. q[1] \in Pieces
  BY <1>1
<1>4. /\ r[1].first = q[1].first + n
      /\ r[1].size = q[1].size - n
      /\ \A i \in 2..Len(q) : r[i] = q[i]
  BY <1>1, <1>3 DEF Pieces
<1> HIDE DEF r
<1>5. \A i \in 1..Len(q) : r[i].first + r[i].size = q[i].first + q[i].size
  <2>1. r[1].first + r[1].size = q[1].first + q[1].size
    <3>1. q[1].first \in Nat /\ q[1].size \in Nat
      BY <1>1, <1>2
    <3> QED
      BY <1>4, <3>1
  <2> QED
    BY <1>1, <1>4, <2>1
<1>6. ASSUME NEW i \in 1..(Len(r) - 1)
      PROVE  r[i + 1].first = r[i].first + r[i].size
  BY <1>1, <1>4, <1>5 DEF Contiguous
<1>7. Contiguous(r, from + n, to)
  BY <1>1, <1>2, <1>4, <1>5, <1>6 DEF Contiguous
<1> QED
  BY <1>7 DEF r
\* Pieces stay pieces when bytes are written from their start.
LEMMA AdvancedPiece ==
    ASSUME NEW p \in Pieces, NEW n \in 1..p.size
    PROVE  [first |-> p.first + n, size |-> p.size - n] \in Pieces
  BY DEF Pieces

-----------------------------------------------------------------------------
(* The structure of the queue, with and without memory and late errors. *)

Shape == TypeOK /\ Structure /\ EpolloutWhileQueued

\* client_output_append() leaves queue, head_p and EPOLLOUT in agreement,
\* whether malloc() fails or not.
LEMMA AppendKeepsShape ==
    ASSUME Shape, NEW item \in Pieces, item.size > 0,
           client_output_append(item), head_p # "freed",
           head_p = "null" <=> queue = <<>>, epollout <=> queue # <<>>
    PROVE  /\ queue' \in Seq(Pieces)
           /\ \A i \in 1..Len(queue') : queue'[i].size > 0
           /\ epollout' \in BOOLEAN /\ dropped' \in BOOLEAN
           /\ epollout' <=> queue' # <<>>
           /\ head_p' = IF queue' = <<>> THEN "null" ELSE "first"
<1>1. queue \in Seq(Pieces) /\ \A i \in 1..Len(queue) : queue[i].size > 0
  BY DEF Shape, TypeOK, Structure
<1>0. dropped' \in BOOLEAN
  BY DEF client_output_append, Shape, TypeOK
<1>2. CASE queue' = Append(queue, item)
  <2>1. /\ queue' \in Seq(Pieces) /\ queue' # <<>>
        /\ Len(queue') = Len(queue) + 1 /\ Len(queue) \in Nat
        /\ \A i \in 1..Len(queue) : queue'[i] = queue[i]
        /\ queue'[Len(queue) + 1] = item
    BY <1>1, <1>2
  <2>2. \A i \in 1..Len(queue') : queue'[i].size > 0
    BY <1>1, <2>1
  <2>3. epollout' = TRUE /\ head_p' = "first"
    BY <1>2, <2>1 DEF client_output_append, Shape, TypeOK
  <2> QED
    BY <1>0, <2>1, <2>2, <2>3
<1>3. CASE UNCHANGED <<queue, head_p, epollout>>
  BY <1>0, <1>1, <1>3 DEF Shape, TypeOK
<1> QED
  BY <1>2, <1>3 DEF client_output_append

\* Every step keeps the queue, head_p and EPOLLOUT together.
LEMMA ShapeStep == Shape /\ [Next]_vars => Shape'
<1> SUFFICES ASSUME Shape, [Next]_vars PROVE Shape'
  OBVIOUS
<1> USE DEF Shape
<1>1. CASE Connect
  BY <1>1 DEF Connect, TypeOK, Structure, EpolloutWhileQueued
<1>13. CASE pc = "idle" /\ WritePending
  BY <1>13 DEF WritePending, TypeOK, Structure, EpolloutWhileQueued
<1>2. CASE pc = "idle" /\ WriteConnected
  <2>1. PICK size \in 1..MaxMessage :
            /\ produced' = produced + size
            /\ \/ /\ head_p # "null"
                  /\ client_output_append([first |-> produced,
                                           size |-> size])
                  /\ UNCHANGED <<pc, buf>>
               \/ /\ head_p = "null"
                  /\ buf' = [first |-> produced, size |-> size]
                  /\ pc' = "write"
                  /\ UNCHANGED <<queue, head_p, epollout, dropped>>
    BY <1>2 DEF WriteConnected
  <2> DEFINE item == [first |-> produced, size |-> size]
  <2>2. item \in Pieces /\ item.size > 0 /\ produced' \in Nat
    BY <2>1, SizesAssumption DEF TypeOK, Pieces
  <2>3. CASE head_p # "null" /\ client_output_append(item)
             /\ UNCHANGED <<pc, buf>>
    <3>1. /\ head_p # "freed" /\ (head_p = "null" <=> queue = <<>>)
          /\ (epollout <=> queue # <<>>)
      BY <1>2 DEF WriteConnected, EpolloutWhileQueued
    <3>2. /\ queue' \in Seq(Pieces)
          /\ \A i \in 1..Len(queue') : queue'[i].size > 0
          /\ epollout' \in BOOLEAN /\ dropped' \in BOOLEAN
          /\ epollout' <=> queue' # <<>>
          /\ head_p' = IF queue' = <<>> THEN "null" ELSE "first"
      BY <2>2, <2>3, <3>1, AppendKeepsShape
    <3> QED
      BY <1>2, <2>2, <2>3, <3>2
      DEF WriteConnected, TypeOK, Structure, EpolloutWhileQueued
  <2>4. CASE head_p = "null" /\ buf' = item /\ pc' = "write"
             /\ UNCHANGED <<queue, head_p, epollout, dropped>>
    BY <1>2, <2>2, <2>4
    DEF WriteConnected, TypeOK, Structure, EpolloutWhileQueued
  <2> QED
    BY <2>1, <2>3, <2>4
<1>3. CASE WriteSome
  <2>1. PICK n \in 1..buf.size :
            /\ wired' = wired + n
            /\ buf' = [first |-> buf.first + n, size |-> buf.size - n]
            /\ pc' = IF n = buf.size THEN "idle" ELSE "write"
    BY <1>3 DEF WriteSome
  <2>2. buf' \in Pieces /\ buf.size \in Nat /\ wired' \in Nat
    BY <2>1, AdvancedPiece DEF TypeOK, Pieces
  <2>3. pc' = "write" => buf'.size > 0
    BY <2>1, <2>2
  <2> QED
    BY <1>3, <2>1, <2>2, <2>3
    DEF WriteSome, TypeOK, Structure, EpolloutWhileQueued
<1>4. CASE WriteWouldBlock
  <2>1. /\ buf \in Pieces /\ buf.size > 0 /\ head_p = "null"
        /\ queue = <<>> /\ ~epollout /\ connected
    BY <1>4 DEF WriteWouldBlock, TypeOK, Structure
  <2>2. /\ queue' \in Seq(Pieces)
        /\ \A i \in 1..Len(queue') : queue'[i].size > 0
        /\ epollout' \in BOOLEAN /\ dropped' \in BOOLEAN
        /\ epollout' <=> queue' # <<>>
        /\ head_p' = IF queue' = <<>> THEN "null" ELSE "first"
    <3>1. client_output_append(buf)
      BY <1>4 DEF WriteWouldBlock
    <3> QED
      BY <2>1, <3>1, AppendKeepsShape
  <2>3. buf' \in Pieces
    BY <1>4 DEF WriteWouldBlock, Pieces
  <2> QED
    BY <1>4, <2>1, <2>2, <2>3
    DEF WriteWouldBlock, TypeOK, Structure, EpolloutWhileQueued
<1>5. CASE WriteError
  <2>1. connected' = FALSE /\ epollout' = FALSE /\ queue' = <<>>
    BY <1>5 DEF WriteError, client_pending_disconnect
  <2>2. pc' = "idle" /\ head_p' \in {"null", "freed"}
    BY <1>5 DEF WriteError, client_pending_disconnect
  <2>3. corrupted' \in BOOLEAN
    BY <1>5 DEF WriteError, client_pending_disconnect
  <2>4. queue' \in Seq(Pieces) /\ Len(queue') = 0
    BY <2>1
  <2>5. TypeOK'
    BY <1>5, <2>1, <2>2, <2>3, <2>4 DEF WriteError, TypeOK
  <2> QED
    BY <2>1, <2>2, <2>4, <2>5 DEF Structure, EpolloutWhileQueued
<1>6. CASE Flush
  BY <1>6 DEF Flush, TypeOK, Structure, EpolloutWhileQueued
<1>7. CASE FlushSome
  <2>1. PICK n \in 1..Head(queue).size :
            /\ wired' = wired + n
            /\ IF n = Head(queue).size
               THEN queue' = Tail(queue) /\ head_p' = "freed"
               ELSE /\ queue' = [queue EXCEPT ![1] =
                                     [first |-> @.first + n,
                                      size |-> @.size - n]]
                    /\ UNCHANGED head_p
    BY <1>7 DEF FlushSome
  <2>2. /\ queue \in Seq(Pieces) /\ queue # <<>> /\ Head(queue) = queue[1]
        /\ Len(queue) \in Nat /\ Len(queue) > 0 /\ queue[1] \in Pieces
    BY <1>7 DEF FlushSome, TypeOK
  <2>3. wired' \in Nat /\ queue[1].size \in Nat
    BY <2>1, <2>2 DEF TypeOK, Pieces
  <2>4. CASE n = queue[1].size
    <3>1. queue' = Tail(queue) /\ head_p' = "freed"
      BY <2>1, <2>2, <2>4
    <3>2. /\ queue' \in Seq(Pieces) /\ Len(queue') = Len(queue) - 1
          /\ \A i \in 1..Len(queue') : queue'[i] = queue[i + 1]
      BY <2>2, <3>1
    <3>3. \A i \in 1..Len(queue') : queue'[i].size > 0
      BY <2>2, <3>2 DEF Structure
    <3> QED
      BY <1>7, <2>3, <3>1, <3>2, <3>3
      DEF FlushSome, TypeOK, Structure, EpolloutWhileQueued
  <2>5. CASE n # queue[1].size
    <3> DEFINE rest == [first |-> queue[1].first + n,
                        size |-> queue[1].size - n]
    <3>1. rest \in Pieces /\ rest.size > 0
      BY <2>1, <2>2, <2>3, <2>5, AdvancedPiece
    <3>2. queue' = [queue EXCEPT ![1] = rest] /\ head_p' = head_p
      BY <2>1, <2>2, <2>5
    <3> HIDE DEF rest
    <3>3. /\ queue' \in Seq(Pieces) /\ Len(queue') = Len(queue)
          /\ queue' # <<>>
          /\ \A i \in 1..Len(queue') :
                 queue'[i] = IF i = 1 THEN rest ELSE queue[i]
      BY <2>2, <3>1, <3>2
    <3>4. \A i \in 1..Len(queue') : queue'[i].size > 0
      BY <2>2, <3>1, <3>3 DEF Structure
    <3> QED
      BY <1>7, <2>3, <3>2, <3>3, <3>4
      DEF FlushSome, TypeOK, Structure, EpolloutWhileQueued
  <2> QED
    BY <2>4, <2>5
<1>8. CASE FlushWouldBlock
  BY <1>8 DEF FlushWouldBlock, TypeOK, Structure, EpolloutWhileQueued
<1>9. CASE FlushDone
  BY <1>9 DEF FlushDone, TypeOK, Structure, EpolloutWhileQueued
<1>10. CASE FlushError
  <2>1. connected' = FALSE /\ epollout' = FALSE /\ queue' = <<>>
    BY <1>10 DEF FlushError, client_pending_disconnect
  <2>2. pc' = "idle" /\ head_p' \in {"null", "freed"}
    BY <1>10 DEF FlushError, client_pending_disconnect
  <2>3. corrupted' \in BOOLEAN
    BY <1>10 DEF FlushError, client_pending_disconnect
  <2>4. queue' \in Seq(Pieces) /\ Len(queue') = 0
    BY <2>1
  <2>5. TypeOK'
    BY <1>10, <2>1, <2>2, <2>3, <2>4 DEF FlushError, TypeOK
  <2> QED
    BY <2>1, <2>2, <2>4, <2>5 DEF Structure, EpolloutWhileQueued
<1>11. CASE Disconnect
  <2>1. connected' = FALSE /\ epollout' = FALSE /\ queue' = <<>>
    BY <1>11 DEF Disconnect, client_pending_disconnect
  <2>2. pc' = "idle" /\ head_p' \in {"null", "freed"}
    BY <1>11 DEF Disconnect, client_pending_disconnect
  <2>3. corrupted' \in BOOLEAN
    BY <1>11 DEF Disconnect, client_pending_disconnect
  <2>4. queue' \in Seq(Pieces) /\ Len(queue') = 0
    BY <2>1
  <2>5. TypeOK'
    BY <1>11, <2>1, <2>2, <2>3, <2>4 DEF Disconnect, TypeOK
  <2> QED
    BY <2>1, <2>2, <2>4, <2>5 DEF Structure, EpolloutWhileQueued
<1>12. CASE UNCHANGED vars
  BY <1>12 DEF vars, TypeOK, Structure, EpolloutWhileQueued
<1> QED
  BY <1>1, <1>2, <1>3, <1>4, <1>5, <1>6, <1>7, <1>8, <1>9, <1>10, <1>11,
     <1>12, <1>13 DEF Next, Write

\* Whatever malloc() and write() do, EPOLLOUT and head_p agree with the
\* queue, and the two loops run on a live connection only.
THEOREM ShapeInvariant == Spec => []Shape
<1>1. Init => Shape
  <2> SUFFICES ASSUME Init PROVE Shape
    OBVIOUS
  <2>1. TypeOK
    <3>1. buf \in Pieces
      BY DEF Init, Pieces
    <3>2. queue \in Seq(Pieces) /\ produced \in Nat /\ wired \in Nat
      BY DEF Init
    <3>3. /\ connected \in BOOLEAN /\ epollout \in BOOLEAN
          /\ dropped \in BOOLEAN /\ corrupted \in BOOLEAN
      BY DEF Init
    <3> QED
      BY <3>1, <3>2, <3>3 DEF Init, TypeOK
  <2>2. Structure
    BY DEF Init, Structure
  <2>3. EpolloutWhileQueued
    BY DEF Init, EpolloutWhileQueued
  <2> QED
    BY <2>1, <2>2, <2>3 DEF Shape
<1> QED
  BY <1>1, ShapeStep, PTL DEF Spec

\* EPOLLOUT is registered between two events exactly while output is queued:
\* queued output is always flushed and an empty queue never keeps the event
\* loop busy (client_output_append() and process_client_socket_out()).
THEOREM EpolloutExact == Spec => []EpolloutWhileQueued
  BY ShapeInvariant, PTL DEF Shape

-----------------------------------------------------------------------------
(* The queue is freed once. *)

\* When write() does not fail after a flush has freed an item, and nobody
\* sends to a client whose disconnect is pending, no item of the queue is
\* used or freed after it was freed (free_client_output(),
\* client_output_append()).
THEOREM FreedOnce == ~LateErrors /\ ~SendsToPending /\ Spec => []NoUseAfterFree
<1>1. Init => NoUseAfterFree
  BY DEF Init, NoUseAfterFree
<1>2. ASSUME ~LateErrors, ~SendsToPending, Shape, NoUseAfterFree, [Next]_vars
      PROVE  NoUseAfterFree'
  <2>1. CASE WriteError
    BY <1>2, <2>1
    DEF WriteError, client_pending_disconnect, NoUseAfterFree, Shape,
        Structure
  <2>2. CASE FlushError
    BY <1>2, <2>2 DEF FlushError, client_pending_disconnect, NoUseAfterFree
  <2>3. CASE Disconnect
    BY <1>2, <2>3
    DEF Disconnect, client_pending_disconnect, NoUseAfterFree, Shape,
        EpolloutWhileQueued
  <2>4. CASE UNCHANGED corrupted
    BY <1>2, <2>4 DEF NoUseAfterFree
  <2> QED
    BY <1>2, <2>1, <2>2, <2>3, <2>4
    DEF Next, vars, Connect, Write, WriteConnected, WritePending, WriteSome,
        WriteWouldBlock, Flush, FlushSome, FlushWouldBlock, FlushDone
<1>3. CASE ~LateErrors /\ ~SendsToPending
  <2>1. Shape /\ NoUseAfterFree /\ [Next]_vars => NoUseAfterFree'
    BY <1>2, <1>3
  <2> QED
    BY <1>1, <2>1, ShapeInvariant, PTL DEF Spec
<1>4. CASE LateErrors \/ SendsToPending
  BY <1>4, PTL
<1> QED
  BY <1>3, <1>4

-----------------------------------------------------------------------------
(* In order delivery. *)

\* One piece from `from' to `to'.
LEMMA OneContiguous ==
    ASSUME NEW p, NEW to, p.first + p.size = to
    PROVE  Contiguous(<<p>>, p.first, to)
  BY DEF Contiguous

\* A contiguous sequence of one piece.
LEMMA OneContiguousEnds ==
    ASSUME NEW p, NEW from, NEW to, Contiguous(<<p>>, from, to)
    PROVE  p.first = from /\ p.first + p.size = to
  BY DEF Contiguous

\* The empty sequence.
LEMMA NoneContiguous ==
    ASSUME NEW from, NEW to
    PROVE  Contiguous(<<>>, from, to) <=> from = to
  BY DEF Contiguous

\* Every step keeps the bytes on the wire and in the queue in order.
LEMMA InOrderStep ==
    ASSUME Shape, InOrder, [Next]_vars
    PROVE  InOrder'
<1> SUFFICES ASSUME connected', ~dropped'
             PROVE  Contiguous(Unwritten', wired', produced')
  BY DEF InOrder
<1>0. /\ queue \in Seq(Pieces) /\ buf \in Pieces
      /\ wired \in Nat /\ produced \in Nat
  BY DEF Shape, TypeOK
<1>1. CASE Connect
  <2>1. queue' = <<>> /\ pc' = "idle" /\ wired' = 0 /\ produced' = 0
    BY <1>1 DEF Connect, Shape, Structure
  <2> QED
    BY <2>1, NoneContiguous DEF Unwritten
<1>8. CASE pc = "idle" /\ WritePending
  BY <1>8 DEF WritePending
<1>2. CASE pc = "idle" /\ WriteConnected
  <2>1. PICK size \in 1..MaxMessage :
            /\ produced' = produced + size
            /\ \/ /\ head_p # "null"
                  /\ client_output_append([first |-> produced,
                                           size |-> size])
                  /\ UNCHANGED <<pc, buf>>
               \/ /\ head_p = "null"
                  /\ buf' = [first |-> produced, size |-> size]
                  /\ pc' = "write"
                  /\ UNCHANGED <<queue, head_p, epollout, dropped>>
    BY <1>2 DEF WriteConnected
  <2> DEFINE item == [first |-> produced, size |-> size]
  <2>2. item \in Pieces /\ item.first = produced /\ item.size = size
    BY <1>0, SizesAssumption DEF Pieces
  <2>3. Contiguous(queue, wired, produced)
    <3>1. ~dropped
      BY <2>1 DEF client_output_append
    <3> QED
      BY <1>2, <3>1 DEF WriteConnected, InOrder, Unwritten
  <2>4. CASE head_p # "null" /\ client_output_append(item)
             /\ UNCHANGED <<pc, buf>>
    <3>1. queue' = Append(queue, item) /\ pc' = "idle" /\ wired' = wired
      BY <1>2, <2>4 DEF WriteConnected, client_output_append
    <3>2. Contiguous(Append(queue, item), wired, item.first + item.size)
      BY <1>0, <2>2, <2>3, AppendContiguous
    <3> QED
      BY <2>1, <2>2, <3>1, <3>2 DEF Unwritten
  <2>5. CASE head_p = "null" /\ buf' = item /\ pc' = "write"
    <3>1. wired = produced
      <4>1. queue = <<>>
        BY <1>2, <2>5 DEF WriteConnected, Shape, EpolloutWhileQueued
      <4> QED
        BY <2>3, <4>1, NoneContiguous
    <3>2. Contiguous(<<item>>, item.first, produced')
      BY <2>1, <2>2, OneContiguous
    <3>3. Unwritten' = <<item>> /\ wired' = wired
      BY <1>2, <2>5 DEF Unwritten, WriteConnected
    <3> QED
      BY <2>2, <3>1, <3>2, <3>3
  <2> QED
    BY <2>1, <2>4, <2>5
<1>3. CASE WriteSome
  <2>1. PICK n \in 1..buf.size :
            /\ wired' = wired + n
            /\ buf' = [first |-> buf.first + n, size |-> buf.size - n]
            /\ pc' = IF n = buf.size THEN "idle" ELSE "write"
    BY <1>3 DEF WriteSome
  <2>2. buf.first = wired /\ buf.first + buf.size = produced
    <3>1. Contiguous(<<buf>>, wired, produced)
      BY <1>3 DEF WriteSome, InOrder, Unwritten, Shape, Structure
    <3> QED
      BY <3>1, OneContiguousEnds
  <2>3. buf.first \in Nat /\ buf.size \in Nat /\ produced' = produced
        /\ queue' = <<>>
    BY <1>0, <1>3 DEF WriteSome, Pieces, Shape, Structure
  <2>4. CASE n = buf.size
    <3>1. wired' = produced' /\ Unwritten' = <<>>
      BY <2>1, <2>2, <2>3, <2>4 DEF Unwritten
    <3> QED
      BY <3>1, NoneContiguous
  <2>5. CASE n # buf.size
    <3>1. /\ Unwritten' = <<buf'>> /\ buf'.first = wired'
          /\ buf'.first + buf'.size = produced'
      BY <2>1, <2>2, <2>3, <2>5 DEF Unwritten
    <3>2. Contiguous(<<buf'>>, buf'.first, produced')
      BY <3>1, OneContiguous
    <3> QED
      BY <3>1, <3>2
  <2> QED
    BY <2>4, <2>5
<1>4. CASE WriteWouldBlock
  <2>1. buf.first = wired /\ buf.first + buf.size = produced
    <3>1. Contiguous(<<buf>>, wired, produced)
      BY <1>4 DEF WriteWouldBlock, client_output_append, InOrder, Unwritten,
                  Shape, Structure
    <3> QED
      BY <3>1, OneContiguousEnds
  <2>2. queue = <<>> /\ queue' = Append(queue, buf) /\ pc' = "idle"
        /\ wired' = wired /\ produced' = produced
    BY <1>4 DEF WriteWouldBlock, client_output_append, Shape, Structure
  <2>3. Contiguous(queue, wired, buf.first)
    BY <2>1, <2>2, NoneContiguous
  <2>4. Contiguous(Append(queue, buf), wired, buf.first + buf.size)
    BY <1>0, <2>3, AppendContiguous
  <2> QED
    BY <2>1, <2>2, <2>4 DEF Unwritten
<1>5. CASE WriteError \/ FlushError \/ Disconnect
  BY <1>5 DEF WriteError, FlushError, Disconnect, client_pending_disconnect
<1>6. CASE FlushSome
  <2>1. PICK n \in 1..Head(queue).size :
            /\ wired' = wired + n
            /\ IF n = Head(queue).size
               THEN queue' = Tail(queue) /\ head_p' = "freed"
               ELSE /\ queue' = [queue EXCEPT ![1] =
                                     [first |-> @.first + n,
                                      size |-> @.size - n]]
                    /\ UNCHANGED head_p
    BY <1>6 DEF FlushSome
  <2>2. /\ queue # <<>> /\ Head(queue) = queue[1] /\ pc' = "flush"
        /\ produced' = produced /\ Contiguous(queue, wired, produced)
    BY <1>0, <1>6 DEF FlushSome, InOrder, Unwritten, Shape, Structure
  <2>3. queue[1].size \in Nat /\ n \in Nat /\ n <= queue[1].size
    <3>1. queue[1] \in Pieces
      BY <1>0, <2>2
    <3> QED
      BY <2>1, <2>2, <3>1 DEF Pieces
  <2>4. CASE n = queue[1].size
    <3>1. Contiguous(Tail(queue), wired + queue[1].size, produced)
      BY <1>0, <2>2, TailContiguous
    <3> QED
      BY <2>1, <2>2, <2>4, <3>1 DEF Unwritten
  <2>5. CASE n # queue[1].size
    <3>1. Contiguous([queue EXCEPT ![1] = [first |-> @.first + n,
                                           size |-> @.size - n]],
                     wired + n, produced)
      BY <1>0, <2>2, <2>3, AdvanceContiguous
    <3> QED
      BY <2>1, <2>2, <2>5, <3>1 DEF Unwritten
  <2> QED
    BY <2>4, <2>5
<1>7. CASE Flush \/ FlushWouldBlock \/ FlushDone \/ UNCHANGED vars
  <2>1. /\ connected' = connected /\ wired' = wired /\ produced' = produced
        /\ Unwritten' = Unwritten /\ dropped' = dropped
    BY <1>7 DEF Flush, FlushWouldBlock, FlushDone, vars, Unwritten
  <2> QED
    BY <2>1 DEF InOrder
<1> QED
  BY <1>1, <1>2, <1>3, <1>4, <1>5, <1>6, <1>7, <1>8 DEF Next, Write

\* On every connection, until malloc() has failed on it, the bytes on the wire
\* and the bytes in the queue are together the messages handed to
\* client_write(), in order and without a gap, whatever write() accepts and
\* whenever it blocks.
THEOREM DeliveredInOrder == Spec => []InOrder
<1>1. Init => InOrder
  BY DEF Init, InOrder
<1>2. Shape /\ InOrder /\ [Next]_vars => InOrder'
  BY InOrderStep
<1> QED
  BY <1>1, <1>2, ShapeInvariant, PTL DEF Spec

=============================================================================
