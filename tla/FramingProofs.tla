--------------------------- MODULE FramingProofs ---------------------------
(***************************************************************************)
(* Proofs about Framing on the server side, for every size of buffer and   *)
(* payload, every content, and however the stream is cut into reads.       *)
(***************************************************************************)
EXTENDS Framing, TLAPS

\* What makes InSync inductive: the types, that the bytes taken for a header
\* are those of the frame, and that nothing garbled was handled so far.
Aligned == TypeOK /\ InSync /\ HeaderRead /\ DeliveredIntact

\* What a shift and a mask by one byte leave.
LEMMA SplitByte ==
    ASSUME NEW a \in Nat
    PROVE  /\ a \div Byte \in Nat
           /\ (a % Byte) \in 0..(Byte - 1)
           /\ a = ((a \div Byte) * Byte) + (a % Byte)
BY DEF Byte

\* messi_header_get_size() returns what messi_header_set_size() was given,
\* for every size of 24 bits.
THEOREM HeaderRoundTrip ==
    ASSUME NEW n \in Nat, n < Byte * Byte * Byte
    PROVE  messi_header_get_size(messi_header_set_size(n)) = n
<1> DEFINE q == n \div Byte
           r == q \div Byte
<1>1. q \in Nat /\ (n % Byte) \in 0..(Byte - 1) /\ n = (q * Byte) + (n % Byte)
  BY SplitByte
<1>2. r \in Nat /\ (q % Byte) \in 0..(Byte - 1) /\ q = (r * Byte) + (q % Byte)
  BY SplitByte, <1>1
<1> HIDE DEF q, r
<1>3. r < Byte
  BY <1>1, <1>2 DEF Byte
<1>4. (r % Byte) = r
  BY <1>2, <1>3 DEF Byte
<1>5. messi_header_set_size(n) = <<r, q % Byte, n % Byte>>
  BY <1>4 DEF messi_header_set_size, q, r
<1>6. messi_header_get_size(<<r, q % Byte, n % Byte>>) = n
  BY <1>1, <1>2 DEF messi_header_get_size, Byte
<1> QED
  BY <1>5, <1>6

\* messi_header_set_size() sets three bytes.
LEMMA SizeBytes ==
    ASSUME NEW n \in Nat
    PROVE  /\ messi_header_set_size(n)[1] \in Bytes
           /\ messi_header_set_size(n)[2] \in Bytes
           /\ messi_header_set_size(n)[3] \in Bytes
           /\ messi_header_set_size(n) = <<messi_header_set_size(n)[1],
                                           messi_header_set_size(n)[2],
                                           messi_header_set_size(n)[3]>>
<1> DEFINE q == n \div Byte
           r == q \div Byte
<1>1. q \in Nat /\ (n % Byte) \in Bytes
  BY SplitByte DEF Bytes
<1>2. r \in Nat /\ (q % Byte) \in Bytes
  BY SplitByte, <1>1 DEF Bytes
<1>3. (r % Byte) \in Bytes
  BY SplitByte, <1>2 DEF Bytes
<1>4. messi_header_set_size(n) = <<r % Byte, q % Byte, n % Byte>>
  BY DEF messi_header_set_size
<1> HIDE DEF q, r
<1> QED
  BY <1>1, <1>2, <1>3, <1>4

\* What read() adds to the size bytes of a reader that is in sync is the next
\* bytes of the size in the peer's header.
LEMMA FillHeader ==
    ASSUME TypeOK, HeaderRead, connected, size = got, NEW n \in Nat, Fill(n)
    PROVE  /\ header' \in [1..HeaderSize -> Bytes]
           /\ \A i \in 1..(HeaderSize - 1) :
                  i < size + n
                      => header'[i + 1] = messi_header_set_size(payload)[i]
<1>a. payload \in Nat /\ size \in Nat
  BY PayloadAssumption DEF TypeOK
<1>b. HeaderSize = 4
  BY DEF HeaderSize
<1>1. PICK t \in Types, d \in [1..HeaderSize -> Data] :
          header' = [i \in 1..HeaderSize |->
                        IF size < i /\ i <= size + n
                        THEN FrameByte((got + i) - (size + 1), t, d[i])
                        ELSE header[i]]
  BY DEF Fill
<1>2. ASSUME NEW i \in 1..HeaderSize
      PROVE  /\ (got + i) - (size + 1) = i - 1
             /\ FrameByte(i - 1, t, d[i]) \in Bytes
  <2>1. (got + i) - (size + 1) = i - 1
    BY <1>a, <1>b
  <2>2. i = 1 \/ i = 2 \/ i = 3 \/ i = 4
    BY <1>b
  <2>3. CASE i = 1
    <3>1. FrameByte(i - 1, t, d[i]) = t
      BY <2>3 DEF FrameByte
    <3> QED BY <2>1, <3>1, BytesAssumption
  <2>4. CASE i \in {2, 3, 4}
    <3>1. i - 1 \in 1..3 /\ i - 1 < HeaderSize /\ i - 1 # 0
      BY <2>4, <1>b
    <3>2. FrameByte(i - 1, t, d[i]) = messi_header_set_size(payload)[i - 1]
      BY <3>1 DEF FrameByte
    <3>3. messi_header_set_size(payload)[i - 1] \in Bytes
      BY <1>a, <2>4, SizeBytes
    <3> QED BY <2>1, <3>2, <3>3
  <2> QED
    BY <2>2, <2>3, <2>4
<1>3. header' \in [1..HeaderSize -> Bytes]
  BY <1>1, <1>2 DEF TypeOK
<1>4. ASSUME NEW i \in 1..(HeaderSize - 1), i < size + n
      PROVE  header'[i + 1] = messi_header_set_size(payload)[i]
  <2>1. /\ i \in 1..3 /\ i + 1 \in 1..HeaderSize /\ (i + 1) - 1 = i
        /\ i + 1 <= size + n
    BY <1>a, <1>b, <1>4
  <2>2. CASE i < size
    <3>1. ~(size < i + 1)
      BY <1>a, <2>1, <2>2
    <3>2. header'[i + 1] = header[i + 1]
      BY <1>1, <2>1, <3>1
    <3> QED
      BY <2>2, <3>2 DEF HeaderRead
  <2>3. CASE ~(i < size)
    <3>1. size < i + 1
      BY <1>a, <2>1, <2>3
    <3>2. header'[i + 1] = FrameByte(i, t, d[i + 1])
      <4>1. (got + (i + 1)) - (size + 1) = i
        BY <1>2, <2>1
      <4> QED
        BY <1>1, <2>1, <3>1, <4>1
    <3>3. FrameByte(i, t, d[i + 1]) = messi_header_set_size(payload)[i]
      BY <1>b, <2>1 DEF FrameByte
    <3> QED
      BY <3>2, <3>3
  <2> QED
    BY <2>2, <2>3
<1> QED
  BY <1>3, <1>4

\* init() leaves the input reset.
LEMMA InitAligned == Init => Aligned
<1> SUFFICES ASSUME Init PROVE Aligned
  OBVIOUS
<1>1. HeaderSize \in Nat /\ 0 \in Bytes
  BY DEF HeaderSize, Bytes, Byte
<1>2. TypeOK
  BY <1>1 DEF Init, TypeOK
<1>3. InSync /\ HeaderRead /\ DeliveredIntact
  BY DEF Init, InSync, HeaderRead, DeliveredIntact
<1> QED
  BY <1>2, <1>3 DEF Aligned

\* One round of the read loop keeps reader and peer at the same byte of the
\* frame, and hands on a message exactly when the frame is complete.
LEMMA ReadAligned ==
    ASSUME Side = "server", Aligned, Read
    PROVE  Aligned'
<1>a. /\ HeaderSize \in Nat /\ HeaderSize > 0
      /\ BufSize \in Nat /\ BufSize >= HeaderSize
  BY BufferAssumption DEF HeaderSize
<1>b. /\ connected /\ size = got /\ left > 0
      /\ size \in Nat /\ left \in Nat /\ payload \in Nat
      /\ payload \in Payloads /\ handled # "garbled"
      /\ state \in {"header", "payload"}
      /\ handled \in {"none", "intact", "garbled"}
      /\ state = "header" => size + left = HeaderSize
      /\ state = "payload" => /\ size + left = HeaderSize + payload
                              /\ size >= HeaderSize
      /\ size + left <= BufSize
  BY <1>a, PayloadAssumption DEF Aligned, TypeOK, InSync, DeliveredIntact, Read
<1>1. PICK n \in 1..left : /\ got + n <= HeaderSize + payload
                           /\ Advance(n)
                           /\ Fill(n)
                           /\ ReadPart(n) \/ ReadHeader(n) \/ ReadPayload(n)
  BY DEF Read
<1>h. /\ header' \in [1..HeaderSize -> Bytes]
      /\ \A i \in 1..(HeaderSize - 1) :
             i < size + n
                 => header'[i + 1] = messi_header_set_size(payload)[i]
  BY <1>b, <1>1, FillHeader DEF Aligned
<1>i. size + n >= HeaderSize => Announced = payload
  <2> SUFFICES ASSUME size + n >= HeaderSize
               PROVE  Announced = payload
    OBVIOUS
  <2>1. /\ header'[2] = messi_header_set_size(payload)[1]
        /\ header'[3] = messi_header_set_size(payload)[2]
        /\ header'[4] = messi_header_set_size(payload)[3]
    <3>1. \A i \in {1, 2, 3} : i \in 1..(HeaderSize - 1) /\ i < size + n
      BY <1>b, <1>1 DEF HeaderSize
    <3>2. /\ header'[1 + 1] = messi_header_set_size(payload)[1]
          /\ header'[2 + 1] = messi_header_set_size(payload)[2]
          /\ header'[3 + 1] = messi_header_set_size(payload)[3]
      BY <1>h, <3>1
    <3> QED
      BY <3>2
  <2>2. <<header'[2], header'[3], header'[4]>>
            = messi_header_set_size(payload)
    BY <1>b, <2>1, SizeBytes
  <2> QED
    BY <1>b, <2>2, PayloadAssumption, HeaderRoundTrip DEF Announced
<1>2. payload' \in Payloads /\ got' \in Nat
  BY <1>a, <1>b, <1>1 DEF Advance
<1>3. CASE ReadPart(n)
  <2>1. got' = got + n /\ payload' = payload
    BY <1>a, <1>b, <1>1, <1>3 DEF Advance, ReadPart
  <2> QED
    BY <1>a, <1>b, <1>h, <1>1, <1>2, <1>3, <2>1
       DEF ReadPart, Aligned, TypeOK, InSync, HeaderRead, DeliveredIntact
<1>4. ASSUME NEW announced \in {payload}, n = left,
             got + n = HeaderSize + payload, Handle(n, announced)
      PROVE  Aligned'
  <2>1. got' = 0
    BY <1>1, <1>4 DEF Advance
  <2>2. handled' = "intact"
    BY <1>b, <1>4 DEF Handle
  <2>3. CASE reset_input /\ UNCHANGED connected
    BY <1>a, <1>b, <1>h, <1>2, <2>1, <2>2, <2>3
       DEF reset_input, Aligned, TypeOK, InSync, HeaderRead, DeliveredIntact
  <2>4. CASE /\ connected' = FALSE
             /\ state' = "payload" /\ size' = size + n /\ left' = 0
    <3>1. size' \in Nat /\ left' \in Nat
      BY <1>b, <1>1, <2>4
    <3> QED
      BY <1>h, <1>2, <2>2, <2>4, <3>1
         DEF Aligned, TypeOK, InSync, HeaderRead, DeliveredIntact
  <2> QED
    BY <1>4, <2>3, <2>4 DEF Handle
<1>5. CASE ReadHeader(n)
  <2>2. got + n = HeaderSize /\ n = left
    BY <1>b, <1>5 DEF ReadHeader
  <2>1. \/ /\ payload + HeaderSize > BufSize
           /\ connected' = FALSE
           /\ size' = size + n
           /\ left' = payload
           /\ UNCHANGED <<state, handled>>
        \/ /\ payload + HeaderSize <= BufSize
           /\ payload > 0
           /\ state' = "payload"
           /\ size' = size + n
           /\ left' = payload
           /\ UNCHANGED <<connected, handled>>
        \/ /\ payload + HeaderSize <= BufSize
           /\ payload = 0
           /\ Handle(n, 0)
    <3>1. Announced = payload
      BY <1>a, <1>b, <1>i, <2>2
    <3> QED
      BY <1>5, <3>1 DEF ReadHeader
  <2>3. CASE payload = 0 /\ Handle(n, 0)
    BY <1>4, <1>a, <2>2, <2>3
  <2>4. CASE /\ payload + HeaderSize > BufSize
             /\ connected' = FALSE
             /\ size' = size + n
             /\ left' = payload
             /\ UNCHANGED <<state, handled>>
    <3>1. size' \in Nat /\ left' \in Nat
      BY <1>b, <1>1, <2>4
    <3> QED
      BY <1>b, <1>h, <1>2, <2>4, <3>1
         DEF Aligned, TypeOK, InSync, HeaderRead, DeliveredIntact
  <2>5. CASE /\ payload + HeaderSize <= BufSize
             /\ payload > 0
             /\ state' = "payload"
             /\ size' = size + n
             /\ left' = payload
             /\ UNCHANGED <<connected, handled>>
    <3>1. got' = got + n /\ payload' = payload
      BY <1>a, <1>b, <1>1, <2>2, <2>5 DEF Advance
    <3> QED
      BY <1>a, <1>b, <1>h, <1>1, <1>2, <2>2, <2>5, <3>1
         DEF Aligned, TypeOK, InSync, HeaderRead, DeliveredIntact
  <2> QED
    BY <2>1, <2>3, <2>4, <2>5
<1>6. CASE ReadPayload(n)
  <2>1. n = left /\ Handle(n, payload) /\ got + n = HeaderSize + payload
    <3>1. state = "payload" /\ n = left /\ Handle(n, size + n - HeaderSize)
      BY <1>6 DEF ReadPayload
    <3>2. size + n - HeaderSize = payload /\ got + n = HeaderSize + payload
      BY <1>a, <1>b, <3>1
    <3> QED
      BY <3>1, <3>2
  <2> QED
    BY <1>4, <2>1
<1> QED
  BY <1>1, <1>3, <1>5, <1>6

\* Every step keeps the alignment, a new connection because the server
\* resets the input in client_init().
LEMMA NextAligned ==
    Side = "server" /\ Aligned /\ [Next]_vars => Aligned'
<1> SUFFICES ASSUME Side = "server", Aligned, [Next]_vars
             PROVE  Aligned'
  OBVIOUS
<1>1. CASE Connect
  <2>1. HeaderSize \in Nat /\ HeaderSize > 0
    BY DEF HeaderSize
  <2> QED
    BY <1>1, <2>1, BufferAssumption, PayloadAssumption
       DEF Connect, reset_input, Aligned, TypeOK, InSync, HeaderRead,
           DeliveredIntact
<1>2. CASE Lose
  BY <1>2 DEF Lose, Aligned, TypeOK, InSync, HeaderRead, DeliveredIntact
<1>3. CASE Read
  BY <1>3, ReadAligned
<1>4. CASE UNCHANGED vars
  BY <1>4 DEF vars, Aligned, TypeOK, InSync, HeaderRead, DeliveredIntact
<1> QED
  BY <1>1, <1>2, <1>3, <1>4 DEF Next

\* The invariant of the server's read loop.
THEOREM AlignedInvariant == Side = "server" /\ Spec => []Aligned
<1>1. CASE Side = "server"
  <2>1. Aligned /\ [Next]_vars => Aligned'
    BY <1>1, NextAligned
  <2> QED
    BY InitAligned, <2>1, PTL DEF Spec
<1>2. CASE ~(Side = "server")
  BY <1>2, PTL
<1> QED
  BY <1>1, <1>2

\* The server handles only whole messages of its client, however the stream
\* is cut and whenever connections are lost.
THEOREM ServerDeliversIntact == Side = "server" /\ Spec => []DeliveredIntact
<1>1. Aligned => DeliveredIntact
  BY DEF Aligned
<1> QED
  BY <1>1, AlignedInvariant, PTL

\* The server never asks read() for more than its input buffer can hold.
THEOREM ServerReadsFit == Side = "server" /\ Spec => []ReadsFitBuffer
<1>1. Aligned => ReadsFitBuffer
  BY DEF Aligned, InSync, ReadsFitBuffer
<1> QED
  BY <1>1, AlignedInvariant, PTL

=============================================================================
