------------------------------ MODULE Framing ------------------------------
(***************************************************************************)
(* Reassembly of messages from the byte stream of a connection, as         *)
(* process_client_socket_in() of linux/server.c, process_socket() of       *)
(* linux/client.c and on_stcp_input() of async/client.c do it: a header    *)
(* announces the size of the payload, read() returns any part of what is   *)
(* asked for, and connections are lost at any byte.  The bytes that are    *)
(* taken for a header are kept, so that a reader that has lost its place   *)
(* in the stream takes what is really there for the size of a message.     *)
(*                                                                         *)
(* Side tells the two versions of the code apart.  "server": the input     *)
(* state is reset when a connection is made (client_init()) and after a    *)
(* message that was handled without error.  "client": it is reset by       *)
(* init() and after every message.                                         *)
(***************************************************************************)
EXTENDS Integers

CONSTANTS
    BufSize,   \* size of the input buffer
    Payloads,  \* sizes of the payloads the peer sends
    Types,     \* message types the peer sends
    Data,      \* values of the bytes of a payload
    Side       \* "server" or "client"

\* struct messi_header_t: a byte with the type and three with the size.
HeaderSize == 4
Byte == 256
Bytes == 0..(Byte - 1)

ASSUME BufferAssumption == BufSize \in Nat /\ BufSize >= HeaderSize
ASSUME BytesAssumption == Types \subseteq Bytes /\ Data \subseteq Bytes
ASSUME PayloadAssumption ==
    \A p \in Payloads : p \in Nat /\ p < Byte * Byte * Byte

ASSUME SideAssumption == Side \in {"server", "client"}

VARIABLES
    state, size, left,  \* input.state, input.size and input.left
    header,   \* the first bytes of the input buffer
    connected,
    payload,  \* payload size of the frame the peer is sending
    got,      \* bytes of that frame that read() has returned
    handled   \* history: what handle_message() last got, "intact" if it was
              \* exactly a frame of the peer

vars == <<state, size, left, header, connected, payload, got, handled>>

TypeOK ==
    /\ state \in {"header", "payload"}
    /\ size \in Nat
    /\ left \in Nat
    /\ header \in [1..HeaderSize -> Bytes]
    /\ connected \in BOOLEAN
    /\ payload \in Payloads
    /\ got \in Nat
    /\ handled \in {"none", "intact", "garbled"}

-----------------------------------------------------------------------------

\* client_reset_input(), reset_input_encoded().
reset_input ==
    /\ state' = "header"
    /\ size' = 0
    /\ left' = HeaderSize

\* Mutant: the server does not reset the input of a reused slot.
ConnectNoReset ==
    /\ ~connected
    /\ connected' = TRUE
    /\ payload' \in Payloads
    /\ got' = 0
    /\ UNCHANGED <<state, size, left, header, handled>>

\* A new connection, on which the peer starts with a whole frame.
Connect ==
    /\ ~connected
    /\ connected' = TRUE
    /\ payload' \in Payloads
    /\ got' = 0
    /\ IF Side = "server" THEN reset_input ELSE UNCHANGED <<state, size, left>>
    /\ UNCHANGED <<header, handled>>

\* The connection is closed by either side, in the middle of a frame or not.
Lose ==
    /\ connected
    /\ connected' = FALSE
    /\ UNCHANGED <<state, size, left, header, payload, got, handled>>

\* The peer's stream moves on by n bytes of its frame, perhaps to the next.
Advance(n) ==
    IF got + n = HeaderSize + payload
    THEN got' = 0 /\ payload' \in Payloads
    ELSE got' = got + n /\ UNCHANGED payload

\* The three size bytes of a header, most significant first: each assignment
\* keeps the low byte.
messi_header_set_size(n) ==
    <<((n \div Byte) \div Byte) % Byte, (n \div Byte) % Byte, n % Byte>>

\* Mutant: a byte is shifted in its own width.
messi_header_get_size_narrow(bytes) == bytes[3]

messi_header_get_size(bytes) ==
    (bytes[1] * Byte + bytes[2]) * Byte + bytes[3]

\* Byte i of the peer's frame, counted from 0, if its type is t and the byte
\* of the payload is d.
FrameByte(i, t, d) ==
    IF i = 0 THEN t
    ELSE IF i < HeaderSize THEN messi_header_set_size(payload)[i]
    ELSE d

\* read() puts n bytes of the frame behind the ones in the buffer; only those
\* at its start are kept here.
Fill(n) ==
    \E t \in Types, d \in [1..HeaderSize -> Data] :
        header' = [i \in 1..HeaderSize |->
                      IF size < i /\ i <= size + n
                      THEN FrameByte((got + i) - (size + 1), t, d[i])
                      ELSE header[i]]

\* The size the bytes announce that are now at the start of the buffer.
Announced == messi_header_get_size(<<header'[2], header'[3], header'[4]>>)

\* handle_message() with what was read, n bytes of it last, and what its
\* caller does with the result: with an error the connection is closed, and
\* only the client resets the input then.
Handle(n, announced) ==
    /\ handled' = IF /\ size = got
                     /\ got + n = HeaderSize + payload
                     /\ announced = payload
                  THEN "intact" ELSE "garbled"
    /\ \/ reset_input /\ UNCHANGED connected
       \/ /\ connected' = FALSE
          /\ IF Side = "client" THEN reset_input
             ELSE state' = "payload" /\ size' = size + n /\ left' = 0

\* read() returns n bytes and more are missing.
ReadPart(n) ==
    /\ n < left
    /\ size' = size + n
    /\ left' = left - n
    /\ UNCHANGED <<state, connected, handled>>

\* Mutant: the check against the size of the buffer forgets the header.
ReadHeaderBigger(n) ==
    /\ state = "header"
    /\ n = left
    /\ Announced > 0 /\ Announced <= BufSize
    /\ state' = "payload"
    /\ size' = size + n
    /\ left' = Announced
    /\ UNCHANGED <<connected, handled>>

\* The header is complete: the message is too big, has no payload, or the
\* payload comes next.
ReadHeader(n) ==
    /\ state = "header"
    /\ n = left
    /\ \/ /\ Announced + HeaderSize > BufSize
          /\ connected' = FALSE
          /\ size' = size + n
          /\ left' = Announced
          /\ UNCHANGED <<state, handled>>
       \/ /\ Announced + HeaderSize <= BufSize
          /\ Announced > 0
          /\ state' = "payload"
          /\ size' = size + n
          /\ left' = Announced
          /\ UNCHANGED <<connected, handled>>
       \/ /\ Announced + HeaderSize <= BufSize
          /\ Announced = 0
          /\ Handle(n, 0)

ReadPayload(n) ==
    /\ state = "payload"
    /\ n = left
    /\ Handle(n, size + n - HeaderSize)

\* One round of the read loop.
Read ==
    /\ connected
    /\ \E n \in 1..left :
           /\ got + n <= HeaderSize + payload
           /\ Advance(n)
           /\ Fill(n)
           /\ ReadPart(n) \/ ReadHeader(n) \/ ReadPayload(n)

-----------------------------------------------------------------------------

\* The buffer is filled before it is looked at: its first bytes do not matter.
Init ==
    /\ state = "header"
    /\ size = 0
    /\ left = HeaderSize
    /\ header = [i \in 1..HeaderSize |-> 0]
    /\ connected = FALSE
    /\ payload \in Payloads
    /\ got = 0
    /\ handled = "none"

Next == Connect \/ Lose \/ Read

Spec == Init /\ [][Next]_vars

-----------------------------------------------------------------------------
(* Properties. *)

\* Only whole messages of the peer are handled: no message is cut, joined
\* with another, or made up from the bytes of two connections.
DeliveredIntact == handled # "garbled"

\* What read() may write is inside the input buffer.
ReadsFitBuffer == connected => size + left <= BufSize

\* Read loop and peer agree on where in the frame they are.
InSync ==
    connected =>
        /\ size = got
        /\ left > 0
        /\ size + left = IF state = "header" THEN HeaderSize
                                             ELSE HeaderSize + payload
        /\ size + left <= BufSize
        /\ state = "payload" => size >= HeaderSize

\* The size bytes read so far are those of the peer's frame.
HeaderRead ==
    connected =>
        \A i \in 1..(HeaderSize - 1) :
            i < size => header[i + 1] = messi_header_set_size(payload)[i]

=============================================================================
