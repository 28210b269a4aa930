----------------------------- MODULE KeepAlive -----------------------------
(***************************************************************************)
(* The ping-pong mechanism between a Linux client and a Linux server, in   *)
(* discrete time: the one-shot timers of linux/client.c (2 s) and          *)
(* linux/server.c (3 s), and the messages between them.                    *)
(*                                                                         *)
(* A message is handled, and a connection accepted, within Delay ticks of  *)
(* being sent; an expired timer is handled within Late ticks.  Time cannot *)
(* pass a point where something is due.  An end that dies does nothing     *)
(* more and closes nothing: its process hangs, or its host is cut off.     *)
(***************************************************************************)
EXTENDS Integers

CONSTANTS
    Period,   \* the client's timer, in ticks
    Timeout,  \* the server's timer
    Delay,    \* bound on the time from write() to the handling of a message
    Late      \* bound on the time from expiration to handling of a timer

ASSUME TimesAssumption ==
    /\ Period \in Nat \ {0}
    /\ Timeout \in Nat \ {0}
    /\ Delay \in Nat
    /\ Late \in Nat

\* The load and the network the timers of the code are made for: with 2 and
\* 3 seconds, a pong comes back within 2 seconds, and lateness and delay
\* together stay below 1 second.
Prompt ==
    /\ 2 * Delay < Period
    /\ Period + Late + Delay < Timeout

None == -1
Ages == 0..Delay

VARIABLES
    client,         \* the client's end: "closed", "open" or "dead"
    server,         \* the server's end; "backlog" until it is accepted
    client_timer,   \* time since the client's timer was started
    server_timer,   \* the same for the server's, and the age of "backlog"
    pong_received,  \* the client's field
    ping,           \* age of the ping on its way, or None
    pong,           \* age of the pong on its way, or None
    since           \* history: time since an end died

vars == <<client, server, client_timer, server_timer, pong_received, ping,
          pong, since>>

Accepting == {"backlog", "open"}

TypeOK ==
    /\ client \in {"closed", "open", "dead"}
    /\ server \in {"closed", "backlog", "open", "dead"}
    /\ client_timer \in 0..(Period + Late)
    /\ server_timer \in Nat
    /\ pong_received \in BOOLEAN
    /\ ping \in Ages \cup {None}
    /\ pong \in Ages \cup {None}
    /\ since \in Nat

-----------------------------------------------------------------------------
(* The client. *)

\* connect_to_server(): the kernel completes the connection before the server
\* accepts it.
Connect ==
    /\ client = "closed" /\ client' = "open"
    /\ server = "closed" /\ server' = "backlog"
    /\ client_timer' = 0
    /\ server_timer' = 0
    /\ pong_received' = TRUE
    /\ UNCHANGED <<ping, pong, since>>

ClientCloses ==
    /\ client' = "closed"
    /\ pong' = None

\* Mutant: pong_received stays set.
PingForgets ==
    /\ client = "open"
    /\ client_timer >= Period
    /\ pong_received
    /\ client_timer' = 0
    /\ ping' = IF server \in Accepting THEN 0 ELSE None
    /\ UNCHANGED <<client, server, server_timer, pong_received, pong, since>>

\* process_keep_alive_timer(), the pong has come: the timer is started again
\* from here, and a ping sent.
Ping ==
    /\ client = "open"
    /\ client_timer >= Period
    /\ pong_received
    /\ client_timer' = 0
    /\ ping' = IF server \in Accepting THEN 0 ELSE None
    /\ pong_received' = FALSE
    /\ UNCHANGED <<client, server, server_timer, pong, since>>

\* It has not: the connection is closed.
ClientTimesOut ==
    /\ client = "open"
    /\ client_timer >= Period
    /\ ~pong_received
    /\ ClientCloses
    /\ UNCHANGED <<server, client_timer, server_timer, pong_received, ping,
                   since>>

handle_message_pong ==
    /\ pong # None
    /\ pong' = None
    /\ pong_received' = TRUE
    /\ UNCHANGED <<client, server, client_timer, server_timer, ping, since>>

\* stop().
Stop ==
    /\ client = "open"
    /\ ClientCloses
    /\ UNCHANGED <<server, client_timer, server_timer, pong_received, ping,
                   since>>

\* read() returns 0, after what the server had sent before.
ClientReadsEnd ==
    /\ client = "open"
    /\ server = "closed"
    /\ pong = None
    /\ ClientCloses
    /\ UNCHANGED <<server, client_timer, server_timer, pong_received, ping,
                   since>>

-----------------------------------------------------------------------------
(* The server. *)

\* client_init(), which starts the timer.
Accept ==
    /\ server = "backlog"
    /\ server' = "open"
    /\ server_timer' = 0
    /\ UNCHANGED <<client, client_timer, pong_received, ping, pong, since>>

ServerCloses ==
    /\ server' = "closed"
    /\ ping' = None

\* Mutant: the timer runs on from the accept.
handle_message_ping_no_restart ==
    /\ server = "open"
    /\ ping # None
    /\ ping' = None
    /\ pong' = IF client = "open" THEN 0 ELSE None
    /\ UNCHANGED <<client, server, client_timer, server_timer, pong_received,
                   since>>

\* The timer is started again, and the pong sent.
handle_message_ping ==
    /\ server = "open"
    /\ ping # None
    /\ ping' = None
    /\ server_timer' = 0
    /\ pong' = IF client = "open" THEN 0 ELSE None
    /\ UNCHANGED <<client, server, client_timer, pong_received, since>>

\* process_client_keep_alive_timer().
ServerTimesOut ==
    /\ server = "open"
    /\ server_timer >= Timeout
    /\ ServerCloses
    /\ UNCHANGED <<client, client_timer, server_timer, pong_received, pong,
                   since>>

\* disconnect() of this client.
Disconnect ==
    /\ server = "open"
    /\ ServerCloses
    /\ UNCHANGED <<client, client_timer, server_timer, pong_received, pong,
                   since>>

\* read() returns 0, after what the client had sent before.
ServerReadsEnd ==
    /\ server = "open"
    /\ client = "closed"
    /\ ping = None
    /\ ServerCloses
    /\ UNCHANGED <<client, client_timer, server_timer, pong_received, pong,
                   since>>

-----------------------------------------------------------------------------
(* Failures and time. *)

ServerDies ==
    /\ client = "open"
    /\ server \in Accepting
    /\ server' = "dead"
    /\ ping' = None
    /\ since' = 0
    /\ UNCHANGED <<client, client_timer, server_timer, pong_received, pong>>

ClientDies ==
    /\ client = "open"
    /\ server \in Accepting
    /\ client' = "dead"
    /\ pong' = None
    /\ since' = 0
    /\ UNCHANGED <<server, client_timer, server_timer, pong_received, ping>>

\* A started timer that is not handled, and an end that waits for a dead one.
ClientRuns == client = "open"
ServerRuns == server \in Accepting
Waiting ==
    \/ client = "dead" /\ ServerRuns
    \/ server = "dead" /\ ClientRuns

Older(age) == IF age = None THEN None ELSE age + 1

Tick ==
    /\ ping # Delay
    /\ pong # Delay
    /\ ClientRuns => client_timer < Period + Late
    /\ server = "open" => server_timer < Timeout + Late
    /\ server = "backlog" => server_timer < Delay
    /\ client_timer' = IF ClientRuns THEN client_timer + 1 ELSE client_timer
    /\ server_timer' = IF ServerRuns THEN server_timer + 1 ELSE server_timer
    /\ ping' = Older(ping)
    /\ pong' = Older(pong)
    /\ since' = IF Waiting THEN since + 1 ELSE since
    /\ UNCHANGED <<client, server, pong_received>>

-----------------------------------------------------------------------------

Init ==
    /\ client = "closed"
    /\ server = "closed"
    /\ client_timer = 0
    /\ server_timer = 0
    /\ pong_received = FALSE
    /\ ping = None
    /\ pong = None
    /\ since = 0

Next ==
    \/ Connect
    \/ Ping
    \/ ClientTimesOut
    \/ handle_message_pong
    \/ Stop
    \/ ClientReadsEnd
    \/ Accept
    \/ handle_message_ping
    \/ ServerTimesOut
    \/ Disconnect
    \/ ServerReadsEnd
    \/ ServerDies
    \/ ClientDies
    \/ Tick

Spec == Init /\ [][Next]_vars

-----------------------------------------------------------------------------
(* Properties. *)

\* The parts of the inductive invariant that hold for every load.

\* Nothing is on its way to an end that is gone.
Receivers ==
    /\ ping # None => server \in Accepting
    /\ pong # None => client = "open"

\* One ping or pong is on its way at most, none once the pong has come: a
\* late pong is never taken for the answer to a later ping.
OneOnItsWay ==
    /\ pong_received => pong = None
    /\ client = "open" /\ pong_received => ping = None
    /\ ping = None \/ pong = None

\* How long the end that is left can have waited.
Waited ==
    /\ server = "open" => server_timer <= Timeout + Late
    /\ server = "backlog" => server_timer <= Delay
    /\ server = "dead" /\ client = "open" =>
           /\ pong_received \/ pong # None => since <= client_timer
           /\ since <= client_timer + Period + Late
    /\ client = "dead" /\ server = "backlog" => since <= server_timer
    /\ client = "dead" /\ ping # None => since <= ping
    /\ client = "dead" /\ server = "open" /\ ping = None =>
           since <= Delay + server_timer

\* Both ends run: how far their timers are apart, when all is prompt.
InStep ==
    client = "open" =>
        /\ server = "backlog" =>
               server_timer = client_timer /\ pong_received
        /\ server = "open" =>
               /\ ~pong_received => ping # None \/ pong # None
               /\ ping # None => /\ client_timer <= ping
                                 /\ server_timer <= Period + Late + ping
               /\ ping = None => server_timer <= client_timer
               /\ pong # None => client_timer <= Delay + pong

\* The four parts together.
Inductive == TypeOK /\ Receivers /\ OneOnItsWay /\ Waited /\ InStep

\* No end gives up a connection whose other end is alive: the client never
\* finds its timer expired without the pong, nor the server its timer
\* expired, however messages and expirations interleave within the bounds.
NoFalseAlarm ==
    /\ client = "open" /\ server \in Accepting /\ client_timer >= Period
           => pong_received
    /\ client = "open" /\ server = "open" => server_timer < Timeout

\* A client notices a dead server within two periods, and a server a dead
\* client within its timeout and the delay of the last ping.
NoticedInTime ==
    /\ server = "dead" /\ client = "open" => since <= 2 * (Period + Late)
    /\ client = "dead" /\ server = "open" => since <= Delay + Timeout + Late

=============================================================================
