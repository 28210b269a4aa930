# Messi in TLA+

[Messi](../src/README.rst) generates, from a protocol description, a TCP client
and a TCP server that exchange messages: the client reconnects by itself, the two
sides keep the connection alive with pings and pongs, and the application sees
callbacks. The hand-written logic is in the templates under
`src/messi/c_source/templates/` and `src/messi/py_source/templates/`, of which
every generated program is an instance. This project models those templates,
checks the models with TLC and proves their main invariants with TLAPS.

Paths below are relative to `src/messi/c_source/templates/linux/` unless they
start with `src/`.

## Inventory

| Component | State it keeps | Operations | Status |
|---|---|---|---|
| Linux client (`client.c`) | `server_fd`, `keep_alive_timer_fd`, `reconnect_timer_fd`, `pending_disconnect`, `disconnect_reason`, `pong_received`, the input state | `start`, `stop`, `send`, `process` (socket, keep-alive timer, reconnect timer, tail) | `LinuxClient`, `Framing` |
| Linux server (`server.c`) | slots with `client_fd`, `keep_alive_timer_fd`, `next_p`, `prev_p`; three list heads; `current_client_p` | `start`, `stop`, `process` (listener, client socket, timer, destroying the pending clients), `send`, `reply`, `broadcast`, `disconnect` | `LinuxServer` |
| Output queue of a server client | `output.head_p`, `tail_p`, the EPOLLOUT registration | `client_write`, `client_output_append`, `process_client_socket_out`, `free_client_output` | `ServerOutput` |
| Framing | `input.state`, `size`, `left` | the read loops of both sides | `Framing` |
| Keep-alive between the two | both timers, `pong_received`, pings and pongs on their way | expirations, `handle_message_ping`, `handle_message_pong` | `KeepAlive` |
| messi library (`src/lib`) | none | header encoding, URI parsing, reason strings | header in `Framing`; the URI parser is not modelled |
| Async client (`../async/client.c`) | `is_connected`, `disconnect_reason`, `pong_received`, two timers, the TCP client, queued calls | `start`, `stop`, `send`, `on_stcp_*`, the two timeouts, the queued `on_disconnected` | `AsyncClient`, `Framing` |
| Async server (`../async/server.c`) | | | not modelled: unfinished in the repository |
| Python client (`src/messi/py_source/templates/client.py`) | `_task`, `_writer`, `_keep_alive_task`, `_pong_event` | `start`, `stop`, `_main`, `_connect`, `_reader_loop`, `_keep_alive_main`, `_close` | `PyClient` |
| Generators, command line | none between runs | text templates | not modelled |
| Message encoding (pbtools) | none | `encode`, `decode` | external: only success or failure is used |

How they interact. Client and server share nothing but a TCP connection. Each
side on Linux is single-threaded and driven by the application's epoll loop: the
application calls `process()` for a ready descriptor, `process()` calls the
application's callbacks, and the application calls `send()`, `stop()`,
`disconnect()` or `broadcast()`, from a callback or between two events. A failure
inside any call is not returned: it closes the socket and makes a *pending
disconnect*, which a later `process()` reports through a callback. The async client
does the same from the framework's loop and reports through a queued call; the
Python client runs one asyncio task per client and one per connection, which
`stop()` and a lost connection cancel.

What is hard in this code:

* the same functions run from the event loop and from callbacks, so that state
  read before a callback may be stale after it;
* a failure met outside `process()` leaves no event on the socket, so only a
  timer makes the report happen;
* descriptor numbers are reused by the kernel, so a field that is not reset names
  someone else's descriptor;
* the server's lists maintain `prev_p` only in part;
* a stream is cut at any byte, in both directions, and a connection is lost in
  the middle of a message;
* each of several steps of a connect, disconnect or flush may fail;
* two timers of different length, started at different ends, decide together
  whether a peer is alive;
* calls that are queued, and cancellations that arrive at any `await`, take effect
  after the state they were meant for has changed.

`PROJECT.json` lists each of these at its line under `hazards`, with the
properties that cover it.

## Modules

| Module | Models | Composes with |
|---|---|---|
| `ClientLifecycle` | what every client promises the application (abstract) | implemented by the three clients |
| `LinuxClient` | `client.c` with the kernel's descriptor table | |
| `LinuxClientProofs` | theorems about it | extends `LinuxClient` |
| `LinuxServer` | `server.c` with every list pointer | |
| `ServerLifecycle` | what the server promises its application (abstract) | implemented by `LinuxServer` |
| `ServerListProofs` | lemmas about its linked lists | extends `LinuxServer` |
| `LinuxServerProofs` | theorems about it | extends `ServerListProofs` |
| `ServerOutput` | the output queue of one client of `server.c` | refines the choice in `LinuxServer!client_write` |
| `ServerOutputProofs` | theorems about it | extends `ServerOutput` |
| `Framing` | the read loops of `server.c` and `client.c` | details the choices in the `Read...` actions of the two |
| `FramingProofs` | theorems about it | extends `Framing` |
| `AsyncClient` | `../async/client.c` and what it uses of the framework | |
| `AsyncClientProofs` | theorems about it | extends `AsyncClient` |
| `PyClient` | `client.py` and its tasks | |
| `PyClientProofs` | theorems about it | extends `PyClient` |
| `KeepAlive` | the ping-pong of `client.c` and `server.c` together, in discrete time | details the timer actions of `LinuxClient` and `LinuxServer` |
| `KeepAliveProofs` | theorems about it | extends `KeepAlive` |
| `MC...` | TLC instances | extend the module they are named after |

An operator under a `\* Mutant:` comment is a wrong version of a definition that
follows it, of the kind a slip in the code would give. No specification uses it:
`PROJECT.json` pairs each property with one that makes it fail.

### ClientLifecycle

Three variables: whether the client is started, whether the application was told
that it is connected (`up`), and the callback that is running (`call`). Callbacks
do not nest, `on_connected()` and `on_disconnected()` alternate, messages come in
between, and no callback begins between `stop()` and the next `start()`. The
documentation of the three clients (client.h:103-112 and its like) promises no more
and no less. A client maps `call` to the callback its `pc` is in, whether it is
started or not, so that a callback made on a stopped client is a step that
`ClientLifecycle` does not allow. `Raises` is TRUE for Python, where an exception in
`on_message()` ends the callback and the connection at once.

### ServerLifecycle

Four variables: the phase of the server, the clients that were announced and not
reported (`known`), those of them whose connection is gone (`lost`), and the callback
that is running (`call`). The documentation of the server (server.h:128-167 and
src/README.rst:182-183) names the callbacks; this module puts their order into one
place. `LinuxServer` maps `lost` to the clients on its pending list, without the one that is
being reported, and a running `broadcast()` to the callback it was called from.
`stop()` ends announcements and messages. It does not end the reports of clients lost
before it: the code leaves their timers with epoll, and a `process()` on one of them
reports these clients.

### LinuxClient

`pc` is the point where control is: in the application between two events
(`idle`), in one of the callbacks, in the read loop of `process_socket()`, or
before the test of `pending_disconnect` at the end of `process()`
(`process_tail`). Everything between two such points is one action, because the
code is single-threaded and calls nobody else. `kind` is the kernel's descriptor
table. A closed number becomes `free`, and `ApplicationOpens` or the client may
get it again. Two history variables, `up` and `cause`, record what the
application was told and the first failure.

Three constants say how the client is used: `SendsWhileDisconnected`,
`StopsInCallback` and `TimerFaults`. With all three FALSE every property holds.
Each of them TRUE gives a disagreement with the documentation (below).
`start()` is called on a client that is not started, outside callbacks.

`init()` sets neither `disconnect_reason` nor `pong_received`, so `Init` lets them
be anything.

### LinuxServer

The list functions are operators from memory to memory (`lists`), one per C
function and with its name. `prev_p` starts as `Uninit`, a value nobody has
assigned; following a pointer that is no client sets `lists.wild`, and no action
is enabled afterwards: the process is taken to have crashed. The clients on a list
(`Members`) are those in every set that holds the head and is closed under
`next_p`: that is a definition the provers can reason with, and it makes sense
for a list with a cycle too. `Owner` is the first client of the connected list
with a descriptor, which is the one the search in `process()` finds. `bcast` holds the
locals of `broadcast()`, whose loop runs one client per step. `known` is the
history of what the application was told.

`CallsInDisconnected` says whether the application calls the server from
`on_client_disconnected()`. `stop()` is called outside of callbacks, and once; no doc or
test starts a stopped server again. (`stop()` does not clear `connected_list_p`, so a
restart without `init()` would be in trouble.) After it the application makes no more
calls but `process()`, for the descriptors that epoll still reports: the timers of
clients whose disconnect was pending, which `stop()` does not close. That `process()`
walks from `connected_list_p`, which `stop()` leaves as it is, through the clients that
were freed into the rest of the free list, and compares the timer's number with the
fields it meets. The numbers `stop()` has closed are those of no open descriptor. A
client whose `client_init()` has failed keeps numbers that were closed and handed out
again, and `StaleNumbers` says whether `process()` is misled by them after `stop()`; it is
FALSE in the runs (what happens otherwise is below). A stopped server without pending
clients has no step left, so the runs of the server do not check deadlock.

### ServerOutput

A message is an interval of the stream of bytes handed to `client_write()`: its
first byte and its size. `wired` counts the bytes written, so "in order and
without a gap" is that the unwritten intervals continue one another from `wired`
to `produced` (`Contiguous`). `head_p` is `"freed"` while it points to an item
that was freed, and `dropped` records that `malloc()` has failed on the
connection. `LateErrors` says whether `write()` may fail after a flush has freed an
item, which is the case the run `output_late_error` is about. `SendsToPending` says
whether the application sends to a client whose disconnect is pending. With `head_p`
NULL that changes nothing: `write(-1)` fails and the second `client_pending_disconnect()`
returns at once. But a failed flush leaves `head_p` at a freed item (server.c:469), and
the message is then linked to the freed `tail_p` (`WritePending`). `epoll_ctl_mod()`
(server.c:315, 472) is taken never to fail: its descriptor is open and registered, and
no caller looks at its result.

### Framing

`BufSize` and the sets of payload sizes, message types and payload bytes are
parameters. `Side` tells the server's loop from the client's, which differ in when the
input state is reset. The buffer's first four bytes are kept (`header`), and `Fill` puts
there what the peer sends: the type, the three size bytes as `messi_header_set_size()`
makes them, and payload bytes. `Announced` is what `messi_header_get_size()` makes of
them, so that a reader that has lost its place in the stream announces what the bytes
it has really give. Of the rest of the buffer only the amount is there. `size = got` says
that the buffer starts with the start of the peer's frame. `PayloadAssumption` keeps
payloads below 2^24, which nothing in the code checks: it holds when the output buffers
of the application are smaller than that.

### AsyncClient

The framework under it is external, modelled from how `client.c` uses it: a
stopped timer does not expire, a disconnected TCP client has no events, and a
call queued by `async_call()` runs some time later and cannot be taken back. `calls`
counts the queued `on_disconnected()`, so that whatever comes between a failure
and its report does come in some behaviour. `stop()` clears neither `is_connected`
nor the queue, in the model as in the code.

An application cannot see that a report is queued, and may call `stop()` then. The model
has no guard against it. The queued call is not taken back: it calls `on_disconnected()`
on the stopped client and starts the reconnect timer, which connects again, against
"Disconnect from the server. Call start to connect again." (../async/client.h:109). The
same timer is started when `stop()` is called from `on_disconnected()`. The history
variable `cut` records such a `stop()`, and the properties say what holds until then.
`SendsWhileDisconnected` says whether `send()` is called without a connection.

### PyClient

`pc` is the `await` where `_main()` is suspended; a task runs without interruption
from one to the next. `cancelled` is a cancellation that was requested and not yet
raised. An application that calls `stop()` from its own coroutine gets it at the
next `await` that suspends, so the coroutine may return first, and buffered
messages may be read first. `keep_alive` holds the keep-alive tasks of the newest
connection and of the one before. The history variable `cut` says that `stop()`
was called while the client was connected, which is the case the run `py_stop` is
about, or that `on_connected()` has raised; the properties of `py_client` speak of the
other case where they must. Every coroutine of the application may raise. In
`on_message()` that counts as a lost connection (`MessageRaises`); the others are awaited
outside the try block (client.py:113, 124, 141-147), and the exception ends `_main()`
(`CallbackRaises`), after `on_connected()` with the connection open.

Two assumptions. A cancellation reaches the keep-alive task before a new
connection is complete (guard of `Connected`): the first takes a few rounds of the
event loop after `cancel()`, the second waits at least for a socket to become
writable and for the transport to be set up. And `start()` is called when the task
of an earlier `start()` has ended; two `_main()` on one object are not modelled.

### KeepAlive

Time is discrete. `Delay` bounds the time from `write()` to the handling of a
message, the scheduling of the receiver included, and of `connect()` to
`client_init()`; `Late` bounds the time from the expiration of a timer to its
handling. `Tick` is disabled while something is due, and everything else takes no
time. The client's timer starts again when its expiration is handled, so lateness
accumulates; the server's starts again with each ping. `Prompt` is what the two
periods can stand:

    2 * Delay < Period  /\  Period + Late + Delay < Timeout

With the code's 2 s and 3 s: delay and lateness together stay below one second.
An end that dies neither sends nor closes, and `since` counts from there. One
connection at a time is modelled, and `Connect` needs both ends closed.

## Runs

| Run | Bounds | Checks |
|---|---|---|
| `client` | 4 descriptors, 2 of the application, 3 failures | `Inductive`, `OwnsItsFields`, `NoLeak`, `NeverStranded`, `StoppedIsQuiet`, `FirstCauseReported`, `ImplementsLifecycle`, `Reconnects`, `PendingIsReported` |
| `server_safety` | 3 slots; a `VIEW` hides the descriptor fields of free slots that are not `known`, which no action reads with `StaleNumbers = FALSE` | `TypeOK`, `ListsWellFormed`, `KnownClientsServed`, `DescriptorsOwned`, `BroadcastReachesAll`, `StopCloses`, `ImplementsLifecycle` |
| `server_liveness` | 2 slots | `PendingIsReported` |
| `output` | messages up to 3 bytes, 8 bytes in all | `InOrder`, `EpolloutWhileQueued`, `NoUseAfterFree`, `Delivered` |
| `framing_server` | buffer 261, payloads 0, 1 and 255 to 258 | `DeliveredIntact`, `ReadsFitBuffer` |
| `async_client` | 4 failures | `Inductive`, `OneWayOn`, `FirstCauseReported`, `KeepsLifecycle`, `Reconnects`, `SilentPeerNoticed` |
| `py_client` | 4 failures | `TypeOK`, `StopEndsTask`, `NoLeak`, `Watched`, `KeepsLifecycle`, `Reconnects`, `SilentPeerNoticed` |
| `keep_alive` | quarters of a second: period 8, timeout 12, delay 2, lateness 1 | `Inductive`, `NoFalseAlarm`, `NoticedInTime` |

Why the bounds are enough. The client never holds more than two descriptors at a
time, so four let the application take any number the client has closed while
the client opens new ones; three failures let a failure hit the connect, the
connection and the reconnect of one behaviour, and the proofs remove the bound.
Three slots give lists with a first, a middle and a last client, which is what
the list functions tell apart; the free list then still has a client while two
are pending. Messages of three bytes can be cut twice, and eight bytes let a queue
of several items form behind a partial write. A buffer of 261 with a header of 4
has payloads below, at and above the limit of 257, empty ones, and sizes on both
sides of the carry into the second size byte. Four failures let the async and the
Python client lose a connection, fail to reconnect, and lose the next one to a
silent peer. The times of `keep_alive` are as tight as `Prompt` allows: one more
tick of delay or lateness gives a false alarm.

### Disagreements with the documentation

Each of these runs checks one property and finds it violated. `PROJECT.json`
quotes the line of the documentation under `findings`.

| Run | Property | What happens |
|---|---|---|
| `framing_client` | `DeliveredIntact` | the client does not reset its input state when it reconnects: the header of the new stream completes the payload that was cut off |
| `server_calls_in_disconnected` | `ReportedOnce` | the pending list has no `prev_p`, and calls from `on_client_disconnected()` need it |
| `output_late_error` | `NoUseAfterFree` | a write error late in a flush frees the first item twice |
| `py_stop` | `StoppedIsQuiet` | `stop()` of a connected Python client: the cancellation counts as a lost connection, and `_main()` connects again; in `on_connected()` it leaves the connection open |

More are not runs of their own. Each shows when a constant of a passing run is
changed:

* `SendsWhileDisconnected = TRUE` in `client.cfg`: `ImplementsLifecycle` and `NoLeak` are violated.
  `send()` with `server_fd = -1` calls `pending_disconnect()` (client.c:496), and the
  next `process()` calls `on_disconnected()` for a connection that was never
  announced, against "If an error occurs, likely a connection issue, the
  disconnect callback is called to notify the user that the connection was
  dropped." (src/README.rst:283-285).
* `StopsInCallback = TRUE` in `client.cfg`: `StoppedIsQuiet` is violated. `process()`
  goes on after the callback (client.c:467) and starts the reconnect timer, against
  "Disconnect from the server. Call start to connect again." (client.h:110).
* `TimerFaults = TRUE` in `client.cfg`: `NeverStranded` is violated. Nobody looks at
  the result of `start_reconnect_timer()` (client.c:349, 440, 467), and a client
  whose timer could not be started is never woken again, against "Automatic
  reconnect if disconnected." (client.h:105). `OwnsItsFields` and `NoLeak` are
  violated too: the error path at client.c:328-332 closes the keep-alive timer and
  keeps its number, which may by then be a descriptor of the application.
* Without the conjunct `~cut`, `OneWayOn` of `AsyncClient` is violated, and without
  `cut'` so is `KeepsLifecycle`, in the way told above.
* `SendsWhileDisconnected = TRUE` in `async_client.cfg`: `OneWayOn`, `FirstCauseReported`
  and `KeepsLifecycle` are violated. `stop()` does not clear `is_connected`, so a `send()`
  that fails to encode after `stop()` queues a report.
* Without the conjunct `~cut`, `NoLeak` of `PyClient` is violated by an exception in
  `on_connected()`, which ends `_main()` with the connection open.
* `SendsToPending = TRUE` in `output.cfg`: `NoUseAfterFree` is violated. A flush whose
  `write()` fails frees the queue and then sets `head_p` to a freed item (server.c:469); a
  `send()` to that client before its disconnect is reported appends to it.
* `StaleNumbers = TRUE` in `server_safety.cfg`: `ImplementsLifecycle` and `StopCloses` are
  violated. `client_init()` has failed for a client and left it the number of a closed
  descriptor, another client has got that number for its timer and was lost before
  `stop()`; `process()` on the timer then finds the free client (server.c:771-783).
* Without the conjunct `~dropped`, `InOrder` of `ServerOutput` is violated:
  `client_output_append()` (server.c:304) drops the rest of a message silently when
  `malloc()` fails and the connection goes on, against "`Messi` guarantees that all
  sent messages are delivered in order to the peer." (src/README.rst:113-114).

## Fairness

`FairSpec` of each module lists the actions that must happen.

* Timers (strong fairness): a timerfd that has expired stays readable until it is
  read or closed, and epoll serves its ready list in turn, so the application's
  loop hands it to `process()` however often other descriptors are ready.
* Callbacks return, and the steps inside `process()`, `broadcast()` and `stop()`
  happen: they are plain code.
* The read loop ends, one way or the other (strong fairness on `ReadWouldBlock \/
  ReadFails`): no peer sends faster than the loop reads for ever. The code does
  not enforce this.
* Output (`ServerOutput`): a peer that is alive makes room in the socket. A peer
  that does not is disconnected by the keep-alive timer, which is the other
  outcome of `Delivered`.

* Async client: the framework's loop serves expired timers, events and queued
  calls; connection attempts end.
* Python client: the event loop runs every task that can run, sleeps and timeouts
  end, coroutines of the application return, and the reader loop gets to the end
  of what was received before the connection was closed.

`KeepAlive` needs none: that time cannot pass a due event makes its bounds safety
properties. No fairness is assumed on the application's own calls. `Reconnects` holds with
finitely many failures only (`MaxFaults`), as it must.

## Proofs

### LinuxClient

`Disciplined` is the assumption on use: no `send()` without a connection, no
`stop()` in a callback, timers that work. `TypeCorrect` needs no assumption. The
other theorems rest on

    InductiveInvariant == Disciplined /\ Spec => []Inductive

where `Inductive` is `TypeOK`, `OwnsItsFields`, `NoLeak` and `Phase`. The last
one is the strengthening: it relates what the application was told (`up`) to the
fields. While a connection is up the keep-alive timer exists, the reconnect timer
does not, and a disconnect is pending exactly when the socket is closed; while it
is not, there is no socket, no keep-alive timer and no pending disconnect, and the
reconnect timer exists exactly when the client is started (or is about to be
created, in `on_disconnected()`). Without it `NoLeak` is not inductive:
`StartReconnectTimer` overwrites `reconnect_timer_fd`, and `ConnectSucceeds`
overwrites the other two. There is one lemma per action, and from the invariant
follow `FieldsOwned`, `NothingLeaks`, `AlwaysWoken`, `StoppedStaysQuiet`,
and `FirstCause`, for every set of descriptors and every bound.
`ClientImplementsLifecycle` shows that every step of the client is a step of
`ClientLifecycle` or leaves its variables alone; that no callback begins on a stopped
client comes from `Phase`, by which it has no socket and no timer to be woken by.

### AsyncClient

`Disciplined` is here: no `send()` without a connection. `Inductive` adds to the type
which of the connection, the queued call and the two timers go together in each phase,
until `stop()` is called while a report is queued or running (`cut`): a started client has
exactly one way on (`OneWayOn`), a stopped one has none (`StoppedForGood`), and
`is_connected` agrees with the TCP client and a queued report has its cause in
`disconnect_reason` (`Link`). It needs the phases because each action may start a timer or
queue a call, and must find none there. `AlwaysOneWayOn`, `FirstCause` and the refinement
`LifecycleKept`, up to `cut`, follow from it, for every number of failures.

### KeepAlive

`Base` is inductive for every delay and lateness: nothing is on its way to an end
that is gone, one ping or pong is on its way at most (so that a late pong is never
taken for the answer to a later ping), and the time an end has waited for a dead
one is bounded by its timer. `DeadPeerNoticed` follows. `InStep` needs `Prompt`: while
both ends run the server's timer is not ahead of the client's by more than the
ping on its way explains. With it `LivePeerKept` follows. The constants are any
natural numbers.

### Framing

`Aligned` (type, `InSync`, `HeaderRead` and `DeliveredIntact`) is inductive for the server: the
reset in `client_init()` establishes it on every connection, and each read keeps
buffer and peer at the same place of the frame and the size bytes those of the frame.
From it follow `ServerDeliversIntact` and `ServerReadsFit` for every buffer size, every
set of payloads below 2^24 and every set of types and payload bytes. `HeaderRoundTrip`, that the three bytes give back
the size, is where that limit is used.

### ServerOutput

`ShapeInvariant` proves, without any assumption on `malloc()` or `write()`, that
queue, `head_p`, EPOLLOUT and the two loops go together (`Structure` and
`EpolloutWhileQueued`), for queues of every length. On it rest `EpolloutExact`,
`FreedOnce` (from `~LateErrors` and `~SendsToPending`: the disagreements above are exactly
these cases) and
`DeliveredInOrder` (without assumption). The last one uses three lemmas on
contiguous sequences: appending the next piece, dropping the first one, and
shortening the first one.

### LinuxServer

All theorems assume `CallsInDisconnected = FALSE`, which the run
`server_calls_in_disconnected` shows to be needed, and `StaleNumbers = FALSE`, and hold for
every `ClientsMax`.

`ServerListProofs` is about the linked lists. Facts on lists of every length would
ask for induction, which the provers do not have. Two things take its place. A list
is the least set that holds its head and is closed under `next_p` (`Reach`), so to
show that a list lies within a set it is enough that the set is closed (`ReachLeast`);
that a client taken off leaves the rest of its list alone (`ReachUnlink`), and that
each client but the first has a predecessor (`ReachPredecessor`), are proved by such
sets. And `LeastNatural`, that a set of naturals that is not empty has a least
element, gives a first client for which a claim about the chain that `init()`
builds fails (`InitLists`) and the lowest free descriptor (`LowestIsFree`). On these
rest one lemma per list function: `WellLinked` is kept and the sets change as meant,
by `AllocLists`, `MoveLists`, `FreePendingLists`, `InitFailsLists` and `StopLists`.
`WellLinked` says no more of `prev_p` than the code maintains: it is right for
clients of the connected list that have a predecessor, and nothing is said of the
head, of the pending list and of the free list. `remove_client_from_list()` is safe
all the same, because the head is compared first and the pending list is only
emptied from its head.

`LinuxServerProofs` has the inductive invariant, `Structure`:

* `Core`, between `init()` and `stop()`: the lists are well linked, `known` is what is
  on the connected and pending lists, `client_fd` is -1 on the pending list, and the
  open descriptors are those of the listener and of the clients, all different
  (`Owned`). The client whose `on_client_disconnected()` is running is the exception:
  it is on the pending list, but its timer is closed and it is not known any more;
* `Stopping`, in `stop()` and after it: what is still to be closed is what is reached
  from `client_p`, and the timers of the pending clients; no client of the connected list
  or behind it has a number that is open, except for these, and the pending list, which
  `process()` goes on emptying from its head, stays apart from what `stop()` has freed;
* `Control`: the pointers that the code goes on with are still what they were.
  `destroy_pending_disconnect_clients()` is at the head of the pending list, the read
  loop is at a client that was announced, and `broadcast()` is at a connected client
  or at the end, with everything it owes a message still ahead of it.

The last part is needed because a callback comes between reading a pointer and using
it. There is one lemma per action. A descriptor can always be handed out while a
slot is free (`RoomForClient`), by counting: `Fds` has two numbers per slot and two
more. From `Structure` follow `TypeCorrect`, `ListsStayWellFormed`,
`KnownClientsAreServed`, `DescriptorsAreOwned`, `BroadcastReaches`, `StopClosesAll`
and the action property `ReportedOnceHolds`.

`ServerImplementsLifecycle` is the refinement of `ServerLifecycle`. Most steps leave
the four abstract variables alone; a step with a write or a failure in it adds at
most its own client to `lost` (`LosesOne`, from `MoveLists`); a client that
`AcceptClient` announces was on the free list and so is not known; the read loop
hands out a message only with an open socket, which a client on the pending list
does not have; and what `DestroyClient` reports is the head of the pending list, after
`stop()` too. After `stop()` no descriptor that `process()` is handed belongs to a client it
finds (`StoppedOwner`), so that nobody is announced, no message is handed out and no
further client is lost.

### PyClient

The theorems hold for every number of failures. `Structure` is `TypeOK`, `Watched`
and three relations: a connection nobody has closed is one that `_writer` refers to
(`WriterHoldsLink`); outside of a connection there is no writer (`ClosedBetween`);
and until `stop()` meets a connected client or `on_connected()` raises (`cut`), `_main()` is in a connection
exactly when the application was told so, no cancellation is on its way there, and
after `stop()` either one is on its way or the task has ended (`Uncut`). `NoLeak`
and `StopEndsTask` are not inductive without the last two: they speak of `pc` and
`writer` only, and the step that breaks or keeps them depends on which cancellation
is on its way. `TypeCorrect`, `StopEndsTaskHolds`, `NoLeakHolds`, `WatchedHolds` and
`LifecycleKept`, the refinement of `ClientLifecycle` up to `cut`, follow.

### Only model-checked

Every invariant and action property of a passing run is proved. Left to TLC are the
liveness properties, because fairness and ENABLED are out of the prover's reach
(`Reconnects`, `PendingIsReported`, `SilentPeerNoticed`, `Delivered`), and the runs
that end in a violation.

## Not modelled

* The async server: the client lists of `../async/server.c` are not initialised and
  its disconnect paths are commented out, and no test or example runs it. There is
  no behaviour to be faithful to yet.
* `messi_parse_tcp_uri()` and the generators: text in, text out, no state.
* A server started again after `stop()`, or called other than through `process()` after it,
  and two `_main()` tasks of one Python client.
* `epoll_ctl_mod()` failing while the output queue changes.
* The bytes of payloads: pbtools encodes and decodes them.

## Plan

1. `Delivery`, an abstract specification of one direction of a connection (the
   receiver gets a prefix of what was sent on it, in order), and a composition of
   `ServerOutput`, a TCP stream and `Framing` shown to implement it.
2. What `ServerListProofs` says of the lists, for a server that is started again
   after `stop()`: which of its lemmas fail, and which change to `stop()` would mend
   them.
