-------------------------- MODULE LinuxServerProofs --------------------------
(***************************************************************************)
(* Proofs about the Linux server, for every number of clients and an       *)
(* application that does not call the server from on_client_disconnected() *)
(* (with one that does, ReportedOnce fails: the run                        *)
(* server_calls_in_disconnected shows how), as long as no timer that is    *)
(* open after stop() has a number a failed client_init() has left behind.  *)
(***************************************************************************)
EXTENDS ServerListProofs, FiniteSetTheorems

-----------------------------------------------------------------------------
(* Descriptors. *)

\* o holds the listener's descriptors L, the sockets of the clients S and the
\* timers of the clients T, all different.
Owned(S, T, socket, timer, L, o) ==
    /\ L \subseteq Fds
    /\ \A c \in S : socket[c] \in Fds \ L
    /\ \A c \in T : timer[c] \in Fds \ L
    /\ \A c, d \in S : socket[c] = socket[d] => c = d
    /\ \A c, d \in T : timer[c] = timer[d] => c = d
    /\ \A c \in S, d \in T : socket[c] # timer[d]
    /\ o = L \cup {socket[c] : c \in S} \cup {timer[c] : c \in T}

\* Fields of clients that hold no descriptor do not matter.
LEMMA OwnedFrame ==
    ASSUME NEW S, NEW T, NEW s, NEW t, NEW L, NEW o, Owned(S, T, s, t, L, o),
           NEW s2, NEW t2,
           \A c \in S : s2[c] = s[c], \A c \in T : t2[c] = t[c]
    PROVE  Owned(S, T, s2, t2, L, o)
<1>1. /\ {s2[c] : c \in S} = {s[c] : c \in S}
      /\ {t2[c] : c \in T} = {t[c] : c \in T}
  OBVIOUS
<1> QED BY <1>1 DEF Owned

\* accept() and timerfd_create() for a new client.
LEMMA OwnedAdd ==
    ASSUME NEW S, NEW T, NEW s, NEW t, NEW L, NEW o, Owned(S, T, s, t, L, o),
           NEW s2, NEW t2, NEW c, c \notin S, c \notin T,
           s2[c] \in Fds \ o, t2[c] \in Fds \ o, s2[c] # t2[c],
           \A d \in S : s2[d] = s[d], \A d \in T : t2[d] = t[d]
    PROVE  Owned(S \cup {c}, T \cup {c}, s2, t2, L, o \cup {s2[c], t2[c]})
<1>1. /\ {s2[d] : d \in S \cup {c}} = {s[d] : d \in S} \cup {s2[c]}
      /\ {t2[d] : d \in T \cup {c}} = {t[d] : d \in T} \cup {t2[c]}
  OBVIOUS
<1>2. o = L \cup {s[d] : d \in S} \cup {t[d] : d \in T} BY DEF Owned
<1>3. /\ s2[c] \notin L /\ t2[c] \notin L
      /\ \A d \in S : s[d] # s2[c] /\ s[d] # t2[c]
      /\ \A d \in T : t[d] # s2[c] /\ t[d] # t2[c]
  BY <1>2
<1>4. o \cup {s2[c], t2[c]} = L \cup {s2[d] : d \in S \cup {c}}
                                \cup {t2[d] : d \in T \cup {c}}
  BY <1>1, <1>2
<1> QED BY <1>3, <1>4 DEF Owned

\* close() of the socket of c.
LEMMA OwnedCloseSocket ==
    ASSUME NEW S, NEW T, NEW s, NEW t, NEW L, NEW o, Owned(S, T, s, t, L, o),
           NEW c \in S, NEW s2, \A d \in S \ {c} : s2[d] = s[d]
    PROVE  Owned(S \ {c}, T, s2, t, L, o \ {s[c]})
<1>1. {s2[d] : d \in S \ {c}} = {s[d] : d \in S} \ {s[c]} BY DEF Owned
<1>2. o \ {s[c]} = L \cup {s2[d] : d \in S \ {c}} \cup {t[d] : d \in T}
  BY <1>1 DEF Owned
<1> QED BY <1>2 DEF Owned

\* close() of the timer of c.
LEMMA OwnedCloseTimer ==
    ASSUME NEW S, NEW T, NEW s, NEW t, NEW L, NEW o, Owned(S, T, s, t, L, o),
           NEW c \in T, NEW t2, \A d \in T \ {c} : t2[d] = t[d]
    PROVE  Owned(S, T \ {c}, s, t2, L, o \ {t[c]})
<1>1. {t2[d] : d \in T \ {c}} = {t[d] : d \in T} \ {t[c]} BY DEF Owned
<1>2. o \ {t[c]} = L \cup {s[d] : d \in S} \cup {t2[d] : d \in T \ {c}}
  BY <1>1 DEF Owned
<1> QED BY <1>2 DEF Owned

\* close() of the listener.
LEMMA OwnedCloseListener ==
    ASSUME NEW S, NEW T, NEW s, NEW t, NEW L, NEW o, Owned(S, T, s, t, L, o)
    PROVE  Owned(S, T, s, t, {}, o \ L)
<1>1. o \ L = {} \cup {s[d] : d \in S} \cup {t[d] : d \in T} BY DEF Owned
<1> QED BY <1>1 DEF Owned

\* An injective function has as many values as arguments.
LEMMA ImageCardinality ==
    ASSUME NEW S, IsFiniteSet(S), NEW f,
           \A c, d \in S : f[c] = f[d] => c = d
    PROVE  /\ IsFiniteSet({f[c] : c \in S})
           /\ Cardinality({f[c] : c \in S}) = Cardinality(S)
<1> DEFINE T == {f[c] : c \in S}
           g == [c \in S |-> f[c]]
<1>1. g \in Bijection(S, T)
  <2>1. g \in [S -> T] OBVIOUS
  <2>2. g \in Injection(S, T) BY <2>1 DEF Injection, IsInjective
  <2>3. g \in Surjection(S, T) BY <2>1 DEF Surjection
  <2> QED BY <2>2, <2>3 DEF Bijection
<1>2. ExistsBijection(S, T) BY <1>1 DEF ExistsBijection
<1> HIDE DEF T
<1>3. IsFiniteSet(T) /\ Cardinality(T) = Cardinality(S)
  BY <1>2, FS_Bijection
<1> QED BY <1>3 DEF T

\* The number of open descriptors.
OpenCount(o, S, T) == Cardinality(o) = 1 + Cardinality(S) + Cardinality(T)

\* The number of open descriptors.
LEMMA OwnedCardinality ==
    ASSUME NEW S, NEW T, NEW s, NEW t, NEW L, NEW o,
           Owned(S, T, s, t, L, o), IsFiniteSet(S), IsFiniteSet(T),
           NEW f, L = {f}
    PROVE  /\ IsFiniteSet(o)
           /\ OpenCount(o, S, T)
<1> DEFINE A == {s[c] : c \in S}
           B == {t[c] : c \in T}
<1>1. IsFiniteSet(A) /\ Cardinality(A) = Cardinality(S)
  BY ImageCardinality DEF Owned
<1>2. IsFiniteSet(B) /\ Cardinality(B) = Cardinality(T)
  BY ImageCardinality DEF Owned
<1>3. A \cap B = {} /\ f \notin A \cup B /\ o = (A \cup B) \cup {f}
  BY DEF Owned
<1> HIDE DEF A, B
<1>4. /\ IsFiniteSet(A \cup B)
      /\ Cardinality(A \cup B) =
             Cardinality(A) + Cardinality(B) - Cardinality(A \cap B)
  BY <1>1, <1>2, FS_Union
<1>5. Cardinality(A \cap B) = 0 BY <1>3, FS_EmptySet
<1>6. IsFiniteSet((A \cup B) \cup {f})
  BY <1>4, FS_AddElement
<1>7. Cardinality((A \cup B) \cup {f}) = Cardinality(A \cup B) + 1
  BY <1>3, <1>4, FS_AddElement
<1>8. Cardinality(S) \in Nat /\ Cardinality(T) \in Nat
  BY FS_CardinalityType
<1> QED BY <1>1, <1>2, <1>3, <1>4, <1>5, <1>6, <1>7, <1>8 DEF OpenCount

\* The kernel's choice is a free descriptor, if there is one.
LEMMA LowestIsFree ==
    ASSUME NEW S, Fds \ S # {}
    PROVE  Lowest(S) \in Fds \ S
<1>1. Fds \ S \in SUBSET Nat BY ClientsMaxAssumption DEF Fds
<1>2. \E f \in Fds \ S : \A g \in Fds \ S : f <= g
  BY <1>1, LeastNatural
<1> QED BY <1>2 DEF Lowest

-----------------------------------------------------------------------------
(* The inductive invariant. *)

Descriptors == [Slots -> Fds \cup {NoFd}]

Listener == {listener_fd} \ {NoFd}

\* Between init() and stop(): the lists are well formed and agree with the
\* descriptors and with what the application was told.  rep is the client
\* whose on_client_disconnected() is running.
Core(rep) ==
    /\ WellLinked(lists)
    /\ client_fd \in Descriptors
    /\ keep_alive_timer_fd \in Descriptors
    /\ known = (ConnectedOf(lists) \cup PendingOf(lists)) \ rep
    /\ \A c \in PendingOf(lists) : client_fd[c] = NoFd
    /\ Owned(ConnectedOf(lists),
             (ConnectedOf(lists) \cup PendingOf(lists)) \ rep,
             client_fd, keep_alive_timer_fd, Listener, open)

\* In stop() and after it, for a memory l with sockets s and timers t: rest
\* are the clients stop() has still to close.  Those it has closed are known
\* to the application, and process() may still meet them, but their numbers
\* are those of no open descriptor.
Halted(l, s, t, k, o, rest, rep) ==
    LET P == PendingOf(l)
    IN  /\ l \in ListMemory
        /\ l.wild = FALSE
        /\ s \in Descriptors
        /\ t \in Descriptors
        /\ Acyclic(l.next_p, rest)
        /\ Acyclic(l.next_p, P)
        /\ Apart(l)
        /\ rest \cap P = {}
        /\ k \cap P = P \ rep
        /\ \A c \in k \ (rest \cup P) : s[c] \notin o /\ t[c] \notin o
        /\ Owned(rest, (rest \cup P) \ rep, s, t, {}, o)

\* The clients from client_p on, in the loop of stop().
Rest == IF pc = "stop" THEN Reach(lists.next_p, client_p) ELSE {}

Stopping ==
    Halted(lists, client_fd, keep_alive_timer_fd, known, open, Rest,
           Reporting)

\* What control implies about the pointers the code goes on with.
Control ==
    /\ pc = "initialized" => listener_fd = NoFd /\ open = {}
    /\ pc # "initialized" => listener_fd \in Fds
    /\ pc = "destroy" => client_p = lists.pending_disconnect_list_p
    /\ pc = "on_client_disconnected" =>
           client_p = lists.pending_disconnect_list_p /\ client_p # NULL
    /\ pc \in {"read", "on_message"} => client_p \in known
    /\ pc = "stop" => stopped
    /\ stopped => pc \in {"stop", "idle", "destroy", "on_client_disconnected"}
    /\ bcast.back \in {"idle", "on_client_connected", "on_message"}
    /\ pc = "broadcast" =>
           /\ bcast.client_p \in ConnectedOf(lists) \cup {NULL}
           /\ bcast.owed = Reach(lists.next_p, bcast.client_p)
           /\ bcast.back = "on_message" => client_p \in known
    /\ current_client_p # NULL =>
           /\ current_client_p \in known
           /\ \/ pc = "on_message"
              \/ pc = "broadcast" /\ bcast.back = "on_message"

Locals ==
    /\ stopped \in BOOLEAN
    /\ current_client_p \in Pointers
    /\ pc \in Points
    /\ client_p \in Pointers
    /\ bcast \in [client_p : Pointers, owed : SUBSET Slots, back : Points]
    /\ known \in SUBSET Slots

Structure ==
    /\ Locals
    /\ Control
    /\ Running => Core(Reporting)
    /\ ~Running => Stopping

\* The three lists of the model, as the list lemmas speak of them.
LEMMA ListsAsReach ==
    /\ Connected = ConnectedOf(lists)
    /\ Pending = PendingOf(lists)
    /\ FreeSlots = FreeOf(lists)
  BY MembersReach
     DEF Connected, Pending, FreeSlots, ConnectedOf, PendingOf, FreeOf

\* There are ClientsMax slots.
LEMMA SlotsFinite == IsFiniteSet(Slots) /\ Cardinality(Slots) = ClientsMax
  BY ClientsMaxAssumption, FS_Interval DEF Slots

\* While a slot is free there are descriptors for another client: Fds is
\* large enough.
LEMMA RoomForClient ==
    ASSUME Core({}), listener_fd \in Fds, lists.free_list_p # NULL, NEW g
    PROVE  Fds \ (open \cup {g}) # {}
<1> DEFINE C == ConnectedOf(lists)
           T == C \cup PendingOf(lists)
           c == lists.free_list_p
           U == Slots \ {c}
<1> SUFFICES ASSUME Fds \ (open \cup {g}) = {} PROVE FALSE
  OBVIOUS
<1>1. WellLinked(lists) BY DEF Core
<1>2. c \in Slots BY <1>1, WellLinkedTypes, PointerCases
<1>3. c \in FreeOf(lists) BY <1>2, ReachClosed DEF FreeOf, ClosedFrom
<1>4. C \in SUBSET U /\ T \in SUBSET U
  BY <1>1, <1>3, WellLinkedTypes DEF WellLinked
<1>5. /\ IsFiniteSet(U)
      /\ Cardinality(U) = ClientsMax - 1
  BY <1>2, SlotsFinite, FS_RemoveElement
<1>6. Owned(C, T, client_fd, keep_alive_timer_fd, Listener, open)
  <2>1. T \ {} = T OBVIOUS
  <2> QED BY <2>1 DEF Core
<1> HIDE DEF C, T, U
<1>7. /\ IsFiniteSet(C) /\ Cardinality(C) <= Cardinality(U)
      /\ IsFiniteSet(T) /\ Cardinality(T) <= Cardinality(U)
  BY <1>4, <1>5, FS_Subset
<1>8. /\ IsFiniteSet(open)
      /\ Cardinality(open) = 1 + Cardinality(C) + Cardinality(T)
  <2>1. IsFiniteSet(C) /\ IsFiniteSet(T) BY <1>7
  <2>2. Listener = {listener_fd}
    BY ClientsMaxAssumption DEF Listener, Fds, NoFd
  <2>3. IsFiniteSet(open) /\ OpenCount(open, C, T)
    BY ONLY <1>6, <2>1, <2>2, OwnedCardinality
  <2> QED BY <2>3 DEF OpenCount
<1>9. /\ IsFiniteSet(open \cup {g})
      /\ Cardinality(open \cup {g}) <= Cardinality(open) + 1
  <2>1. /\ IsFiniteSet(open \cup {g})
        /\ Cardinality(open \cup {g}) = IF g \in open THEN Cardinality(open)
                                       ELSE Cardinality(open) + 1
    BY <1>8, FS_AddElement
  <2>2. Cardinality(open) \in Nat BY <1>8, FS_CardinalityType
  <2> QED BY <2>1, <2>2
<1>10. Fds \in SUBSET (open \cup {g}) OBVIOUS
<1>11. Cardinality(Fds) <= Cardinality(open \cup {g})
  BY <1>9, <1>10, FS_Subset
<1>12. Cardinality(Fds) = 2 * ClientsMax + 2
  <2>1. 2 * ClientsMax + 2 \in Int /\ 1 \in Int /\ 1 <= 2 * ClientsMax + 2
    BY ClientsMaxAssumption
  <2> QED BY <2>1, FS_Interval DEF Fds
<1>13. Cardinality(C) \in Nat /\ Cardinality(T) \in Nat
       /\ Cardinality(open \cup {g}) \in Nat
  BY <1>7, <1>9, FS_CardinalityType
<1> QED
  BY <1>5, <1>7, <1>8, <1>9, <1>11, <1>12, <1>13, ClientsMaxAssumption

-----------------------------------------------------------------------------
(* client_pending_disconnect() and client_write(). *)

\* client_pending_disconnect() moves a client between two lists and closes
\* its socket, or does nothing when that has happened before.
LEMMA PendingDisconnectCore ==
    ASSUME Core({}), NEW c \in known, client_pending_disconnect(c),
           UNCHANGED <<listener_fd, known>>
    PROVE  Core({})'
<1> DEFINE C == ConnectedOf(lists)
           P == PendingOf(lists)
<1>1. CASE client_fd[c] = NoFd /\ UNCHANGED fields
  BY <1>1 DEF Core, fields, Listener
<1>2. CASE client_fd[c] # NoFd
  <2>1. /\ open' = open \ {client_fd[c]}
        /\ client_fd' = [client_fd EXCEPT ![c] = NoFd]
        /\ lists' = move_client_to_pending_disconnect_list(lists, c)
        /\ keep_alive_timer_fd' = keep_alive_timer_fd
    BY <1>2 DEF client_pending_disconnect
  <2>2. /\ WellLinked(lists) /\ client_fd \in Descriptors
        /\ keep_alive_timer_fd \in Descriptors
        /\ known = C \cup P
        /\ Owned(C, C \cup P, client_fd, keep_alive_timer_fd, Listener, open)
    <3>1. (C \cup P) \ {} = C \cup P OBVIOUS
    <3> QED BY <3>1 DEF Core
  <2>3. c \in C BY <1>2, <2>2 DEF Core
  <2>4. /\ WellLinked(lists')
        /\ ConnectedOf(lists') = C \ {c}
        /\ PendingOf(lists') = P \cup {c}
    BY <2>1, <2>2, <2>3, MoveLists
  <2>5. (C \ {c}) \cup (P \cup {c}) = C \cup P BY <2>3
  <2>6. c \in Slots /\ C \in SUBSET Slots /\ P \in SUBSET Slots
    BY <2>2, <2>3, WellLinkedTypes
  <2>7. /\ client_fd' \in Descriptors /\ client_fd'[c] = NoFd
        /\ \A d \in Slots \ {c} : client_fd'[d] = client_fd[d]
    BY <2>1, <2>2, <2>6 DEF Descriptors
  <2>8. Owned(C \ {c}, C \cup P, client_fd', keep_alive_timer_fd', Listener,
              open')
    <3>1. \A d \in C \ {c} : client_fd'[d] = client_fd[d] BY <2>6, <2>7
    <3> HIDE DEF C, P
    <3>2. Owned(C \ {c}, C \cup P, client_fd', keep_alive_timer_fd, Listener,
                open \ {client_fd[c]})
      BY ONLY <2>2, <2>3, <3>1, OwnedCloseSocket
    <3> QED BY <2>1, <3>2
  <2>9. \A d \in P \cup {c} : client_fd'[d] = NoFd
    BY <2>2, <2>6, <2>7 DEF Core
  <2>10. ((C \ {c}) \cup (P \cup {c})) \ {} = C \cup P BY <2>5
  <2>11. Listener' = Listener BY DEF Listener
  <2> QED
    BY <2>1, <2>2, <2>4, <2>7, <2>8, <2>9, <2>10, <2>11 DEF Core
<1> QED BY <1>1, <1>2 DEF client_pending_disconnect

\* client_write() keeps the lists and the descriptors in order, whether the
\* write fails or not.
LEMMA WriteCore ==
    ASSUME Core({}), NEW c \in known, client_write(c),
           UNCHANGED <<listener_fd, known>>
    PROVE  Core({})'
<1>1. CASE UNCHANGED fields BY <1>1 DEF Core, fields, Listener
<1>2. CASE client_pending_disconnect(c) BY <1>2, PendingDisconnectCore
<1> QED BY <1>1, <1>2 DEF client_write

\* What follows a client on the connected list is still there after a write
\* to it: broadcast() goes on with a connected client.
LEMMA WriteKeepsRest ==
    ASSUME Core({}), NEW c \in ConnectedOf(lists), client_write(c)
    PROVE  /\ lists.next_p[c] \in ConnectedOf(lists') \cup {NULL}
           /\ Reach(lists'.next_p, lists.next_p[c])
                  = Reach(lists.next_p, c) \ {c}
<1> DEFINE C == ConnectedOf(lists)
           next == lists.next_p
<1>1. WellLinked(lists) BY DEF Core
<1>2. c \in Slots /\ next \in Links BY <1>1, WellLinkedTypes
<1>3. c \notin Reach(next, next[c]) BY <1>1 DEF WellLinked, Acyclic
<1>4. Reach(next, c) = {c} \cup Reach(next, next[c]) BY <1>2, ReachStep
<1>5. next[c] \in (C \ {c}) \cup {NULL}
  <2>1. CASE next[c] = NULL BY <2>1
  <2>2. CASE next[c] # NULL
    <3>1. next[c] \in Slots BY <1>2, <2>2, PointerCases DEF Links
    <3>2. next[c] \in C BY <3>1, ReachClosed DEF ConnectedOf, ClosedFrom
    <3>3. next[c] # c BY <1>3, <3>1, ReachClosed DEF ClosedFrom
    <3> QED BY <3>2, <3>3
  <2> QED BY <2>1, <2>2
<1>6. CASE UNCHANGED fields BY <1>3, <1>4, <1>5, <1>6 DEF fields
<1>7. CASE lists' = move_client_to_pending_disconnect_list(lists, c)
  <2>1. /\ ConnectedOf(lists') = C \ {c}
        /\ Reach(lists'.next_p, next[c]) = Reach(next, next[c])
    BY <1>1, <1>7, MoveLists
  <2> QED BY <1>3, <1>4, <1>5, <2>1
<1> QED BY <1>6, <1>7 DEF client_write, client_pending_disconnect

-----------------------------------------------------------------------------
(* The steps. *)

\* Outside of on_client_disconnected() no report is under way.
LEMMA NoReport ==
    ASSUME Structure, pc # "on_client_disconnected",
           \/ ~stopped
           \/ pc \in {"initialized", "read", "on_client_connected",
                      "on_message", "broadcast"}
    PROVE  Core({}) /\ Reporting = {} /\ Running
<1>1. Reporting = {} BY DEF Structure, Control, Reporting
<1>2. Running BY DEF Structure, Control, Running
<1> QED BY <1>1, <1>2 DEF Structure

\* How the steps below establish the invariant while no report is under way.
LEMMA ToStructure ==
    ASSUME Locals', Control', Core({})', Running',
           pc' # "on_client_disconnected"
    PROVE  Structure'
<1>1. Reporting' = {} BY DEF Control, Reporting
<1> QED BY <1>1 DEF Structure

\* A step that leaves lists, descriptors and `known' alone.
LEMMA FrameCore ==
    ASSUME Core({}), UNCHANGED <<fields, listener_fd, known>>
    PROVE  Core({})'
  BY DEF Core, fields, Listener

\* process() goes on with destroy_pending_disconnect_clients().
LEMMA DestroyStep ==
    ASSUME Structure, pc \in {"idle", "on_client_connected", "read"},
           Core({})', Running, pc' = "destroy",
           client_p' = lists'.pending_disconnect_list_p,
           UNCHANGED <<listener_fd, stopped, current_client_p, bcast, known>>
    PROVE  Structure'
<1>1. Locals'
  <2>1. client_p' \in Pointers BY WellLinkedTypes DEF Core
  <2> QED BY <2>1 DEF Structure, Locals, Points
<1>2. Control' BY DEF Structure, Control, Running
<1>3. Running' BY DEF Running
<1> QED BY <1>1, <1>2, <1>3, ToStructure

\* A step of the application, or of the read loop, that stays where it is.
LEMMA StayStep ==
    ASSUME Structure,
           pc \in {"idle", "on_client_connected", "on_message", "read"},
           Core({})', Running,
           UNCHANGED <<listener_fd, stopped, current_client_p, pc, client_p,
                       bcast, known>>
    PROVE  Structure'
<1>1. Locals' BY DEF Structure, Locals
<1>2. Control' BY DEF Structure, Control, Running
<1>3. Running' BY DEF Running
<1> QED BY <1>1, <1>2, <1>3, ToStructure

\* The descriptor handed to process() belongs to one client at most.
LEMMA OwnerConnected ==
    ASSUME Core({}), NEW f, NEW c \in Slots, c = Owner(f)
    PROVE  c \in ConnectedOf(lists) /\ c \in known
<1> DEFINE C == ConnectedOf(lists)
           P == PendingOf(lists)
           owners == {d \in C : /\ f \in {client_fd[d], keep_alive_timer_fd[d]}
                                /\ StaleNumbers \/ d \in known}
<1>1. Owner(f) = IF owners = {} THEN NULL
                 ELSE CHOOSE d \in owners : owners \subseteq Members(lists, d)
  BY ListsAsReach DEF Owner
<1>2. owners # {} BY <1>1, PointerCases
<1>3. ASSUME NEW d \in owners, NEW e \in owners PROVE d = e
  <2>1. Owned(C, (C \cup P) \ {}, client_fd, keep_alive_timer_fd, Listener,
              open)
    BY DEF Core
  <2>2. d \in (C \cup P) \ {} /\ e \in (C \cup P) \ {} OBVIOUS
  <2> QED BY <2>1, <2>2 DEF Owned
<1>4. PICK x \in owners : TRUE BY <1>2
<1>5. owners = {x} BY <1>3, <1>4
<1>6. x \in Slots BY <1>4, WellLinkedTypes DEF Core
<1>7. x \in Members(lists, x)
  BY <1>6, MembersReach, ReachClosed DEF ClosedFrom
<1>8. (CHOOSE d \in owners : owners \subseteq Members(lists, d)) \in owners
  BY <1>5, <1>7
<1>9. c \in owners BY <1>1, <1>2, <1>8
<1> QED BY <1>9 DEF Core

\* After stop() process() finds no client for an open descriptor: on its way
\* from connected_list_p it meets freed clients, whose own descriptors are
\* closed, and no pending one.
LEMMA StoppedOwner ==
    ASSUME Halted(lists, client_fd, keep_alive_timer_fd, known, open, {}, {}),
           StaleNumbers = FALSE, NEW f \in open, NEW c \in Slots
    PROVE  c # Owner(f)
<1> DEFINE C == ConnectedOf(lists)
           P == PendingOf(lists)
           owners == {d \in C : /\ f \in {client_fd[d], keep_alive_timer_fd[d]}
                                /\ StaleNumbers \/ d \in known}
<1>1. Owner(f) = IF owners = {} THEN NULL
                 ELSE CHOOSE d \in owners : owners \subseteq Members(lists, d)
  BY ListsAsReach DEF Owner
<1>2. Apart(lists)
      /\ \A d \in known \ ({} \cup P) :
             client_fd[d] \notin open /\ keep_alive_timer_fd[d] \notin open
  BY DEF Halted
<1>3. C \cap P = {} BY <1>2, ApartConnected
<1>4. owners = {} BY <1>2, <1>3
<1> QED BY <1>1, <1>4, PointerCases

\* A rejected client, the return from on_client_connected(), an empty socket
\* and a descriptor of nobody lead to destroy_pending_disconnect_clients()
\* and change nothing else.
LEMMA QuietSteps ==
    ASSUME Structure,
           RejectClient \/ OnClientConnectedReturns \/ ReadWouldBlock
           \/ (~stopped /\ ProcessOtherFd)
    PROVE  Structure'
<1>1. /\ pc \in {"idle", "on_client_connected", "read"}
      /\ Destroy(lists)
      /\ UNCHANGED <<fields, listener_fd, stopped, current_client_p, bcast,
                     known>>
  BY DEF RejectClient, OnClientConnectedReturns, ReadWouldBlock,
         ProcessOtherFd, At, Accepting
<1>2. Core({}) /\ Running
  BY <1>1, NoReport
     DEF RejectClient, OnClientConnectedReturns, ReadWouldBlock, At, Accepting
<1>3. Core({})' BY <1>1, <1>2, FrameCore
<1>4. lists' = lists BY <1>1 DEF fields
<1> QED BY <1>1, <1>2, <1>3, <1>4, DestroyStep DEF Destroy

\* process() finds the client of a socket, flushes its output and reads.
LEMMA ProcessClientSocketStep ==
    ASSUME Structure, ~stopped, ProcessClientSocket
    PROVE  Structure'
<1>1. /\ pc = "idle"
      /\ UNCHANGED <<listener_fd, stopped, current_client_p,
                                 bcast, known>>
  BY DEF ProcessClientSocket, At
<1>2. Core({}) /\ Running BY <1>1, NoReport
<1>3. PICK f \in open, c \in Slots :
          /\ c = Owner(f)
          /\ client_write(c)
          /\ \/ pc' = "read" /\ client_p' = c
             \/ Destroy(lists')
  BY DEF ProcessClientSocket
<1>4. c \in known BY <1>2, <1>3, OwnerConnected
<1>5. Core({})' BY <1>1, <1>2, <1>3, <1>4, WriteCore
<1>6. CASE Destroy(lists') BY <1>1, <1>5, <1>6, <1>2, DestroyStep DEF Destroy
<1>7. CASE pc' = "read" /\ client_p' = c
  <2>1. Locals' BY <1>1, <1>3, <1>7 DEF Structure, Locals, Points, Pointers
  <2>2. Control' BY <1>1, <1>4, <1>7, <1>2 DEF Structure, Control, Running
  <2>3. Running' BY <1>1, <1>2 DEF Running
  <2> QED BY <1>5, <1>7, <2>1, <2>2, <2>3, ToStructure
<1> QED BY <1>3, <1>6, <1>7

\* A failing read makes the disconnect of the client pending.
LEMMA ReadFailsStep ==
    ASSUME Structure, ReadFails
    PROVE  Structure'
<1>1. /\ pc = "read" /\ client_pending_disconnect(client_p)
      /\ Destroy(lists')
      /\ UNCHANGED <<listener_fd, stopped, current_client_p, bcast, known>>
  BY DEF ReadFails, At
<1>2. Core({}) /\ Running BY <1>1, NoReport
<1>3. client_p \in known BY <1>1 DEF Structure, Control
<1>4. Core({})' BY <1>1, <1>2, <1>3, PendingDisconnectCore
<1> QED BY <1>1, <1>4, <1>2, DestroyStep DEF Destroy

\* handle_message_ping() restarts the timer and writes a pong.
LEMMA ReadPingStep ==
    ASSUME Structure, ReadPing
    PROVE  Structure'
<1>1. /\ pc = "read" /\ client_write(client_p)
      /\ UNCHANGED <<listener_fd, stopped, current_client_p, pc, client_p,
                     bcast, known>>
  BY DEF ReadPing, At
<1>2. Core({}) /\ Running BY <1>1, NoReport
<1>3. client_p \in known BY <1>1 DEF Structure, Control
<1>4. Core({})' BY <1>1, <1>2, <1>3, WriteCore
<1> QED BY <1>1, <1>4, <1>2, StayStep

\* handle_message_user() calls on_message() with current_client_p set.
LEMMA ReadUserMessageStep ==
    ASSUME Structure, ReadUserMessage
    PROVE  Structure'
<1>1. /\ pc = "read" /\ pc' = "on_message" /\ current_client_p' = client_p
      /\ UNCHANGED <<fields, listener_fd, stopped, client_p, bcast, known>>
  BY DEF ReadUserMessage, At
<1>2. Core({})' /\ Running BY <1>1, NoReport, FrameCore
<1>3. client_p \in known BY <1>1 DEF Structure, Control
<1>4. Locals' BY <1>1 DEF Structure, Locals, Points, Callbacks
<1>5. Control' BY <1>1, <1>3, <1>2 DEF Structure, Control, Running
<1>6. Running' BY <1>1, <1>2 DEF Running
<1> QED BY <1>1, <1>2, <1>4, <1>5, <1>6, ToStructure

\* The read loop goes on after on_message().
LEMMA OnMessageReturnsStep ==
    ASSUME Structure, OnMessageReturns
    PROVE  Structure'
<1>1. /\ pc = "on_message" /\ pc' = "read" /\ current_client_p' = NULL
      /\ UNCHANGED <<fields, listener_fd, stopped, client_p, bcast, known>>
  BY DEF OnMessageReturns, At
<1>2. Core({})' /\ Running BY <1>1, NoReport, FrameCore
<1>3. Locals' BY <1>1 DEF Structure, Locals, Points, Pointers
<1>4. Control' BY <1>1, <1>2 DEF Structure, Control, Running
<1>5. Running' BY <1>1, <1>2 DEF Running
<1> QED BY <1>1, <1>2, <1>3, <1>4, <1>5, ToStructure

\* The keep-alive timer of a client expires.
LEMMA ProcessKeepAliveTimerStep ==
    ASSUME Structure, ~stopped, ProcessKeepAliveTimer
    PROVE  Structure'
<1>1. /\ pc = "idle" /\ Destroy(lists')
      /\ UNCHANGED <<listener_fd, stopped, current_client_p, bcast, known>>
  BY DEF ProcessKeepAliveTimer, At
<1>2. PICK f \in open, c \in Slots :
          c = Owner(f) /\ client_pending_disconnect(c)
  BY DEF ProcessKeepAliveTimer
<1>3. Core({}) /\ Running BY <1>1, NoReport
<1>4. c \in known BY <1>2, <1>3, OwnerConnected
<1>5. Core({})' BY <1>1, <1>2, <1>3, <1>4, PendingDisconnectCore
<1> QED BY <1>1, <1>5, <1>3, DestroyStep DEF Destroy

\* The points from which the application calls the server.
LEMMA CallPoints ==
    ASSUME Structure, MayCall, CallsInDisconnected = FALSE
    PROVE  /\ pc \in {"idle", "on_client_connected", "on_message"}
           /\ Core({})
           /\ Running
<1>1. pc \in {"idle", "on_client_connected", "on_message"} /\ ~stopped
  BY DEF MayCall, At
<1> QED BY <1>1, NoReport

\* send() and reply() write to one client.
LEMMA SendStep ==
    ASSUME Structure, Send, CallsInDisconnected = FALSE
    PROVE  Structure'
<1>1. /\ MayCall
      /\ UNCHANGED <<listener_fd, stopped, current_client_p, pc, client_p,
                     bcast, known>>
  BY DEF Send
<1>2. PICK c \in known : client_write(c) BY DEF Send
<1>3. /\ pc \in {"idle", "on_client_connected", "on_message"}
      /\ Core({}) /\ Running
  BY <1>1, CallPoints
<1>4. Core({})' BY <1>1, <1>2, <1>3, WriteCore
<1> QED BY <1>1, <1>3, <1>4, <1>2, StayStep

\* disconnect() makes the disconnect of a client pending.
LEMMA DisconnectStep ==
    ASSUME Structure, Disconnect, CallsInDisconnected = FALSE
    PROVE  Structure'
<1>1. /\ MayCall
      /\ UNCHANGED <<listener_fd, stopped, current_client_p, pc, client_p,
                     bcast, known>>
  BY DEF Disconnect
<1>2. PICK c \in known \cup ({current_client_p} \ {NULL}) :
          client_pending_disconnect(c)
  BY DEF Disconnect
<1>3. c \in known BY DEF Structure, Control
<1>4. /\ pc \in {"idle", "on_client_connected", "on_message"}
      /\ Core({}) /\ Running
  BY <1>1, CallPoints
<1>5. Core({})' BY <1>1, <1>2, <1>3, <1>4, PendingDisconnectCore
<1> QED BY <1>1, <1>4, <1>5, <1>2, StayStep

\* broadcast() starts at the head of the connected list.
LEMMA BroadcastStep ==
    ASSUME Structure, Broadcast, CallsInDisconnected = FALSE
    PROVE  Structure'
<1>1. /\ MayCall /\ pc' = "broadcast"
      /\ bcast' = [client_p |-> lists.connected_list_p, owed |-> Connected,
                   back |-> pc]
      /\ UNCHANGED <<fields, listener_fd, stopped, current_client_p, client_p,
                     known>>
  BY DEF Broadcast
<1>2. /\ pc \in {"idle", "on_client_connected", "on_message"}
      /\ Core({}) /\ Running
  BY <1>1, CallPoints
<1>3. Core({})' BY <1>1, <1>2, FrameCore
<1>4. /\ lists' = lists
      /\ bcast'.client_p = lists.connected_list_p
      /\ bcast'.owed = ConnectedOf(lists)
      /\ bcast'.back = pc
  BY <1>1, ListsAsReach DEF fields
<1>5. lists.connected_list_p \in ConnectedOf(lists) \cup {NULL}
  BY <1>2, WellLinkedTypes, PointerCases, ReachClosed
     DEF Core, ConnectedOf, ClosedFrom
<1>6. Locals'
  <2>1. bcast' \in [client_p : Pointers, owed : SUBSET Slots, back : Points]
    BY <1>1, <1>2, ListsAsReach, WellLinkedTypes
       DEF Core, Structure, Locals
  <2> QED BY <1>1, <2>1 DEF Structure, Locals, Points
<1>7. Control'
  <2>1. bcast'.owed = Reach(lists'.next_p, bcast'.client_p)
    BY <1>4 DEF ConnectedOf
  <2>2. bcast'.client_p \in ConnectedOf(lists') \cup {NULL} BY <1>4, <1>5
  <2> QED BY <1>1, <1>2, <1>4, <2>1, <2>2 DEF Structure, Control, Running
<1>8. Running' BY <1>1, <1>2 DEF Running
<1> QED BY <1>1, <1>3, <1>6, <1>7, <1>8, ToStructure

\* One round of broadcast(): the next client is still connected, although
\* the write to this one may have moved it to the pending list.
LEMMA BroadcastWriteStep ==
    ASSUME Structure, BroadcastWrite
    PROVE  Structure'
<1> DEFINE c == bcast.client_p
<1>1. /\ pc = "broadcast" /\ c # NULL /\ client_write(c)
      /\ bcast' = [bcast EXCEPT !.client_p = lists.next_p[@],
                                !.owed = @ \ {bcast.client_p}]
      /\ UNCHANGED <<listener_fd, stopped, current_client_p, pc, client_p,
                     known>>
  BY DEF BroadcastWrite, At
<1>2. Core({}) /\ Running BY <1>1, NoReport
<1>3. c \in ConnectedOf(lists) /\ bcast.owed = Reach(lists.next_p, c)
  BY <1>1 DEF Structure, Control
<1>4. c \in known BY <1>2, <1>3 DEF Core
<1> HIDE DEF c
<1>5. Core({})' BY <1>1, <1>2, <1>4, WriteCore
<1>6. /\ lists.next_p[c] \in ConnectedOf(lists') \cup {NULL}
      /\ Reach(lists'.next_p, lists.next_p[c]) = Reach(lists.next_p, c) \ {c}
  BY <1>1, <1>2, <1>3, WriteKeepsRest
<1>7. bcast \in [client_p : Pointers, owed : SUBSET Slots, back : Points]
  BY DEF Structure, Locals
<1>8. /\ bcast'.client_p = lists.next_p[c]
      /\ bcast'.owed = bcast.owed \ {c}
      /\ bcast'.back = bcast.back
  BY <1>1, <1>7 DEF c
<1>9. Locals'
  <2>1. lists.next_p[c] \in Pointers
    BY <1>2, <1>3, WellLinkedTypes DEF Core, Links
  <2>2. bcast' \in [client_p : Pointers, owed : SUBSET Slots, back : Points]
    BY <1>1, <1>7, <2>1 DEF c
  <2> QED BY <1>1, <2>2 DEF Structure, Locals
<1>10. Control'
  <2>1. bcast'.owed = Reach(lists'.next_p, bcast'.client_p)
    BY <1>3, <1>6, <1>8
  <2>2. bcast'.client_p \in ConnectedOf(lists') \cup {NULL} BY <1>6, <1>8
  <2> QED BY <1>1, <1>8, <2>1, <2>2 DEF Structure, Control
<1>11. Running' BY <1>1, <1>2 DEF Running
<1> QED BY <1>1, <1>5, <1>9, <1>10, <1>11, ToStructure

\* broadcast() returns to where it was called.
LEMMA BroadcastReturnsStep ==
    ASSUME Structure, BroadcastReturns
    PROVE  Structure'
<1>1. /\ pc = "broadcast" /\ pc' = bcast.back
      /\ bcast' = [client_p |-> NULL, owed |-> {}, back |-> "idle"]
      /\ UNCHANGED <<fields, listener_fd, stopped, current_client_p, client_p,
                     known>>
  BY DEF BroadcastReturns, At
<1>2. bcast.back \in {"idle", "on_client_connected", "on_message"}
  BY DEF Structure, Control
<1>3. Core({})' /\ Running BY <1>1, NoReport, FrameCore
<1>4. Locals'
  <2>1. bcast' \in [client_p : Pointers, owed : SUBSET Slots, back : Points]
    BY <1>1 DEF Pointers, Points
  <2> QED BY <1>1, <1>2, <2>1 DEF Structure, Locals, Points, Callbacks
<1>5. Control'
  <2>1. bcast'.back = "idle" BY <1>1
  <2> QED BY <1>1, <1>2, <2>1 DEF Structure, Control
<1>6. Running' BY <1>1, <1>2, <1>3 DEF Running
<1> QED BY <1>1, <1>2, <1>3, <1>4, <1>5, <1>6, ToStructure

\* What Core says when no report is under way.
LEMMA CoreParts ==
    ASSUME Core({})
    PROVE  /\ WellLinked(lists)
           /\ client_fd \in Descriptors
           /\ keep_alive_timer_fd \in Descriptors
           /\ known = ConnectedOf(lists) \cup PendingOf(lists)
           /\ \A c \in PendingOf(lists) : client_fd[c] = NoFd
           /\ Owned(ConnectedOf(lists),
                    ConnectedOf(lists) \cup PendingOf(lists),
                    client_fd, keep_alive_timer_fd, Listener, open)
<1>1. (ConnectedOf(lists) \cup PendingOf(lists)) \ {}
          = ConnectedOf(lists) \cup PendingOf(lists)
  OBVIOUS
<1> QED BY <1>1 DEF Core

\* start() opens the listener.
LEMMA StartStep ==
    ASSUME Structure, Start
    PROVE  Structure'
<1> DEFINE f == Lowest(open)
           C == ConnectedOf(lists)
           P == PendingOf(lists)
<1>1. /\ pc = "initialized" /\ pc' = "idle"
      /\ listener_fd' = f /\ open' = open \cup {f}
      /\ UNCHANGED <<lists, client_fd, keep_alive_timer_fd, stopped,
                     current_client_p, client_p, bcast, known>>
  BY DEF Start, At
<1>2. Core({}) /\ Running BY <1>1, NoReport
<1>3. open = {} /\ listener_fd = NoFd BY <1>1 DEF Structure, Control
<1>4. f \in Fds
  <2>1. 1 \in Fds \ {} BY ClientsMaxAssumption DEF Fds
  <2> QED BY <1>3, <2>1, LowestIsFree
<1> HIDE DEF f
<1>5. f # NoFd BY <1>4, ClientsMaxAssumption DEF Fds, NoFd
<1>6. Core({})'
  <2>1. Owned(C, C \cup P, client_fd, keep_alive_timer_fd, Listener, open)
    BY <1>2, CoreParts
  <2>2. C = {} /\ P = {}
    <3>1. ASSUME NEW d \in C \cup P PROVE FALSE
      <4>1. keep_alive_timer_fd[d] \in open BY <2>1 DEF Owned
      <4> QED BY <1>3, <4>1
    <3> QED BY <3>1
  <2>3. Listener' = {f} /\ open' = {f} BY <1>1, <1>3, <1>5 DEF Listener
  <2>4. Owned({}, {}, client_fd, keep_alive_timer_fd, {f}, {f})
    BY <1>4 DEF Owned
  <2>5. (C \cup P) \ {} = {} BY <2>2
  <2>6. Owned(C, (C \cup P) \ {}, client_fd, keep_alive_timer_fd, Listener',
              open')
    BY <2>2, <2>3, <2>4, <2>5
  <2> QED BY <1>1, <1>2, <2>6 DEF Core
<1>7. Locals' BY <1>1 DEF Structure, Locals, Points
<1>8. Control' BY <1>1, <1>4, <1>2 DEF Structure, Control, Running
<1>9. Running' BY <1>1, <1>2 DEF Running
<1> QED BY <1>1, <1>6, <1>7, <1>8, <1>9, ToStructure

\* The two descriptors of a new client are free, and different.
LEMMA NewDescriptors ==
    ASSUME Structure, pc = "idle", ~stopped, lists.free_list_p # NULL,
           NEW fd, fd = Lowest(open),
           NEW timer_fd, timer_fd = Lowest(open \cup {fd})
    PROVE  /\ fd \in Fds \ open
           /\ timer_fd \in Fds \ open
           /\ fd # timer_fd
<1>1. Core({}) /\ listener_fd \in Fds
  BY NoReport DEF Structure, Control
<1>2. Fds \ (open \cup {NoFd}) # {} BY <1>1, RoomForClient
<1>3. fd \in Fds \ open BY <1>2, LowestIsFree
<1>4. Fds \ (open \cup {fd}) # {} BY <1>1, RoomForClient
<1>5. timer_fd \in Fds \ (open \cup {fd}) BY <1>4, LowestIsFree
<1> QED BY <1>3, <1>5

\* client_init() fails: the new client goes back to the free list and its
\* descriptors are closed.
LEMMA ClientInitFailsStep ==
    ASSUME Structure, ClientInitFails
    PROVE  Structure'
<1> DEFINE c == lists.free_list_p
           fd == Lowest(open)
           C == ConnectedOf(lists)
           P == PendingOf(lists)
<1>1. /\ pc = "idle" /\ ~stopped /\ c # NULL
      /\ lists' = free_connected_client(alloc_client(lists), c)
      /\ client_fd' = [client_fd EXCEPT ![c] = fd]
      /\ Destroy(lists')
      /\ UNCHANGED <<listener_fd, stopped, current_client_p, open, bcast,
                     known>>
  BY DEF ClientInitFails, At, Accepting
<1>2. PICK timer_fd \in {NoFd, Lowest(open \cup {fd})} :
          keep_alive_timer_fd' = [keep_alive_timer_fd EXCEPT ![c] = timer_fd]
  BY DEF ClientInitFails
<1>3. Core({}) /\ Running BY <1>1, NoReport
<1>4. fd \in Fds /\ timer_fd \in Fds \cup {NoFd}
  BY <1>1, <1>2, NewDescriptors
<1> HIDE DEF c, fd
<1>5. /\ WellLinked(lists') /\ ConnectedOf(lists') = C
      /\ PendingOf(lists') = P
      /\ c \in FreeOf(lists)
  BY <1>1, <1>3, CoreParts, InitFailsLists DEF c
<1>6. /\ c \in Slots /\ c \notin C /\ c \notin P
      /\ C \in SUBSET Slots /\ P \in SUBSET Slots
  BY <1>3, <1>5, CoreParts, WellLinkedTypes DEF WellLinked
<1>7. /\ client_fd' \in Descriptors
      /\ keep_alive_timer_fd' \in Descriptors
      /\ \A d \in Slots \ {c} :
             /\ client_fd'[d] = client_fd[d]
             /\ keep_alive_timer_fd'[d] = keep_alive_timer_fd[d]
  BY <1>1, <1>2, <1>3, <1>4, <1>6, CoreParts DEF Descriptors
<1>8. Owned(C, (C \cup P) \ {}, client_fd', keep_alive_timer_fd', Listener,
            open)
  <2>1. Owned(C, (C \cup P) \ {}, client_fd, keep_alive_timer_fd, Listener,
              open)
    BY <1>3 DEF Core
  <2>2. \A d \in C : client_fd'[d] = client_fd[d] BY <1>6, <1>7
  <2>3. \A d \in (C \cup P) \ {} :
            keep_alive_timer_fd'[d] = keep_alive_timer_fd[d]
    BY <1>6, <1>7
  <2> HIDE DEF C, P
  <2> QED BY ONLY <2>1, <2>2, <2>3, OwnedFrame
<1>9. \A d \in P : client_fd'[d] = NoFd BY <1>3, <1>6, <1>7, CoreParts
<1>10. Core({})'
  BY <1>1, <1>3, <1>5, <1>7, <1>8, <1>9 DEF Core, Listener
<1> QED BY <1>1, <1>10, <1>3, DestroyStep DEF Destroy

\* accept() and client_init() succeed: the client is connected and announced.
LEMMA AcceptClientStep ==
    ASSUME Structure, AcceptClient
    PROVE  Structure'
<1> DEFINE c == lists.free_list_p
           fd == Lowest(open)
           timer_fd == Lowest(open \cup {fd})
           C == ConnectedOf(lists)
           P == PendingOf(lists)
<1>1. /\ pc = "idle" /\ ~stopped /\ c # NULL
      /\ lists' = alloc_client(lists)
      /\ client_fd' = [client_fd EXCEPT ![c] = fd]
      /\ keep_alive_timer_fd' = [keep_alive_timer_fd EXCEPT ![c] = timer_fd]
      /\ open' = open \cup {fd, timer_fd}
      /\ known' = known \cup {c}
      /\ client_p' = c
      /\ pc' = "on_client_connected"
      /\ UNCHANGED <<listener_fd, stopped, current_client_p, bcast>>
  BY DEF AcceptClient, At, Accepting
<1>2. Core({}) /\ Running BY <1>1, NoReport
<1>3. fd \in Fds \ open /\ timer_fd \in Fds \ open /\ fd # timer_fd
  BY <1>1, NewDescriptors
<1> HIDE DEF c, fd, timer_fd
<1>4. /\ WellLinked(lists') /\ ConnectedOf(lists') = C \cup {c}
      /\ PendingOf(lists') = P
      /\ c \in FreeOf(lists)
  BY <1>1, <1>2, CoreParts, AllocLists DEF c
<1>5. /\ c \in Slots /\ c \notin C /\ c \notin P
      /\ C \in SUBSET Slots /\ P \in SUBSET Slots
  BY <1>2, <1>4, CoreParts, WellLinkedTypes DEF WellLinked
<1>6. /\ client_fd' \in Descriptors /\ client_fd'[c] = fd
      /\ keep_alive_timer_fd' \in Descriptors
      /\ keep_alive_timer_fd'[c] = timer_fd
      /\ \A d \in Slots \ {c} :
             /\ client_fd'[d] = client_fd[d]
             /\ keep_alive_timer_fd'[d] = keep_alive_timer_fd[d]
  BY <1>1, <1>2, <1>3, <1>5, CoreParts DEF Descriptors
<1>7. Owned(C \cup {c}, ((C \cup {c}) \cup P) \ {}, client_fd',
            keep_alive_timer_fd', Listener', open')
  <2> DEFINE T == C \cup P
             s2 == client_fd'
             t2 == keep_alive_timer_fd'
  <2>1. Owned(C, T, client_fd, keep_alive_timer_fd, Listener, open)
    BY <1>2, CoreParts
  <2>2. \A d \in C : s2[d] = client_fd[d] BY <1>5, <1>6
  <2>3. \A d \in T : t2[d] = keep_alive_timer_fd[d] BY <1>5, <1>6
  <2>4. s2[c] \in Fds \ open /\ t2[c] \in Fds \ open /\ s2[c] # t2[c]
    BY <1>3, <1>6
  <2>5. c \notin C /\ c \notin T BY <1>5
  <2>6. ((C \cup {c}) \cup P) \ {} = T \cup {c} OBVIOUS
  <2>7. open' = open \cup {s2[c], t2[c]} /\ Listener' = Listener
    BY <1>1, <1>6 DEF Listener
  <2> HIDE DEF C, T, s2, t2
  <2>8. Owned(C \cup {c}, T \cup {c}, s2, t2, Listener,
              open \cup {s2[c], t2[c]})
    BY ONLY <2>1, <2>2, <2>3, <2>4, <2>5, OwnedAdd
  <2> QED BY <2>6, <2>7, <2>8 DEF s2, t2
<1>8. \A d \in P : client_fd'[d] = NoFd BY <1>2, <1>5, <1>6, CoreParts
<1>9. known' = ((C \cup {c}) \cup P) \ {} BY <1>1, <1>2, CoreParts
<1>10. Core({})' BY <1>4, <1>6, <1>7, <1>8, <1>9 DEF Core
<1>11. Locals'
  BY <1>1, <1>5 DEF Structure, Locals, Points, Callbacks, Pointers
<1>12. Control' BY <1>1, <1>2 DEF Structure, Control, Running
<1>13. Running' BY <1>1, <1>2 DEF Running
<1> QED BY <1>1, <1>10, <1>11, <1>12, <1>13, ToStructure

\* The client that is being reported, and that is known no more, is the first
\* of the pending list.
LEMMA DestroyClientStep ==
    ASSUME Structure, ~stopped, DestroyClient
    PROVE  Structure' /\ client_p' \in known
<1> DEFINE c == client_p
           C == ConnectedOf(lists)
           P == PendingOf(lists)
<1>1. /\ pc = "destroy" /\ c # NULL
      /\ open' = open \ {keep_alive_timer_fd[c]}
      /\ keep_alive_timer_fd' = [keep_alive_timer_fd EXCEPT ![c] = NoFd]
      /\ pc' = "on_client_disconnected"
      /\ known' = known \ {c}
      /\ UNCHANGED <<lists, client_fd, listener_fd, stopped, current_client_p,
                     client_p, bcast>>
  BY DEF DestroyClient, At
<1>2. Core({}) /\ Running BY <1>1, NoReport
<1>3. c = lists.pending_disconnect_list_p BY <1>1 DEF Structure, Control
<1>4. c \in P
  <2>1. c \in Slots
    BY <1>1, <1>2, <1>3, CoreParts, WellLinkedTypes, PointerCases
  <2> QED BY <1>3, <2>1, ReachClosed DEF PendingOf, ClosedFrom
<1>5. C \in SUBSET Slots /\ P \in SUBSET Slots
  BY <1>2, CoreParts, WellLinkedTypes
<1>6. /\ keep_alive_timer_fd' \in Descriptors
      /\ \A d \in Slots \ {c} :
             keep_alive_timer_fd'[d] = keep_alive_timer_fd[d]
  BY <1>1, <1>2, <1>4, <1>5, CoreParts DEF Descriptors
<1>7. Owned(C, (C \cup P) \ {c}, client_fd, keep_alive_timer_fd', Listener,
            open')
  <2> DEFINE T == C \cup P
             t2 == keep_alive_timer_fd'
  <2>1. Owned(C, T, client_fd, keep_alive_timer_fd, Listener, open)
    BY <1>2, CoreParts
  <2>2. c \in T BY <1>4
  <2>3. \A d \in T \ {c} : t2[d] = keep_alive_timer_fd[d] BY <1>5, <1>6
  <2> HIDE DEF C, T, t2
  <2>4. Owned(C, T \ {c}, client_fd, t2, Listener,
              open \ {keep_alive_timer_fd[c]})
    BY ONLY <2>1, <2>2, <2>3, OwnedCloseTimer
  <2> QED BY <1>1, <2>4 DEF T, t2
<1>8. Reporting' = {c}
  BY <1>1 DEF Reporting
<1>9. Core(Reporting)'
  <2>1. known' = (C \cup P) \ {c} BY <1>1, <1>2, CoreParts
  <2>2. Listener' = Listener BY <1>1 DEF Listener
  <2>3. /\ WellLinked(lists) /\ client_fd \in Descriptors
        /\ \A d \in P : client_fd[d] = NoFd
    BY <1>2, CoreParts
  <2> QED BY <1>1, <1>6, <1>7, <1>8, <2>1, <2>2, <2>3 DEF Core
<1>10. Locals' BY <1>1 DEF Structure, Locals, Points, Callbacks
<1>11. Control' BY <1>1, <1>3, <1>2 DEF Structure, Control, Running
<1>12. Running' BY <1>1, <1>2 DEF Running
<1>13. client_p' \in known BY <1>1, <1>2, <1>4, CoreParts
<1> QED BY <1>9, <1>10, <1>11, <1>12, <1>13 DEF Structure

\* on_client_disconnected() returns: the reported client goes to the free
\* list, and the next one is the head of the pending list.
LEMMA OnClientDisconnectedReturnsStep ==
    ASSUME Structure, ~stopped, OnClientDisconnectedReturns
    PROVE  Structure'
<1> DEFINE c == client_p
           C == ConnectedOf(lists)
           P == PendingOf(lists)
<1>1. /\ pc = "on_client_disconnected" /\ pc' = "destroy"
      /\ client_p' = lists.next_p[c]
      /\ lists' = free_pending_disconnect_client(lists, c)
      /\ UNCHANGED <<client_fd, keep_alive_timer_fd, listener_fd, stopped,
                     current_client_p, open, bcast, known>>
  BY DEF OnClientDisconnectedReturns, At
<1>2. c = lists.pending_disconnect_list_p /\ c # NULL
  BY <1>1 DEF Structure, Control
<1>3. Core({c}) /\ Running
  <2>1. Reporting = {c} BY <1>1 DEF Reporting
  <2> QED BY <1>1, <2>1 DEF Structure, Running
<1>4. WellLinked(lists) BY <1>3 DEF Core
<1>5. /\ WellLinked(lists')
      /\ c \in P
      /\ ConnectedOf(lists') = C
      /\ PendingOf(lists') = P \ {c}
      /\ lists'.pending_disconnect_list_p = lists.next_p[c]
  BY <1>1, <1>2, <1>4, FreePendingLists
<1>6. (C \cup P) \ {c} = (C \cup (P \ {c})) \ {}
  BY <1>4, <1>5 DEF WellLinked
<1>7. Core({})'
  <2>1. /\ client_fd \in Descriptors /\ keep_alive_timer_fd \in Descriptors
        /\ known = (C \cup P) \ {c}
        /\ \A d \in P : client_fd[d] = NoFd
        /\ Owned(C, (C \cup P) \ {c}, client_fd, keep_alive_timer_fd,
                 Listener, open)
    BY <1>3 DEF Core
  <2>2. Listener' = Listener BY <1>1 DEF Listener
  <2> QED BY <1>1, <1>5, <1>6, <2>1, <2>2 DEF Core
<1>8. Locals'
  <2>1. client_p' \in Pointers BY <1>1, <1>5, WellLinkedTypes
  <2> QED BY <1>1, <2>1 DEF Structure, Locals, Points
<1>9. Control' BY <1>1, <1>5, <1>2 DEF Structure, Control, Running
<1>10. Running' BY <1>1, <1>2 DEF Running
<1> QED BY <1>1, <1>7, <1>8, <1>9, <1>10, ToStructure

\* process() returns when no pending client is left.
LEMMA ProcessReturnsStep ==
    ASSUME Structure, ~stopped, ProcessReturns
    PROVE  Structure'
<1>1. /\ pc = "destroy" /\ pc' = "idle"
      /\ UNCHANGED <<fields, listener_fd, stopped, current_client_p, client_p,
                     bcast, known>>
  BY DEF ProcessReturns, At
<1>2. Core({})' /\ Running BY <1>1, NoReport, FrameCore
<1>3. Locals' BY <1>1 DEF Structure, Locals, Points
<1>4. Control' BY <1>1, <1>2 DEF Structure, Control, Running
<1>5. Running' BY <1>1, <1>2 DEF Running
<1> QED BY <1>1, <1>2, <1>3, <1>4, <1>5, ToStructure

\* stop() closes the listener and starts at the head of the connected list.
LEMMA StopStep ==
    ASSUME Structure, Stop
    PROVE  Structure'
<1> DEFINE C == ConnectedOf(lists)
           P == PendingOf(lists)
<1>1. /\ pc = "idle" /\ ~stopped /\ pc' = "stop" /\ stopped' = TRUE
      /\ open' = open \ {listener_fd}
      /\ client_p' = lists.connected_list_p
      /\ UNCHANGED <<lists, client_fd, keep_alive_timer_fd, listener_fd,
                     current_client_p, bcast, known>>
  BY DEF Stop, At
<1>2. Core({}) BY <1>1, NoReport
<1>3. listener_fd \in Fds BY <1>1 DEF Structure, Control
<1>4. Listener = {listener_fd}
  BY <1>3, ClientsMaxAssumption DEF Listener, Fds, NoFd
<1>5. Rest' = C BY <1>1 DEF Rest, ConnectedOf
<1>6. Owned(C, (C \cup P) \ {}, client_fd, keep_alive_timer_fd, {}, open')
  <2>1. Owned(C, C \cup P, client_fd, keep_alive_timer_fd, {},
              open \ Listener)
    BY <1>2, CoreParts, OwnedCloseListener
  <2>2. (C \cup P) \ {} = C \cup P OBVIOUS
  <2> QED BY <1>1, <1>4, <2>1, <2>2
<1>7. Halted(lists, client_fd, keep_alive_timer_fd, known, open', C, {})
  <2>1. /\ lists \in ListMemory /\ lists.wild = FALSE
        /\ Acyclic(lists.next_p, C) /\ C \cap P = {}
        /\ Acyclic(lists.next_p, P) /\ Apart(lists)
    BY <1>2, CoreParts, WellLinkedApart DEF WellLinked
  <2>2. client_fd \in Descriptors /\ keep_alive_timer_fd \in Descriptors
    BY <1>2, CoreParts
  <2>3. known = C \cup P BY <1>2, CoreParts
  <2>4. known \cap P = P \ {} /\ known \ (C \cup P) = {} BY <2>3
  <2> QED BY <1>6, <2>1, <2>2, <2>4 DEF Halted
<1>8. Locals'
  <2>1. client_p' \in Pointers BY <1>1, <1>2, CoreParts, WellLinkedTypes
  <2> QED BY <1>1, <2>1 DEF Structure, Locals, Points
<1>9. Control' BY <1>1, <1>3 DEF Structure, Control
<1>10. ~Running' /\ Reporting' = {}
  BY <1>1, <1>9 DEF Running, Reporting, Control
<1>11. Stopping' BY <1>1, <1>5, <1>7, <1>10 DEF Stopping
<1> QED BY <1>8, <1>9, <1>10, <1>11 DEF Structure

\* One round of the loop of stop().
LEMMA StopClientStep ==
    ASSUME Structure, StopClient
    PROVE  Structure' /\ PendingOf(lists') = PendingOf(lists)
<1> DEFINE c == client_p
           R == Reach(lists.next_p, c)
           P == PendingOf(lists)
           o == open \ {client_fd[c], keep_alive_timer_fd[c]}
<1>1. /\ pc = "stop" /\ c # NULL
      /\ open' = o
      /\ lists' = push_free(lists, c)
      /\ client_p' = lists.next_p[c]
      /\ UNCHANGED <<client_fd, keep_alive_timer_fd, listener_fd, stopped,
                     current_client_p, pc, bcast, known>>
  BY DEF StopClient, At
<1>2. stopped /\ Reporting = {}
  BY <1>1 DEF Structure, Control, Reporting
<1>3. /\ lists \in ListMemory /\ lists.wild = FALSE
      /\ Acyclic(lists.next_p, R) /\ R \cap P = {}
      /\ Acyclic(lists.next_p, P) /\ Apart(lists)
      /\ client_fd \in Descriptors /\ keep_alive_timer_fd \in Descriptors
      /\ known \cap P = P \ {}
      /\ \A d \in known \ (R \cup P) :
             client_fd[d] \notin open /\ keep_alive_timer_fd[d] \notin open
      /\ Owned(R, (R \cup P) \ {}, client_fd, keep_alive_timer_fd, {}, open)
  <2>1. Rest = R BY <1>1 DEF Rest
  <2>2. Halted(lists, client_fd, keep_alive_timer_fd, known, open, R, {})
    BY <1>2, <2>1 DEF Structure, Running, Stopping
  <2> QED BY <2>2 DEF Halted
<1>4. c \in Slots BY <1>1, PointerCases DEF Structure, Locals
<1>5. /\ lists' \in ListMemory /\ lists'.wild = FALSE
      /\ PendingOf(lists') = P
      /\ Reach(lists'.next_p, lists.next_p[c]) = R \ {c}
      /\ Acyclic(lists'.next_p, R \ {c})
  BY <1>1, <1>3, <1>4, StopLists
<1>6. c \in R BY <1>4, ReachClosed DEF ClosedFrom
<1>7. Owned(R \ {c}, ((R \ {c}) \cup P) \ {}, client_fd, keep_alive_timer_fd,
            {}, o)
  <2> DEFINE T == (R \cup P) \ {}
             s == client_fd
             t == keep_alive_timer_fd
  <2>1. c \in T BY <1>6
  <2>2. ((R \ {c}) \cup P) \ {} = T \ {c} BY <1>3, <1>6
  <2>3. o = (open \ {s[c]}) \ {t[c]} OBVIOUS
  <2>4. Owned(R, T, s, t, {}, open) BY <1>3
  <2> HIDE DEF R, T, s, t, o
  <2>5. Owned(R \ {c}, T, s, t, {}, open \ {s[c]})
    BY ONLY <1>6, <2>4, OwnedCloseSocket
  <2>6. Owned(R \ {c}, T \ {c}, s, t, {}, (open \ {s[c]}) \ {t[c]})
    BY ONLY <2>1, <2>5, OwnedCloseTimer
  <2> QED BY <2>2, <2>3, <2>6 DEF s, t
<1>8. Acyclic(lists'.next_p, P) /\ Apart(lists')
  <2>1. c \in Slots \ P BY <1>3, <1>4, <1>6
  <2>2. Acyclic(lists'.next_p, PendingOf(lists')) /\ Apart(lists')
    BY <1>1, <1>3, <2>1, StopApart
  <2> QED BY <1>5, <2>2
<1>9. Halted(lists', client_fd, keep_alive_timer_fd, known, o, R \ {c}, {})
  <2>1. (R \ {c}) \cap P = {} BY <1>3
  <2>2. \A d \in known \ ((R \ {c}) \cup P) :
            client_fd[d] \notin o /\ keep_alive_timer_fd[d] \notin o
    BY <1>3
  <2> HIDE DEF R, P, o
  <2> QED BY <1>3, <1>5, <1>7, <1>8, <2>1, <2>2 DEF Halted
<1>10. Locals'
  <2>1. client_p' \in Pointers
    BY <1>1, <1>3, <1>4 DEF ListMemory, Links
  <2> QED BY <1>1, <2>1 DEF Structure, Locals
<1>11. Control' BY <1>1 DEF Structure, Control
<1>12. /\ ~Running' /\ Reporting' = {}
       /\ Rest' = R \ {c}
  <2>1. Rest' = Reach(lists'.next_p, lists.next_p[c]) BY <1>1 DEF Rest
  <2> QED BY <1>1, <1>2, <1>5, <1>11, <2>1 DEF Running, Reporting, Control
<1>13. Stopping' BY <1>1, <1>9, <1>12 DEF Stopping
<1> QED BY <1>5, <1>10, <1>11, <1>12, <1>13 DEF Structure

\* stop() returns after the last connected client.
LEMMA StopReturnsStep ==
    ASSUME Structure, StopReturns
    PROVE  Structure'
<1>1. /\ pc = "stop" /\ pc' = "idle" /\ client_p = NULL
      /\ UNCHANGED <<fields, listener_fd, stopped, current_client_p, client_p,
                     bcast, known>>
  BY DEF StopReturns, At
<1>2. stopped /\ Reporting = {}
  BY <1>1 DEF Structure, Control, Reporting
<1>3. Rest = {} BY <1>1, ReachNull DEF Rest
<1>4. Locals' BY <1>1 DEF Structure, Locals, Points
<1>5. Control' BY <1>1 DEF Structure, Control
<1>6. ~Running' /\ Reporting' = {} /\ Rest' = {}
  BY <1>1, <1>2, <1>5 DEF Running, Reporting, Control, Rest
<1>7. Stopping'
  BY <1>1, <1>2, <1>3, <1>6 DEF Structure, Running, Stopping, fields
<1> QED BY <1>4, <1>5, <1>6, <1>7 DEF Structure

-----------------------------------------------------------------------------
(* process() after stop(). *)

\* What the invariant says between two callbacks.
LEMMA StoppedParts ==
    ASSUME Structure, stopped, pc \in {"idle", "destroy"}
    PROVE  /\ Halted(lists, client_fd, keep_alive_timer_fd, known, open, {},
                     {})
           /\ ~Running
           /\ Reporting = {} /\ Rest = {}
<1>1. ~Running /\ Reporting = {} /\ Rest = {}
  BY DEF Structure, Control, Running, Reporting, Rest
<1> QED BY <1>1 DEF Structure, Stopping

\* process() finds no client, and returns when no pending one is left.
LEMMA StoppedQuietStep ==
    ASSUME Structure, stopped, ProcessOtherFd \/ ProcessReturns
    PROVE  Structure'
<1>1. /\ pc \in {"idle", "destroy"} /\ pc' \in {"idle", "destroy"}
      /\ UNCHANGED <<fields, listener_fd, stopped, current_client_p, bcast,
                     known>>
      /\ \/ client_p' = client_p /\ pc' = "idle"
         \/ client_p' = lists.pending_disconnect_list_p
  BY DEF ProcessOtherFd, ProcessReturns, Destroy, At
<1>2. lists' = lists BY <1>1 DEF fields
<1>3. Halted(lists, client_fd, keep_alive_timer_fd, known, open, {}, {})
  BY <1>1, StoppedParts
<1>4. Locals'
  <2>1. lists.pending_disconnect_list_p \in Pointers
    BY <1>3 DEF Halted, ListMemory
  <2> QED BY <1>1, <2>1 DEF Structure, Locals, Points
<1>5. Control' BY <1>1, <1>2 DEF Structure, Control
<1>6. ~Running' /\ Reporting' = {} /\ Rest' = {}
  BY <1>1, <1>5 DEF Running, Reporting, Control, Rest
<1>7. Stopping' BY <1>1, <1>3, <1>6 DEF Stopping, fields
<1> QED BY <1>4, <1>5, <1>6, <1>7 DEF Structure

\* process() on a descriptor that belongs to a client does not happen.
LEMMA StoppedOwnerStep ==
    ASSUME Structure, stopped, StaleNumbers = FALSE,
           ProcessClientSocket \/ ProcessKeepAliveTimer
    PROVE  FALSE
<1>1. pc = "idle" /\ \E f \in open, c \in Slots : c = Owner(f)
  BY DEF ProcessClientSocket, ProcessKeepAliveTimer, At
<1>2. Halted(lists, client_fd, keep_alive_timer_fd, known, open, {}, {})
  BY <1>1, StoppedParts
<1> QED BY <1>1, <1>2, StoppedOwner

\* A client that was lost before stop() is reported.
LEMMA StoppedDestroyClientStep ==
    ASSUME Structure, stopped, DestroyClient
    PROVE  /\ Structure'
           /\ client_p' \in known
           /\ client_p' \in PendingOf(lists)
<1> DEFINE c == client_p
           P == PendingOf(lists)
           t == keep_alive_timer_fd
           o == open \ {t[c]}
<1>1. /\ pc = "destroy" /\ c # NULL
      /\ open' = o
      /\ keep_alive_timer_fd' = [t EXCEPT ![c] = NoFd]
      /\ pc' = "on_client_disconnected"
      /\ known' = known \ {c}
      /\ UNCHANGED <<lists, client_fd, listener_fd, stopped, current_client_p,
                     client_p, bcast>>
  BY DEF DestroyClient, At
<1>2. /\ Halted(lists, client_fd, t, known, open, {}, {})
      /\ ~Running
  BY <1>1, StoppedParts
<1>3. /\ lists \in ListMemory /\ lists.wild = FALSE
      /\ client_fd \in Descriptors /\ t \in Descriptors
      /\ Acyclic(lists.next_p, P) /\ Apart(lists)
      /\ known \cap P = P \ {}
      /\ \A d \in known \ ({} \cup P) :
             client_fd[d] \notin open /\ t[d] \notin open
      /\ Owned({}, ({} \cup P) \ {}, client_fd, t, {}, open)
  BY <1>2 DEF Halted
<1>4. c = lists.pending_disconnect_list_p BY <1>1 DEF Structure, Control
<1>5. c \in P /\ c \in known /\ P \in SUBSET Slots
  <2>1. c \in Slots BY <1>1, PointerCases DEF Structure, Locals
  <2>2. c \in P /\ P \in SUBSET Slots
    BY <1>4, <2>1, ReachClosed DEF PendingOf, ClosedFrom
  <2> QED BY <1>3, <2>2
<1> DEFINE t2 == keep_alive_timer_fd'
<1>6. t2 \in Descriptors /\ \A d \in Slots \ {c} : t2[d] = t[d]
  BY <1>1, <1>3, <1>5 DEF Descriptors
<1>7. Owned({}, ({} \cup P) \ {c}, client_fd, t2, {}, o)
  <2> DEFINE T == ({} \cup P) \ {}
  <2>1. Owned({}, T, client_fd, t, {}, open) /\ c \in T BY <1>3, <1>5
  <2>2. \A d \in T \ {c} : t2[d] = t[d] BY <1>5, <1>6
  <2>3. T \ {c} = ({} \cup P) \ {c} OBVIOUS
  <2> HIDE DEF T, t, t2
  <2>4. Owned({}, T \ {c}, client_fd, t2, {}, open \ {t[c]})
    BY ONLY <2>1, <2>2, OwnedCloseTimer
  <2> QED BY <2>3, <2>4
<1>8. Halted(lists, client_fd, t2, known \ {c}, o, {}, {c})
  <2>1. known \in SUBSET Slots BY DEF Structure, Locals
  <2>2. \A d \in (known \ {c}) \ ({} \cup P) :
            client_fd[d] \notin o /\ t2[d] \notin o
    BY <1>3, <1>6, <2>1
  <2>3. (known \ {c}) \cap P = P \ {c} BY <1>3
  <2>4. Acyclic(lists.next_p, {}) /\ {} \cap P = {} BY DEF Acyclic
  <2> HIDE DEF P, t2, o
  <2> QED BY <1>3, <1>6, <1>7, <2>2, <2>3, <2>4 DEF Halted, P
<1>9. Locals' BY <1>1 DEF Structure, Locals, Points, Callbacks
<1>10. Control' BY <1>1, <1>4 DEF Structure, Control
<1>11. ~Running' /\ Reporting' = {c} /\ Rest' = {}
  BY <1>1, <1>2 DEF Running, Reporting, Rest
<1>12. Stopping' BY <1>1, <1>8, <1>11 DEF Stopping
<1> QED BY <1>1, <1>5, <1>9, <1>10, <1>11, <1>12 DEF Structure

\* on_client_disconnected() returns, and the next lost client is up.
LEMMA StoppedDisconnectedReturnsStep ==
    ASSUME Structure, stopped, OnClientDisconnectedReturns
    PROVE  /\ Structure'
           /\ client_p \in PendingOf(lists)
           /\ PendingOf(lists') = PendingOf(lists) \ {client_p}
<1> DEFINE c == client_p
           P == PendingOf(lists)
<1>1. /\ pc = "on_client_disconnected" /\ pc' = "destroy"
      /\ client_p' = lists.next_p[c]
      /\ lists' = free_pending_disconnect_client(lists, c)
      /\ UNCHANGED <<client_fd, keep_alive_timer_fd, listener_fd, stopped,
                     current_client_p, open, bcast, known>>
  BY DEF OnClientDisconnectedReturns, At
<1>2. c = lists.pending_disconnect_list_p /\ c # NULL
  BY <1>1 DEF Structure, Control
<1>3. Halted(lists, client_fd, keep_alive_timer_fd, known, open, {}, {c})
  <2>1. ~Running /\ Reporting = {c} /\ Rest = {}
    BY <1>1 DEF Running, Reporting, Rest
  <2> QED BY <2>1 DEF Structure, Stopping
<1>4. /\ lists \in ListMemory /\ lists.wild = FALSE
      /\ client_fd \in Descriptors /\ keep_alive_timer_fd \in Descriptors
      /\ Acyclic(lists.next_p, P) /\ Apart(lists)
      /\ known \cap P = P \ {c}
      /\ \A d \in known \ ({} \cup P) :
             /\ client_fd[d] \notin open
             /\ keep_alive_timer_fd[d] \notin open
      /\ Owned({}, ({} \cup P) \ {c}, client_fd, keep_alive_timer_fd, {},
               open)
  BY <1>3 DEF Halted
<1>5. PendingFreed(lists, c, lists') /\ Apart(lists')
  BY <1>1, <1>2, <1>4, FreePendingApart
<1>6. /\ c \in P /\ PendingOf(lists') = P \ {c} /\ lists' \in ListMemory
      /\ lists'.wild = FALSE /\ Acyclic(lists'.next_p, P \ {c})
      /\ lists'.pending_disconnect_list_p = lists.next_p[c]
  BY <1>4, <1>5 DEF PendingFreed
<1>7. Halted(lists', client_fd, keep_alive_timer_fd, known, open, {}, {})
  <2> DEFINE Q == P \ {c}
  <2>1. known \cap Q = Q \ {} /\ c \notin known BY <1>4, <1>6
  <2>2. \A d \in known \ ({} \cup Q) :
            client_fd[d] \notin open /\ keep_alive_timer_fd[d] \notin open
    BY <1>4, <2>1
  <2>3. ({} \cup P) \ {c} = ({} \cup Q) \ {} OBVIOUS
  <2>4. Acyclic(lists'.next_p, {}) /\ {} \cap Q = {} BY DEF Acyclic
  <2>5. Owned({}, ({} \cup Q) \ {}, client_fd, keep_alive_timer_fd, {}, open)
    BY <1>4, <2>3
  <2>6. PendingOf(lists') = Q /\ Acyclic(lists'.next_p, Q) BY <1>6
  <2> HIDE DEF P, Q
  <2> QED BY <1>4, <1>5, <1>6, <2>1, <2>2, <2>4, <2>5, <2>6 DEF Halted
<1>8. Locals'
  <2>1. client_p' \in Pointers BY <1>1, <1>6 DEF ListMemory
  <2> QED BY <1>1, <2>1 DEF Structure, Locals, Points
<1>9. Control' BY <1>1, <1>6 DEF Structure, Control
<1>10. ~Running' /\ Reporting' = {} /\ Rest' = {}
  BY <1>1, <1>9 DEF Running, Reporting, Control, Rest
<1>11. Stopping' BY <1>1, <1>7, <1>10 DEF Stopping
<1> QED BY <1>6, <1>8, <1>9, <1>10, <1>11 DEF Structure

\* init() puts every client on the free list.
LEMMA InitStructure == Init => Structure
<1> SUFFICES ASSUME Init PROVE Structure
  OBVIOUS
<1>1. /\ WellLinked(lists)
      /\ ConnectedOf(lists) = {}
      /\ PendingOf(lists) = {}
  BY InitLists
<1>2. Locals BY DEF Init, Locals, Pointers, Points
<1>3. Control BY DEF Init, Control
<1>4. Running /\ Reporting = {} BY DEF Init, Running, Reporting
<1>5. Core({})
  <2>1. client_fd \in Descriptors /\ keep_alive_timer_fd \in Descriptors
    BY DEF Init, Descriptors
  <2>2. Listener = {} BY DEF Init, Listener
  <2>3. Owned({}, ({} \cup {}) \ {}, client_fd, keep_alive_timer_fd, {}, {})
    BY DEF Owned
  <2> QED BY <1>1, <2>1, <2>2, <2>3 DEF Core, Init
<1> QED BY <1>2, <1>3, <1>4, <1>5 DEF Structure

\* Every step of the server and of its application keeps the invariant, if
\* the application does not call the server from on_client_disconnected() and
\* process() is not misled by a number in a free client.
LEMMA StructureStep ==
    ASSUME Structure, [Next]_vars, CallsInDisconnected = FALSE,
           StaleNumbers = FALSE
    PROVE  Structure'
<1>1. CASE RejectClient \/ OnClientConnectedReturns \/ ReadWouldBlock
  BY <1>1, QuietSteps
<1>a. CASE ProcessOtherFd BY <1>a, QuietSteps, StoppedQuietStep
<1>2. CASE ClientInitFails BY <1>2, ClientInitFailsStep
<1>3. CASE AcceptClient BY <1>3, AcceptClientStep
<1>4. CASE ProcessClientSocket
  BY <1>4, ProcessClientSocketStep, StoppedOwnerStep
<1>5. CASE ReadFails BY <1>5, ReadFailsStep
<1>6. CASE ReadPing BY <1>6, ReadPingStep
<1>7. CASE ReadUserMessage BY <1>7, ReadUserMessageStep
<1>8. CASE OnMessageReturns BY <1>8, OnMessageReturnsStep
<1>9. CASE ProcessKeepAliveTimer
  BY <1>9, ProcessKeepAliveTimerStep, StoppedOwnerStep
<1>10. CASE DestroyClient
  BY <1>10, DestroyClientStep, StoppedDestroyClientStep
<1>11. CASE OnClientDisconnectedReturns
  BY <1>11, OnClientDisconnectedReturnsStep, StoppedDisconnectedReturnsStep
<1>12. CASE ProcessReturns BY <1>12, ProcessReturnsStep, StoppedQuietStep
<1>13. CASE Start BY <1>13, StartStep
<1>14. CASE Send BY <1>14, SendStep
<1>15. CASE Disconnect BY <1>15, DisconnectStep
<1>16. CASE Broadcast BY <1>16, BroadcastStep
<1>17. CASE BroadcastWrite BY <1>17, BroadcastWriteStep
<1>18. CASE BroadcastReturns BY <1>18, BroadcastReturnsStep
<1>19. CASE Stop BY <1>19, StopStep
<1>20. CASE StopClient BY <1>20, StopClientStep
<1>21. CASE StopReturns BY <1>21, StopReturnsStep
<1>22. CASE UNCHANGED vars
  BY <1>22 DEF vars, Structure, Locals, Control, Running, Reporting, Core,
               Listener, Stopping, Rest
<1> QED
  BY <1>1, <1>a, <1>2, <1>3, <1>4, <1>5, <1>6, <1>7, <1>8, <1>9, <1>10, <1>11,
     <1>12, <1>13, <1>14, <1>15, <1>16, <1>17, <1>18, <1>19, <1>20, <1>21,
     <1>22
     DEF Next, Process, Application

\* The inductive invariant of the server: the three lists, the descriptors,
\* what the application was told and the pointers process(), broadcast() and
\* stop() go on with stay in agreement.
THEOREM StructureInvariant ==
    ASSUME CallsInDisconnected = FALSE, StaleNumbers = FALSE
    PROVE  Spec => []Structure
<1>1. Init => Structure BY InitStructure
<1>2. Structure /\ [Next]_vars => Structure' BY StructureStep
<1> QED BY <1>1, <1>2, PTL DEF Spec

-----------------------------------------------------------------------------
(* The theorems. *)

\* From the invariant to the type invariant.
LEMMA StructureTypes == Structure => TypeOK
<1> SUFFICES ASSUME Structure PROVE TypeOK
  OBVIOUS
<1>1. /\ lists \in ListMemory /\ client_fd \in Descriptors
      /\ keep_alive_timer_fd \in Descriptors /\ open \in SUBSET Fds
  <2>1. CASE Running
    <3>1. Core(Reporting) BY <2>1 DEF Structure
    <3>2. Owned(ConnectedOf(lists),
                (ConnectedOf(lists) \cup PendingOf(lists)) \ Reporting,
                client_fd, keep_alive_timer_fd, Listener, open)
      BY <3>1 DEF Core
    <3>3. open \in SUBSET Fds BY <3>2 DEF Owned
    <3> QED BY <3>1, <3>3 DEF Core, WellLinked
  <2>2. CASE ~Running
    <3>1. Stopping BY <2>2 DEF Structure
    <3>2. open \in SUBSET Fds BY <3>1 DEF Stopping, Halted, Owned
    <3> QED BY <3>1, <3>2 DEF Stopping, Halted
  <2> QED BY <2>1, <2>2
<1>2. lists \in [free_list_p : Pointers, connected_list_p : Pointers,
                 pending_disconnect_list_p : Pointers,
                 next_p : [Slots -> Pointers \cup {Uninit}],
                 prev_p : [Slots -> Pointers \cup {Uninit}],
                 wild : BOOLEAN]
  BY <1>1 DEF ListMemory, Links
<1>3. listener_fd \in Fds \cup {NoFd} BY DEF Structure, Control
<1> QED BY <1>1, <1>2, <1>3 DEF TypeOK, Structure, Locals, Descriptors

\* The pointers of the server are NULL or clients, and its descriptors within
\* the number the model provides.
THEOREM TypeCorrect ==
    ASSUME CallsInDisconnected = FALSE, StaleNumbers = FALSE
    PROVE  Spec => []TypeOK
  BY StructureTypes, StructureInvariant, PTL

\* From the invariant to the lists a reader of server.c has in mind.
LEMMA StructureLists == Structure => ListsWellFormed
<1> SUFFICES ASSUME Structure, Running
             PROVE  /\ Connected \cup Pending \cup FreeSlots = Slots
                    /\ Connected \cap (Pending \cup FreeSlots) = {}
                    /\ Pending \cap FreeSlots = {}
                    /\ \A c \in Slots :
                           /\ c \notin Members(lists, lists.next_p[c])
                           /\ c \in Connected /\ lists.next_p[c] # NULL
                                  => lists.prev_p[lists.next_p[c]] = c
                    /\ ~lists.wild
  BY DEF ListsWellFormed
<1>1. WellLinked(lists) BY DEF Structure, Core
<1>2. /\ Connected \cup Pending \cup FreeSlots = Slots
      /\ Connected \cap (Pending \cup FreeSlots) = {}
      /\ Pending \cap FreeSlots = {}
  BY <1>1, ListsAsReach DEF WellLinked
<1>3. ASSUME NEW c \in Slots
      PROVE  c \notin Members(lists, lists.next_p[c])
  BY <1>1, MembersReach DEF WellLinked, Acyclic
<1>4. ASSUME NEW c \in Slots, c \in Connected, lists.next_p[c] # NULL
      PROVE  lists.prev_p[lists.next_p[c]] = c
  BY <1>1, <1>4, ListsAsReach DEF WellLinked, BackLinked
<1>5. ~lists.wild BY <1>1 DEF WellLinked
<1> QED BY <1>2, <1>3, <1>4, <1>5

\* However clients come, go and are dropped, alloc_client(), free_*() and
\* move_client_to_pending_disconnect_list() keep every slot on exactly one
\* list, and remove_client_from_list() follows no wrong back link.
THEOREM ListsStayWellFormed ==
    ASSUME CallsInDisconnected = FALSE, StaleNumbers = FALSE
    PROVE  Spec => []ListsWellFormed
  BY StructureLists, StructureInvariant, PTL

\* The clients the application knows of are those on the connected and
\* pending lists: none is lost, and none is served unannounced.
THEOREM KnownClientsAreServed ==
    ASSUME CallsInDisconnected = FALSE, StaleNumbers = FALSE
    PROVE  Spec => []KnownClientsServed
<1>1. Structure => KnownClientsServed
  BY ListsAsReach DEF Structure, Core, KnownClientsServed
<1> QED BY <1>1, StructureInvariant, PTL

\* From the invariant to the owners of the open descriptors.
LEMMA StructureDescriptors == Structure => DescriptorsOwned
<1> DEFINE T == (Connected \cup Pending) \ Reporting
<1> SUFFICES ASSUME Structure, Running
             PROVE  /\ \A c \in Pending : client_fd[c] = NoFd
                    /\ open = ({listener_fd} \ {NoFd})
                              \cup {client_fd[c] : c \in Connected}
                              \cup {keep_alive_timer_fd[c] : c \in T}
                    /\ pc # "initialized" =>
                           Cardinality(open) =
                               1 + Cardinality(Connected) + Cardinality(T)
  BY DEF DescriptorsOwned
<1>1. Core(Reporting) BY DEF Structure
<1>2. \A c \in Pending : client_fd[c] = NoFd BY <1>1, ListsAsReach DEF Core
<1>3. Owned(Connected, T, client_fd, keep_alive_timer_fd, Listener, open)
  BY <1>1, ListsAsReach DEF Core
<1>4. open = ({listener_fd} \ {NoFd})
             \cup {client_fd[c] : c \in Connected}
             \cup {keep_alive_timer_fd[c] : c \in T}
  BY <1>3 DEF Owned, Listener
<1>5. Connected \in SUBSET Slots /\ T \in SUBSET Slots
  BY <1>1, ListsAsReach, WellLinkedTypes DEF Core
<1>6. IsFiniteSet(Connected) /\ IsFiniteSet(T)
  BY <1>5, SlotsFinite, FS_Subset
<1>7. ASSUME pc # "initialized" PROVE OpenCount(open, Connected, T)
  <2>1. listener_fd \in Fds BY <1>7 DEF Structure, Control
  <2>2. Listener = {listener_fd}
    BY <2>1, ClientsMaxAssumption DEF Listener, Fds, NoFd
  <2> HIDE DEF T
  <2> QED BY ONLY <1>3, <1>6, <2>2, OwnedCardinality
<1> QED BY <1>2, <1>4, <1>7 DEF OpenCount

\* The server leaks no descriptor and closes none that it still uses: the
\* open ones are the listener's, two per connected client, and the timer of
\* each client whose disconnect is pending, all different.
THEOREM DescriptorsAreOwned ==
    ASSUME CallsInDisconnected = FALSE, StaleNumbers = FALSE
    PROVE  Spec => []DescriptorsOwned
  BY StructureDescriptors, StructureInvariant, PTL

\* broadcast() reaches every client that was connected when it was called,
\* whichever of its writes fail and move the client it is at to another list.
THEOREM BroadcastReaches ==
    ASSUME CallsInDisconnected = FALSE, StaleNumbers = FALSE
    PROVE  Spec => []BroadcastReachesAll
<1>1. Structure => BroadcastReachesAll
  BY ReachNull DEF Structure, Control, BroadcastReachesAll
<1> QED BY <1>1, StructureInvariant, PTL

\* stop() closes everything but the timers of the clients whose disconnect is
\* pending, and process() after it closes these.
THEOREM StopClosesAll ==
    ASSUME CallsInDisconnected = FALSE, StaleNumbers = FALSE
    PROVE  Spec => []StopCloses
<1>1. Structure => StopCloses
  <2> SUFFICES ASSUME Structure, stopped, pc # "stop"
               PROVE  open = {keep_alive_timer_fd[c] :
                                  c \in Pending \ Reporting}
    BY DEF StopCloses
  <2>1. Stopping /\ Rest = {} BY DEF Structure, Running, Rest
  <2>2. ({} \cup PendingOf(lists)) \ Reporting = Pending \ Reporting
    BY ListsAsReach
  <2>3. Owned({}, Pending \ Reporting, client_fd, keep_alive_timer_fd, {},
              open)
    BY <2>1, <2>2 DEF Stopping, Halted
  <2> QED BY <2>3 DEF Owned
<1> QED BY <1>1, StructureInvariant, PTL

\* on_client_disconnected() is called for a client that was reported
\* connected and not yet as disconnected.
THEOREM ReportedOnceHolds ==
    ASSUME CallsInDisconnected = FALSE, StaleNumbers = FALSE
    PROVE  Spec => ReportedOnce
<1> DEFINE Once == pc' = "on_client_disconnected"
                   /\ pc # "on_client_disconnected" /\ pc # "broadcast"
                       => client_p' \in known
<1>1. Structure /\ [Next]_vars => [Once]_vars
  <2> SUFFICES ASSUME Structure, Next, pc' = "on_client_disconnected",
                      pc # "on_client_disconnected", pc # "broadcast"
               PROVE  client_p' \in known
    OBVIOUS
  <2>1. CASE DestroyClient
    BY <2>1, DestroyClientStep, StoppedDestroyClientStep
  <2>2. CASE Process /\ ~DestroyClient
    BY <2>2
       DEF Process, RejectClient, ClientInitFails, AcceptClient,
           OnClientConnectedReturns, ProcessClientSocket, ReadWouldBlock,
           ReadFails, ReadPing, ReadUserMessage, OnMessageReturns,
           ProcessKeepAliveTimer, ProcessOtherFd,
           OnClientDisconnectedReturns, ProcessReturns, Destroy, At, Accepting
  <2>3. CASE Application
    BY <2>3
       DEF Application, Start, Send, Disconnect, Broadcast, BroadcastWrite,
           BroadcastReturns, Stop, StopClient, StopReturns, At
  <2> QED BY <2>1, <2>2, <2>3 DEF Next
<1> QED BY <1>1, StructureInvariant, PTL DEF Spec, ReportedOnce

-----------------------------------------------------------------------------
(* The refinement of ServerLifecycle. *)

Step == [Lifecycle!Next]_(Lifecycle!state)

\* What the abstract variables are while no report is under way.
Quiet(at) ==
    /\ Lost = PendingOf(lists)
    /\ Call = IF at \in Callbacks THEN <<at, client_p>> ELSE <<>>

\* Where control is: a call of broadcast() counts for its caller.
Where == IF pc = "broadcast" THEN bcast.back ELSE pc

\* Outside of on_client_disconnected().
LEMMA QuietPoints ==
    ASSUME Control, pc # "on_client_disconnected"
    PROVE  Quiet(Where)
<1>1. Reporting = {} BY DEF Control, Reporting
<1>2. Lost = PendingOf(lists) BY <1>1, ListsAsReach DEF Lost
<1> QED BY <1>2 DEF Quiet, Call, Where

\* The same after a step.
LEMMA QuietPointsNext ==
    ASSUME Control', pc' # "on_client_disconnected"
    PROVE  Quiet(Where)'
<1>1. Reporting' = {} BY DEF Control, Reporting
<1>2. Lost' = PendingOf(lists')
  BY <1>1, MembersReach DEF Lost, Pending, PendingOf
<1> QED BY <1>2 DEF Quiet, Call, Where

\* client_pending_disconnect() loses at most the client it is called for.
LEMMA LosesOne ==
    ASSUME Core({}), NEW c \in known, client_write(c)
    PROVE  \/ PendingOf(lists') = PendingOf(lists)
           \/ /\ c \notin PendingOf(lists)
              /\ PendingOf(lists') = PendingOf(lists) \cup {c}
<1>1. CASE UNCHANGED fields BY <1>1 DEF fields
<1>2. CASE /\ client_fd[c] # NoFd
           /\ lists' = move_client_to_pending_disconnect_list(lists, c)
  <2>1. c \in ConnectedOf(lists) /\ c \notin PendingOf(lists)
    BY <1>2, CoreParts
  <2> QED BY <1>2, <2>1, CoreParts, MoveLists
<1> QED BY <1>1, <1>2 DEF client_write, client_pending_disconnect

\* A step that may lose c, and does not leave the callback it is in.
LEMMA LoseImplements ==
    ASSUME Structure, Core({}), NEW c \in known, client_write(c),
           known' = known, Phase = "started", Phase' = Phase,
           NEW at, Quiet(at), Quiet(at)',
           client_p' = client_p \/ at \notin Callbacks
    PROVE  Step
<1>1. Phase' = Phase /\ Call' = Call BY DEF Quiet
<1>2. c \in Slots BY DEF Structure, Locals
<1>3. CASE Lost' = Lost
  BY <1>1, <1>3 DEF Step, Lifecycle!state
<1>4. CASE c \notin Lost /\ Lost' = Lost \cup {c}
  <2>1. Lifecycle!Lose(c) BY <1>1, <1>4 DEF Lifecycle!Lose, Quiet
  <2> QED BY <1>2, <2>1 DEF Step, Lifecycle!Next
<1> QED BY <1>3, <1>4, LosesOne DEF Quiet

\* A step that changes nothing the application sees.
LEMMA StutterImplements ==
    ASSUME NEW at, Quiet(at), NEW to, Quiet(to)',
           at \notin Callbacks, to \notin Callbacks,
           known' = known, PendingOf(lists') = PendingOf(lists),
           Phase' = Phase
    PROVE  Step
<1>1. Phase' = Phase /\ Call' = Call /\ Lost' = Lost BY DEF Quiet
<1> QED BY <1>1 DEF Step, Lifecycle!state

\* A callback is called for c.
LEMMA CallImplements ==
    ASSUME NEW at, Quiet(at), NEW to \in Callbacks, Quiet(to)',
           at \notin Callbacks
    PROVE  /\ Call = <<>> /\ Call' = <<to, client_p'>>
           /\ Lost = PendingOf(lists) /\ Lost' = PendingOf(lists')
  BY DEF Quiet

\* Every step of the server is one of ServerLifecycle, or none: the process()
\* part.
LEMMA ProcessImplements ==
    ASSUME Structure, Structure', Process, StaleNumbers = FALSE
    PROVE  Step
<1> USE DEF Callbacks, At
<1>a. /\ Control /\ Control' /\ pc \in Points /\ pc' \in Points
      /\ known \in SUBSET Slots
  BY DEF Structure, Locals
<1>b. ASSUME pc # "on_client_disconnected", pc # "broadcast"
      PROVE  Quiet(pc) /\ (~stopped => Core({}))
  <2>1. Quiet(Where) /\ Where = pc BY <1>a, <1>b, QuietPoints DEF Where
  <2> QED BY <1>b, <2>1, NoReport
<1>c. ASSUME pc' # "on_client_disconnected", pc' # "broadcast"
      PROVE  Quiet(pc)'
  <2>1. Quiet(Where)' /\ Where' = pc'
    BY <1>a, <1>c, QuietPointsNext DEF Where
  <2> QED BY <2>1
<1>d. /\ pc # "initialized" /\ pc' # "initialized" /\ stopped' = stopped
      /\ ~stopped \/ pc \in {"idle", "destroy", "on_client_disconnected"}
  <2>1. pc # "initialized" /\ pc' # "initialized" /\ stopped' = stopped
    BY DEF Process, RejectClient, ClientInitFails, AcceptClient,
           OnClientConnectedReturns, ProcessClientSocket, ReadWouldBlock,
           ReadFails, ReadPing, ReadUserMessage, OnMessageReturns,
           ProcessKeepAliveTimer, ProcessOtherFd, DestroyClient,
           OnClientDisconnectedReturns, ProcessReturns, Destroy, Accepting
  <2>2. pc # "stop"
    BY DEF Process, RejectClient, ClientInitFails, AcceptClient,
           OnClientConnectedReturns, ProcessClientSocket, ReadWouldBlock,
           ReadFails, ReadPing, ReadUserMessage, OnMessageReturns,
           ProcessKeepAliveTimer, ProcessOtherFd, DestroyClient,
           OnClientDisconnectedReturns, ProcessReturns, Destroy, Accepting
  <2> QED BY <1>a, <2>1, <2>2 DEF Control
<1>e. Phase' = Phase /\ (~stopped => Phase = "started")
  BY <1>d DEF Phase, Running
<1>1. CASE RejectClient \/ ReadWouldBlock \/ ProcessOtherFd \/ ProcessReturns
  <2>1. /\ pc \in {"idle", "read", "destroy"} /\ pc' \in {"idle", "destroy"}
        /\ lists' = lists /\ known' = known
    BY <1>1 DEF RejectClient, ReadWouldBlock, ProcessOtherFd, ProcessReturns,
                Destroy, Accepting, fields
  <2> QED BY <2>1, <1>b, <1>c, <1>e, StutterImplements
<1>2. CASE ClientInitFails
  <2>1. /\ pc = "idle" /\ pc' = "destroy" /\ known' = known /\ ~stopped
        /\ lists.free_list_p # NULL
        /\ lists' = free_connected_client(alloc_client(lists),
                                          lists.free_list_p)
    BY <1>2 DEF ClientInitFails, Destroy, Accepting
  <2>2. PendingOf(lists') = PendingOf(lists)
    BY <1>b, <2>1, CoreParts, InitFailsLists
  <2> QED BY <2>1, <2>2, <1>b, <1>c, <1>e, StutterImplements
<1>3. CASE AcceptClient
  <2> DEFINE c == lists.free_list_p
  <2>1. /\ pc = "idle" /\ pc' = "on_client_connected" /\ ~stopped
        /\ c # NULL /\ lists' = alloc_client(lists)
        /\ known' = known \cup {c} /\ client_p' = c
    BY <1>3 DEF AcceptClient, Accepting
  <2>2. PendingOf(lists') = PendingOf(lists) /\ c \in FreeOf(lists)
    BY <1>b, <2>1, CoreParts, AllocLists
  <2>3. c \in Slots /\ c \notin known
    BY <1>b, <2>1, <2>2, CoreParts, WellLinkedTypes DEF WellLinked
  <2>4. Lifecycle!CallOnClientConnected(c)
    BY <1>b, <1>c, <1>e, <2>1, <2>2, <2>3, CallImplements
       DEF Lifecycle!CallOnClientConnected, Lifecycle!Call
  <2> QED BY <2>3, <2>4 DEF Step, Lifecycle!Next
<1>4. CASE OnClientConnectedReturns \/ OnMessageReturns
  <2>1. /\ pc \in {"on_client_connected", "on_message"}
        /\ pc' \in {"read", "destroy"}
        /\ lists' = lists /\ known' = known
    BY <1>4 DEF OnClientConnectedReturns, OnMessageReturns, Destroy, fields
  <2>2. Lifecycle!CallbackReturns
    BY <1>b, <1>c, <1>e, <2>1 DEF Lifecycle!CallbackReturns, Quiet
  <2> QED BY <2>2 DEF Step, Lifecycle!Next
<1>5. CASE ProcessClientSocket \/ ProcessKeepAliveTimer
  <2>1. /\ pc = "idle" /\ pc' \in {"read", "destroy"} /\ known' = known
        /\ \E f \in open, c \in Slots : c = Owner(f) /\ client_write(c)
    BY <1>5 DEF ProcessClientSocket, ProcessKeepAliveTimer, Destroy,
                client_write
  <2>2. PICK f \in open, c \in Slots : c = Owner(f) /\ client_write(c)
    BY <2>1
  <2>3. ~stopped BY <1>5, StoppedOwnerStep
  <2>4. c \in known BY <1>b, <2>1, <2>2, <2>3, OwnerConnected
  <2>5. Quiet("idle") /\ Quiet("idle")' BY <1>b, <1>c, <2>1 DEF Quiet
  <2> QED BY <1>b, <1>e, <2>1, <2>2, <2>3, <2>4, <2>5, LoseImplements
<1>6. CASE ReadFails \/ ReadPing
  <2>1. /\ pc = "read" /\ pc' \in {"read", "destroy"} /\ known' = known
        /\ client_write(client_p)
    BY <1>6 DEF ReadFails, ReadPing, Destroy, client_write
  <2>2. client_p \in known BY <1>a, <2>1 DEF Control
  <2>3. Quiet("read") /\ Quiet("read")' BY <1>b, <1>c, <2>1 DEF Quiet
  <2> QED BY <1>b, <1>d, <1>e, <2>1, <2>2, <2>3, LoseImplements
<1>7. CASE ReadUserMessage
  <2>1. /\ pc = "read" /\ pc' = "on_message" /\ client_p' = client_p
        /\ client_fd[client_p] # NoFd /\ lists' = lists /\ known' = known
    BY <1>7 DEF ReadUserMessage, fields
  <2>2. client_p \in known BY <1>a, <2>1 DEF Control
  <2>3. client_p \notin PendingOf(lists) BY <1>b, <1>d, <2>1, CoreParts
  <2>4. Lifecycle!CallOnMessage(client_p)
    BY <1>b, <1>c, <1>d, <1>e, <2>1, <2>2, <2>3, CallImplements
       DEF Lifecycle!CallOnMessage, Lifecycle!Call
  <2> QED BY <1>a, <2>2, <2>4 DEF Step, Lifecycle!Next
<1>8. CASE DestroyClient
  <2> DEFINE c == client_p
  <2>1. /\ pc = "destroy" /\ pc' = "on_client_disconnected"
        /\ client_p' = c /\ lists' = lists /\ known' = known \ {c}
        /\ c # NULL /\ bcast' = bcast
    BY <1>8 DEF DestroyClient
  <2>2. c \in PendingOf(lists)
    <3>1. c = lists.pending_disconnect_list_p BY <1>a, <2>1 DEF Control
    <3>2. c \in Slots BY <2>1, PointerCases DEF Structure, Locals
    <3> QED BY <3>1, <3>2, ReachClosed DEF PendingOf, ClosedFrom
  <2>3. c \in Slots BY <2>1, PointerCases DEF Structure, Locals
  <2>4. /\ Call' = <<"on_client_disconnected", c>>
        /\ Lost' = PendingOf(lists) \ {c}
    BY <2>1, MembersReach DEF Call, Lost, Reporting, Pending, PendingOf
  <2>5. Call = <<>> /\ Lost = PendingOf(lists)
    BY <1>b, <2>1 DEF Quiet
  <2>6. Lifecycle!CallOnClientDisconnected(c)
    BY <1>e, <2>1, <2>2, <2>4, <2>5
       DEF Lifecycle!CallOnClientDisconnected, Lifecycle!Call
  <2> QED BY <2>3, <2>6 DEF Step, Lifecycle!Next
<1>9. CASE OnClientDisconnectedReturns
  <2> DEFINE c == client_p
  <2>1. /\ pc = "on_client_disconnected" /\ pc' = "destroy"
        /\ lists' = free_pending_disconnect_client(lists, c)
        /\ known' = known
    BY <1>9 DEF OnClientDisconnectedReturns
  <2>2. c = lists.pending_disconnect_list_p /\ c # NULL
    BY <1>a, <2>1 DEF Control
  <2>3. PendingOf(lists') = PendingOf(lists) \ {c}
    <3>1. CASE stopped BY <1>9, <3>1, StoppedDisconnectedReturnsStep
    <3>2. CASE ~stopped
      <4>1. WellLinked(lists) BY <3>2 DEF Structure, Running, Core
      <4> QED BY <2>1, <2>2, <4>1, FreePendingLists
    <3> QED BY <3>1, <3>2
  <2>4. /\ Call = <<"on_client_disconnected", c>>
        /\ Lost = PendingOf(lists) \ {c}
    BY <2>1, ListsAsReach DEF Call, Lost, Reporting
  <2>5. Call' = <<>> /\ Lost' = PendingOf(lists')
    BY <1>c, <2>1 DEF Quiet
  <2>6. Lifecycle!CallbackReturns
    BY <1>e, <2>1, <2>3, <2>4, <2>5 DEF Lifecycle!CallbackReturns
  <2> QED BY <2>6 DEF Step, Lifecycle!Next
<1> QED
  BY <1>1, <1>2, <1>3, <1>4, <1>5, <1>6, <1>7, <1>8, <1>9 DEF Process

\* The calls of the application.
LEMMA ApplicationImplements ==
    ASSUME Structure, Structure', Application, CallsInDisconnected = FALSE
    PROVE  Step
<1> USE DEF At
<1>a. /\ Control /\ Control' /\ pc \in Points /\ pc' \in Points
      /\ known \in SUBSET Slots
  BY DEF Structure, Locals
<1>b. bcast.back \in {"idle", "on_client_connected", "on_message"}
  BY <1>a DEF Control
<1>1. CASE Start
  <2>1. /\ pc = "initialized" /\ pc' = "idle" /\ lists' = lists
        /\ known' = known /\ bcast' = bcast /\ ~stopped'
    BY <1>1, <1>a DEF Start, Control
  <2>2. /\ Phase = "initialized" /\ Phase' = "started"
        /\ Call = <<>> /\ Call' = <<>>
    BY <2>1 DEF Phase, Running, Call, Callbacks
  <2>3. Lost' = Lost
    <3>1. Reporting = {} /\ Reporting' = {} BY <1>b, <2>1 DEF Reporting
    <3> QED BY <2>1, <3>1 DEF Lost, Pending
  <2>4. Lifecycle!Start BY <2>1, <2>2, <2>3 DEF Lifecycle!Start
  <2> QED BY <2>4 DEF Step, Lifecycle!Next
<1>2. CASE Send \/ Disconnect
  <2>1. MayCall /\ UNCHANGED <<pc, client_p, bcast, known, stopped>>
    BY <1>2 DEF Send, Disconnect
  <2>2. /\ pc \in {"idle", "on_client_connected", "on_message"} /\ Core({})
        /\ Phase = "started" /\ Phase' = Phase
    BY <2>1, CallPoints DEF Phase, Running
  <2>3. current_client_p # NULL => current_client_p \in known
    BY <1>a DEF Control
  <2>4. PICK c \in known : client_write(c)
    BY <1>2, <2>3 DEF Send, Disconnect, client_write
  <2>5. Quiet(Where) /\ Quiet(Where)' /\ Where' = Where
    BY <1>a, <2>1, <2>2, QuietPoints, QuietPointsNext DEF Where
  <2>6. Quiet(pc) /\ Quiet(pc)' /\ pc' = pc BY <2>1, <2>2, <2>5 DEF Where
  <2> DEFINE at == pc
  <2>7. Quiet(at)' BY <2>6
  <2> QED BY <2>1, <2>2, <2>4, <2>6, LoseImplements DEF Quiet
<1>3. CASE Broadcast \/ BroadcastReturns
  <2>1. UNCHANGED <<lists, known, client_p, stopped>>
    BY <1>3 DEF Broadcast, BroadcastReturns, fields
  <2>2. /\ Where' = Where
        /\ pc \in {"idle", "on_client_connected", "on_message", "broadcast"}
        /\ pc' \in {"idle", "on_client_connected", "on_message", "broadcast"}
    <3>1. CASE Broadcast
      BY <3>1, CallPoints DEF Broadcast, Where
    <3>2. CASE BroadcastReturns
      BY <3>2, <1>b DEF BroadcastReturns, Where
    <3> QED BY <1>3, <3>1, <3>2
  <2>3. Quiet(Where) /\ Quiet(Where)'
    BY <1>a, <2>2, QuietPoints, QuietPointsNext
  <2>4. Lost' = Lost /\ Call' = Call BY <2>1, <2>2, <2>3 DEF Quiet
  <2>5. Phase' = Phase BY <2>1, <2>2 DEF Phase, Running
  <2> QED BY <2>1, <2>4, <2>5 DEF Step, Lifecycle!state
<1>4. CASE BroadcastWrite
  <2>1. /\ pc = "broadcast" /\ pc' = "broadcast" /\ bcast.client_p # NULL
        /\ client_write(bcast.client_p)
        /\ bcast' = [bcast EXCEPT !.client_p = lists.next_p[@],
                                  !.owed = @ \ {bcast.client_p}]
        /\ UNCHANGED <<client_p, known, stopped>>
    BY <1>4 DEF BroadcastWrite
  <2>2. Core({}) /\ Phase = "started" /\ Phase' = Phase
    BY <2>1, NoReport DEF Phase, Running
  <2>3. bcast.client_p \in known BY <1>a, <2>1, <2>2, CoreParts DEF Control
  <2>4. bcast'.back = bcast.back
    BY <2>1 DEF Structure, Locals
  <2>5. Quiet(Where) /\ Quiet(Where)' /\ Where' = Where
    BY <1>a, <2>1, <2>4, QuietPoints, QuietPointsNext DEF Where
  <2> QED BY <2>1, <2>2, <2>3, <2>5, LoseImplements DEF Quiet
<1>5. CASE Stop
  <2>1. /\ pc = "idle" /\ pc' = "stop" /\ lists' = lists
        /\ known' = known /\ bcast' = bcast /\ ~stopped /\ stopped'
    BY <1>5 DEF Stop
  <2>2. /\ Phase = "started" /\ Phase' = "stopped"
        /\ Call = <<>> /\ Call' = <<>>
    BY <2>1 DEF Phase, Running, Call, Callbacks
  <2>3. Lost' = Lost
    <3>1. Reporting = {} /\ Reporting' = {} BY <1>b, <2>1 DEF Reporting
    <3> QED BY <2>1, <3>1 DEF Lost, Pending
  <2>4. Lifecycle!Stop BY <2>1, <2>2, <2>3 DEF Lifecycle!Stop
  <2> QED BY <2>4 DEF Step, Lifecycle!Next
<1>6. CASE StopClient \/ StopReturns
  <2>1. /\ pc = "stop" /\ pc' \in {"stop", "idle"} /\ stopped
        /\ UNCHANGED <<known, bcast, stopped>>
    BY <1>6, <1>a DEF StopClient, StopReturns, Control
  <2>2. PendingOf(lists') = PendingOf(lists)
    <3>1. CASE StopReturns BY <3>1 DEF StopReturns, fields
    <3>2. CASE StopClient BY <3>2, StopClientStep
    <3> QED BY <1>6, <3>1, <3>2
  <2>3. Reporting = {} /\ Reporting' = {} BY <1>b, <2>1 DEF Reporting
  <2>4. Lost' = Lost
    BY <2>2, <2>3, MembersReach DEF Lost, Pending, PendingOf
  <2>5. Phase' = Phase /\ Call' = Call
    BY <2>1 DEF Phase, Running, Call, Callbacks
  <2> QED BY <2>1, <2>4, <2>5 DEF Step, Lifecycle!state
<1> QED
  BY <1>1, <1>2, <1>3, <1>4, <1>5, <1>6 DEF Application

\* The server keeps what ServerLifecycle promises its application: a client
\* is announced, sends messages until it is lost or disconnected, and is then
\* reported by on_client_disconnected(), once; callbacks do not nest.  After
\* stop() the clients that were lost before may still be reported, and nothing
\* else is.
THEOREM ServerImplementsLifecycle ==
    ASSUME CallsInDisconnected = FALSE, StaleNumbers = FALSE
    PROVE  Spec => ImplementsLifecycle
<1>1. Init => Lifecycle!Init
  <2> SUFFICES ASSUME Init PROVE Lifecycle!Init
    OBVIOUS
  <2>1. Phase = "initialized" /\ Call = <<>> /\ known = {}
    BY DEF Init, Phase, Call, Callbacks
  <2>2. Pending = {} BY ListsAsReach, ReachNull DEF Init, PendingOf
  <2> QED BY <2>1, <2>2 DEF Lifecycle!Init, Lost
<1>2. Structure /\ Structure' /\ [Next]_vars
          => [Lifecycle!Next]_(Lifecycle!state)
  <2> SUFFICES ASSUME Structure, Structure', [Next]_vars
               PROVE  Step
    BY DEF Step
  <2>1. CASE Process BY <2>1, ProcessImplements
  <2>2. CASE Application BY <2>2, ApplicationImplements
  <2>3. CASE UNCHANGED vars
    BY <2>3 DEF vars, Step, Lifecycle!state, Phase, Running, Call, Lost,
                Pending, Reporting
  <2> QED BY <2>1, <2>2, <2>3 DEF Next
<1> QED
  BY <1>1, <1>2, StructureInvariant, PTL
     DEF Spec, ImplementsLifecycle, Lifecycle!Spec

=============================================================================
