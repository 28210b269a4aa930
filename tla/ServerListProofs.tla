-------------------------- MODULE ServerListProofs --------------------------
(***************************************************************************)
(* Lemmas about the linked lists of LinuxServer and the functions that     *)
(* work on them, for every number of clients.                              *)
(*                                                                         *)
(* The clients of a list are the least set that holds its head and is      *)
(* closed under next_p.  That this set is least is used in place of an     *)
(* induction along the list: to show that a list function has made the set *)
(* smaller or larger it is enough to exhibit a closed set.                 *)
(***************************************************************************)
EXTENDS LinuxServer, WellFoundedInduction, TLAPS

\* Every set of natural numbers has a least one, unless it is empty.
LEMMA LeastNatural ==
    ASSUME NEW T \in SUBSET Nat, T # {}
    PROVE  \E x \in T : \A y \in T : x <= y
<1> DEFINE R == {ss \in Nat \X Nat : ss[1] < ss[2]}
<1>1. IsWellFoundedOn(R, Nat) BY NatLessThanWellFounded DEF OpToRel
<1>2. PICK x \in T : \A y \in T : ~(<<y, x>> \in R)
  <2> HIDE DEF R
  <2> QED BY <1>1, WFMin
<1>3. ASSUME NEW y \in T PROVE x <= y
  <2>1. x \in Nat /\ y \in Nat OBVIOUS
  <2>2. <<y, x>> \in Nat \X Nat BY <2>1
  <2>3. ~(y < x) BY <1>2, <2>2
  <2> QED BY <2>1, <2>3
<1> QED BY <1>3

Links == [Slots -> Pointers]

\* S holds the client p points to, and the successors of its members.
ClosedFrom(next, p, S) ==
    /\ p \in Slots => p \in S
    /\ \A d \in S : next[d] \in Slots => next[d] \in S

\* The clients met from p on; Members() as a function of next_p alone.
Reach(next, p) ==
    {c \in Slots : \A S \in SUBSET Slots : ClosedFrom(next, p, S) => c \in S}

\* The clients on a list, as the model defines them, are those reached from
\* its head through next_p.
LEMMA MembersReach ==
    ASSUME NEW l, NEW p
    PROVE  Members(l, p) = Reach(l.next_p, p)
  BY DEF Members, Reach, ClosedFrom

\* A pointer to a client is NULL or a client.
LEMMA PointerCases ==
    /\ NULL \notin Slots
    /\ \A p \in Pointers : p \in Slots <=> p # NULL
  BY ClientsMaxAssumption DEF Slots, NULL, Pointers

\* Whatever holds the head and is closed under next_p holds the whole list.
\* This is what the proofs use in the place of induction on its length.
LEMMA ReachLeast ==
    ASSUME NEW next, NEW p, NEW S \in SUBSET Slots, ClosedFrom(next, p, S)
    PROVE  Reach(next, p) \subseteq S
  BY DEF Reach

\* A list is closed under next_p itself.
LEMMA ReachClosed ==
    ASSUME NEW next, NEW p
    PROVE  /\ Reach(next, p) \in SUBSET Slots
           /\ ClosedFrom(next, p, Reach(next, p))
  BY DEF Reach, ClosedFrom

\* Nothing is reached from NULL.
LEMMA ReachNull ==
    ASSUME NEW next
    PROVE  Reach(next, NULL) = {}
<1>1. ClosedFrom(next, NULL, {}) BY PointerCases DEF ClosedFrom
<1> QED BY <1>1, ReachLeast

\* A list is its head and the list of the next client.
LEMMA ReachStep ==
    ASSUME NEW next, NEW p \in Slots
    PROVE  Reach(next, p) = {p} \cup Reach(next, next[p])
<1> DEFINE R == Reach(next, p)
           T == {p} \cup Reach(next, next[p])
<1>1. ClosedFrom(next, p, R) /\ R \in SUBSET Slots BY ReachClosed
<1>2. /\ ClosedFrom(next, next[p], Reach(next, next[p]))
      /\ Reach(next, next[p]) \in SUBSET Slots
  BY ReachClosed
<1>3. ClosedFrom(next, p, T) BY <1>2 DEF ClosedFrom
<1>4. R \subseteq T BY <1>2, <1>3, ReachLeast
<1>5. ClosedFrom(next, next[p], R) BY <1>1 DEF ClosedFrom
<1>6. Reach(next, next[p]) \subseteq R BY <1>1, <1>5, ReachLeast
<1>7. p \in R BY <1>1 DEF ClosedFrom
<1> QED BY <1>4, <1>6, <1>7

\* What is met from a client on the list is on the list.
LEMMA ReachTail ==
    ASSUME NEW next, NEW p, NEW d \in Reach(next, p)
    PROVE  /\ Reach(next, d) \subseteq Reach(next, p)
           /\ Reach(next, next[d]) \subseteq Reach(next, p)
<1>1. ClosedFrom(next, p, Reach(next, p)) /\ Reach(next, p) \in SUBSET Slots
  BY ReachClosed
<1>2. ClosedFrom(next, d, Reach(next, p)) BY <1>1 DEF ClosedFrom
<1>3. ClosedFrom(next, next[d], Reach(next, p)) BY <1>1 DEF ClosedFrom
<1> QED BY <1>1, <1>2, <1>3, ReachLeast

\* A list does not change unless a link of one of its clients does.
LEMMA ReachAgree ==
    ASSUME NEW next, NEW next2, NEW p,
           \A d \in Reach(next, p) : next2[d] = next[d]
    PROVE  Reach(next2, p) = Reach(next, p)
<1> DEFINE R == Reach(next, p)
           R2 == Reach(next2, p)
<1>1. ClosedFrom(next, p, R) /\ R \in SUBSET Slots BY ReachClosed
<1>2. ClosedFrom(next2, p, R2) /\ R2 \in SUBSET Slots BY ReachClosed
<1>3. ClosedFrom(next2, p, R) BY <1>1 DEF ClosedFrom
<1>4. R2 \subseteq R BY <1>1, <1>3, ReachLeast
<1>5. ClosedFrom(next, p, R2) BY <1>2, <1>4 DEF ClosedFrom
<1>6. R \subseteq R2 BY <1>2, <1>5, ReachLeast
<1> QED BY <1>4, <1>6

\* Every client of a list but the first is the next of another one.
LEMMA ReachPredecessor ==
    ASSUME NEW next, NEW p, NEW c \in Reach(next, p), c # p
    PROVE  \E b \in Reach(next, p) : next[b] = c
<1> DEFINE R == Reach(next, p)
<1> SUFFICES ASSUME \A b \in R : next[b] # c PROVE FALSE
  OBVIOUS
<1>1. ClosedFrom(next, p, R) /\ R \in SUBSET Slots BY ReachClosed
<1>2. ClosedFrom(next, p, R \ {c}) BY <1>1 DEF ClosedFrom
<1>3. R \subseteq R \ {c} BY <1>1, <1>2, ReachLeast
<1> QED BY <1>3

\* next2 lets the predecessor b of c, on the list from p, skip c.
Bypass(next, next2, p, b, c) ==
    /\ c \in Reach(next, p) \ {p}
    /\ b \in Reach(next, p)
    /\ next[b] = c
    /\ \A d \in Reach(next, p) : next[d] = c => d = b
    /\ next2[b] = next[c]
    /\ \A d \in Reach(next, p) \ {b, c} : next2[d] = next[d]

\* Letting the predecessor b of c skip c takes c, and only c, off the list,
\* and adds nothing to what is met from another client on.
LEMMA ReachUnlink ==
    ASSUME NEW next, NEW next2, NEW p,
           NEW b, NEW c, Bypass(next, next2, p, b, c),
           c \notin Reach(next, next[c])
    PROVE  /\ Reach(next2, p) = Reach(next, p) \ {c}
           /\ \A d \in Reach(next, p) \ {c} :
                  Reach(next2, d) \subseteq Reach(next, d)
<1> DEFINE R == Reach(next, p)
           R2 == Reach(next2, p)
<1> USE DEF Bypass
<1>1. ClosedFrom(next, p, R) /\ R \in SUBSET Slots BY ReachClosed
<1>2. ClosedFrom(next2, p, R2) /\ R2 \in SUBSET Slots BY ReachClosed
<1>3. next[c] # c
  <2> SUFFICES ASSUME next[c] = c PROVE FALSE
    OBVIOUS
  <2>1. c \in Slots BY <1>1
  <2> QED BY <2>1, ReachClosed DEF ClosedFrom
<1>4. b # c BY <1>3
<1>5. ClosedFrom(next2, p, R \ {c}) BY <1>1, <1>3, <1>4 DEF ClosedFrom
<1>6. R2 \subseteq R \ {c} BY <1>1, <1>5, ReachLeast
<1>7. b \in R2
  <2> SUFFICES ASSUME b \notin R2 PROVE FALSE
    OBVIOUS
  <2>1. ClosedFrom(next, p, R2) BY <1>2, <1>6 DEF ClosedFrom
  <2> QED BY <1>2, <2>1, ReachLeast
<1>8. ClosedFrom(next, p, R2 \cup {c})
  BY <1>2, <1>4, <1>6, <1>7 DEF ClosedFrom
<1>9. R \subseteq R2 \cup {c} BY <1>1, <1>2, <1>8, ReachLeast
<1>10. ASSUME NEW d \in R \ {c}
       PROVE  Reach(next2, d) \subseteq Reach(next, d)
  <2> DEFINE D == Reach(next, d)
  <2>1. ClosedFrom(next, d, D) /\ D \in SUBSET Slots BY ReachClosed
  <2>2. D \subseteq R BY ReachTail
  <2>3. ClosedFrom(next2, d, D \ {c})
    <3>1. ASSUME NEW e \in D \ {c}, e # b, next2[e] \in Slots
          PROVE  next2[e] \in D \ {c}
      <4>1. e \in R \ {b, c} BY <2>2, <3>1
      <4>2. next2[e] = next[e] /\ next[e] # c BY <4>1
      <4> QED BY <2>1, <3>1, <4>2 DEF ClosedFrom
    <3>2. ASSUME b \in D, next2[b] \in Slots PROVE next2[b] \in D \ {c}
      <4>1. c \in D BY <1>1, <2>1, <3>2 DEF ClosedFrom
      <4> QED BY <1>3, <2>1, <3>2, <4>1 DEF ClosedFrom
    <3>3. d \in D \ {c} BY <1>1, <2>1 DEF ClosedFrom
    <3> QED BY <3>1, <3>2, <3>3 DEF ClosedFrom
  <2> QED BY <2>1, <2>3, ReachLeast
<1> QED BY <1>6, <1>9, <1>10

-----------------------------------------------------------------------------
(* Lists without a cycle. *)

\* No client of S is met again after it.
Acyclic(next, S) == \A c \in S : c \notin Reach(next, next[c])

\* A list none of whose links change stays as it is, and so does what follows
\* each of its clients.
LEMMA ListUntouched ==
    ASSUME NEW next, NEW next2, NEW p, Acyclic(next, Reach(next, p)),
           \A d \in Reach(next, p) : next2[d] = next[d]
    PROVE  /\ Reach(next2, p) = Reach(next, p)
           /\ Acyclic(next2, Reach(next, p))
<1>1. Reach(next2, p) = Reach(next, p) BY ReachAgree
<1>2. ASSUME NEW d \in Reach(next, p)
      PROVE  d \notin Reach(next2, next2[d])
  <2>1. Reach(next, next[d]) \subseteq Reach(next, p) BY ReachTail
  <2>2. Reach(next2, next[d]) = Reach(next, next[d]) BY <2>1, ReachAgree
  <2> QED BY <2>2 DEF Acyclic
<1> QED BY <1>1, <1>2 DEF Acyclic

\* A client put in front of a list it is not on.
LEMMA ListPush ==
    ASSUME NEW next, NEW next2, NEW p, Acyclic(next, Reach(next, p)),
           NEW c \in Slots \ Reach(next, p), next2[c] = p,
           \A d \in Reach(next, p) : next2[d] = next[d]
    PROVE  /\ Reach(next2, c) = Reach(next, p) \cup {c}
           /\ Acyclic(next2, Reach(next, p) \cup {c})
<1>1. /\ Reach(next2, p) = Reach(next, p)
      /\ Acyclic(next2, Reach(next, p))
  BY ListUntouched
<1>2. Reach(next2, c) = {c} \cup Reach(next2, p) BY ReachStep
<1> QED BY <1>1, <1>2 DEF Acyclic

\* The first client taken off.
LEMMA ListPop ==
    ASSUME NEW next, NEW c \in Slots, Acyclic(next, Reach(next, c))
    PROVE  /\ Reach(next, next[c]) = Reach(next, c) \ {c}
           /\ Acyclic(next, Reach(next, c) \ {c})
<1>1. Reach(next, c) = {c} \cup Reach(next, next[c]) BY ReachStep
<1> QED BY <1>1 DEF Acyclic

\* A client is taken off behind its predecessor.
LEMMA ListUnlink ==
    ASSUME NEW next, NEW next2, NEW p, Acyclic(next, Reach(next, p)),
           NEW b, NEW c, Bypass(next, next2, p, b, c)
    PROVE  /\ Reach(next2, p) = Reach(next, p) \ {c}
           /\ Acyclic(next2, Reach(next, p) \ {c})
<1> DEFINE R == Reach(next, p)
<1>1. c \notin Reach(next, next[c]) BY DEF Acyclic, Bypass
<1>2. /\ Reach(next2, p) = Reach(next, p) \ {c}
      /\ \A d \in Reach(next, p) \ {c} :
             Reach(next2, d) \subseteq Reach(next, d)
  BY <1>1, ReachUnlink
<1> USE DEF Bypass
<1>3. R \in SUBSET Slots /\ ClosedFrom(next, p, R) BY ReachClosed
<1>4. ASSUME NEW d \in R \ {c}, NEW q, q = next[d] \/ (d = b /\ q = next[c]),
             q # c
      PROVE  d \notin Reach(next2, q)
  <2>1. CASE q \in Slots
    <3>1. q \in R \ {c} BY <1>3, <1>4, <2>1 DEF ClosedFrom
    <3>2. Reach(next2, q) \subseteq Reach(next, q) BY <1>2, <3>1
    <3>3. CASE q = next[d] BY <3>2, <3>3 DEF Acyclic
    <3>4. CASE d = b /\ q = next[c]
      <4>1. Reach(next, next[b]) = {c} \cup Reach(next, next[c])
        BY <1>3, ReachStep
      <4> QED BY <3>2, <3>4, <4>1 DEF Acyclic
    <3> QED BY <1>4, <3>3, <3>4
  <2>2. CASE q \notin Slots
    <3>1. ClosedFrom(next2, q, {}) BY <2>2 DEF ClosedFrom
    <3>2. Reach(next2, q) \subseteq {} BY <3>1, ReachLeast
    <3> QED BY <3>2
  <2> QED BY <2>1, <2>2
<1>5. next[c] # c
  BY <1>1, <1>3, ReachClosed DEF ClosedFrom
<1>6. ASSUME NEW d \in R \ {c} PROVE d \notin Reach(next2, next2[d])
  <2>1. CASE d = b BY <1>4, <1>5, <2>1
  <2>2. CASE d # b
    <3>1. next2[d] = next[d] /\ next[d] # c BY <2>2
    <3> QED BY <1>4, <3>1
  <2> QED BY <2>1, <2>2
<1> QED BY <1>2, <1>6 DEF Acyclic

-----------------------------------------------------------------------------
(* The list functions of the code, field by field. *)

ListMemory ==
    [free_list_p : Pointers, connected_list_p : Pointers,
     pending_disconnect_list_p : Pointers, next_p : Links,
     prev_p : [Slots -> Pointers \cup {Uninit}], wild : BOOLEAN]

\* m is what alloc_client() makes of l; c is the client.
Allocated(l, c, m) ==
    /\ m \in ListMemory
    /\ m.free_list_p = l.next_p[c]
    /\ m.connected_list_p = c
    /\ m.pending_disconnect_list_p = l.pending_disconnect_list_p
    /\ m.next_p = [l.next_p EXCEPT ![c] = l.connected_list_p]
    /\ m.prev_p = IF l.connected_list_p = NULL THEN l.prev_p
                  ELSE [l.prev_p EXCEPT ![l.connected_list_p] = c]
    /\ m.wild = l.wild

\* What alloc_client() writes, field by field.
LEMMA AllocFields ==
    ASSUME NEW l \in ListMemory, l.free_list_p \in Slots
    PROVE  Allocated(l, l.free_list_p, alloc_client(l))
  BY PointerCases DEF Allocated, alloc_client, ListMemory, Links, Pointers

\* m is what remove_client_links() makes of l when it follows no wild pointer.
Removed(l, h, c, m) ==
    /\ m \in ListMemory
    /\ m.free_list_p = l.free_list_p
    /\ m.connected_list_p = l.connected_list_p
    /\ m.pending_disconnect_list_p = l.pending_disconnect_list_p
    /\ m.next_p = IF c = h THEN l.next_p
                  ELSE [l.next_p EXCEPT ![l.prev_p[c]] = l.next_p[c]]
    /\ m.prev_p = IF l.next_p[c] \in Slots
                  THEN [l.prev_p EXCEPT ![l.next_p[c]] = l.prev_p[c]]
                  ELSE l.prev_p
    /\ m.wild = l.wild

\* What remove_client_from_list() writes to the links of a client that has a
\* predecessor, and of one that has none.
LEMMA RemoveFields ==
    ASSUME NEW l \in ListMemory, NEW h \in Pointers, NEW c \in Slots,
           c = h \/ l.prev_p[c] \in Slots
    PROVE  Removed(l, h, c, remove_client_links(l, h, c))
  BY PointerCases DEF Removed, remove_client_links, ListMemory, Links

\* m is what push_free() makes of l.
PushedFree(l, c, m) ==
    /\ m \in ListMemory
    /\ m.free_list_p = c
    /\ m.connected_list_p = l.connected_list_p
    /\ m.pending_disconnect_list_p = l.pending_disconnect_list_p
    /\ m.next_p = [l.next_p EXCEPT ![c] = l.free_list_p]
    /\ m.prev_p = l.prev_p
    /\ m.wild = l.wild

\* What putting a client on the free list writes, field by field.
LEMMA PushFreeFields ==
    ASSUME NEW l \in ListMemory, NEW c \in Slots
    PROVE  PushedFree(l, c, push_free(l, c))
  BY PointerCases DEF PushedFree, push_free, ListMemory, Links, Pointers

-----------------------------------------------------------------------------
(* What the list functions do to the lists. *)

ConnectedOf(l) == Reach(l.next_p, l.connected_list_p)
PendingOf(l) == Reach(l.next_p, l.pending_disconnect_list_p)
FreeOf(l) == Reach(l.next_p, l.free_list_p)

\* The back links of the clients of S, except that of its first.
BackLinked(next, prev, S) ==
    \A c \in S : next[c] # NULL => prev[next[c]] = c

\* remove_client_from_list() on the connected list, with what it leaves
\* alone: the other lists, and what follows the client.
LEMMA RemoveConnected ==
    ASSUME NEW l \in ListMemory, NEW h, h = l.connected_list_p,
           Acyclic(l.next_p, ConnectedOf(l)),
           BackLinked(l.next_p, l.prev_p, ConnectedOf(l)),
           NEW c \in ConnectedOf(l),
           NEW m, m = remove_client_links(l, h, c),
           NEW k, k = remove_client_head(l, h, c)
    PROVE  /\ k \in Pointers
           /\ c # h => l.prev_p[c] \in Slots
           /\ \A d \in (Slots \ ConnectedOf(l)) \cup {c} :
                  m.next_p[d] = l.next_p[d]
           /\ Reach(m.next_p, k) = ConnectedOf(l) \ {c}
           /\ Acyclic(m.next_p, ConnectedOf(l) \ {c})
           /\ BackLinked(m.next_p, m.prev_p, ConnectedOf(l) \ {c})
           /\ Reach(m.next_p, l.next_p[c]) = Reach(l.next_p, l.next_p[c])
<1> DEFINE C == ConnectedOf(l)
           next == l.next_p
<1>1. /\ next \in Links /\ l.prev_p \in [Slots -> Pointers \cup {Uninit}]
      /\ h \in Pointers
  BY DEF ListMemory
<1>2. C \in SUBSET Slots /\ ClosedFrom(next, h, C)
  BY ReachClosed DEF ConnectedOf
<1>3. /\ c \in Slots /\ h \in Slots /\ h \in C
  <2>1. h # NULL BY ReachNull DEF ConnectedOf
  <2> QED BY <1>1, <1>2, <2>1, PointerCases DEF ClosedFrom
<1>4. c \notin Reach(next, next[c]) BY DEF Acyclic
<1>5. ASSUME NEW d \in C, NEW e \in C, next[d] = next[e], next[d] # NULL
      PROVE  d = e
  BY <1>5 DEF BackLinked
<1>6. CASE c = h
  <2> Removed(l, h, c, m)
    BY <1>1, <1>3, <1>6, RemoveFields
  <2>1. m.next_p = next
    BY <1>6 DEF Removed
  <2>2. m.prev_p = IF next[c] \in Slots
                   THEN [l.prev_p EXCEPT ![next[c]] = l.prev_p[c]]
                   ELSE l.prev_p
    BY DEF Removed
  <2>3. k = next[c] /\ k \in Pointers
    BY <1>1, <1>3, <1>6 DEF remove_client_head, Links
  <2>4. /\ Reach(next, next[c]) = C \ {c}
        /\ Acyclic(next, C \ {c})
    BY <1>3, <1>6, ListPop DEF ConnectedOf
  <2>5. BackLinked(m.next_p, m.prev_p, C \ {c})
    <3> SUFFICES ASSUME NEW d \in C \ {c}, next[d] # NULL
                 PROVE  m.prev_p[next[d]] = d
      BY <2>1 DEF BackLinked
    <3>1. next[d] # next[c] BY <1>5
    <3>2. l.prev_p[next[d]] = d BY DEF BackLinked
    <3>3. next[d] \in Slots BY <1>1, <1>2, PointerCases DEF Links
    <3> QED BY <1>1, <2>2, <3>1, <3>2, <3>3
  <2> QED BY <1>6, <2>1, <2>3, <2>4, <2>5
<1>7. CASE c # h
  <2>1. PICK b \in C : next[b] = c
    BY <1>7, ReachPredecessor DEF ConnectedOf
  <2>2. l.prev_p[c] = b /\ b \in Slots /\ b # c
    <3>1. c # NULL BY <1>3, PointerCases
    <3>2. b # c BY <1>3, <1>4, <2>1, ReachClosed DEF ClosedFrom
    <3> QED BY <1>2, <2>1, <3>1, <3>2 DEF BackLinked
  <2> Removed(l, h, c, m)
    BY <1>1, <1>3, <2>2, RemoveFields
  <2>3. m.next_p = [next EXCEPT ![b] = next[c]]
    BY <1>7, <2>2 DEF Removed
  <2>4. m.prev_p = IF next[c] \in Slots
                   THEN [l.prev_p EXCEPT ![next[c]] = b]
                   ELSE l.prev_p
    BY <2>2 DEF Removed
  <2>5. k = h BY <1>7 DEF remove_client_head
  <2>6. Bypass(next, m.next_p, h, b, c)
    <3>1. \A d \in C : next[d] = c => d = b
      BY <1>3, <1>5, <2>1, PointerCases
    <3>2. m.next_p[b] = next[c] BY <1>1, <2>2, <2>3 DEF Links
    <3>3. \A d \in C \ {b, c} : m.next_p[d] = next[d]
      BY <1>1, <1>2, <2>2, <2>3 DEF Links
    <3> QED BY <1>7, <2>1, <3>1, <3>2, <3>3 DEF Bypass, ConnectedOf
  <2>7. /\ Reach(m.next_p, h) = C \ {c}
        /\ Acyclic(m.next_p, C \ {c})
    <3>1. C = Reach(next, h) BY DEF ConnectedOf
    <3>2. Acyclic(next, Reach(next, h)) BY <3>1
    <3> HIDE DEF next
    <3>3. /\ Reach(m.next_p, h) = Reach(next, h) \ {c}
          /\ Acyclic(m.next_p, Reach(next, h) \ {c})
      BY ONLY <2>6, <3>2, ListUnlink
    <3> QED BY <3>1, <3>3
  <2>8. \A d \in Slots \ {b} : m.next_p[d] = next[d]
    BY <1>1, <2>3 DEF Links
  <2>9. b \notin Reach(next, next[c])
    <3> SUFFICES ASSUME b \in Reach(next, next[c]) PROVE FALSE
      OBVIOUS
    <3>1. c \in Reach(next, next[c])
      BY <1>3, <2>1, ReachClosed DEF ClosedFrom
    <3> QED BY <1>4, <3>1
  <2>10. Reach(m.next_p, next[c]) = Reach(next, next[c])
    <3>1. \A d \in Reach(next, next[c]) : m.next_p[d] = next[d]
      BY <2>8, <2>9, ReachClosed
    <3> QED BY <3>1, ReachAgree
  <2>11. BackLinked(m.next_p, m.prev_p, C \ {c})
    <3> SUFFICES ASSUME NEW d \in C \ {c}, m.next_p[d] # NULL
                 PROVE  m.prev_p[m.next_p[d]] = d
      BY DEF BackLinked
    <3>1. CASE d = b
      <4>1. m.next_p[d] = next[c] BY <1>1, <2>2, <2>3, <3>1 DEF Links
      <4>2. next[c] \in Slots BY <1>1, <1>3, <4>1, PointerCases DEF Links
      <4> QED BY <1>1, <2>4, <3>1, <4>1, <4>2
    <3>2. CASE d # b
      <4>1. m.next_p[d] = next[d] BY <1>2, <2>8, <3>2
      <4>2. next[d] # next[c] BY <1>5, <4>1
      <4>3. l.prev_p[next[d]] = d BY <4>1 DEF BackLinked
      <4>4. next[d] \in Slots BY <1>1, <1>2, <4>1, PointerCases DEF Links
      <4> QED BY <1>1, <2>4, <4>1, <4>2, <4>3, <4>4
    <3> QED BY <3>1, <3>2
  <2>12. \A d \in (Slots \ C) \cup {c} : m.next_p[d] = next[d]
    BY <1>3, <2>1, <2>2, <2>8
  <2> QED
    BY <1>1, <2>2, <2>5, <2>7, <2>10, <2>11, <2>12
<1> QED BY <1>6, <1>7

-----------------------------------------------------------------------------
(* The three lists together. *)

\* Every slot is on exactly one list, no list has a cycle, and the back links
\* of the connected list are right.
WellLinked(l) ==
    /\ l \in ListMemory
    /\ ConnectedOf(l) \cup PendingOf(l) \cup FreeOf(l) = Slots
    /\ ConnectedOf(l) \cap (PendingOf(l) \cup FreeOf(l)) = {}
    /\ PendingOf(l) \cap FreeOf(l) = {}
    /\ Acyclic(l.next_p, ConnectedOf(l))
    /\ Acyclic(l.next_p, PendingOf(l))
    /\ Acyclic(l.next_p, FreeOf(l))
    /\ BackLinked(l.next_p, l.prev_p, ConnectedOf(l))
    /\ l.wild = FALSE

\* What a well linked memory says of the heads and of the three sets.
LEMMA WellLinkedTypes ==
    ASSUME NEW l, WellLinked(l)
    PROVE  /\ l.next_p \in Links
           /\ l.prev_p \in [Slots -> Pointers \cup {Uninit}]
           /\ l.connected_list_p \in Pointers
           /\ l.pending_disconnect_list_p \in Pointers
           /\ l.free_list_p \in Pointers
           /\ ConnectedOf(l) \in SUBSET Slots
           /\ PendingOf(l) \in SUBSET Slots
           /\ FreeOf(l) \in SUBSET Slots
<1>1. l \in ListMemory BY DEF WellLinked
<1> QED
  BY <1>1, ReachClosed DEF ListMemory, ConnectedOf, PendingOf, FreeOf

\* alloc_client() moves the first free client to the connected list.
LEMMA AllocLists ==
    ASSUME NEW l, WellLinked(l), NEW c, c = l.free_list_p, c # NULL,
           NEW m, m = alloc_client(l)
    PROVE  /\ WellLinked(m)
           /\ c \in FreeOf(l)
           /\ ConnectedOf(m) = ConnectedOf(l) \cup {c}
           /\ PendingOf(m) = PendingOf(l)
           /\ FreeOf(m) = FreeOf(l) \ {c}
<1>1. l \in ListMemory BY DEF WellLinked
<1>2. c \in Slots BY WellLinkedTypes, PointerCases
<1>3. Allocated(l, c, m) BY <1>1, <1>2, AllocFields
<1> DEFINE next == l.next_p
           next2 == m.next_p
           old == l.connected_list_p
           C == ConnectedOf(l)
           P == PendingOf(l)
           F == FreeOf(l)
<1>4. C = Reach(next, old) /\ F = Reach(next, c) BY DEF ConnectedOf, FreeOf
<1>5. P = Reach(next, l.pending_disconnect_list_p) BY DEF PendingOf
<1>6. c \in F BY <1>2, <1>4, ReachClosed DEF ClosedFrom
<1>7. c \notin C /\ c \notin P BY <1>6 DEF WellLinked
<1>8. next2[c] = old /\ \A d \in Slots \ {c} : next2[d] = next[d]
  BY <1>2, <1>3, WellLinkedTypes DEF Allocated, Links
<1>9. Acyclic(next, C) /\ Acyclic(next, P) /\ Acyclic(next, F)
  BY DEF WellLinked
<1>10. C \in SUBSET Slots /\ P \in SUBSET Slots /\ F \in SUBSET Slots
  BY WellLinkedTypes
<1>11. /\ m.connected_list_p = c
       /\ m.pending_disconnect_list_p = l.pending_disconnect_list_p
       /\ m.free_list_p = next[c]
  BY <1>3 DEF Allocated
<1>12. Reach(next2, c) = C \cup {c} /\ Acyclic(next2, C \cup {c})
  <2>1. c \in Slots \ Reach(next, old) BY <1>2, <1>4, <1>7
  <2>2. \A d \in Reach(next, old) : next2[d] = next[d]
    BY <1>4, <1>7, <1>8, <1>10
  <2>3. Acyclic(next, Reach(next, old)) BY <1>4, <1>9
  <2> HIDE DEF next, next2, old
  <2>4. /\ Reach(next2, c) = Reach(next, old) \cup {c}
        /\ Acyclic(next2, Reach(next, old) \cup {c})
    BY ONLY <1>8, <2>1, <2>2, <2>3, ListPush
  <2> QED BY <1>4, <2>4
<1>13. /\ Reach(next2, l.pending_disconnect_list_p) = P
       /\ Acyclic(next2, P)
  <2> DEFINE p == l.pending_disconnect_list_p
  <2>1. \A d \in Reach(next, p) : next2[d] = next[d]
    BY <1>5, <1>7, <1>8, <1>10
  <2>2. Acyclic(next, Reach(next, p)) BY <1>5, <1>9
  <2> HIDE DEF next, next2, p
  <2>3. Reach(next2, p) = Reach(next, p) /\ Acyclic(next2, Reach(next, p))
    BY ONLY <2>1, <2>2, ListUntouched
  <2> QED BY <1>5, <2>3 DEF p
<1>14. Reach(next2, next[c]) = F \ {c} /\ Acyclic(next2, F \ {c})
  <2> DEFINE p == next[c]
  <2>1. Acyclic(next, Reach(next, c)) BY <1>4, <1>9
  <2>2. Reach(next, next[c]) = F \ {c} /\ Acyclic(next, F \ {c})
    BY <1>2, <1>4, <2>1, ListPop
  <2>3. \A d \in Reach(next, p) : next2[d] = next[d]
    BY <1>8, <1>10, <2>2
  <2>4. Acyclic(next, Reach(next, p)) BY <2>2
  <2> HIDE DEF next, next2, p
  <2>5. Reach(next2, p) = Reach(next, p) /\ Acyclic(next2, Reach(next, p))
    BY ONLY <2>3, <2>4, ListUntouched
  <2> QED BY <2>2, <2>5 DEF p
<1>15. /\ ConnectedOf(m) = C \cup {c}
       /\ PendingOf(m) = P
       /\ FreeOf(m) = F \ {c}
  BY <1>11, <1>12, <1>13, <1>14 DEF ConnectedOf, PendingOf, FreeOf
<1>16. BackLinked(next2, m.prev_p, C \cup {c})
  <2> SUFFICES ASSUME NEW d \in C \cup {c}, next2[d] # NULL
               PROVE  m.prev_p[next2[d]] = d
    BY DEF BackLinked
  <2>1. m.prev_p = IF old = NULL THEN l.prev_p
                   ELSE [l.prev_p EXCEPT ![old] = c]
    BY <1>3 DEF Allocated
  <2>2. CASE d = c
    <3>1. old # NULL /\ old \in Slots
      BY <1>8, <2>2, WellLinkedTypes, PointerCases
    <3> QED BY <1>8, <2>1, <2>2, <3>1, WellLinkedTypes
  <2>3. CASE d # c
    <3>1. d \in C /\ next2[d] = next[d] BY <1>8, <1>10, <2>3
    <3>2. l.prev_p[next[d]] = d BY <3>1 DEF WellLinked, BackLinked
    <3>3. next[d] # old
      <4> SUFFICES ASSUME next[d] = old PROVE FALSE
        OBVIOUS
      <4>1. d \in Reach(next, next[d]) BY <1>4, <3>1
      <4> QED BY <1>9, <3>1, <4>1 DEF Acyclic
    <3>4. next[d] \in Slots
      BY <1>10, <3>1, WellLinkedTypes, PointerCases DEF Links
    <3> QED BY <2>1, <3>1, <3>2, <3>3, <3>4, WellLinkedTypes
  <2> QED BY <2>2, <2>3
<1>17. WellLinked(m)
  <2>1. m \in ListMemory /\ m.wild = l.wild BY <1>3 DEF Allocated
  <2> QED
    BY <1>6, <1>10, <1>12, <1>13, <1>14, <1>15, <1>16, <2>1 DEF WellLinked
<1> QED BY <1>6, <1>15, <1>17

\* move_client_to_pending_disconnect_list() does what its name says, wherever
\* in the connected list the client is, and leaves what follows it alone.
LEMMA MoveLists ==
    ASSUME NEW l, WellLinked(l), NEW c \in ConnectedOf(l),
           NEW m, m = move_client_to_pending_disconnect_list(l, c)
    PROVE  /\ WellLinked(m)
           /\ ConnectedOf(m) = ConnectedOf(l) \ {c}
           /\ PendingOf(m) = PendingOf(l) \cup {c}
           /\ FreeOf(m) = FreeOf(l)
           /\ Reach(m.next_p, l.next_p[c]) = Reach(l.next_p, l.next_p[c])
           /\ Reach(l.next_p, c) = Reach(l.next_p, l.next_p[c]) \cup {c}
           /\ c \notin Reach(l.next_p, l.next_p[c])
<1> DEFINE h == l.connected_list_p
           p == l.pending_disconnect_list_p
           r == remove_client_links(l, h, c)
           k == remove_client_head(l, h, c)
           next == l.next_p
           next1 == r.next_p
           next2 == m.next_p
           C == ConnectedOf(l)
           P == PendingOf(l)
           F == FreeOf(l)
<1>1. /\ l \in ListMemory /\ Acyclic(next, C)
      /\ BackLinked(next, l.prev_p, C)
      /\ Acyclic(next, P) /\ Acyclic(next, F)
  BY DEF WellLinked
<1>2. C \in SUBSET Slots /\ P \in SUBSET Slots /\ F \in SUBSET Slots
  BY WellLinkedTypes
<1>3. c \in Slots /\ c \notin P /\ c \notin F /\ C \cap (P \cup F) = {}
  BY <1>2 DEF WellLinked
<1>4. /\ k \in Pointers
      /\ c # h => l.prev_p[c] \in Slots
      /\ \A d \in (Slots \ C) \cup {c} : next1[d] = next[d]
      /\ Reach(next1, k) = C \ {c}
      /\ Acyclic(next1, C \ {c})
      /\ BackLinked(next1, r.prev_p, C \ {c})
      /\ Reach(next1, next[c]) = Reach(next, next[c])
  <2> HIDE DEF h, r, k
  <2>1. h = l.connected_list_p BY DEF h
  <2>2. r = remove_client_links(l, h, c) BY DEF r
  <2>3. k = remove_client_head(l, h, c) BY DEF k
  <2>4. /\ l \in ListMemory /\ Acyclic(l.next_p, ConnectedOf(l))
        /\ BackLinked(l.next_p, l.prev_p, ConnectedOf(l))
    BY <1>1
  <2>5. /\ k \in Pointers
        /\ c # h => l.prev_p[c] \in Slots
        /\ \A d \in (Slots \ ConnectedOf(l)) \cup {c} :
               r.next_p[d] = l.next_p[d]
        /\ Reach(r.next_p, k) = ConnectedOf(l) \ {c}
        /\ Acyclic(r.next_p, ConnectedOf(l) \ {c})
        /\ BackLinked(r.next_p, r.prev_p, ConnectedOf(l) \ {c})
        /\ Reach(r.next_p, l.next_p[c]) = Reach(l.next_p, l.next_p[c])
    BY ONLY <2>1, <2>2, <2>3, <2>4, c \in ConnectedOf(l), RemoveConnected
  <2> QED BY <2>5
<1>5. Removed(l, h, c, r)
  BY <1>1, <1>3, <1>4, RemoveFields, WellLinkedTypes
<1>6. /\ m \in ListMemory
      /\ m.connected_list_p = k
      /\ m.pending_disconnect_list_p = c
      /\ m.free_list_p = l.free_list_p
      /\ m.prev_p = r.prev_p
      /\ m.wild = l.wild
      /\ next2 = [next1 EXCEPT ![c] = p]
  <2> HIDE DEF r, k
  <2>1. m = [[r EXCEPT !.connected_list_p = k] EXCEPT
                 !.next_p[c] = p, !.pending_disconnect_list_p = c]
    BY DEF move_client_to_pending_disconnect_list, r, k
  <2>2. r \in ListMemory /\ r.wild = l.wild /\ r.free_list_p = l.free_list_p
    BY <1>5 DEF Removed
  <2>3. p \in Pointers BY WellLinkedTypes
  <2>4. k \in Pointers /\ c \in Pointers BY <1>3, <1>4 DEF Pointers
  <2> HIDE DEF p
  <2> QED BY ONLY <1>3, <2>1, <2>2, <2>3, <2>4 DEF ListMemory, Links, next1, next2
<1>7. next1 \in Links BY <1>5 DEF Removed, ListMemory
<1>8. next2[c] = p /\ \A d \in Slots \ {c} : next2[d] = next1[d]
  BY <1>3, <1>6, <1>7 DEF Links
<1>9. Reach(next2, k) = C \ {c} /\ Acyclic(next2, C \ {c})
  <2>1. \A d \in Reach(next1, k) : next2[d] = next1[d]
    BY <1>2, <1>4, <1>8
  <2>2. Acyclic(next1, Reach(next1, k)) BY <1>4
  <2> HIDE DEF next1, next2, k
  <2>3. Reach(next2, k) = Reach(next1, k) /\ Acyclic(next2, Reach(next1, k))
    BY ONLY <2>1, <2>2, ListUntouched
  <2> QED BY <1>4, <2>3
<1>10. Reach(next2, c) = P \cup {c} /\ Acyclic(next2, P \cup {c})
  <2>1. P = Reach(next, p) BY DEF PendingOf
  <2>2. \A d \in Reach(next, p) : next2[d] = next[d]
    BY <1>2, <1>3, <1>4, <1>8, <2>1
  <2>3. c \in Slots \ Reach(next, p) BY <1>3, <2>1
  <2>4. Acyclic(next, Reach(next, p)) BY <1>1, <2>1
  <2> HIDE DEF next, next2, p
  <2>5. /\ Reach(next2, c) = Reach(next, p) \cup {c}
        /\ Acyclic(next2, Reach(next, p) \cup {c})
    BY ONLY <1>8, <2>2, <2>3, <2>4, ListPush
  <2> QED BY <2>1, <2>5
<1>11. Reach(next2, l.free_list_p) = F /\ Acyclic(next2, F)
  <2> DEFINE f == l.free_list_p
  <2>1. F = Reach(next, f) BY DEF FreeOf
  <2>2. \A d \in Reach(next, f) : next2[d] = next[d]
    BY <1>2, <1>3, <1>4, <1>8, <2>1
  <2>3. Acyclic(next, Reach(next, f)) BY <1>1, <2>1
  <2> HIDE DEF next, next2, f
  <2>4. Reach(next2, f) = Reach(next, f) /\ Acyclic(next2, Reach(next, f))
    BY ONLY <2>2, <2>3, ListUntouched
  <2> QED BY <2>1, <2>4 DEF f
<1>12. /\ ConnectedOf(m) = C \ {c}
       /\ PendingOf(m) = P \cup {c}
       /\ FreeOf(m) = F
  BY <1>6, <1>9, <1>10, <1>11 DEF ConnectedOf, PendingOf, FreeOf
<1>13. BackLinked(next2, m.prev_p, C \ {c})
  BY <1>2, <1>4, <1>6, <1>8 DEF BackLinked
<1>14. WellLinked(m)
  <2>1. (C \ {c}) \cup (P \cup {c}) \cup F = Slots
    BY DEF WellLinked
  <2>2. /\ (C \ {c}) \cap ((P \cup {c}) \cup F) = {}
        /\ (P \cup {c}) \cap F = {}
    BY <1>3 DEF WellLinked
  <2>3. m \in ListMemory /\ m.wild = FALSE BY <1>6 DEF WellLinked
  <2>4. /\ Acyclic(m.next_p, C \ {c})
        /\ Acyclic(m.next_p, P \cup {c})
        /\ Acyclic(m.next_p, F)
    BY <1>9, <1>10, <1>11
  <2> QED BY <1>12, <1>13, <2>1, <2>2, <2>3, <2>4 DEF WellLinked
<1>15. c \notin Reach(next, next[c]) BY <1>1 DEF Acyclic
<1>16. Reach(next2, next[c]) = Reach(next, next[c])
  <2> DEFINE q == next[c]
  <2>1. Reach(next1, q) = Reach(next, q) BY <1>4
  <2>2. Reach(next, q) \in SUBSET Slots BY ReachClosed
  <2>3. \A d \in Reach(next1, q) : next2[d] = next1[d]
    BY <1>8, <1>15, <2>1, <2>2
  <2> HIDE DEF next, next1, next2, q
  <2>4. Reach(next2, q) = Reach(next1, q) BY ONLY <2>3, ReachAgree
  <2> QED BY <2>1, <2>4 DEF q
<1>17. Reach(next, c) = Reach(next, next[c]) \cup {c}
  BY <1>3, ReachStep
<1> QED BY <1>12, <1>14, <1>15, <1>16, <1>17

\* m is what free_pending_disconnect_client() makes of l for the first pending
\* client.
PendingFreed(l, c, m) ==
    /\ m \in ListMemory
    /\ m.connected_list_p = l.connected_list_p
    /\ m.pending_disconnect_list_p = l.next_p[c]
    /\ m.free_list_p = c
    /\ m.wild = l.wild
    /\ m.prev_p = remove_client_links(l, c, c).prev_p
    /\ m.next_p = [l.next_p EXCEPT ![c] = l.free_list_p]
    /\ c \in PendingOf(l)
    /\ PendingOf(m) = PendingOf(l) \ {c}
    /\ Acyclic(m.next_p, PendingOf(l) \ {c})

\* free_pending_disconnect_client() of the first pending client, the one the
\* loop of destroy_pending_disconnect_clients() is at, takes it off the
\* pending list, whatever the other lists are.
LEMMA FreePendingPops ==
    ASSUME NEW l \in ListMemory, Acyclic(l.next_p, PendingOf(l)),
           NEW c, c = l.pending_disconnect_list_p, c # NULL,
           NEW m, m = free_pending_disconnect_client(l, c)
    PROVE  PendingFreed(l, c, m)
<1> DEFINE r == remove_client_links(l, c, c)
           next == l.next_p
           next2 == m.next_p
           f == l.free_list_p
           P == PendingOf(l)
<1>1. next \in Links /\ c \in Slots BY PointerCases DEF ListMemory
<1>2. P = Reach(next, c) BY DEF PendingOf
<1>3. c \in P /\ P \in SUBSET Slots BY <1>1, <1>2, ReachClosed DEF ClosedFrom
<1>4. Removed(l, c, c, r) BY <1>1, RemoveFields DEF Pointers
<1>5. /\ m \in ListMemory
      /\ m.connected_list_p = l.connected_list_p
      /\ m.pending_disconnect_list_p = next[c]
      /\ m.free_list_p = c
      /\ m.wild = l.wild
      /\ m.prev_p = r.prev_p
      /\ next2 = [next EXCEPT ![c] = f]
  <2> HIDE DEF r
  <2> DEFINE q == [r EXCEPT !.pending_disconnect_list_p = l.next_p[c]]
  <2>1. m = push_free(q, c)
    BY DEF free_pending_disconnect_client, remove_client_head, r
  <2>2. /\ r \in ListMemory /\ r.wild = l.wild /\ r.free_list_p = f
        /\ r.connected_list_p = l.connected_list_p /\ r.next_p = next
    BY <1>4 DEF Removed
  <2>3. next[c] \in Pointers BY <1>1 DEF Links
  <2>4. /\ q \in ListMemory /\ q.wild = l.wild /\ q.free_list_p = f
        /\ q.connected_list_p = l.connected_list_p
        /\ q.next_p = next /\ q.prev_p = r.prev_p
        /\ q.pending_disconnect_list_p = next[c]
    BY ONLY <2>2, <2>3 DEF ListMemory, q, next
  <2> HIDE DEF q
  <2>5. PushedFree(q, c, m) BY <1>1, <2>1, <2>4, PushFreeFields
  <2> QED BY <2>4, <2>5 DEF PushedFree
<1>6. \A d \in Slots \ {c} : next2[d] = next[d] BY <1>1, <1>5 DEF Links
<1>7. Reach(next2, next[c]) = P \ {c} /\ Acyclic(next2, P \ {c})
  <2> DEFINE q == next[c]
  <2>1. Acyclic(next, Reach(next, c)) BY <1>2
  <2>2. Reach(next, next[c]) = P \ {c} /\ Acyclic(next, P \ {c})
    BY <1>1, <1>2, <2>1, ListPop
  <2>3. \A d \in Reach(next, q) : next2[d] = next[d]
    BY <1>3, <1>6, <2>2
  <2>4. Acyclic(next, Reach(next, q)) BY <2>2
  <2> HIDE DEF next, next2, q
  <2>5. Reach(next2, q) = Reach(next, q) /\ Acyclic(next2, Reach(next, q))
    BY ONLY <2>3, <2>4, ListUntouched
  <2> QED BY <2>2, <2>5 DEF q
<1>8. PendingOf(m) = P \ {c} BY <1>5, <1>7 DEF PendingOf
<1> QED BY <1>3, <1>5, <1>7, <1>8 DEF PendingFreed

\* free_pending_disconnect_client() of the first pending client keeps the
\* three lists in order.
LEMMA FreePendingLists ==
    ASSUME NEW l, WellLinked(l), NEW c, c = l.pending_disconnect_list_p,
           c # NULL, NEW m, m = free_pending_disconnect_client(l, c)
    PROVE  /\ WellLinked(m)
           /\ c \in PendingOf(l)
           /\ ConnectedOf(m) = ConnectedOf(l)
           /\ PendingOf(m) = PendingOf(l) \ {c}
           /\ FreeOf(m) = FreeOf(l) \cup {c}
           /\ m.pending_disconnect_list_p = l.next_p[c]
<1> DEFINE r == remove_client_links(l, c, c)
           next == l.next_p
           next2 == m.next_p
           h == l.connected_list_p
           f == l.free_list_p
           C == ConnectedOf(l)
           P == PendingOf(l)
           F == FreeOf(l)
<1>1. /\ l \in ListMemory /\ Acyclic(next, C)
      /\ BackLinked(next, l.prev_p, C)
      /\ Acyclic(next, P) /\ Acyclic(next, F)
  BY DEF WellLinked
<1>2. /\ C \in SUBSET Slots /\ P \in SUBSET Slots /\ F \in SUBSET Slots
      /\ next \in Links
  BY WellLinkedTypes
<1>3. c \in Slots BY WellLinkedTypes, PointerCases
<1>4. C = Reach(next, h) /\ P = Reach(next, c) /\ F = Reach(next, f)
  BY DEF ConnectedOf, PendingOf, FreeOf
<1>5. c \in P /\ c \notin C /\ c \notin F
  BY <1>3, <1>4, ReachClosed DEF ClosedFrom, WellLinked
<1>6. Removed(l, c, c, r)
  BY <1>1, <1>3, RemoveFields DEF Pointers
<1>7. PendingFreed(l, c, m) BY <1>1, FreePendingPops
<1>8. next2[c] = f /\ \A d \in Slots \ {c} : next2[d] = next[d]
  BY <1>2, <1>3, <1>7 DEF Links, PendingFreed
<1>9. Reach(next2, h) = C /\ Acyclic(next2, C)
  <2>1. \A d \in Reach(next, h) : next2[d] = next[d]
    BY <1>2, <1>4, <1>5, <1>8
  <2>2. Acyclic(next, Reach(next, h)) BY <1>1, <1>4
  <2> HIDE DEF next, next2, h
  <2>3. Reach(next2, h) = Reach(next, h) /\ Acyclic(next2, Reach(next, h))
    BY ONLY <2>1, <2>2, ListUntouched
  <2> QED BY <1>4, <2>3
<1>10. Reach(next2, c) = F \cup {c} /\ Acyclic(next2, F \cup {c})
  <2>1. \A d \in Reach(next, f) : next2[d] = next[d]
    BY <1>2, <1>4, <1>5, <1>8
  <2>2. c \in Slots \ Reach(next, f) BY <1>3, <1>4, <1>5
  <2>3. Acyclic(next, Reach(next, f)) BY <1>1, <1>4
  <2> HIDE DEF next, next2, f
  <2>4. /\ Reach(next2, c) = Reach(next, f) \cup {c}
        /\ Acyclic(next2, Reach(next, f) \cup {c})
    BY ONLY <1>8, <2>1, <2>2, <2>3, ListPush
  <2> QED BY <1>4, <2>4
<1>12. /\ ConnectedOf(m) = C
       /\ PendingOf(m) = P \ {c}
       /\ FreeOf(m) = F \cup {c}
  BY <1>7, <1>9, <1>10 DEF ConnectedOf, FreeOf, PendingFreed
<1>13. BackLinked(next2, m.prev_p, C)
  <2> SUFFICES ASSUME NEW d \in C, next2[d] # NULL
               PROVE  m.prev_p[next2[d]] = d
    BY DEF BackLinked
  <2>1. next2[d] = next[d] BY <1>2, <1>5, <1>8
  <2>2. l.prev_p[next[d]] = d BY <1>1, <2>1 DEF BackLinked
  <2>3. next[d] \in Slots /\ next[d] \in C
    BY <1>2, <1>4, <2>1, PointerCases, ReachClosed DEF Links, ClosedFrom
  <2>4. next[c] \in Slots => next[c] \in P
    BY <1>4, <1>5, ReachClosed DEF ClosedFrom
  <2>5. next[d] # next[c] BY <2>3, <2>4 DEF WellLinked
  <2>6. m.prev_p = IF next[c] \in Slots
                   THEN [l.prev_p EXCEPT ![next[c]] = l.prev_p[c]]
                   ELSE l.prev_p
    BY <1>6, <1>7 DEF Removed, PendingFreed
  <2> QED BY <2>1, <2>2, <2>3, <2>5, <2>6, WellLinkedTypes
<1>14. WellLinked(m)
  <2>1. C \cup (P \ {c}) \cup (F \cup {c}) = Slots
    BY <1>3 DEF WellLinked
  <2>2. /\ C \cap ((P \ {c}) \cup (F \cup {c})) = {}
        /\ (P \ {c}) \cap (F \cup {c}) = {}
    BY <1>5 DEF WellLinked
  <2>3. m \in ListMemory /\ m.wild = FALSE BY <1>7 DEF WellLinked, PendingFreed
  <2>4. /\ Acyclic(m.next_p, C)
        /\ Acyclic(m.next_p, P \ {c})
        /\ Acyclic(m.next_p, F \cup {c})
    BY <1>7, <1>9, <1>10 DEF PendingFreed
  <2> QED BY <1>12, <1>13, <2>1, <2>2, <2>3, <2>4 DEF WellLinked
<1> QED BY <1>5, <1>7, <1>12, <1>14 DEF PendingFreed

\* A failed client_init() leaves the three lists as they were.
LEMMA InitFailsLists ==
    ASSUME NEW l, WellLinked(l), NEW c, c = l.free_list_p, c # NULL,
           NEW m, m = free_connected_client(alloc_client(l), c)
    PROVE  /\ WellLinked(m)
           /\ ConnectedOf(m) = ConnectedOf(l)
           /\ PendingOf(m) = PendingOf(l)
           /\ FreeOf(m) = FreeOf(l)
           /\ c \in FreeOf(l)
           /\ m.pending_disconnect_list_p = l.pending_disconnect_list_p
<1> DEFINE a == alloc_client(l)
           r == remove_client_links(a, c, c)
           next == l.next_p
           h == l.connected_list_p
           C == ConnectedOf(l)
<1>1. /\ l \in ListMemory /\ Acyclic(next, C)
      /\ BackLinked(next, l.prev_p, C)
  BY DEF WellLinked
<1>2. next \in Links /\ l.free_list_p \in Pointers /\ h \in Pointers
  BY WellLinkedTypes
<1>3. c \in Slots BY <1>2, PointerCases
<1>4. Allocated(l, c, a) BY <1>1, <1>3, AllocFields
<1>5. Removed(a, c, c, r)
  BY <1>3, <1>4, RemoveFields DEF Pointers, Allocated
<1> HIDE DEF a, r
<1>6. a.next_p[c] = h /\ a.free_list_p = next[c] /\ a.connected_list_p = c
  BY <1>2, <1>3, <1>4 DEF Allocated, Links
<1>7. c \in FreeOf(l) /\ c \notin C
  BY <1>3, ReachClosed DEF WellLinked, FreeOf, ClosedFrom
<1>8. /\ m \in ListMemory
      /\ m.connected_list_p = h
      /\ m.pending_disconnect_list_p = l.pending_disconnect_list_p
      /\ m.free_list_p = c
      /\ m.wild = l.wild
      /\ m.prev_p = r.prev_p
      /\ m.next_p = next
  <2> DEFINE q == [r EXCEPT !.connected_list_p = a.next_p[c]]
  <2>1. m = push_free(q, c)
    BY <1>6 DEF free_connected_client, remove_client_head, a, r
  <2>2. /\ r \in ListMemory /\ r.wild = l.wild /\ r.free_list_p = next[c]
        /\ r.pending_disconnect_list_p = l.pending_disconnect_list_p
        /\ r.next_p = a.next_p
    BY <1>4, <1>5, <1>6 DEF Removed, Allocated
  <2>3. a.next_p[c] \in Pointers BY <1>2, <1>6
  <2>4. /\ q \in ListMemory /\ q.wild = r.wild
        /\ q.free_list_p = r.free_list_p
        /\ q.connected_list_p = a.next_p[c] /\ q.next_p = r.next_p
        /\ q.prev_p = r.prev_p
        /\ q.pending_disconnect_list_p = r.pending_disconnect_list_p
    BY ONLY <2>2, <2>3 DEF ListMemory, q
  <2> HIDE DEF q
  <2>5. PushedFree(q, c, m) BY <1>3, <2>1, <2>4, PushFreeFields
  <2>6. m.next_p = [a.next_p EXCEPT ![c] = next[c]]
    BY <2>2, <2>4, <2>5 DEF PushedFree
  <2>7. a.next_p = [next EXCEPT ![c] = h] BY <1>4 DEF Allocated
  <2>8. m.next_p = next BY <1>2, <1>3, <2>6, <2>7 DEF Links
  <2> QED BY <1>6, <2>2, <2>4, <2>5, <2>8 DEF PushedFree
<1>9. /\ ConnectedOf(m) = ConnectedOf(l)
      /\ PendingOf(m) = PendingOf(l)
      /\ FreeOf(m) = FreeOf(l)
  BY <1>8 DEF ConnectedOf, PendingOf, FreeOf
<1>10. BackLinked(next, m.prev_p, C)
  <2> SUFFICES ASSUME NEW d \in C, next[d] # NULL
               PROVE  m.prev_p[next[d]] = d
    BY DEF BackLinked
  <2>1. l.prev_p[next[d]] = d BY <1>1 DEF BackLinked
  <2>2. d \in Slots BY WellLinkedTypes
  <2>3. next[d] \in Slots BY <1>2, <2>2, PointerCases DEF Links
  <2>4. next[d] # h
    <3> SUFFICES ASSUME next[d] = h PROVE FALSE
      OBVIOUS
    <3>1. d \in Reach(next, next[d]) BY DEF ConnectedOf
    <3> QED BY <1>1, <3>1 DEF Acyclic
  <2>5. a.prev_p[next[d]] = d
    BY <1>4, <2>1, <2>3, <2>4, WellLinkedTypes DEF Allocated
  <2>6. a.prev_p \in [Slots -> Pointers \cup {Uninit}]
    BY <1>4 DEF Allocated, ListMemory
  <2>7. r.prev_p = IF h \in Slots THEN [a.prev_p EXCEPT ![h] = a.prev_p[c]]
                   ELSE a.prev_p
    BY <1>5, <1>6 DEF Removed
  <2> QED BY <1>8, <2>3, <2>4, <2>5, <2>6, <2>7
<1>11. WellLinked(m)
  BY <1>8, <1>9, <1>10 DEF WellLinked
<1> QED BY <1>7, <1>8, <1>9, <1>11

\* init() puts every slot on the free list: a closed set that lacks a slot
\* lacks a first one, whose predecessor leads to it.
LEMMA InitLists ==
    ASSUME Init
    PROVE  /\ WellLinked(lists)
           /\ ConnectedOf(lists) = {}
           /\ PendingOf(lists) = {}
<1> DEFINE next == lists.next_p
<1>1. /\ lists.free_list_p = 1 /\ lists.connected_list_p = NULL
      /\ lists.pending_disconnect_list_p = NULL /\ lists.wild = FALSE
      /\ next = [c \in Slots |-> IF c = ClientsMax THEN NULL ELSE c + 1]
      /\ lists.prev_p = [c \in Slots |-> Uninit]
  BY DEF Init
<1>2. 1 \in Slots /\ Slots \in SUBSET Nat BY ClientsMaxAssumption DEF Slots
<1>3. lists \in ListMemory
  <2>1. next \in Links
    BY <1>1, ClientsMaxAssumption DEF Links, Slots, Pointers, NULL
  <2> QED BY <1>2, <2>1 DEF Init, ListMemory, Pointers
<1>4. ConnectedOf(lists) = {} /\ PendingOf(lists) = {}
  BY <1>1, ReachNull DEF ConnectedOf, PendingOf
<1>5. FreeOf(lists) = Slots
  <2> DEFINE F == Reach(next, 1)
  <2>1. F \in SUBSET Slots /\ ClosedFrom(next, 1, F) BY ReachClosed
  <2>2. ASSUME Slots \ F # {} PROVE FALSE
    <3>1. PICK x \in Slots \ F : \A y \in Slots \ F : x <= y
      BY <1>2, <2>2, LeastNatural
    <3>2. x # 1 BY <1>2, <2>1 DEF ClosedFrom
    <3>3. x - 1 \in Slots /\ x - 1 # ClientsMax /\ x = (x - 1) + 1
      BY <3>1, <3>2, ClientsMaxAssumption DEF Slots
    <3>4. x - 1 \in F BY <1>2, <3>1, <3>3
    <3>5. next[x - 1] = x BY <1>1, <3>3
    <3> QED BY <2>1, <3>1, <3>4, <3>5 DEF ClosedFrom
  <2> QED BY <1>1, <2>1, <2>2 DEF FreeOf
<1>6. Acyclic(next, Slots)
  <2> SUFFICES ASSUME NEW c \in Slots PROVE c \notin Reach(next, next[c])
    BY DEF Acyclic
  <2> DEFINE S == {d \in Slots : d > c}
  <2>1. ClosedFrom(next, next[c], S)
    <3>1. \A d \in Slots : next[d] \in Slots => next[d] > d
      BY <1>1, ClientsMaxAssumption DEF Slots, NULL
    <3>2. ASSUME NEW d \in Slots, d = c \/ d > c, next[d] \in Slots
          PROVE  next[d] \in S
      <4>1. next[d] > d BY <3>1, <3>2
      <4>2. c \in Nat /\ d \in Nat /\ next[d] \in Nat BY <1>2, <3>2
      <4> HIDE DEF next
      <4>3. next[d] > c BY <3>2, <4>1, <4>2
      <4> QED BY <3>2, <4>3
    <3> HIDE DEF next
    <3> QED BY <3>2 DEF ClosedFrom
  <2>2. Reach(next, next[c]) \subseteq S BY <2>1, ReachLeast
  <2> QED BY <1>2, <2>2
<1>7. WellLinked(lists)
  BY <1>1, <1>3, <1>4, <1>5, <1>6 DEF WellLinked, Acyclic, BackLinked
<1> QED BY <1>4, <1>7

\* One round of the loop of stop(), which walks the list from c on while it
\* puts its clients on the free list, and does not touch the pending list.
LEMMA StopLists ==
    ASSUME NEW l \in ListMemory, NEW c \in Slots,
           Acyclic(l.next_p, Reach(l.next_p, c)),
           Reach(l.next_p, c) \cap PendingOf(l) = {},
           NEW m, m = push_free(l, c)
    PROVE  /\ m \in ListMemory
           /\ m.wild = l.wild
           /\ PendingOf(m) = PendingOf(l)
           /\ Reach(m.next_p, l.next_p[c]) = Reach(l.next_p, c) \ {c}
           /\ Acyclic(m.next_p, Reach(l.next_p, c) \ {c})
<1> DEFINE next == l.next_p
           next2 == m.next_p
           p == l.pending_disconnect_list_p
           q == next[c]
           R == Reach(next, c)
<1>1. PushedFree(l, c, m) BY PushFreeFields
<1>2. next \in Links BY DEF ListMemory
<1>3. \A d \in Slots \ {c} : next2[d] = next[d]
  BY <1>1, <1>2 DEF PushedFree, Links
<1>4. c \in R /\ R \in SUBSET Slots BY ReachClosed DEF ClosedFrom
<1>5. Reach(next, q) = R \ {c} /\ Acyclic(next, R \ {c}) BY ListPop
<1>6. Reach(next2, q) = R \ {c} /\ Acyclic(next2, R \ {c})
  <2>1. \A d \in Reach(next, q) : next2[d] = next[d] BY <1>3, <1>4, <1>5
  <2>2. Acyclic(next, Reach(next, q)) BY <1>5
  <2> HIDE DEF next, next2, q
  <2>3. Reach(next2, q) = Reach(next, q) /\ Acyclic(next2, Reach(next, q))
    BY ONLY <2>1, <2>2, ListUntouched
  <2> QED BY <1>5, <2>3
<1>7. PendingOf(m) = PendingOf(l)
  <2>1. PendingOf(l) = Reach(next, p) BY DEF PendingOf
  <2>2. \A d \in Reach(next, p) : next2[d] = next[d]
    BY <1>3, <1>4, <2>1, ReachClosed
  <2>3. PendingOf(m) = Reach(next2, p) BY <1>1 DEF PushedFree, PendingOf
  <2> HIDE DEF next, next2, p
  <2>4. Reach(next2, p) = Reach(next, p) BY ONLY <2>2, ReachAgree
  <2> QED BY <2>1, <2>3, <2>4
<1> QED BY <1>1, <1>6, <1>7 DEF PushedFree

-----------------------------------------------------------------------------
(* The pending list after stop(). *)

\* Neither the heads of the other lists nor the links of a client that is not
\* pending lead into the pending list.
Apart(l) ==
    /\ l.free_list_p \notin PendingOf(l)
    /\ l.connected_list_p \notin PendingOf(l)
    /\ \A d \in Slots \ PendingOf(l) : l.next_p[d] \notin PendingOf(l)

\* It is apart as long as the three lists are in order.
LEMMA WellLinkedApart ==
    ASSUME NEW l, WellLinked(l)
    PROVE  Apart(l)
<1> DEFINE C == ConnectedOf(l)
           P == PendingOf(l)
           F == FreeOf(l)
<1>1. /\ ClosedFrom(l.next_p, l.connected_list_p, C)
      /\ ClosedFrom(l.next_p, l.free_list_p, F)
      /\ P \in SUBSET Slots
  BY ReachClosed DEF ConnectedOf, PendingOf, FreeOf
<1>2. C \cup P \cup F = Slots /\ C \cap P = {} /\ P \cap F = {}
  BY DEF WellLinked
<1> HIDE DEF C, P, F
<1>3. l.free_list_p \notin P /\ l.connected_list_p \notin P
  BY <1>1, <1>2 DEF ClosedFrom
<1>4. \A d \in Slots \ P : l.next_p[d] \notin P
  BY <1>1, <1>2 DEF ClosedFrom
<1> QED BY <1>3, <1>4 DEF Apart, P

\* process() after stop() meets no pending client on its way from
\* connected_list_p.
LEMMA ApartConnected ==
    ASSUME NEW l, Apart(l)
    PROVE  ConnectedOf(l) \cap PendingOf(l) = {}
<1> DEFINE S == Slots \ PendingOf(l)
<1>1. ClosedFrom(l.next_p, l.connected_list_p, S) BY DEF Apart, ClosedFrom
<1>2. ConnectedOf(l) \subseteq S BY <1>1, ReachLeast DEF ConnectedOf
<1> QED BY <1>2

\* stop() puts a client that is not pending on the free list.
LEMMA StopApart ==
    ASSUME NEW l \in ListMemory, NEW c \in Slots \ PendingOf(l),
           Acyclic(l.next_p, PendingOf(l)), Apart(l),
           NEW m, m = push_free(l, c)
    PROVE  Acyclic(m.next_p, PendingOf(m)) /\ Apart(m)
<1> DEFINE next == l.next_p
           next2 == m.next_p
           p == l.pending_disconnect_list_p
           P == PendingOf(l)
<1>1. PushedFree(l, c, m) BY PushFreeFields
<1>2. next \in Links /\ P \in SUBSET Slots
  BY ReachClosed DEF ListMemory, PendingOf
<1>3. next2[c] = l.free_list_p /\ \A d \in Slots \ {c} : next2[d] = next[d]
  BY <1>1, <1>2 DEF PushedFree, Links
<1>4. Reach(next2, p) = P /\ Acyclic(next2, P)
  <2>1. P = Reach(next, p) BY DEF PendingOf
  <2>2. \A d \in Reach(next, p) : next2[d] = next[d] BY <1>2, <1>3, <2>1
  <2>3. Acyclic(next, Reach(next, p)) BY <2>1
  <2> HIDE DEF next, next2, p, P
  <2>4. Reach(next2, p) = Reach(next, p) /\ Acyclic(next2, Reach(next, p))
    BY ONLY <2>2, <2>3, ListUntouched
  <2> QED BY <2>1, <2>4
<1>5. PendingOf(m) = P BY <1>1, <1>4 DEF PushedFree, PendingOf
<1>6. Apart(m) BY <1>1, <1>3, <1>5 DEF Apart, PushedFree
<1> QED BY <1>4, <1>5, <1>6

\* process() after stop() frees the first pending client.
LEMMA FreePendingApart ==
    ASSUME NEW l \in ListMemory, Acyclic(l.next_p, PendingOf(l)), Apart(l),
           NEW c, c = l.pending_disconnect_list_p, c # NULL,
           NEW m, m = free_pending_disconnect_client(l, c)
    PROVE  PendingFreed(l, c, m) /\ Apart(m)
<1> DEFINE P == PendingOf(l)
<1>1. PendingFreed(l, c, m) BY FreePendingPops
<1>2. l.next_p \in Links /\ P \in SUBSET Slots
  BY ReachClosed DEF ListMemory, PendingOf
<1>3. /\ m.next_p[c] = l.free_list_p
      /\ \A d \in Slots \ {c} : m.next_p[d] = l.next_p[d]
  BY <1>1, <1>2 DEF PendingFreed, Links
<1>4. /\ PendingOf(m) = P \ {c} /\ m.free_list_p = c
      /\ m.connected_list_p = l.connected_list_p
  BY <1>1 DEF PendingFreed
<1>5. Apart(m) BY <1>3, <1>4 DEF Apart
<1> QED BY <1>1, <1>5

=============================================================================
