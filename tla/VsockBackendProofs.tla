-------------------------- MODULE VsockBackendProofs --------------------------
(***************************************************************************)
(* The books of the backend for any number of streams, ports, keys and     *)
(* descriptors.  They are not inductive: that a descriptor which is opened *)
(* is nobody's, and that an event finds its connection and its             *)
(* registration, needs to be known of the streams behind the descriptors   *)
(* (StreamsOwned), of the epoll (EpollSound) and of the batch of events    *)
(* that is being handled (EventsSound).                                    *)
(*                                                                         *)
(* What the books rest on is that a new connection of a host application   *)
(* has a key of its own, KeysFresh.  The code does not always keep that:   *)
(* when a connection of the guest to the same local port is removed, the   *)
(* port is free although it is in use (see VsockBackendPorts.cfg).  It is  *)
(* the hypothesis of the theorems about keys.  PortsHeld has a condition   *)
(* on the ports in use under which it is met, and OneSideKeeps needs none. *)
(***************************************************************************)
EXTENDS VsockBackend, FiniteSetTheorems, SequenceTheorems, WellFoundedInduction, TLAPS

Ops == {"REQUEST", "RESPONSE", "RST", "SHUTDOWN", "CREDIT_UPDATE", "RW", "UNSET", "INVALID"}

Packets == [op : Ops, key : Keys]

RingsTyped == txring \in Seq(Packets) /\ rxring \in Seq(Packets)

\* The descriptors that events are about, the others being kept originals.
Primaries == DOMAIN listener_map \cup DOMAIN stream_map

\* Each open stream has one such descriptor, and at most one original.
StreamsOwned ==
  /\ \A fd \in DOMAIN stream_map :
       IF fd \in DOMAIN listener_map
       THEN stream_map[fd] \notin Primaries /\ fds[stream_map[fd]] = fds[fd]
       ELSE stream_map[fd] = fd
  /\ \A fd, other \in Primaries : fds[fd] = fds[other] => fd = other

StreamsOpen == \A fd \in DOMAIN fds : host[fds[fd]].st \in {"open", "closed"}

\* At most one registration for each of them, none left of what is closed.
EpollSound ==
  /\ \A r \in epoll : r.fd \in Primaries /\ r.stream = fds[r.fd]
  /\ \A r, q \in epoll : r.fd = q.fd => r = q

\* An event that waits for its turn is still that of a registration.
EventsSound ==
  /\ \A e \in events : e.fd # Listener => \E r \in epoll : r.fd = e.fd
  /\ \A e, f \in events : e.fd = f.fd => e = f
  /\ pc \in {"idle", "tx", "rx"} => events = {}

Struct == MapsAgree /\ DescriptorsAccounted /\ StreamsOwned /\ StreamsOpen /\ EpollSound

BooksIInv == TypeOK /\ RingsTyped /\ Struct /\ EventsSound /\ KeyPerOp

-----------------------------------------------------------------------------
(* The least element that the code looks for exists.                       *)

LEMMA LeastNat ==
  ASSUME NEW T \in SUBSET Nat, T # {}
  PROVE  \E n \in T : \A m \in T : n <= m
<1> DEFINE less == OpToRel(<, Nat)
<1>1. IsWellFoundedOn(less, Nat)
  BY NatLessThanWellFounded
<1>2. \A n, m \in Nat : ~ (<<m, n>> \in less) => n <= m
  BY DEF OpToRel
<1> HIDE DEF less
<1>3. \E n \in T : \A m \in T : ~ (<<m, n>> \in less)
  BY <1>1, WFMin
<1> QED
  BY <1>2, <1>3

LEMMA LowestFreeIsFree ==
  ASSUME NEW used, Fds \ used # {}
  PROVE  LowestFree(used) \in Fds \ used
<1>1. IsFiniteSet(Streams) /\ Cardinality(Streams) \in Nat
  BY BackendAssumption, FS_CardinalityType
<1>2. Fds \ used \in SUBSET Nat
  BY <1>1 DEF Fds
<1>3. \E fd \in Fds \ used : \A other \in Fds \ used : fd <= other
  BY <1>2, LeastNat
<1> QED
  BY <1>3 DEF LowestFree

LEMMA FirstFreeIsFree ==
  ASSUME TypeOK, FreePorts # {}
  PROVE  FirstFree \in FreePorts
<1> DEFINE T == {Distance(port) : port \in FreePorts}
<1>1. PortRange \in Nat \ {0} /\ local_port \in Int /\ FreePorts \subseteq Int
  BY BackendAssumption DEF TypeOK, Ports, FreePorts
<1>2. \A port \in FreePorts : Distance(port) \in Nat
  BY <1>1 DEF Distance
<1>3. T \in SUBSET Nat /\ T # {}
  BY <1>2
<1>4. \E n \in T : \A m \in T : n <= m
  BY <1>3, LeastNat
<1>5. \E port \in FreePorts : \A other \in FreePorts : Distance(port) <= Distance(other)
  BY <1>4
<1> QED
  BY <1>5 DEF FirstFree

-----------------------------------------------------------------------------
(* Descriptors and streams.                                                *)

LEMMA OpenFds ==
  ASSUME Struct
  PROVE  /\ Primaries \subseteq DOMAIN fds
         /\ \A fd \in DOMAIN fds :
              fd \in DOMAIN listener_map \/ \E x \in DOMAIN stream_map : fd = stream_map[x]
         /\ \A x \in DOMAIN stream_map : stream_map[x] \in DOMAIN fds
BY DEF Struct, MapsAgree, DescriptorsAccounted, Primaries, Range

\* Who has a stream open: its descriptor, and the original that is kept.
LEMMA StreamFds ==
  ASSUME Struct, NEW fd \in Primaries, NEW other \in DOMAIN fds, fds[other] = fds[fd]
  PROVE  other = fd \/ (fd \in DOMAIN stream_map /\ other = stream_map[fd])
<1>1. CASE other \in Primaries
  BY <1>1 DEF Struct, StreamsOwned
<1>2. CASE other \notin Primaries
  <2>1. PICK x \in DOMAIN stream_map : other = stream_map[x]
    BY <1>2, OpenFds DEF Primaries
  <2>2. x \in Primaries /\ fds[x] = fds[other]
    BY <1>2, <2>1 DEF Struct, StreamsOwned, Primaries
  <2>3. x = fd
    BY <2>2 DEF Struct, StreamsOwned
  <2> QED
    BY <2>1, <2>3
<1> QED
  BY <1>1, <1>2

\* Two descriptors of one stream, neither of them a primary, are the same.
LEMMA Originals ==
  ASSUME Struct, NEW a \in DOMAIN fds \ Primaries, NEW b \in DOMAIN fds \ Primaries,
         fds[a] = fds[b]
  PROVE  a = b
<1>1. PICK x \in DOMAIN stream_map : a = stream_map[x]
  BY OpenFds DEF Primaries
<1>2. x \in Primaries /\ fds[x] = fds[a]
  BY <1>1 DEF Struct, StreamsOwned, Primaries
<1>3. a = x \/ a = stream_map[x]
  BY <1>1
<1>4. b = x \/ b = stream_map[x]
  BY <1>2, StreamFds
<1> QED
  BY <1>1, <1>2, <1>4

(***************************************************************************)
(* There are two descriptors for each stream: while one stream is not open *)
(* there is room for it.                                                   *)
(***************************************************************************)
LEMMA RoomForTwo ==
  ASSUME TypeOK, Struct, NEW s \in Streams, host[s].st \notin {"open", "closed"}
  PROVE  /\ Fds \ DOMAIN fds # {}
         /\ \A one : Fds \ (DOMAIN fds \cup {one}) # {}
<1> DEFINE others == Streams \ {s}
           owner  == [fd \in DOMAIN fds |-> <<fds[fd], IF fd \in Primaries THEN 1 ELSE 2>>]
           N      == Cardinality(Streams)
<1>1. IsFiniteSet(Streams) /\ Cardinality(Streams) \in Nat
  BY BackendAssumption, FS_CardinalityType
<1>2. IsFiniteSet(others) /\ Cardinality(others) = Cardinality(Streams) - 1
  BY <1>1, FS_RemoveElement
<1>3. IsFiniteSet(1 .. 2) /\ Cardinality(1 .. 2) = 2
  <2>1. IsFiniteSet(1 .. 2) /\ Cardinality(1 .. 2) = IF 1 > 2 THEN 0 ELSE 2 - 1 + 1
    <3>1. 1 \in Int /\ 2 \in Int
      OBVIOUS
    <3> QED
      BY <3>1, FS_Interval, Zenon
  <2> QED
    BY <2>1
<1>4. /\ IsFiniteSet(others \X (1 .. 2))
      /\ Cardinality(others \X (1 .. 2)) = Cardinality(others) * Cardinality((1 .. 2))
  BY <1>2, <1>3, FS_Product
<1>5. owner \in Injection(DOMAIN fds, others \X (1 .. 2))
  <2>1. \A fd \in DOMAIN fds : fds[fd] \in others
    BY DEF TypeOK, Struct, StreamsOpen
  <2>2. owner \in [DOMAIN fds -> others \X (1 .. 2)]
    BY <2>1
  <2>3. ASSUME NEW a \in DOMAIN fds, NEW b \in DOMAIN fds, owner[a] = owner[b]
        PROVE  a = b
    <3>1. fds[a] = fds[b] /\ (a \in Primaries <=> b \in Primaries)
      BY <2>3
    <3>2. CASE a \in Primaries
      BY <3>1, <3>2 DEF Struct, StreamsOwned
    <3>3. CASE a \notin Primaries
      BY <3>1, <3>3, Originals
    <3> QED
      BY <3>2, <3>3
  <2> HIDE DEF owner
  <2> QED
    BY <2>2, <2>3 DEF Injection, IsInjective
<1>6. IsFiniteSet(DOMAIN fds) /\ Cardinality(DOMAIN fds) <= 2 * (N - 1)
  <2>1. Cardinality(others \X (1 .. 2)) = 2 * (N - 1)
    BY <1>1, <1>2, <1>3, <1>4
  <2> HIDE DEF owner
  <2> QED
    BY <1>4, <1>5, <2>1, FS_Injection
<1>7. IsFiniteSet(Fds) /\ Cardinality(Fds) = 2 * N
  <2>1. /\ IsFiniteSet(1 .. 2 * N)
        /\ Cardinality(1 .. 2 * N) =
             IF 1 > 2 * N THEN 0 ELSE 2 * N - 1 + 1
    <3>1. 1 \in Int /\ 2 * N \in Int
      BY <1>1
    <3> QED
      BY <3>1, FS_Interval
  <2> QED
    BY <1>1, <2>1 DEF Fds
<1>8. ASSUME NEW used, IsFiniteSet(used), Cardinality(used) < Cardinality(Fds)
      PROVE  Fds \ used # {}
  <2>1. CASE Fds \subseteq used
    BY <1>7, <1>8, <2>1, FS_Subset, FS_CardinalityType
  <2> QED
    BY <2>1
<1>9. Cardinality(DOMAIN fds) \in Nat
  BY <1>6, FS_CardinalityType
<1>10. \A one : /\ IsFiniteSet(DOMAIN fds \cup {one})
               /\ Cardinality(DOMAIN fds \cup {one}) <= Cardinality(DOMAIN fds) + 1
  <2> TAKE one
  <2>1. /\ IsFiniteSet(DOMAIN fds \cup {one})
        /\ Cardinality(DOMAIN fds \cup {one}) =
             IF one \in DOMAIN fds THEN Cardinality(DOMAIN fds) ELSE Cardinality(DOMAIN fds) + 1
    BY <1>6, FS_AddElement
  <2> QED
    BY <1>9, <2>1
<1>11. Cardinality(DOMAIN fds) < Cardinality(Fds)
  BY <1>1, <1>6, <1>7, <1>9
<1>12. \A one : Cardinality(DOMAIN fds \cup {one}) < Cardinality(Fds)
  <2> TAKE one
  <2>1. Cardinality(DOMAIN fds \cup {one}) \in Nat
    BY <1>10, FS_CardinalityType
  <2> QED
    <3>1. Cardinality(DOMAIN fds \cup {one}) <= Cardinality(DOMAIN fds) + 1
      BY <1>10
    <3> QED
      BY <1>1, <1>6, <1>7, <1>9, <2>1, <3>1
<1> QED
  BY <1>6, <1>8, <1>10, <1>11, <1>12

-----------------------------------------------------------------------------
(* How often a key is queued.                                              *)

Places(seq, key) == {i \in 1 .. Len(seq) : seq[i] = key}

LEMMA PlacesFinite ==
  ASSUME NEW seq \in Seq(Keys), NEW key
  PROVE  IsFiniteSet(Places(seq, key)) /\ Cardinality(Places(seq, key)) \in Nat
<1>1. IsFiniteSet(1 .. Len(seq))
  <2>1. 1 \in Int /\ Len(seq) \in Int
    OBVIOUS
  <2> QED
    BY <2>1, FS_Interval, Zenon
<1>2. Places(seq, key) \in SUBSET (1 .. Len(seq))
  BY DEF Places
<1> QED
  BY <1>1, <1>2, FS_Subset, FS_CardinalityType

LEMMA PlacesAppend ==
  ASSUME NEW seq \in Seq(Keys), NEW new \in Keys, NEW key
  PROVE  Cardinality(Places(Append(seq, new), key)) =
           Cardinality(Places(seq, key)) + IF key = new THEN 1 ELSE 0
<1> DEFINE last == Len(seq) + 1
<1>1. last \notin Places(seq, key)
  BY DEF Places
<1>2. CASE key = new
  <2>1. Places(Append(seq, new), key) = Places(seq, key) \cup {last}
    BY <1>2 DEF Places
  <2> HIDE DEF last
  <2>2. Cardinality(Places(seq, key) \cup {last}) = Cardinality(Places(seq, key)) + 1
    BY <1>1, PlacesFinite, FS_AddElement
  <2> QED
    BY <1>2, <2>1, <2>2
<1>3. CASE key # new
  <2>1. Places(Append(seq, new), key) = Places(seq, key)
    BY <1>3 DEF Places
  <2> QED
    BY <1>3, <2>1, PlacesFinite
<1> QED
  BY <1>2, <1>3

LEMMA PlacesTail ==
  ASSUME NEW seq \in Seq(Keys), seq # <<>>, NEW key
  PROVE  Cardinality(Places(Tail(seq), key)) >=
           Cardinality(Places(seq, key)) - IF key = Head(seq) THEN 1 ELSE 0
<1> DEFINE rest == Places(seq, key) \ {1}
           back == [i \in rest |-> i - 1]
<1>1. Tail(seq) \in Seq(Keys) /\ Len(Tail(seq)) = Len(seq) - 1 /\ Head(seq) = seq[1]
  OBVIOUS
<1>2. \A i \in 1 .. Len(Tail(seq)) : Tail(seq)[i] = seq[i + 1]
  OBVIOUS
<1>3. back \in Injection(rest, Places(Tail(seq), key))
  <2>1. \A i \in rest : i \in Int /\ i - 1 \in Places(Tail(seq), key)
    BY <1>1, <1>2 DEF Places
  <2> HIDE DEF rest
  <2>2. back \in [rest -> Places(Tail(seq), key)]
    BY <2>1
  <2>3. \A i, j \in rest : back[i] = back[j] => i = j
    BY <2>1
  <2> QED
    BY <2>2, <2>3 DEF Injection, IsInjective
<1>4. Cardinality(rest) <= Cardinality(Places(Tail(seq), key))
  <2> HIDE DEF back
  <2> QED
    BY <1>1, <1>3, PlacesFinite, FS_Injection
<1>5. Cardinality(rest) =
        IF 1 \in Places(seq, key) THEN Cardinality(Places(seq, key)) - 1
        ELSE Cardinality(Places(seq, key))
  BY PlacesFinite, FS_RemoveElement
<1>6. 1 \in Places(seq, key) <=> key = Head(seq)
  BY <1>1 DEF Places
<1>7. Cardinality(Places(seq, key)) \in Nat /\ Cardinality(Places(Tail(seq), key)) \in Nat
  BY <1>1, PlacesFinite
<1> QED
  BY <1>4, <1>5, <1>6, <1>7

(***************************************************************************)
(* KeyPerOp, of the queue and the pending operations of all keys.          *)
(***************************************************************************)
LEMMA PendingFinite ==
  ASSUME NEW S \in SUBSET RxOps, NEW op
  PROVE  /\ IsFiniteSet(S) /\ Cardinality(S) \in Nat
         /\ Cardinality(S \cup {op}) <= Cardinality(S) + 1
         /\ op \in S => Cardinality(S \ {op}) = Cardinality(S) - 1
<1>1. IsFiniteSet(RxOps)
  <2>1. IsFiniteSet({"Request"})
    BY FS_Singleton
  <2>2. IsFiniteSet({"Request"} \cup {"Rw"})
    BY <2>1, FS_AddElement
  <2>3. IsFiniteSet({"Request"} \cup {"Rw"} \cup {"Response"})
    BY <2>2, FS_AddElement
  <2>4. IsFiniteSet({"Request"} \cup {"Rw"} \cup {"Response"} \cup {"Reset"})
    BY <2>3, FS_AddElement
  <2>5. RxOps = {"Request"} \cup {"Rw"} \cup {"Response"} \cup {"Reset"}
    BY DEF RxOps
  <2> QED
    BY <2>4, <2>5
<1>2. IsFiniteSet(S) /\ Cardinality(S) \in Nat
  BY <1>1, FS_Subset, FS_CardinalityType
<1>3. Cardinality(S \cup {op}) = IF op \in S THEN Cardinality(S) ELSE Cardinality(S) + 1
  BY <1>2, FS_AddElement
<1>4. Cardinality(S \ {op}) = IF op \in S THEN Cardinality(S) - 1 ELSE Cardinality(S)
  BY <1>2, FS_RemoveElement
<1> QED
  BY <1>2, <1>3, <1>4

Queued(conns, queue) ==
  \A key \in DOMAIN conns : Cardinality(conns[key].rx_queue) <= Cardinality(Places(queue, key))

LEMMA KeyPerOpIsQueued == KeyPerOp <=> Queued(conn_map, backend_rxq)
BY DEF KeyPerOp, Queued, Occurrences, Places

\* What the steps do to the queue and to the pending operations.
LEMMA PushKeeps ==
  ASSUME TypeOK, KeyPerOp, NEW new \in Keys, backend_rxq' = Append(backend_rxq, new),
         \A key \in DOMAIN conn_map' :
           \/ /\ key \in DOMAIN conn_map
              /\ conn_map'[key].rx_queue = conn_map[key].rx_queue
           \/ /\ key = new /\ key \in DOMAIN conn_map
              /\ \E op : conn_map'[key].rx_queue = conn_map[key].rx_queue \cup {op}
           \/ key = new /\ \E op : conn_map'[key].rx_queue = {op}
  PROVE  KeyPerOp'
<1>1. backend_rxq \in Seq(Keys)
  BY DEF TypeOK
<1>2. ASSUME NEW key \in DOMAIN conn_map'
      PROVE  Cardinality(conn_map'[key].rx_queue) <= Cardinality(Places(backend_rxq', key))
  <2>1. /\ Cardinality(Places(backend_rxq, key)) \in Nat
        /\ Cardinality(Places(backend_rxq', key)) =
             Cardinality(Places(backend_rxq, key)) + IF key = new THEN 1 ELSE 0
    BY <1>1, PlacesAppend, PlacesFinite
  <2>2. key \in DOMAIN conn_map =>
          /\ conn_map[key].rx_queue \in SUBSET RxOps
          /\ Cardinality(conn_map[key].rx_queue) <= Cardinality(Places(backend_rxq, key))
    BY KeyPerOpIsQueued DEF TypeOK, Connections, Queued
  <2>3. CASE key \in DOMAIN conn_map /\ conn_map'[key].rx_queue = conn_map[key].rx_queue
    <3>1. Cardinality(conn_map[key].rx_queue) \in Nat
      BY <2>2, <2>3, PendingFinite
    <3> QED
      BY <2>1, <2>2, <2>3, <3>1
  <2>4. CASE /\ key = new /\ key \in DOMAIN conn_map
             /\ \E op : conn_map'[key].rx_queue = conn_map[key].rx_queue \cup {op}
    <3>1. PICK op : conn_map'[key].rx_queue = conn_map[key].rx_queue \cup {op}
      BY <2>4
    <3>2. /\ Cardinality(conn_map[key].rx_queue) \in Nat
          /\ Cardinality(conn_map[key].rx_queue \cup {op}) <=
               Cardinality(conn_map[key].rx_queue) + 1
      BY <2>2, <2>4, PendingFinite
    <3>3. IsFiniteSet(conn_map[key].rx_queue \cup {op})
      <4>1. IsFiniteSet(conn_map[key].rx_queue)
        BY <2>2, <2>4, PendingFinite
      <4> QED
        BY <4>1, FS_AddElement
    <3>4. Cardinality(conn_map[key].rx_queue \cup {op}) \in Nat
      BY <3>3, FS_CardinalityType
    <3>5. /\ Cardinality(conn_map[key].rx_queue) <= Cardinality(Places(backend_rxq, key))
          /\ Cardinality(Places(backend_rxq', key)) = Cardinality(Places(backend_rxq, key)) + 1
      BY <2>1, <2>2, <2>4
    <3> QED
      BY <2>1, <3>1, <3>2, <3>4, <3>5
  <2>5. CASE key = new /\ \E op : conn_map'[key].rx_queue = {op}
    <3>1. Cardinality(conn_map'[key].rx_queue) = 1
      BY <2>5, FS_Singleton
    <3> QED
      BY <2>1, <2>5, <3>1
  <2> QED
    BY <2>3, <2>4, <2>5
<1> QED
  BY <1>2 DEF KeyPerOp, Occurrences, Places

LEMMA PopKeeps ==
  ASSUME TypeOK, KeyPerOp, backend_rxq # <<>>, backend_rxq' = Tail(backend_rxq),
         \A key \in DOMAIN conn_map' :
           /\ key \in DOMAIN conn_map
           /\ key # RxKey => conn_map'[key].rx_queue = conn_map[key].rx_queue
           /\ key = RxKey =>
                \/ conn_map'[key].rx_queue = {}
                \/ \E op \in conn_map[key].rx_queue :
                     conn_map'[key].rx_queue = conn_map[key].rx_queue \ {op}
  PROVE  KeyPerOp'
<1>1. backend_rxq \in Seq(Keys)
  BY DEF TypeOK
<1>2. ASSUME NEW key \in DOMAIN conn_map'
      PROVE  Cardinality(conn_map'[key].rx_queue) <= Cardinality(Places(backend_rxq', key))
  <2>1. /\ Cardinality(Places(backend_rxq, key)) \in Nat
        /\ Cardinality(Places(backend_rxq', key)) \in Nat
        /\ Cardinality(Places(backend_rxq', key)) >=
             Cardinality(Places(backend_rxq, key)) - IF key = RxKey THEN 1 ELSE 0
    <3>1. Tail(backend_rxq) \in Seq(Keys)
      BY <1>1
    <3>2. /\ Cardinality(Places(backend_rxq, key)) \in Nat
          /\ Cardinality(Places(Tail(backend_rxq), key)) \in Nat
      BY <1>1, <3>1, PlacesFinite
    <3>3. Cardinality(Places(Tail(backend_rxq), key)) >=
            Cardinality(Places(backend_rxq, key)) - IF key = Head(backend_rxq) THEN 1 ELSE 0
      BY <1>1, PlacesTail
    <3> QED
      BY <3>2, <3>3 DEF RxKey
  <2>2. /\ conn_map[key].rx_queue \in SUBSET RxOps
        /\ Cardinality(conn_map[key].rx_queue) <= Cardinality(Places(backend_rxq, key))
    BY KeyPerOpIsQueued DEF TypeOK, Connections, Queued
  <2>3. Cardinality(conn_map[key].rx_queue) \in Nat
    BY <2>2, PendingFinite
  <2>4. CASE key # RxKey
    BY <2>1, <2>2, <2>3, <2>4
  <2>5. CASE key = RxKey /\ conn_map'[key].rx_queue = {}
    <3>1. Cardinality(conn_map'[key].rx_queue) = 0
      BY <2>5, FS_EmptySet
    <3> QED
      BY <2>1, <3>1
  <2>6. CASE /\ key = RxKey
             /\ \E op \in conn_map[key].rx_queue :
                  conn_map'[key].rx_queue = conn_map[key].rx_queue \ {op}
    <3>1. PICK op \in conn_map[key].rx_queue :
            conn_map'[key].rx_queue = conn_map[key].rx_queue \ {op}
      BY <2>6
    <3>2. Cardinality(conn_map[key].rx_queue \ {op}) = Cardinality(conn_map[key].rx_queue) - 1
      BY <2>2, PendingFinite
    <3>3. /\ Cardinality(conn_map[key].rx_queue) <= Cardinality(Places(backend_rxq, key))
          /\ Cardinality(Places(backend_rxq', key)) >= Cardinality(Places(backend_rxq, key)) - 1
      BY <2>1, <2>2, <2>6
    <3> QED
      BY <2>1, <2>3, <3>1, <3>2, <3>3
  <2> QED
    BY <2>4, <2>5, <2>6
<1> QED
  BY <1>2 DEF KeyPerOp, Occurrences, Places

LEMMA QueueKeeps ==
  ASSUME KeyPerOp, backend_rxq' = backend_rxq,
         \A key \in DOMAIN conn_map' :
           key \in DOMAIN conn_map /\ conn_map'[key].rx_queue = conn_map[key].rx_queue
  PROVE  KeyPerOp'
BY DEF KeyPerOp, Occurrences

-----------------------------------------------------------------------------
(* What the steps do to the maps, the descriptors and the epoll.           *)

\* The maps name what they named; a connection may change otherwise.
SameBooks ==
  /\ listener_map' = listener_map /\ stream_map' = stream_map /\ fds' = fds
  /\ DOMAIN conn_map' = DOMAIN conn_map
  /\ \A key \in DOMAIN conn_map : conn_map'[key].fd = conn_map[key].fd

StaysOpen ==
  \A s \in Streams : host[s].st \in {"open", "closed"} => host'[s].st \in {"open", "closed"}

LEMMA SameBooksKeep ==
  ASSUME TypeOK, Struct, SameBooks, StaysOpen, EpollSound'
  PROVE  Struct'
<1>1. MapsAgree'
  BY DEF Struct, SameBooks, MapsAgree
<1>2. {conn_map'[key].fd : key \in DOMAIN conn_map'} = {conn_map[key].fd : key \in DOMAIN conn_map}
  BY DEF SameBooks
<1>3. DescriptorsAccounted'
  BY <1>2 DEF Struct, SameBooks, DescriptorsAccounted, Range
<1>4. StreamsOwned'
  BY DEF Struct, SameBooks, StreamsOwned, Primaries
<1>5. StreamsOpen'
  BY DEF Struct, SameBooks, StreamsOpen, StaysOpen, TypeOK
<1> QED
  BY <1>1, <1>3, <1>4, <1>5 DEF Struct

LEMMA EpollSame ==
  ASSUME EpollSound, SameBooks, epoll' = epoll
  PROVE  EpollSound'
BY DEF EpollSound, SameBooks, Primaries

LEMMA EpollWatching ==
  ASSUME Struct, SameBooks, NEW fd \in Primaries, NEW evs, epoll' = Watching(fd, evs)
  PROVE  EpollSound' /\ \A r \in epoll : \E q \in epoll' : q.fd = r.fd
<1>1. fd \in DOMAIN fds
  BY OpenFds
<1>2. \A r \in epoll : r.fd = fd <=> r \in Registration(fd)
  BY <1>1 DEF Struct, EpollSound, Registration
<1>3. epoll' = {r \in epoll : r.fd # fd} \cup {[fd |-> fd, stream |-> fds[fd], events |-> evs]}
  BY <1>2 DEF Watching, Registration
<1>4. \A r \in epoll : \E q \in epoll' : q.fd = r.fd
  <2> TAKE r \in epoll
  <2>1. CASE r.fd = fd
    <3> DEFINE new == [fd |-> fd, stream |-> fds[fd], events |-> evs]
    <3>1. new \in epoll' /\ new.fd = fd
      BY <1>3
    <3> HIDE DEF new
    <3> QED
      BY <2>1, <3>1
  <2>2. CASE r.fd # fd
    BY <1>3, <2>2
  <2> QED
    BY <2>1, <2>2
<1>5. Primaries' = Primaries /\ fds' = fds
  BY DEF SameBooks, Primaries
<1>6. \A r \in epoll' : r.fd \in Primaries /\ r.stream = fds[r.fd]
  BY <1>3 DEF Struct, EpollSound
<1>7. \A r, q \in epoll' : r.fd = q.fd => r = q
  BY <1>3 DEF Struct, EpollSound
<1>8. EpollSound'
  BY <1>5, <1>6, <1>7, Zenon DEF EpollSound
<1> QED
  BY <1>4, <1>8

LEMMA EpollUnwatched ==
  ASSUME Struct, SameBooks, NEW fd \in Primaries, epoll' = epoll \ Registration(fd)
  PROVE  EpollSound' /\ \A r \in epoll : r.fd # fd => \E q \in epoll' : q.fd = r.fd
BY DEF Struct, EpollSound, SameBooks, Primaries, Registration

(***************************************************************************)
(* The descriptor of a stream is closed with its original, when a          *)
(* connection is removed or a stream is dropped before it has one.         *)
(***************************************************************************)
LEMMA CloseKeeps ==
  ASSUME TypeOK, Struct, NEW fd \in Primaries,
         Close({fd} \cup (IF fd \in DOMAIN stream_map THEN {stream_map[fd]} ELSE {})),
         stream_map' = Remove(stream_map, {fd}),
         DOMAIN listener_map' = DOMAIN listener_map \ {fd},
         \A x \in DOMAIN listener_map' : listener_map'[x] = listener_map[x],
         DOMAIN conn_map' = {key \in DOMAIN conn_map : conn_map[key].fd # fd},
         \A key \in DOMAIN conn_map' : conn_map'[key] = conn_map[key],
         StaysOpen
  PROVE  /\ Struct'
         /\ \A r \in epoll : r.fd # fd => \E q \in epoll' : q.fd = r.fd
<1> DEFINE gone == {fd} \cup (IF fd \in DOMAIN stream_map THEN {stream_map[fd]} ELSE {})
<1>1. /\ DOMAIN fds' = DOMAIN fds \ gone
      /\ \A x \in DOMAIN fds' : fds'[x] = fds[x]
      /\ epoll' = {r \in epoll : r.stream \in Range(fds')}
  BY DEF Close, Remove, Restrict
<1>2. /\ DOMAIN stream_map' = DOMAIN stream_map \ {fd}
      /\ \A x \in DOMAIN stream_map' : stream_map'[x] = stream_map[x]
  BY DEF Remove, Restrict
<1>3. Primaries' = Primaries \ {fd}
  BY <1>2 DEF Primaries
<1>4. fd \in DOMAIN fds
  BY OpenFds
\* Nobody else has the stream open.
<1>5. \A other \in DOMAIN fds : fds[other] = fds[fd] => other \in gone
  BY StreamFds
<1>6. \A x \in Primaries \ {fd} : x \notin gone
  BY DEF Struct, StreamsOwned, Primaries
<1>7. \A x \in DOMAIN stream_map' : stream_map[x] \notin gone
  <2> SUFFICES ASSUME NEW x \in DOMAIN stream_map, x # fd, stream_map[x] \in gone
               PROVE  FALSE
    BY <1>2
  <2>1. stream_map[x] # fd
    BY DEF Struct, StreamsOwned, Primaries
  <2>2. fd \in DOMAIN stream_map /\ stream_map[x] = stream_map[fd]
    BY <2>1
  <2>3. fds[x] = fds[stream_map[x]] /\ fds[fd] = fds[stream_map[fd]]
    BY <2>2 DEF Struct, StreamsOwned
  <2>4. x \in Primaries /\ fds[x] = fds[fd]
    BY <2>2, <2>3 DEF Primaries
  <2> QED
    BY <2>4 DEF Struct, StreamsOwned
<1>8. MapsAgree'
  BY DEF Struct, MapsAgree
<1>9. DescriptorsAccounted'
  <2>1. ASSUME NEW x \in DOMAIN fds'
        PROVE  (\E key \in DOMAIN conn_map' : x = conn_map'[key].fd) \/ x \in Range(stream_map')
    <3>1. x \in DOMAIN fds /\ x \notin gone
      BY <1>1
    <3>2. CASE \E key \in DOMAIN conn_map : x = conn_map[key].fd
      BY <3>1, <3>2
    <3>3. CASE x \in Range(stream_map)
      <4>1. PICK y \in DOMAIN stream_map : x = stream_map[y]
        BY <3>3 DEF Range
      <4>2. y # fd
        BY <3>1, <4>1
      <4> QED
        BY <1>2, <4>1, <4>2 DEF Range
    <3> QED
      BY <3>1, <3>2, <3>3 DEF Struct, DescriptorsAccounted
  <2>2. ASSUME NEW key \in DOMAIN conn_map'
        PROVE  conn_map'[key].fd \in DOMAIN fds'
    <3>1. conn_map'[key].fd = conn_map[key].fd /\ conn_map[key].fd \in Primaries \ {fd}
      BY DEF Struct, MapsAgree, Primaries
    <3> QED
      BY <1>1, <1>6, <3>1, OpenFds
  <2>3. ASSUME NEW x \in DOMAIN stream_map'
        PROVE  stream_map'[x] \in DOMAIN fds'
    BY <1>1, <1>2, <1>7, OpenFds
  <2>4. DOMAIN fds' = {conn_map'[key].fd : key \in DOMAIN conn_map'} \cup Range(stream_map')
    <3> DEFINE conns == {conn_map'[key].fd : key \in DOMAIN conn_map'}
    <3>1. \A x \in DOMAIN fds' : x \in conns \/ x \in Range(stream_map')
      BY <2>1
    <3>2. \A x \in conns : x \in DOMAIN fds'
      BY <2>2
    <3>3. \A x \in Range(stream_map') : x \in DOMAIN fds'
      BY <2>3 DEF Range
    <3> HIDE DEF conns
    <3>4. DOMAIN fds' = conns \cup Range(stream_map')
      BY <3>1, <3>2, <3>3
    <3> QED
      BY <3>4 DEF conns
  <2>5. DOMAIN stream_map' \subseteq DOMAIN fds'
    BY <1>1, <1>2, <1>6, OpenFds DEF Primaries
  <2> QED
    BY <2>4, <2>5 DEF DescriptorsAccounted
<1>10. Primaries' \subseteq DOMAIN fds'
  BY <1>1, <1>3, <1>6, OpenFds
<1>11. StreamsOwned'
  <2>1. ASSUME NEW x \in DOMAIN stream_map'
        PROVE  IF x \in DOMAIN listener_map'
               THEN stream_map'[x] \notin Primaries' /\ fds'[stream_map'[x]] = fds'[x]
               ELSE stream_map'[x] = x
    <3>1. /\ x \in DOMAIN stream_map /\ x # fd /\ stream_map'[x] = stream_map[x]
          /\ x \in DOMAIN listener_map' <=> x \in DOMAIN listener_map
      BY <1>2
    <3>2. x \in DOMAIN fds'
      BY <1>10 DEF Primaries
    <3>3. stream_map[x] \in DOMAIN fds'
      BY <1>1, <1>7, <3>1, OpenFds
    <3> QED
      BY <1>1, <1>3, <3>1, <3>2, <3>3 DEF Struct, StreamsOwned
  <2>2. ASSUME NEW x \in Primaries', NEW y \in Primaries', fds'[x] = fds'[y]
        PROVE  x = y
    BY <1>1, <1>3, <1>10, <2>2 DEF Struct, StreamsOwned
  <2> QED
    BY <2>1, <2>2 DEF StreamsOwned
<1>12. StreamsOpen'
  BY <1>1 DEF Struct, StreamsOpen, StaysOpen, TypeOK
\* A registration goes exactly with its descriptor.
<1>13. \A r \in epoll : r \in epoll' <=> r.fd # fd
  <2> TAKE r \in epoll
  <2>1. r.fd \in Primaries /\ r.fd \in DOMAIN fds /\ r.stream = fds[r.fd]
    BY OpenFds DEF Struct, EpollSound
  <2>2. CASE r.fd = fd
    <3>1. \A x \in DOMAIN fds' : fds'[x] # r.stream
      BY <1>1, <1>5, <2>1, <2>2
    <3> QED
      BY <1>1, <2>2, <3>1 DEF Range
  <2>3. CASE r.fd # fd
    <3>1. r.fd \in DOMAIN fds' /\ fds'[r.fd] = r.stream
      BY <1>1, <1>3, <1>10, <2>1, <2>3
    <3> QED
      BY <1>1, <2>3, <3>1 DEF Range
  <2> QED
    BY <2>2, <2>3
<1>14. EpollSound'
  <2>1. \A r \in epoll' : r \in epoll /\ r.fd \in Primaries' /\ r.stream = fds'[r.fd]
    BY <1>1, <1>3, <1>10, <1>13 DEF Struct, EpollSound
  <2>2. \A r, q \in epoll' : r.fd = q.fd => r = q
    BY <2>1 DEF Struct, EpollSound
  <2> QED
    BY <2>1, <2>2, Zenon DEF EpollSound
<1> QED
  BY <1>8, <1>9, <1>11, <1>12, <1>13, <1>14 DEF Struct

\* A stream is opened for an application that asks for something...
LEMMA AcceptKeeps ==
  ASSUME TypeOK, Struct, NEW s \in Streams, host[s].st \notin {"open", "closed"},
         NEW fd \in Fds \ DOMAIN fds, NEW evs,
         fds' = Insert(fds, fd, s),
         stream_map' = Insert(stream_map, fd, fd),
         epoll' = epoll \cup {[fd |-> fd, stream |-> s, events |-> evs]},
         UNCHANGED <<conn_map, listener_map>>,
         StaysOpen, host'[s].st = "open"
  PROVE  Struct'
<1>1. /\ DOMAIN fds' = DOMAIN fds \cup {fd} /\ fds'[fd] = s
      /\ \A x \in DOMAIN fds : fds'[x] = fds[x]
  BY DEF Insert
<1>2. /\ DOMAIN stream_map' = DOMAIN stream_map \cup {fd} /\ stream_map'[fd] = fd
      /\ \A x \in DOMAIN stream_map : x # fd /\ stream_map'[x] = stream_map[x]
  BY OpenFds DEF Insert, Primaries
<1>3. Primaries' = Primaries \cup {fd} /\ fd \notin Primaries
  BY <1>2, OpenFds DEF Primaries
<1>4. \A x \in DOMAIN fds : fds[x] # s
  BY DEF Struct, StreamsOpen
<1>5. MapsAgree'
  BY DEF Struct, MapsAgree
<1>6. DescriptorsAccounted'
  <2>1. Range(stream_map') = Range(stream_map) \cup {fd}
    <3>1. \A y : y \in Range(stream_map') <=> y \in Range(stream_map) \/ y = fd
      BY <1>2 DEF Range
    <3> QED
      BY <3>1
  <2>2. {conn_map'[key].fd : key \in DOMAIN conn_map'} = {conn_map[key].fd : key \in DOMAIN conn_map}
    OBVIOUS
  <2> QED
    BY <1>1, <1>2, <2>1, <2>2 DEF Struct, DescriptorsAccounted
<1>7. StreamsOwned'
  <2>1. ASSUME NEW x \in DOMAIN stream_map'
        PROVE  IF x \in DOMAIN listener_map'
               THEN stream_map'[x] \notin Primaries' /\ fds'[stream_map'[x]] = fds'[x]
               ELSE stream_map'[x] = x
    <3>1. CASE x = fd
      BY <1>2, <1>3, <3>1 DEF Primaries
    <3>2. CASE x \in DOMAIN stream_map
      <4>1. x \in DOMAIN fds /\ stream_map[x] \in DOMAIN fds
        BY <3>2, OpenFds DEF Primaries
      <4> QED
        BY <1>1, <1>2, <1>3, <3>2, <4>1 DEF Struct, StreamsOwned
    <3> QED
      BY <1>2, <3>1, <3>2
  <2>2. ASSUME NEW x \in Primaries', NEW y \in Primaries', fds'[x] = fds'[y]
        PROVE  x = y
    <3>1. \A z \in Primaries : z \in DOMAIN fds /\ fds'[z] = fds[z] /\ fds'[z] # s
      BY <1>1, <1>4, OpenFds
    <3>2. CASE x \in Primaries /\ y \in Primaries
      BY <2>2, <3>1, <3>2 DEF Struct, StreamsOwned
    <3> QED
      BY <1>1, <1>3, <2>2, <3>1, <3>2
  <2> QED
    BY <2>1, <2>2 DEF StreamsOwned
<1>8. StreamsOpen'
  BY <1>1 DEF Struct, StreamsOpen, StaysOpen, TypeOK
<1>9. EpollSound'
  <2> DEFINE r0 == [fd |-> fd, stream |-> s, events |-> evs]
  <2>1. r0.fd = fd /\ r0.stream = s /\ epoll' = epoll \cup {r0}
    OBVIOUS
  <2> HIDE DEF r0
  <2>2. \A r \in epoll : r.fd \in Primaries /\ r.fd \in DOMAIN fds /\ r.fd # fd /\ r.stream = fds'[r.fd]
    BY <1>1, OpenFds DEF Struct, EpollSound
  <2>3. \A r \in epoll' : r.fd \in Primaries' /\ r.stream = fds'[r.fd]
    BY <1>1, <1>3, <2>1, <2>2
  <2>4. \A r, q \in epoll' : r.fd = q.fd => r = q
    BY <2>1, <2>2 DEF Struct, EpollSound
  <2> QED
    BY <2>3, <2>4, Zenon DEF EpollSound
<1> QED
  BY <1>5, <1>6, <1>7, <1>8, <1>9 DEF Struct

\* ...or for a connection of the guest, whose original is kept beside it.
LEMMA ConnectKeeps ==
  ASSUME TypeOK, Struct, NEW s \in Streams, host[s].st \notin {"open", "closed"},
         NEW original \in Fds \ DOMAIN fds, NEW fd \in Fds \ (DOMAIN fds \cup {original}),
         NEW evs, NEW conn, conn.fd = fd, NEW key, key \notin DOMAIN conn_map,
         fds' = Insert(Insert(fds, original, s), fd, s),
         epoll' = epoll \cup {[fd |-> fd, stream |-> s, events |-> evs]},
         listener_map' = Insert(listener_map, fd, key),
         conn_map' = Insert(conn_map, key, conn),
         stream_map' = Insert(stream_map, fd, original),
         StaysOpen, host'[s].st = "open"
  PROVE  Struct'
<1>1. /\ DOMAIN fds' = DOMAIN fds \cup {fd, original} /\ fds'[fd] = s /\ fds'[original] = s
      /\ \A x \in DOMAIN fds : fds'[x] = fds[x]
  BY DEF Insert
<1>2. /\ DOMAIN stream_map' = DOMAIN stream_map \cup {fd} /\ stream_map'[fd] = original
      /\ \A x \in DOMAIN stream_map : x # fd /\ stream_map'[x] = stream_map[x]
  BY OpenFds DEF Insert, Primaries
<1>3. /\ DOMAIN listener_map' = DOMAIN listener_map \cup {fd} /\ listener_map'[fd] = key
      /\ \A x \in DOMAIN listener_map : x # fd /\ listener_map'[x] = listener_map[x]
  BY OpenFds DEF Insert, Primaries
<1>4. /\ Primaries' = Primaries \cup {fd} /\ fd \notin Primaries
      /\ original \notin Primaries /\ original # fd
  BY <1>2, <1>3, OpenFds DEF Primaries
<1>5. \A x \in DOMAIN fds : fds[x] # s
  BY DEF Struct, StreamsOpen
<1>6. /\ DOMAIN conn_map' = DOMAIN conn_map \cup {key} /\ conn_map'[key] = conn
      /\ \A k \in DOMAIN conn_map : k # key /\ conn_map'[k] = conn_map[k]
  BY DEF Insert
<1>7. MapsAgree'
  BY <1>3, <1>6 DEF Struct, MapsAgree
<1>8. DescriptorsAccounted'
  <2>1. Range(stream_map') = Range(stream_map) \cup {original}
    <3>1. \A y : y \in Range(stream_map') <=> y \in Range(stream_map) \/ y = original
      BY <1>2 DEF Range
    <3> QED
      BY <3>1
  <2>2. {conn_map'[k].fd : k \in DOMAIN conn_map'} = {conn_map[k].fd : k \in DOMAIN conn_map} \cup {fd}
    BY <1>6
  <2> QED
    BY <1>1, <1>2, <2>1, <2>2 DEF Struct, DescriptorsAccounted
<1>9. StreamsOwned'
  <2>1. ASSUME NEW x \in DOMAIN stream_map'
        PROVE  IF x \in DOMAIN listener_map'
               THEN stream_map'[x] \notin Primaries' /\ fds'[stream_map'[x]] = fds'[x]
               ELSE stream_map'[x] = x
    <3>1. CASE x = fd
      BY <1>1, <1>2, <1>3, <1>4, <3>1
    <3>2. CASE x \in DOMAIN stream_map
      <4>1. x \in DOMAIN fds /\ stream_map[x] \in DOMAIN fds /\ x # fd
        BY <3>2, OpenFds DEF Primaries
      <4> QED
        BY <1>1, <1>2, <1>3, <1>4, <3>2, <4>1 DEF Struct, StreamsOwned
    <3> QED
      BY <1>2, <3>1, <3>2
  <2>2. ASSUME NEW x \in Primaries', NEW y \in Primaries', fds'[x] = fds'[y]
        PROVE  x = y
    <3>1. \A z \in Primaries : z \in DOMAIN fds /\ fds'[z] = fds[z] /\ fds'[z] # s
      BY <1>1, <1>5, OpenFds
    <3>2. CASE x \in Primaries /\ y \in Primaries
      BY <2>2, <3>1, <3>2 DEF Struct, StreamsOwned
    <3> QED
      BY <1>1, <1>4, <2>2, <3>1, <3>2
  <2> QED
    BY <2>1, <2>2 DEF StreamsOwned
<1>10. StreamsOpen'
  BY <1>1 DEF Struct, StreamsOpen, StaysOpen, TypeOK
<1>11. EpollSound'
  <2> DEFINE r0 == [fd |-> fd, stream |-> s, events |-> evs]
  <2>1. r0.fd = fd /\ r0.stream = s /\ epoll' = epoll \cup {r0}
    OBVIOUS
  <2> HIDE DEF r0
  <2>2. \A r \in epoll : r.fd \in Primaries /\ r.fd \in DOMAIN fds /\ r.fd # fd /\ r.stream = fds'[r.fd]
    BY <1>1, OpenFds DEF Struct, EpollSound
  <2>3. \A r \in epoll' : r.fd \in Primaries' /\ r.stream = fds'[r.fd]
    BY <1>1, <1>4, <2>1, <2>2
  <2>4. \A r, q \in epoll' : r.fd = q.fd => r = q
    BY <2>1, <2>2 DEF Struct, EpollSound
  <2> QED
    BY <2>3, <2>4, Zenon DEF EpollSound
<1> QED
  BY <1>7, <1>8, <1>9, <1>10, <1>11 DEF Struct

\* A stream that said CONNECT is no longer kept for itself: it is a connection's.
LEMMA AskKeeps ==
  ASSUME TypeOK, Struct, NEW fd \in DOMAIN stream_map, fd \notin DOMAIN listener_map,
         NEW evs, NEW conn, conn.fd = fd, NEW key, key \notin DOMAIN conn_map,
         UNCHANGED fds, StaysOpen,
         stream_map' = Remove(stream_map, {fd}),
         listener_map' = Insert(listener_map, fd, key),
         conn_map' = Insert(conn_map, key, conn),
         epoll' = Watching(fd, evs)
  PROVE  Struct' /\ \A r \in epoll : \E q \in epoll' : q.fd = r.fd
<1>1. /\ DOMAIN stream_map' = DOMAIN stream_map \ {fd} /\ stream_map[fd] = fd
      /\ \A x \in DOMAIN stream_map' : x # fd /\ stream_map'[x] = stream_map[x]
  BY DEF Remove, Restrict, Struct, StreamsOwned
<1>2. /\ DOMAIN listener_map' = DOMAIN listener_map \cup {fd} /\ listener_map'[fd] = key
      /\ \A x \in DOMAIN listener_map : x # fd /\ listener_map'[x] = listener_map[x]
  BY DEF Insert
<1>3. Primaries' = Primaries
  BY <1>1, <1>2 DEF Primaries
<1>4. /\ DOMAIN conn_map' = DOMAIN conn_map \cup {key} /\ conn_map'[key] = conn
      /\ \A k \in DOMAIN conn_map : k # key /\ conn_map'[k] = conn_map[k]
  BY DEF Insert
<1>5. fd \in Primaries /\ fd \in DOMAIN fds
  BY OpenFds DEF Primaries
<1>6. \A x \in DOMAIN stream_map \ {fd} : stream_map[x] # fd
  BY <1>5 DEF Struct, StreamsOwned, Primaries
<1>7. MapsAgree'
  BY <1>2, <1>4 DEF Struct, MapsAgree
<1>8. DescriptorsAccounted'
  <2>1. Range(stream_map') = Range(stream_map) \ {fd}
    <3>1. \A y : y \in Range(stream_map') <=> y \in Range(stream_map) /\ y # fd
      BY <1>1, <1>6 DEF Range
    <3> QED
      BY <3>1
  <2>2. {conn_map'[k].fd : k \in DOMAIN conn_map'} = {conn_map[k].fd : k \in DOMAIN conn_map} \cup {fd}
    BY <1>4
  <2> QED
    <3> DEFINE conns  == {conn_map[k].fd : k \in DOMAIN conn_map}
               conns1 == {conn_map'[k].fd : k \in DOMAIN conn_map'}
    <3>1. DOMAIN fds = conns \cup Range(stream_map) /\ DOMAIN stream_map \subseteq DOMAIN fds
      BY DEF Struct, DescriptorsAccounted
    <3>2. conns1 = conns \cup {fd}
      BY <2>2
    <3> HIDE DEF conns, conns1
    <3>3. DOMAIN fds' = conns1 \cup Range(stream_map') /\ DOMAIN stream_map' \subseteq DOMAIN fds'
      BY <1>1, <1>5, <2>1, <3>1, <3>2
    <3> QED
      BY <3>3 DEF DescriptorsAccounted, conns1
<1>9. StreamsOwned'
  BY <1>1, <1>2, <1>3 DEF Struct, StreamsOwned
<1>10. StreamsOpen'
  BY DEF Struct, StreamsOpen, StaysOpen, TypeOK
<1>11. \A r \in epoll : r.fd = fd <=> r \in Registration(fd)
  BY <1>5 DEF Struct, EpollSound, Registration
<1> DEFINE r0 == [fd |-> fd, stream |-> fds[fd], events |-> evs]
<1>12. epoll' = {r \in epoll : r.fd # fd} \cup {r0} /\ r0.fd = fd /\ r0.stream = fds[fd]
  BY <1>11 DEF Watching, Registration
<1> HIDE DEF r0
<1>13. EpollSound'
  <2>1. \A r \in epoll' : r.fd \in Primaries' /\ r.stream = fds'[r.fd]
    BY <1>3, <1>5, <1>12 DEF Struct, EpollSound
  <2>2. \A r, q \in epoll' : r.fd = q.fd => r = q
    BY <1>12 DEF Struct, EpollSound
  <2> QED
    BY <2>1, <2>2, Zenon DEF EpollSound
<1> QED
  BY <1>7, <1>8, <1>9, <1>10, <1>12, <1>13 DEF Struct

\* A batch of events is sound when it is taken, and what is left of it after
\* an event whose handling concerns no other descriptor.
LEMMA BatchTaken ==
  ASSUME TypeOK, Struct, events' = Ready, pc' = "events", UNCHANGED epoll
  PROVE  EventsSound'
<1>1. \A e \in Ready : e.fd # Listener => \E r \in epoll : e = Event(r) /\ r.fd = e.fd
  BY DEF Ready, Event, Listener
<1>2. \A e \in Ready : e.fd = Listener =>
        e = [fd |-> Listener, in |-> TRUE, out |-> FALSE, hup |-> FALSE]
  <2>1. \A r \in epoll : Event(r).fd # Listener
    <3>1. \A r \in epoll : r.fd \in Fds /\ Event(r).fd = r.fd
      BY DEF TypeOK, Event
    <3>2. Listener \notin Fds
      BY DEF Fds, Listener
    <3> QED
      BY <3>1, <3>2
  <2> QED
    BY <2>1 DEF Ready
<1>3. \A e, f \in Ready : e.fd = f.fd => e = f
  <2> TAKE e, f \in Ready
  <2> HAVE e.fd = f.fd
  <2>1. CASE e.fd = Listener
    BY <1>2, <2>1
  <2>2. CASE e.fd # Listener
    <3>1. PICK r \in epoll : e = Event(r) /\ r.fd = e.fd
      BY <1>1, <2>2
    <3>2. PICK q \in epoll : f = Event(q) /\ q.fd = f.fd
      BY <1>1, <2>2
    <3>3. r = q
      BY <3>1, <3>2 DEF Struct, EpollSound
    <3> QED
      BY <3>1, <3>2, <3>3
  <2> QED
    BY <2>1, <2>2
<1> QED
  BY <1>1, <1>3 DEF EventsSound

LEMMA EventTaken ==
  ASSUME EventsSound, NEW e \in events, events' = events \ {e}, pc' \notin {"idle", "tx", "rx"},
         \A r \in epoll : r.fd # e.fd => \E q \in epoll' : q.fd = r.fd
  PROVE  EventsSound'
BY DEF EventsSound

LEMMA NoEvents ==
  ASSUME EventsSound, pc \in {"idle", "tx", "rx"}, UNCHANGED events
  PROVE  EventsSound'
BY DEF EventsSound

-----------------------------------------------------------------------------
(* The invariant, step by step.                                            *)

LEMMA BooksStart == Init => BooksIInv
<1> SUFFICES ASSUME Init
             PROVE  BooksIInv
  OBVIOUS
<1> USE DEF Init, EmptyMaps
<1>1. 0 \in Ports
  BY BackendAssumption DEF Ports
<1>2. DOMAIN <<>> = {} /\ Range(<<>>) = {}
  BY DEF Range
<1>3. TypeOK
  <2>1. host \in [Streams -> HostEnds] /\ rxkick \in BOOLEAN
    <3> DEFINE end == [st |-> "unused", asked |-> "nothing", told |-> FALSE, unread |-> 0]
    <3>1. end \in HostEnds
      BY DEF HostEnds
    <3>2. host = [s \in Streams |-> end] /\ rxkick = FALSE
      BY Zenon
    <3> HIDE DEF end
    <3>3. host \in [Streams -> HostEnds]
      BY <3>1, <3>2
    <3> QED
      BY <3>2, <3>3, Zenon
  <2>2. /\ Len(txring) = 0 /\ Len(rxring) = 0
        /\ \A i \in 1 .. Len(txring) : txring[i].key \in Keys
        /\ \A i \in 1 .. Len(rxring) : rxring[i].key \in Keys
    OBVIOUS
  <2>3. guest \in [Keys -> {"none", "connecting", "established", "closing"}]
    OBVIOUS
  <2>4. backend_rxq \in Seq(Keys)
    OBVIOUS
  <2>5. /\ local_port_set \subseteq Ports /\ local_port \in Ports
        /\ pc \in {"idle", "events", "tx", "rx", "panic"}
    BY <1>1
  <2>6. DOMAIN conn_map = {} /\ DOMAIN listener_map = {} /\ DOMAIN stream_map = {}
        /\ DOMAIN fds = {} /\ events = {} /\ epoll = {}
    BY <1>2
  <2> QED
    BY <2>1, <2>2, <2>3, <2>4, <2>5, <2>6, Zenon DEF TypeOK
<1>4. RingsTyped
  BY DEF RingsTyped
<1>5. MapsAgree
  BY <1>2 DEF MapsAgree
<1>6. DescriptorsAccounted
  <2>1. {conn_map[key].fd : key \in DOMAIN conn_map} = {}
    BY <1>2
  <2> QED
    BY <1>2, <2>1 DEF DescriptorsAccounted
<1>7. StreamsOwned /\ StreamsOpen
  BY <1>2 DEF StreamsOwned, StreamsOpen, Primaries
<1>8. EpollSound /\ EventsSound
  BY DEF EpollSound, EventsSound
<1>9. KeyPerOp
  BY <1>2 DEF KeyPerOp
<1> QED
  BY <1>3, <1>4, <1>5, <1>6, <1>7, <1>8, <1>9 DEF BooksIInv, Struct

\* Nothing of the books changes when the loop goes from one part to the next.
LEMMA BooksByLoop ==
  ASSUME BooksIInv,
         WakeBackend \/ WakeTx \/ WakeRx \/ EventsDone \/ TxDone \/ RxDone \/ UNCHANGED vars
  PROVE  BooksIInv'
<1> USE DEF BooksIInv, WakeBackend, WakeTx, WakeRx, EventsDone, TxDone, RxDone, vars,
      maps, kernel, rings
<1>1. UNCHANGED <<maps, backend_rxq, kernel, txring, rxring, host, guest>>
  OBVIOUS
<1>2. SameBooks /\ StaysOpen
  BY <1>1 DEF SameBooks, StaysOpen
<1>3. Struct'
  <2>1. EpollSound'
    BY <1>1, <1>2, EpollSame DEF Struct
  <2> QED
    BY <1>2, <2>1, SameBooksKeep
<1>4. EventsSound'
  <2>1. CASE WakeBackend
    BY <2>1, BatchTaken
  <2>2. CASE WakeTx \/ WakeRx \/ EventsDone \/ TxDone \/ RxDone \/ UNCHANGED vars
    BY <2>2 DEF EventsSound
  <2> QED
    BY <2>1, <2>2
<1>5. KeyPerOp'
  BY <1>1, QueueKeeps
<1>6. RingsTyped'
  BY <1>1 DEF RingsTyped
<1>7. \A e \in events' : e \in [fd : Fds \cup {Listener}, in : BOOLEAN, out : BOOLEAN, hup : BOOLEAN]
  <2>1. CASE WakeBackend
    <3>1. \A r \in epoll : Event(r) \in [fd : Fds \cup {Listener}, in : BOOLEAN, out : BOOLEAN, hup : BOOLEAN]
      BY DEF TypeOK, Event
    <3>2. [fd |-> Listener, in |-> TRUE, out |-> FALSE, hup |-> FALSE]
            \in [fd : Fds \cup {Listener}, in : BOOLEAN, out : BOOLEAN, hup : BOOLEAN]
      OBVIOUS
    <3>3. \A e \in Ready :
            \/ \E r \in epoll : e = Event(r)
            \/ e = [fd |-> Listener, in |-> TRUE, out |-> FALSE, hup |-> FALSE]
      BY DEF Ready
    <3>4. events' = Ready
      BY <2>1
    <3> QED
      BY <3>1, <3>2, <3>3, <3>4, Zenon
  <2>2. CASE WakeTx \/ WakeRx \/ EventsDone \/ TxDone \/ RxDone \/ UNCHANGED vars
    BY <2>2 DEF TypeOK
  <2> QED
    BY <2>1, <2>2
<1>8. TypeOK'
  BY <1>1, <1>7 DEF TypeOK
<1> QED
  BY <1>3, <1>4, <1>5, <1>6, <1>8

LEMMA BooksByAccept ==
  ASSUME BooksIInv, NEW e \in events, NEW s \in Streams, Accept(e, s)
  PROVE  BooksIInv'
<1> USE DEF BooksIInv, Accept, TakeEvent, rings
<1> DEFINE fd == LowestFree(DOMAIN fds)
<1>1. fd \in Fds \ DOMAIN fds
  BY RoomForTwo, LowestFreeIsFree
<1>2. host' = [host EXCEPT ![s].st = "open"] /\ host'[s].st = "open" /\ StaysOpen
  BY DEF TypeOK, HostEnds, StaysOpen
<1>3. /\ fds' = Insert(fds, fd, s) /\ stream_map' = Insert(stream_map, fd, fd)
      /\ epoll' = epoll \cup {[fd |-> fd, stream |-> s, events |-> "in"]}
  OBVIOUS
<1> HIDE DEF fd
<1>4. Struct'
  <2>1. host[s].st \notin {"open", "closed"} /\ UNCHANGED <<conn_map, listener_map>>
    OBVIOUS
  <2> QED
    BY <1>1, <1>2, <1>3, <2>1, AcceptKeeps
<1>5. EventsSound'
  BY <1>3, EventTaken
<1>6. KeyPerOp'
  BY QueueKeeps
<1>7. TypeOK'
  <2>1. DOMAIN fds' \subseteq Fds /\ \A x \in DOMAIN fds' : fds'[x] \in Streams
    BY <1>1, <1>3 DEF TypeOK, Insert
  <2>2. DOMAIN stream_map' \subseteq Fds /\ \A x \in DOMAIN stream_map' : stream_map'[x] \in Fds
    BY <1>1, <1>3 DEF TypeOK, Insert
  <2>3. \A r \in epoll' : r \in [fd : Fds, stream : Streams, events : {"in", "inout"}]
    BY <1>1, <1>3 DEF TypeOK
  <2>4. host' \in [Streams -> HostEnds]
    BY <1>2, SMTT(40) DEF TypeOK, HostEnds
  <2> QED
    BY <2>1, <2>2, <2>3, <2>4 DEF TypeOK
<1>8. RingsTyped'
  BY DEF RingsTyped
<1> QED
  BY <1>4, <1>5, <1>6, <1>7, <1>8

LEMMA BooksByIgnore ==
  ASSUME BooksIInv, NEW e \in events, IgnoreEvent(e)
  PROVE  BooksIInv'
<1> USE DEF BooksIInv, IgnoreEvent, TakeEvent, rings, maps, kernel
<1>1. SameBooks /\ StaysOpen
  BY DEF SameBooks, StaysOpen
<1>2. Struct'
  BY <1>1, EpollSame, SameBooksKeep DEF Struct
<1>3. EventsSound'
  BY EventTaken
<1>4. KeyPerOp'
  BY QueueKeeps
<1> QED
  BY <1>2, <1>3, <1>4 DEF TypeOK, RingsTyped

LEMMA BooksByRefused ==
  ASSUME BooksIInv, NEW e \in events, AskRefused(e)
  PROVE  BooksIInv'
<1> USE DEF BooksIInv, AskRefused, Ask, TakeEvent, Unconnected, rings
<1>1. /\ e.fd \in DOMAIN stream_map /\ e.fd \in Primaries
      /\ e.fd \notin DOMAIN listener_map /\ stream_map[e.fd] = e.fd
  BY DEF Primaries, Struct, StreamsOwned
<1>2. {e.fd} \cup (IF e.fd \in DOMAIN stream_map THEN {stream_map[e.fd]} ELSE {}) = {e.fd}
  BY <1>1
<1>3. \A key \in DOMAIN conn_map : conn_map[key].fd # e.fd
  BY <1>1 DEF Struct, MapsAgree
<1>4. Struct' /\ \A r \in epoll : r.fd # e.fd => \E q \in epoll' : q.fd = r.fd
  <2>1. DOMAIN conn_map' = {key \in DOMAIN conn_map : conn_map[key].fd # e.fd}
    BY <1>3
  <2>2. DOMAIN listener_map' = DOMAIN listener_map \ {e.fd} /\ listener_map' = listener_map
    BY <1>1
  <2>3. StaysOpen /\ conn_map' = conn_map
    BY DEF StaysOpen
  <2>4. /\ Close({e.fd} \cup (IF e.fd \in DOMAIN stream_map THEN {stream_map[e.fd]} ELSE {}))
        /\ stream_map' = Remove(stream_map, {e.fd})
    BY <1>2
  <2> QED
    BY <1>1, <2>1, <2>2, <2>3, <2>4, CloseKeeps
<1>5. EventsSound'
  BY <1>4, EventTaken
<1>6. KeyPerOp'
  BY QueueKeeps
<1>7. TypeOK'
  BY DEF TypeOK, Close, Remove, Restrict
<1>8. RingsTyped'
  BY DEF RingsTyped
<1> QED
  BY <1>4, <1>5, <1>6, <1>7, <1>8

\* The key is nobody's: here the allocation of ports matters.
LEMMA BooksByConnects ==
  ASSUME BooksIInv, KeysFresh, NEW e \in events, NEW peer \in Listening, AskConnects(e, peer)
  PROVE  BooksIInv'
<1> DEFINE s    == fds[e.fd]
           key  == [local |-> FirstFree, peer |-> peer]
           conn == [fd |-> e.fd, rx_queue |-> {"Request"}, connect |-> FALSE]
<1> USE DEF BooksIInv, AskConnects, Ask, TakeEvent, Unconnected, PushKey, rings
<1>1. FirstFree \in FreePorts
  BY FirstFreeIsFree
<1>2. key \in Keys /\ key \notin DOMAIN conn_map
  BY <1>1 DEF Keys, FreePorts, KeysFresh
<1>3. /\ e.fd \in DOMAIN stream_map /\ e.fd \notin DOMAIN listener_map
      /\ e.fd \in Fds /\ e.fd \in DOMAIN fds /\ s \in Streams
  BY OpenFds DEF TypeOK, Primaries
<1>4. conn \in Connections /\ conn.fd = e.fd /\ conn.rx_queue = {"Request"}
  BY <1>3 DEF Connections, RxOps
<1>5. /\ stream_map' = Remove(stream_map, {e.fd})
      /\ listener_map' = Insert(listener_map, e.fd, key)
      /\ conn_map' = Insert(conn_map, key, conn)
      /\ backend_rxq' = Append(backend_rxq, key)
      /\ epoll' = Watching(e.fd, "inout")
      /\ host' = [host EXCEPT ![s].unread = 0]
      /\ UNCHANGED fds
  OBVIOUS
<1>6. PortAfter(FirstFree) \in Ports /\ FirstFree \in Ports
  BY <1>1, BackendAssumption DEF PortAfter, FreePorts, Ports
<1>7. local_port_set' \subseteq Ports /\ local_port' \in Ports
  BY <1>6 DEF TypeOK
<1> HIDE DEF s, key, conn
<1>8. StaysOpen /\ host' \in [Streams -> HostEnds]
  BY <1>3, <1>5 DEF StaysOpen, TypeOK, HostEnds
<1>9. Struct' /\ \A r \in epoll : \E q \in epoll' : q.fd = r.fd
  BY <1>2, <1>3, <1>4, <1>5, <1>8, AskKeeps, SMTT(40)
<1>10. EventsSound'
  BY <1>9, EventTaken
<1>11. KeyPerOp'
  <2>1. \A k \in DOMAIN conn_map' :
          \/ k \in DOMAIN conn_map /\ conn_map'[k].rx_queue = conn_map[k].rx_queue
          \/ k = key /\ conn_map'[k].rx_queue = {"Request"}
    BY <1>4, <1>5 DEF Insert
  <2> QED
    BY <1>2, <1>5, <2>1, PushKeeps
<1>12. TypeOK'
  <2>1. DOMAIN conn_map' \subseteq Keys /\ \A k \in DOMAIN conn_map' : conn_map'[k] \in Connections
    BY <1>2, <1>4, <1>5 DEF TypeOK, Insert
  <2>2. DOMAIN listener_map' \subseteq Fds /\ \A x \in DOMAIN listener_map' : listener_map'[x] \in Keys
    BY <1>2, <1>3, <1>5 DEF TypeOK, Insert
  <2>3. DOMAIN stream_map' \subseteq Fds /\ \A x \in DOMAIN stream_map' : stream_map'[x] \in Fds
    BY <1>5 DEF TypeOK, Remove, Restrict
  <2>4. \A r \in epoll' : r \in [fd : Fds, stream : Streams, events : {"in", "inout"}]
    BY <1>3, <1>5 DEF TypeOK, Watching, s
  <2>5. backend_rxq' \in Seq(Keys)
    BY <1>2, <1>5 DEF TypeOK
  <2> QED
    BY <1>7, <1>8, <2>1, <2>2, <2>3, <2>4, <2>5 DEF TypeOK
<1>13. RingsTyped'
  BY DEF RingsTyped
<1> QED
  BY <1>9, <1>10, <1>11, <1>12, <1>13

LEMMA BooksByFlush ==
  ASSUME BooksIInv, NEW e \in events, FlushEvent(e)
  PROVE  BooksIInv' /\ pc' # "panic"
<1> USE DEF BooksIInv, FlushEvent, TakeConnectedEvent, TakeEvent, rings
<1> DEFINE key == listener_map[e.fd]
<1>1. /\ e.fd \in DOMAIN listener_map /\ e.fd \in Primaries /\ e.fd \in DOMAIN fds
      /\ Found(e) /\ key \in Keys /\ e.fd \in Fds
  BY OpenFds DEF Primaries, Struct, MapsAgree, Found, TypeOK
<1>2. /\ epoll' = (IF Registered(e.fd) THEN Watching(e.fd, "in") ELSE epoll)
      /\ backend_rxq' = Append(backend_rxq, key)
      /\ UNCHANGED <<maps, pc, fds, host>>
  BY <1>1 DEF PushKey
<1>3. SameBooks /\ StaysOpen
  BY <1>2 DEF SameBooks, StaysOpen, maps
<1>4. EpollSound' /\ \A r \in epoll : \E q \in epoll' : q.fd = r.fd
  <2>1. CASE Registered(e.fd)
    BY <1>1, <1>2, <1>3, <2>1, EpollWatching
  <2>2. CASE ~Registered(e.fd)
    BY <1>2, <1>3, <2>2, EpollSame DEF Struct
  <2> QED
    BY <2>1, <2>2
<1>5. Struct'
  BY <1>3, <1>4, SameBooksKeep
<1>6. pc' = "events"
  BY <1>2
<1>7. EventsSound'
  BY <1>4, <1>6, EventTaken
<1>8. KeyPerOp'
  <2>1. \A k \in DOMAIN conn_map' :
          k \in DOMAIN conn_map /\ conn_map'[k].rx_queue = conn_map[k].rx_queue
    BY <1>2 DEF maps
  <2> QED
    BY <1>1, <1>2, <2>1, PushKeeps
<1>9. TypeOK'
  <2>1. \A r \in epoll' : r \in [fd : Fds, stream : Streams, events : {"in", "inout"}]
    BY <1>1, <1>2 DEF TypeOK, Watching
  <2>2. backend_rxq' \in Seq(Keys)
    BY <1>1, <1>2 DEF TypeOK
  <2> QED
    BY <1>2, <2>1, <2>2 DEF TypeOK, maps
<1>10. RingsTyped'
  BY DEF RingsTyped
<1> QED
  BY <1>5, <1>6, <1>7, <1>8, <1>9, <1>10

\* The connection is found and its registration as well.
LEMMA BooksByRead ==
  ASSUME BooksIInv, NEW e \in events, ReadEvent(e)
  PROVE  BooksIInv' /\ pc' # "panic"
<1> USE DEF BooksIInv, ReadEvent, TakeConnectedEvent, TakeEvent, rings
<1> DEFINE key == listener_map[e.fd]
<1>1. /\ e.fd \in DOMAIN listener_map /\ e.fd \in Primaries /\ e.fd \in DOMAIN fds
      /\ Found(e) /\ key \in Keys /\ key \in DOMAIN conn_map /\ e.fd \in Fds
  BY OpenFds DEF Primaries, Struct, MapsAgree, Found, TypeOK
<1>2. Registered(e.fd)
  <2>1. e.fd # Listener
    BY <1>1, BackendAssumption, FS_CardinalityType DEF Fds, Listener
  <2>2. PICK r \in epoll : r.fd = e.fd
    BY <2>1 DEF EventsSound
  <2>3. r \in Registration(e.fd)
    BY <1>1, <2>2 DEF Struct, EpollSound, Registration
  <2> QED
    BY <2>3 DEF Registered
<1>3. /\ epoll' = epoll \ Registration(e.fd)
      /\ conn_map' = [conn_map EXCEPT ![key].rx_queue = @ \cup {"Rw"}]
      /\ backend_rxq' = Append(backend_rxq, key)
      /\ UNCHANGED <<listener_map, stream_map, local_port_set, local_port, pc, fds, host>>
  BY <1>1, <1>2 DEF PushKey
<1>4. \A k \in DOMAIN conn_map : conn_map[k] \in Connections
  BY DEF TypeOK
<1>5. /\ DOMAIN conn_map' = DOMAIN conn_map
      /\ \A k \in DOMAIN conn_map : conn_map'[k].fd = conn_map[k].fd /\ conn_map'[k] \in Connections
      /\ \A k \in DOMAIN conn_map : k # key => conn_map'[k] = conn_map[k]
      /\ conn_map'[key].rx_queue = conn_map[key].rx_queue \cup {"Rw"}
  BY <1>1, <1>3, <1>4 DEF Connections, RxOps
<1>6. SameBooks /\ StaysOpen
  BY <1>3, <1>5 DEF SameBooks, StaysOpen
<1>7. EpollSound' /\ \A r \in epoll : r.fd # e.fd => \E q \in epoll' : q.fd = r.fd
  BY <1>1, <1>3, <1>6, EpollUnwatched
<1>8. Struct'
  BY <1>6, <1>7, SameBooksKeep
<1>9. pc' = "events"
  BY <1>3
<1>10. EventsSound'
  BY <1>7, <1>9, EventTaken
<1>11. KeyPerOp'
  <2>1. \A k \in DOMAIN conn_map' :
          \/ k \in DOMAIN conn_map /\ conn_map'[k].rx_queue = conn_map[k].rx_queue
          \/ /\ k = key /\ k \in DOMAIN conn_map
             /\ \E op : conn_map'[k].rx_queue = conn_map[k].rx_queue \cup {op}
    BY <1>5
  <2> QED
    BY <1>1, <1>3, <2>1, PushKeeps
<1>12. TypeOK'
  <2>1. \A r \in epoll' : r \in [fd : Fds, stream : Streams, events : {"in", "inout"}]
    BY <1>3 DEF TypeOK
  <2>2. backend_rxq' \in Seq(Keys)
    BY <1>1, <1>3 DEF TypeOK
  <2>3. DOMAIN conn_map' \subseteq Keys /\ \A k \in DOMAIN conn_map' : conn_map'[k] \in Connections
    BY <1>5 DEF TypeOK
  <2> QED
    BY <1>3, <2>1, <2>2, <2>3 DEF TypeOK
<1>13. RingsTyped'
  BY DEF RingsTyped
<1> QED
  BY <1>8, <1>9, <1>10, <1>11, <1>12, <1>13

\* A packet that is taken has a key, and what is left is still a ring.
LEMMA PacketTaken ==
  ASSUME RingsTyped, TakePacket
  PROVE  /\ TxKey \in Keys /\ TxOp \in Ops /\ RingsTyped'
         /\ \A i \in 1 .. Len(txring') : txring'[i].key \in Keys
         /\ \A i \in 1 .. Len(rxring') : rxring'[i].key \in Keys
<1>1. Head(txring) \in Packets /\ Tail(txring) \in Seq(Packets)
  BY DEF TakePacket, RingsTyped
<1>2. RingsTyped'
  BY <1>1 DEF TakePacket, RingsTyped
<1>3. /\ \A i \in 1 .. Len(txring') : txring'[i] \in Packets
      /\ \A i \in 1 .. Len(rxring') : rxring'[i] \in Packets
  BY <1>2 DEF RingsTyped
<1> QED
  BY <1>1, <1>2, <1>3 DEF TxKey, TxOp, Packets

LEMMA BooksByTxConnect ==
  ASSUME BooksIInv, NEW s \in Streams, TxConnect(s)
  PROVE  BooksIInv'
<1> DEFINE original == LowestFree(DOMAIN fds)
           fd       == LowestFree(DOMAIN fds \cup {original})
           conn     == [fd |-> fd, rx_queue |-> {"Response"}, connect |-> FALSE]
<1> USE DEF BooksIInv
<1>1. TakePacket /\ host[s].st = "unused" /\ TxKey \notin DOMAIN conn_map
  BY DEF TxConnect
<1>2. original \in Fds \ DOMAIN fds /\ fd \in Fds \ (DOMAIN fds \cup {original})
  <2>1. /\ Fds \ DOMAIN fds # {}
        /\ \A one : Fds \ (DOMAIN fds \cup {one}) # {}
    BY <1>1, RoomForTwo
  <2> QED
    BY <2>1, LowestFreeIsFree
<1>3. /\ host' = [host EXCEPT ![s].st = "open", ![s].told = TRUE]
      /\ fds' = Insert(Insert(fds, original, s), fd, s)
      /\ epoll' = epoll \cup {[fd |-> fd, stream |-> s, events |-> "inout"]}
      /\ listener_map' = Insert(listener_map, fd, TxKey)
      /\ conn_map' = Insert(conn_map, TxKey, conn)
      /\ stream_map' = Insert(stream_map, fd, original)
      /\ local_port_set' = local_port_set \cup {TxKey.local}
      /\ backend_rxq' = Append(backend_rxq, TxKey)
      /\ UNCHANGED <<local_port, pc>>
  BY DEF TxConnect, PushKey
<1>4. conn.fd = fd /\ conn.rx_queue = {"Response"} /\ conn \in Connections
  BY <1>2 DEF Connections, RxOps
<1> HIDE DEF original, fd, conn
<1>5. TxKey \in Keys /\ RingsTyped' /\ TxKey.local \in Ports
  <2>1. TxKey \in Keys /\ RingsTyped'
    BY <1>1, PacketTaken
  <2> QED
    BY <2>1 DEF Keys
<1>6. /\ host'[s].st = "open" /\ StaysOpen /\ host' \in [Streams -> HostEnds]
  <2>1. \A other \in Streams : host[other] \in HostEnds
    BY DEF TypeOK
  <2>2. /\ DOMAIN host' = Streams /\ host' = [other \in Streams |-> host'[other]]
        /\ \A other \in Streams : other # s => host'[other] = host[other]
        /\ host'[s] = [host[s] EXCEPT !.st = "open", !.told = TRUE]
    BY <1>3 DEF TypeOK
  <2>3. host'[s] \in HostEnds /\ host'[s].st = "open"
    BY <2>1, <2>2 DEF HostEnds
  <2>4. \A other \in Streams : host'[other] \in HostEnds
    BY <2>1, <2>2, <2>3
  <2>5. StaysOpen
    BY <2>2, <2>3 DEF StaysOpen
  <2> QED
    BY <2>2, <2>3, <2>4, <2>5
<1>7. Struct'
  BY <1>1, <1>2, <1>3, <1>4, <1>6, ConnectKeeps
<1>8. EventsSound'
  BY <1>1, <1>3, NoEvents DEF TakePacket
<1>9. KeyPerOp'
  <2>1. \A k \in DOMAIN conn_map' :
          \/ k \in DOMAIN conn_map /\ conn_map'[k].rx_queue = conn_map[k].rx_queue
          \/ k = TxKey /\ conn_map'[k].rx_queue = {"Response"}
    BY <1>3, <1>4 DEF Insert
  <2> QED
    BY <1>3, <1>5, <2>1, PushKeeps
<1>10. TypeOK'
  <2>1. DOMAIN conn_map' \subseteq Keys /\ \A k \in DOMAIN conn_map' : conn_map'[k] \in Connections
    BY <1>3, <1>4, <1>5 DEF TypeOK, Insert
  <2>2. DOMAIN listener_map' \subseteq Fds /\ \A x \in DOMAIN listener_map' : listener_map'[x] \in Keys
    BY <1>2, <1>3, <1>5 DEF TypeOK, Insert
  <2>3. DOMAIN stream_map' \subseteq Fds /\ \A x \in DOMAIN stream_map' : stream_map'[x] \in Fds
    BY <1>2, <1>3 DEF TypeOK, Insert
  <2>4. DOMAIN fds' \subseteq Fds /\ \A x \in DOMAIN fds' : fds'[x] \in Streams
    BY <1>2, <1>3 DEF TypeOK, Insert
  <2>5. \A r \in epoll' : r \in [fd : Fds, stream : Streams, events : {"in", "inout"}]
    BY <1>2, <1>3 DEF TypeOK
  <2>6. backend_rxq' \in Seq(Keys) /\ local_port_set' \subseteq Ports
    BY <1>3, <1>5 DEF TypeOK
  <2>7. /\ \A i \in 1 .. Len(txring') : txring'[i].key \in Keys
        /\ \A i \in 1 .. Len(rxring') : rxring'[i].key \in Keys
    BY <1>1, PacketTaken
  <2>8. UNCHANGED <<events, rxkick, guest, local_port, pc>>
    BY <1>1, <1>3 DEF TakePacket
  <2> QED
    BY <1>6, <2>1, <2>2, <2>3, <2>4, <2>5, <2>6, <2>7, <2>8 DEF TypeOK
<1> QED
  BY <1>5, <1>7, <1>8, <1>9, <1>10

\* The connections of the other keys are not touched.
LEMMA BooksByRemoval ==
  ASSUME TypeOK, Struct, NEW key \in DOMAIN conn_map, RemoveConnection(key), UNCHANGED host
  PROVE  /\ Struct'
         /\ DOMAIN conn_map' = DOMAIN conn_map \ {key}
         /\ \A k \in DOMAIN conn_map' : conn_map'[k] = conn_map[k]
<1> DEFINE fd == conn_map[key].fd
<1>1. /\ conn_map' = Remove(conn_map, {key})
      /\ listener_map' = Remove(listener_map, {fd})
      /\ Close({fd} \cup (IF fd \in DOMAIN stream_map THEN {stream_map[fd]} ELSE {}))
      /\ stream_map' = Remove(stream_map, {fd})
  BY DEF RemoveConnection
<1>2. fd \in Primaries
  BY DEF Struct, MapsAgree, Primaries
<1>3. \A k \in DOMAIN conn_map : conn_map[k].fd = fd <=> k = key
  BY DEF Struct, MapsAgree
<1> HIDE DEF fd
<1>4. /\ DOMAIN conn_map' = DOMAIN conn_map \ {key}
      /\ \A k \in DOMAIN conn_map' : conn_map'[k] = conn_map[k]
      /\ DOMAIN listener_map' = DOMAIN listener_map \ {fd}
      /\ \A x \in DOMAIN listener_map' : listener_map'[x] = listener_map[x]
  BY <1>1 DEF Remove, Restrict
<1>5. DOMAIN conn_map' = {k \in DOMAIN conn_map : conn_map[k].fd # fd}
  BY <1>3, <1>4
<1>6. StaysOpen
  BY DEF StaysOpen
<1>7. Struct'
  BY <1>1, <1>2, <1>4, <1>5, <1>6, CloseKeeps
<1> QED
  BY <1>4, <1>7

LEMMA TypesAfterRemoval ==
  ASSUME TypeOK, NEW key \in DOMAIN conn_map, RemoveConnection(key)
  PROVE  /\ DOMAIN conn_map' \subseteq Keys
         /\ \A k \in DOMAIN conn_map' : conn_map'[k] \in Connections
         /\ DOMAIN listener_map' \subseteq Fds
         /\ \A x \in DOMAIN listener_map' : listener_map'[x] \in Keys
         /\ DOMAIN stream_map' \subseteq Fds
         /\ \A x \in DOMAIN stream_map' : stream_map'[x] \in Fds
         /\ DOMAIN fds' \subseteq Fds /\ \A x \in DOMAIN fds' : fds'[x] \in Streams
         /\ \A r \in epoll' : r \in [fd : Fds, stream : Streams, events : {"in", "inout"}]
         /\ local_port_set' \subseteq Ports
BY DEF TypeOK, RemoveConnection, Close, Remove, Restrict

LEMMA BooksByTxRst ==
  ASSUME BooksIInv, TxRst
  PROVE  BooksIInv'
<1> USE DEF BooksIInv
<1>1. /\ TakePacket /\ TxKey \in DOMAIN conn_map
      /\ UNCHANGED <<local_port, backend_rxq, pc, host>>
  BY DEF TxRst
<1>2. /\ RingsTyped'
      /\ \A i \in 1 .. Len(txring') : txring'[i].key \in Keys
      /\ \A i \in 1 .. Len(rxring') : rxring'[i].key \in Keys
  BY <1>1, PacketTaken
<1>3. EventsSound'
  BY <1>1, NoEvents DEF TakePacket
<1>4. UNCHANGED <<events, rxkick, guest>>
  BY <1>1 DEF TakePacket
<1>5. CASE UNCHANGED <<conn_map, listener_map, stream_map, local_port_set, kernel>>
  <2>1. SameBooks /\ StaysOpen
    BY <1>1, <1>5 DEF SameBooks, StaysOpen, kernel
  <2>2. Struct'
    BY <1>5, <2>1, EpollSame, SameBooksKeep DEF Struct, kernel
  <2>3. KeyPerOp'
    BY <1>1, <1>5, QueueKeeps
  <2> QED
    BY <1>1, <1>2, <1>3, <1>4, <1>5, <2>2, <2>3 DEF TypeOK, kernel
<1>6. CASE RemoveConnection(TxKey)
  <2>1. /\ Struct'
        /\ DOMAIN conn_map' = DOMAIN conn_map \ {TxKey}
        /\ \A k \in DOMAIN conn_map' : conn_map'[k] = conn_map[k]
    BY <1>1, <1>6, BooksByRemoval
  <2>2. KeyPerOp'
    BY <1>1, <2>1, QueueKeeps
  <2>3. TypeOK'
    BY <1>1, <1>2, <1>4, <1>6, TypesAfterRemoval DEF TypeOK
  <2> QED
    BY <1>2, <1>3, <2>1, <2>2, <2>3
<1> QED
  BY <1>5, <1>6 DEF TxRst

\* Packets that change at most the pending operations of their connection.
LEMMA BooksByTxOther ==
  ASSUME BooksIInv,
         TxRefused \/ TxAbsorbed \/ TxNothingNew \/ TxResponse \/ TxCreditUpdate \/ TxShutdown
  PROVE  BooksIInv'
<1> USE DEF BooksIInv
<1>1. TakePacket
  BY DEF TxRefused, TxAbsorbed, TxNothingNew, TxResponse, TxCreditUpdate, TxShutdown,
         TakeForConnection
<1>2. /\ RingsTyped' /\ TxKey \in Keys
      /\ \A i \in 1 .. Len(txring') : txring'[i].key \in Keys
      /\ \A i \in 1 .. Len(rxring') : rxring'[i].key \in Keys
  BY <1>1, PacketTaken
<1>3. UNCHANGED <<events, rxkick, guest>>
  BY <1>1 DEF TakePacket
<1>4. UNCHANGED <<listener_map, stream_map, local_port_set, local_port, fds>>
  BY DEF TxRefused, TxAbsorbed, TxNothingNew, TxResponse, TxCreditUpdate, TxShutdown,
         TakeForConnection, maps, kernel
<1>5. EventsSound'
  BY <1>1, NoEvents DEF TakePacket
<1>6. pc' \in {"tx", "panic"}
  BY <1>1 DEF TxRefused, TxAbsorbed, TxNothingNew, TxResponse, TxCreditUpdate, TxShutdown,
         TakePacket
<1>7. CASE UNCHANGED <<conn_map, epoll, host>>
  <2>1. SameBooks /\ StaysOpen
    BY <1>4, <1>7 DEF SameBooks, StaysOpen
  <2>2. Struct'
    BY <1>7, <2>1, EpollSame, SameBooksKeep DEF Struct
  <2>3. backend_rxq' = backend_rxq \/ backend_rxq' = Append(backend_rxq, TxKey)
    BY DEF TxRefused, TxAbsorbed, TxNothingNew, TxResponse, TxCreditUpdate, TxShutdown,
           PushKeyIfPending, PushKey
  <2>4. KeyPerOp'
    BY <1>2, <1>7, <2>3, QueueKeeps, PushKeeps
  <2>5. backend_rxq' \in Seq(Keys)
    BY <1>2, <2>3 DEF TypeOK
  <2>6. TypeOK'
    BY <1>2, <1>3, <1>4, <1>6, <1>7, <2>5 DEF TypeOK
  <2> QED
    BY <1>2, <1>5, <2>2, <2>4, <2>6
<1>8. CASE TxCreditUpdate
  <2>1. /\ TxKey \in DOMAIN conn_map
        /\ epoll' = Watching(conn_map[TxKey].fd, "inout")
        /\ UNCHANGED <<conn_map, host>>
        /\ backend_rxq' = backend_rxq \/ backend_rxq' = Append(backend_rxq, TxKey)
    BY <1>8 DEF TxCreditUpdate, TakeForConnection, PushKeyIfPending, PushKey
  <2>2. /\ conn_map[TxKey].fd \in Primaries /\ conn_map[TxKey].fd \in DOMAIN fds
        /\ conn_map[TxKey].fd \in Fds
    BY <2>1, OpenFds DEF Struct, MapsAgree, Primaries, TypeOK
  <2>3. SameBooks /\ StaysOpen
    BY <1>4, <2>1 DEF SameBooks, StaysOpen
  <2>4. Struct'
    BY <2>1, <2>2, <2>3, EpollWatching, SameBooksKeep
  <2>5. KeyPerOp'
    BY <1>2, <2>1, QueueKeeps, PushKeeps
  <2>6. \A r \in epoll' : r \in [fd : Fds, stream : Streams, events : {"in", "inout"}]
    BY <2>1, <2>2 DEF TypeOK, Watching
  <2>7. backend_rxq' \in Seq(Keys)
    BY <1>2, <2>1 DEF TypeOK
  <2>8. TypeOK'
    BY <1>2, <1>3, <1>4, <1>6, <2>1, <2>6, <2>7 DEF TypeOK
  <2> QED
    BY <1>2, <1>5, <2>4, <2>5, <2>8
<1>9. CASE TxShutdown
  <2>1. /\ TxKey \in DOMAIN conn_map
        /\ conn_map' = [conn_map EXCEPT ![TxKey].rx_queue = @ \cup {"Reset"}]
        /\ UNCHANGED <<epoll, host>>
    BY <1>9 DEF TxShutdown, TakeForConnection
  <2>2. \A k \in DOMAIN conn_map : conn_map[k] \in Connections
    BY DEF TypeOK
  <2>3. /\ DOMAIN conn_map' = DOMAIN conn_map
        /\ \A k \in DOMAIN conn_map : conn_map'[k].fd = conn_map[k].fd /\ conn_map'[k] \in Connections
        /\ \A k \in DOMAIN conn_map : k # TxKey => conn_map'[k] = conn_map[k]
        /\ conn_map'[TxKey].rx_queue = conn_map[TxKey].rx_queue \cup {"Reset"}
    BY <2>1, <2>2 DEF Connections, RxOps
  <2>4. backend_rxq' = Append(backend_rxq, TxKey)
    BY <1>9, <2>3 DEF TxShutdown, PushKeyIfPending, PushKey
  <2>5. SameBooks /\ StaysOpen
    BY <1>4, <2>1, <2>3 DEF SameBooks, StaysOpen
  <2>6. Struct'
    BY <2>1, <2>5, EpollSame, SameBooksKeep DEF Struct
  <2>7. KeyPerOp'
    <3>1. \A k \in DOMAIN conn_map' :
            \/ k \in DOMAIN conn_map /\ conn_map'[k].rx_queue = conn_map[k].rx_queue
            \/ /\ k = TxKey /\ k \in DOMAIN conn_map
               /\ \E op : conn_map'[k].rx_queue = conn_map[k].rx_queue \cup {op}
      BY <2>3
    <3> QED
      BY <1>2, <2>4, <3>1, PushKeeps
  <2>8. backend_rxq' \in Seq(Keys)
    BY <1>2, <2>4 DEF TypeOK
  <2>9. DOMAIN conn_map' \subseteq Keys /\ \A k \in DOMAIN conn_map' : conn_map'[k] \in Connections
    BY <2>3 DEF TypeOK
  <2>10. TypeOK'
    BY <1>2, <1>3, <1>4, <1>6, <2>1, <2>8, <2>9 DEF TypeOK
  <2> QED
    BY <1>2, <1>5, <2>6, <2>7, <2>10
<1>10. CASE TxResponse /\ host[fds[conn_map[TxKey].fd]].st # "closed"
  <2> DEFINE s == fds[conn_map[TxKey].fd]
  <2>1. /\ TxKey \in DOMAIN conn_map
        /\ conn_map' = [conn_map EXCEPT ![TxKey].connect = TRUE]
        /\ host' = [host EXCEPT ![s].told = TRUE]
        /\ UNCHANGED epoll
        /\ backend_rxq' = backend_rxq \/ backend_rxq' = Append(backend_rxq, TxKey)
    BY <1>10 DEF TxResponse, TakeForConnection, PushKeyIfPending, PushKey
  <2> HIDE DEF s
  <2>2. \A k \in DOMAIN conn_map : conn_map[k] \in Connections
    BY DEF TypeOK
  <2>3. /\ DOMAIN conn_map' = DOMAIN conn_map
        /\ \A k \in DOMAIN conn_map : /\ conn_map'[k].fd = conn_map[k].fd
                                      /\ conn_map'[k].rx_queue = conn_map[k].rx_queue
                                      /\ conn_map'[k] \in Connections
    BY <2>1, <2>2 DEF Connections
  <2>4. StaysOpen /\ host' \in [Streams -> HostEnds]
    <3>1. \A other \in Streams : host[other] \in HostEnds
      BY DEF TypeOK
    <3>2. /\ DOMAIN host' = Streams /\ host' = [other \in Streams |-> host'[other]]
          /\ \A other \in Streams : other # s => host'[other] = host[other]
          /\ s \in Streams => host'[s] = [host[s] EXCEPT !.told = TRUE]
      BY <2>1 DEF TypeOK
    <3>3. s \in Streams => host'[s] \in HostEnds /\ host'[s].st = host[s].st
      BY <3>1, <3>2 DEF HostEnds
    <3>4. \A other \in Streams : host'[other] \in HostEnds
      BY <3>1, <3>2, <3>3
    <3>5. StaysOpen
      BY <3>2, <3>3 DEF StaysOpen
    <3> QED
      BY <3>2, <3>4, <3>5
  <2>5. SameBooks
    BY <1>4, <2>3 DEF SameBooks
  <2>6. Struct'
    BY <2>1, <2>4, <2>5, EpollSame, SameBooksKeep DEF Struct
  <2>7. KeyPerOp'
    <3>1. \A k \in DOMAIN conn_map' :
            k \in DOMAIN conn_map /\ conn_map'[k].rx_queue = conn_map[k].rx_queue
      BY <2>3
    <3>2. CASE backend_rxq' = backend_rxq
      BY <3>1, <3>2, QueueKeeps
    <3>3. CASE backend_rxq' = Append(backend_rxq, TxKey)
      BY <1>2, <3>1, <3>3, PushKeeps
    <3> QED
      BY <2>1, <3>2, <3>3
  <2>8. backend_rxq' \in Seq(Keys)
    <3>1. backend_rxq \in Seq(Keys)
      BY DEF TypeOK
    <3>2. Append(backend_rxq, TxKey) \in Seq(Keys)
      BY <1>2, <3>1
    <3> QED
      BY <2>1, <3>1, <3>2
  <2>9. DOMAIN conn_map' \subseteq Keys /\ \A k \in DOMAIN conn_map' : conn_map'[k] \in Connections
    BY <2>3 DEF TypeOK
  <2>10. TypeOK'
    BY <1>2, <1>3, <1>4, <1>6, <2>1, <2>4, <2>8, <2>9 DEF TypeOK
  <2> QED
    BY <1>2, <1>5, <2>6, <2>7, <2>10
<1>11. CASE TxRefused \/ TxAbsorbed \/ TxNothingNew \/ (TxResponse /\ host[fds[conn_map[TxKey].fd]].st = "closed")
  <2>1. UNCHANGED <<conn_map, epoll, host>>
    BY <1>11 DEF TxRefused, TxAbsorbed, TxNothingNew, TxResponse, maps, kernel
  <2> QED
    BY <1>7, <2>1
<1> QED
  BY <1>8, <1>9, <1>10, <1>11

\* The same of a key that is taken from the queue and the packet it brings.
LEMMA KeyTaken ==
  ASSUME TypeOK, RingsTyped, PopKey,
         rxring' = rxring \/ \E op \in Ops : rxring' = Append(rxring, Packet(op, RxKey))
  PROVE  /\ RxKey \in Keys /\ backend_rxq' \in Seq(Keys) /\ RingsTyped'
         /\ \A i \in 1 .. Len(txring') : txring'[i].key \in Keys
         /\ \A i \in 1 .. Len(rxring') : rxring'[i].key \in Keys
<1>1. /\ backend_rxq \in Seq(Keys) /\ backend_rxq # <<>>
      /\ backend_rxq' = Tail(backend_rxq) /\ txring' = txring
  BY DEF TypeOK, PopKey
<1>2. RxKey \in Keys /\ backend_rxq' \in Seq(Keys)
  BY <1>1 DEF RxKey
<1>3. \A op \in Ops : Packet(op, RxKey) \in Packets
  BY <1>2 DEF Packet, Packets
<1>4. RingsTyped'
  BY <1>1, <1>3, SMTT(30) DEF RingsTyped
<1>5. /\ \A i \in 1 .. Len(txring') : txring'[i] \in Packets
      /\ \A i \in 1 .. Len(rxring') : rxring'[i] \in Packets
  BY <1>4 DEF RingsTyped
<1> QED
  BY <1>2, <1>4, <1>5 DEF Packets

LEMMA BooksByRxReset ==
  ASSUME BooksIInv, RxReset
  PROVE  BooksIInv'
<1> USE DEF BooksIInv
<1>1. /\ PopKey /\ RxKey \in DOMAIN conn_map /\ RemoveConnection(RxKey)
      /\ UNCHANGED <<pc, host>> /\ rxring' = Append(rxring, Packet("RST", RxKey))
  BY DEF RxReset, Serve, Fill, Return
<1>2. /\ backend_rxq' \in Seq(Keys) /\ RingsTyped'
      /\ \A i \in 1 .. Len(txring') : txring'[i].key \in Keys
      /\ \A i \in 1 .. Len(rxring') : rxring'[i].key \in Keys
  BY <1>1, KeyTaken DEF Ops
<1>3. /\ Struct'
      /\ DOMAIN conn_map' = DOMAIN conn_map \ {RxKey}
      /\ \A k \in DOMAIN conn_map' : conn_map'[k] = conn_map[k]
  BY <1>1, BooksByRemoval
<1>4. UNCHANGED <<events, rxkick, guest, local_port>>
  BY <1>1 DEF PopKey
<1>5. EventsSound'
  BY <1>1, <1>4, NoEvents DEF PopKey
<1>6. KeyPerOp'
  <2>1. \A k \in DOMAIN conn_map' :
          /\ k \in DOMAIN conn_map /\ k # RxKey
          /\ conn_map'[k].rx_queue = conn_map[k].rx_queue
    BY <1>3
  <2> QED
    BY <1>1, <2>1, PopKeeps DEF PopKey
<1>7. TypeOK'
  BY <1>1, <1>2, <1>4, TypesAfterRemoval DEF TypeOK
<1> QED
  BY <1>2, <1>3, <1>5, <1>6, <1>7

\* One pending operation is carried out and taken out, or none was left.
LEMMA BooksByRxOther ==
  ASSUME BooksIInv,
         \/ RxUnknown \/ RxNothing \/ RxRequest \/ RxResponse
         \/ RxNotConnected \/ RxRead \/ RxReadNothing
  PROVE  BooksIInv'
<1> USE DEF BooksIInv
<1>1. /\ PopKey /\ pc' \in {"rx", "idle"}
      /\ rxring' = rxring \/ \E op \in Ops : rxring' = Append(rxring, Packet(op, RxKey))
  BY DEF RxUnknown, RxNothing, RxRequest, RxResponse, RxNotConnected, RxRead, RxReadNothing,
         Serve, Fill, Return, Ops, PopKey
<1>2. /\ RxKey \in Keys /\ backend_rxq' \in Seq(Keys) /\ RingsTyped'
      /\ \A i \in 1 .. Len(txring') : txring'[i].key \in Keys
      /\ \A i \in 1 .. Len(rxring') : rxring'[i].key \in Keys
  BY <1>1, KeyTaken
<1>3. UNCHANGED <<events, rxkick, guest, local_port>>
  BY <1>1 DEF PopKey
<1>4. EventsSound'
  BY <1>1, <1>3, NoEvents DEF PopKey
<1>5. UNCHANGED <<listener_map, stream_map, local_port_set, fds>>
  BY DEF RxUnknown, RxNothing, RxRequest, RxResponse, RxNotConnected, RxRead, RxReadNothing, kernel
<1>6. backend_rxq # <<>> /\ backend_rxq' = Tail(backend_rxq)
  BY <1>1 DEF PopKey
<1>7. \A k \in DOMAIN conn_map : conn_map[k] \in Connections
  BY DEF TypeOK
<1>8. CASE RxUnknown \/ RxNothing
  <2>1. UNCHANGED <<conn_map, epoll, host>>
    BY <1>8 DEF RxUnknown, RxNothing, kernel
  <2>2. SameBooks /\ StaysOpen
    BY <1>5, <2>1 DEF SameBooks, StaysOpen
  <2>3. Struct'
    BY <2>1, <2>2, EpollSame, SameBooksKeep DEF Struct
  <2>4. \A k \in DOMAIN conn_map' :
          /\ k \in DOMAIN conn_map /\ conn_map'[k] = conn_map[k]
          /\ k = RxKey => conn_map'[k].rx_queue = {}
    BY <1>8, <2>1 DEF RxUnknown, RxNothing
  <2>5. KeyPerOp'
    BY <1>6, <2>4, PopKeeps
  <2>6. TypeOK'
    BY <1>1, <1>2, <1>3, <1>5, <2>1 DEF TypeOK
  <2> QED
    BY <1>2, <1>4, <2>3, <2>5, <2>6
<1>9. CASE RxRequest \/ RxResponse \/ RxNotConnected \/ RxRead \/ RxReadNothing
  <2>1. PICK op \in RxOps :
          /\ RxKey \in DOMAIN conn_map /\ op \in conn_map[RxKey].rx_queue
          /\ \/ conn_map' = [conn_map EXCEPT ![RxKey].rx_queue = @ \ {op}]
             \/ conn_map' = [conn_map EXCEPT ![RxKey].rx_queue = @ \ {op}, ![RxKey].connect = TRUE]
    BY <1>9 DEF RxRequest, RxResponse, RxNotConnected, RxRead, RxReadNothing, Serve, OpDone, RxOps
  <2>2. /\ DOMAIN conn_map' = DOMAIN conn_map
        /\ \A k \in DOMAIN conn_map : conn_map'[k].fd = conn_map[k].fd /\ conn_map'[k] \in Connections
        /\ \A k \in DOMAIN conn_map : k # RxKey => conn_map'[k] = conn_map[k]
        /\ conn_map'[RxKey].rx_queue = conn_map[RxKey].rx_queue \ {op}
    BY <1>7, <2>1 DEF Connections
  <2>3. KeyPerOp'
    <3>1. \A k \in DOMAIN conn_map' :
            /\ k \in DOMAIN conn_map
            /\ k # RxKey => conn_map'[k].rx_queue = conn_map[k].rx_queue
            /\ k = RxKey => \E o \in conn_map[k].rx_queue :
                              conn_map'[k].rx_queue = conn_map[k].rx_queue \ {o}
      BY <2>1, <2>2
    <3> QED
      BY <1>6, <3>1, PopKeeps
  <2>4. SameBooks
    BY <1>5, <2>2 DEF SameBooks
  <2>5. /\ conn_map[RxKey].fd \in Primaries /\ conn_map[RxKey].fd \in DOMAIN fds
        /\ conn_map[RxKey].fd \in Fds /\ fds[conn_map[RxKey].fd] \in Streams
    BY <2>1, OpenFds DEF Struct, MapsAgree, Primaries, TypeOK
  <2> DEFINE s == fds[conn_map[RxKey].fd]
  <2>6. /\ epoll' = epoll \/ epoll' = Watching(conn_map[RxKey].fd, "inout")
        /\ host' = host \/ host' = [host EXCEPT ![s].unread = 0]
    BY <1>9 DEF RxRequest, RxResponse, RxNotConnected, RxRead, RxReadNothing, kernel
  <2>0. s \in Streams
    BY <2>5
  <2> HIDE DEF s
  <2>7. StaysOpen /\ host' \in [Streams -> HostEnds]
    <3>1. CASE host' = host
      BY <3>1 DEF StaysOpen, TypeOK
    <3>2. CASE host' = [host EXCEPT ![s].unread = 0]
      <4>1. \A other \in Streams : host[other] \in HostEnds
        BY DEF TypeOK
      <4>2. /\ DOMAIN host' = Streams /\ host' = [other \in Streams |-> host'[other]]
            /\ \A other \in Streams : other # s => host'[other] = host[other]
            /\ host'[s] = [host[s] EXCEPT !.unread = 0]
        BY <2>0, <3>2 DEF TypeOK
      <4>3. host'[s] \in HostEnds /\ host'[s].st = host[s].st
        BY <2>0, <4>1, <4>2 DEF HostEnds
      <4>4. \A other \in Streams : host'[other] \in HostEnds
        BY <4>1, <4>2, <4>3
      <4>5. StaysOpen
        BY <4>2, <4>3 DEF StaysOpen
      <4> QED
        BY <4>2, <4>4, <4>5
    <3> QED
      BY <2>6, <3>1, <3>2
  <2>8. EpollSound'
    <3>1. CASE epoll' = epoll
      BY <2>4, <3>1, EpollSame DEF Struct
    <3>2. CASE epoll' = Watching(conn_map[RxKey].fd, "inout")
      BY <2>4, <2>5, <3>2, EpollWatching
    <3> QED
      BY <2>6, <3>1, <3>2
  <2>9. Struct'
    BY <2>4, <2>7, <2>8, SameBooksKeep
  <2>10. \A r \in epoll' : r \in [fd : Fds, stream : Streams, events : {"in", "inout"}]
    BY <2>5, <2>6 DEF TypeOK, Watching
  <2>11. DOMAIN conn_map' \subseteq Keys /\ \A k \in DOMAIN conn_map' : conn_map'[k] \in Connections
    BY <2>2 DEF TypeOK
  <2>12. TypeOK'
    BY <1>1, <1>2, <1>3, <1>5, <2>7, <2>10, <2>11 DEF TypeOK
  <2> QED
    BY <1>2, <1>4, <2>3, <2>9, <2>12
<1> QED
  BY <1>8, <1>9

\* The driver only changes its own sockets and the rings.
LEMMA BooksByGuest ==
  ASSUME BooksIInv, Guest
  PROVE  BooksIInv'
<1> USE DEF BooksIInv
<1> DEFINE States == {"none", "connecting", "established", "closing"}
<1>1. UNCHANGED guestSide
  BY DEF Guest, GuestReceive, GuestConnect, GuestClose, GuestTimeout
<1>2. /\ \A i \in 1 .. Len(txring) : txring[i] \in Packets
      /\ \A i \in 1 .. Len(rxring) : rxring[i] \in Packets
  BY DEF RingsTyped
<1>3. RingsTyped' /\ rxkick' \in BOOLEAN /\ guest' \in [Keys -> States]
  <2>1. CASE \E key \in Keys : GuestConnect(key) \/ GuestClose(key) \/ GuestTimeout(key)
    <3>1. PICK key \in Keys : GuestConnect(key) \/ GuestClose(key) \/ GuestTimeout(key)
      BY <2>1
    <3>2. PICK op \in Ops : txring' = Append(txring, Packet(op, key))
      BY <3>1 DEF GuestConnect, GuestClose, GuestTimeout, Transmit, Ops
    <3>3. UNCHANGED <<rxring, rxkick>>
      BY <3>1 DEF GuestConnect, GuestClose, GuestTimeout
    <3>4. PICK st \in States : guest' = [guest EXCEPT ![key] = st]
      BY <3>1 DEF GuestConnect, GuestClose, GuestTimeout
    <3>5. Packet(op, key) \in Packets
      BY DEF Packet, Packets
    <3>6. RingsTyped'
      BY <3>2, <3>3, <3>5 DEF RingsTyped
    <3>7. rxkick' \in BOOLEAN
      BY <3>3 DEF TypeOK
    <3>8. guest' \in [Keys -> States]
      BY <3>4 DEF TypeOK
    <3> QED
      BY <3>6, <3>7, <3>8
  <2>2. CASE GuestReceive
    <3> DEFINE pkt == Head(rxring)
    <3>1. PICK answer \in Answers(pkt.op, pkt.key, guest[pkt.key]) :
            /\ guest' = [guest EXCEPT ![pkt.key] = answer[2]]
            /\ IF answer[1] = "nothing" THEN UNCHANGED txring ELSE Transmit(answer[1], pkt.key)
      BY <2>2 DEF GuestReceive
    <3>2. pkt \in Packets /\ Tail(rxring) \in Seq(Packets) /\ rxring' = Tail(rxring) /\ rxkick' = TRUE
      BY <2>2 DEF GuestReceive, RingsTyped
    <3>3. pkt.key \in Keys /\ pkt.op \in Ops
      BY <3>2 DEF Packets
    <3>4. guest[pkt.key] \in States
      BY <3>3 DEF TypeOK
    <3> HIDE DEF pkt
    <3>5. answer[1] \in Ops \cup {"nothing"} /\ answer[2] \in States
      BY <3>1, <3>3, <3>4 DEF Answers, Ops
    <3>6. guest' \in [Keys -> States]
      BY <3>1, <3>5 DEF TypeOK
    <3>7. txring' \in Seq(Packets)
      <4>1. CASE answer[1] = "nothing"
        BY <3>1, <4>1 DEF RingsTyped
      <4>2. CASE answer[1] # "nothing"
        <5>1. txring' = Append(txring, Packet(answer[1], pkt.key)) /\ Packet(answer[1], pkt.key) \in Packets
          BY <3>1, <3>3, <3>5, <4>2 DEF Transmit, Packet, Packets
        <5> QED
          BY <5>1 DEF RingsTyped
      <4> QED
        BY <4>1, <4>2
    <3>8. rxkick' \in BOOLEAN
      BY <3>2, Zenon
    <3> QED
      BY <3>2, <3>6, <3>7, <3>8 DEF RingsTyped
  <2> QED
    BY <2>1, <2>2 DEF Guest
<1>4. SameBooks /\ StaysOpen
  BY <1>1 DEF SameBooks, StaysOpen, guestSide, maps, kernel
<1>5. Struct'
  BY <1>1, <1>4, EpollSame, SameBooksKeep DEF Struct, guestSide, kernel
<1>6. EventsSound'
  BY <1>1 DEF EventsSound, guestSide, kernel
<1>7. KeyPerOp'
  BY <1>1, QueueKeeps DEF guestSide, maps
<1>8. /\ \A i \in 1 .. Len(txring') : txring'[i].key \in Keys
      /\ \A i \in 1 .. Len(rxring') : rxring'[i].key \in Keys
  <2>1. /\ \A i \in 1 .. Len(txring') : txring'[i] \in Packets
        /\ \A i \in 1 .. Len(rxring') : rxring'[i] \in Packets
    BY <1>3 DEF RingsTyped
  <2> QED
    BY <2>1 DEF Packets
<1>9. TypeOK'
  BY <1>1, <1>3, <1>8 DEF TypeOK, guestSide, maps, kernel
<1> QED
  BY <1>3, <1>5, <1>6, <1>7, <1>9

\* An application that has been accepted is at most closed.
LEMMA BooksByHost ==
  ASSUME BooksIInv, Host
  PROVE  BooksIInv'
<1> USE DEF BooksIInv
<1>1. UNCHANGED hostSide
  BY DEF Host, HostConnect, HostAsk, HostWrite, HostClose
<1>2. StaysOpen /\ host' \in [Streams -> HostEnds]
  <2>1. PICK s \in Streams :
          \/ host' = [host EXCEPT ![s].st = "backlog"] /\ host[s].st = "unused"
          \/ \E what \in {"connect", "rubbish"} :
               host' = [host EXCEPT ![s].asked = what, ![s].unread = 1]
          \/ host' = [host EXCEPT ![s].unread = 1]
          \/ host' = [host EXCEPT ![s].st = "closed"]
    BY DEF Host, HostConnect, HostAsk, HostWrite, HostClose
  <2>2. host \in [Streams -> HostEnds]
    BY DEF TypeOK
  <2> QED
    BY <2>1, <2>2 DEF StaysOpen, HostEnds
<1>3. SameBooks
  BY <1>1 DEF SameBooks, hostSide, maps, kernel
<1>4. Struct'
  BY <1>1, <1>2, <1>3, EpollSame, SameBooksKeep DEF Struct, hostSide, kernel
<1>5. EventsSound'
  BY <1>1 DEF EventsSound, hostSide, kernel
<1>6. KeyPerOp'
  BY <1>1, QueueKeeps DEF hostSide, maps
<1>7. TypeOK' /\ RingsTyped'
  BY <1>1, <1>2 DEF TypeOK, RingsTyped, hostSide, maps, kernel, rings
<1> QED
  BY <1>4, <1>5, <1>6, <1>7

-----------------------------------------------------------------------------
LEMMA BooksStep == BooksIInv /\ KeysFresh /\ [Next]_vars => BooksIInv'
<1> SUFFICES ASSUME BooksIInv, KeysFresh, [Next]_vars
             PROVE  BooksIInv'
  OBVIOUS
<1>1. CASE UNCHANGED vars \/ WakeBackend \/ WakeTx \/ WakeRx
  BY <1>1, BooksByLoop
<1>2. CASE DeviceEvent
  BY <1>2, BooksByLoop, BooksByAccept, BooksByConnects, BooksByIgnore, BooksByRefused,
     BooksByFlush, BooksByRead DEF DeviceEvent
<1>3. CASE DeviceTx
  BY <1>3, BooksByLoop, BooksByTxConnect, BooksByTxRst, BooksByTxOther DEF DeviceTx
<1>4. CASE DeviceRx
  BY <1>4, BooksByLoop, BooksByRxReset, BooksByRxOther DEF DeviceRx
<1>5. CASE Guest \/ Host
  BY <1>5, BooksByGuest, BooksByHost
<1> QED
  BY <1>1, <1>2, <1>3, <1>4, <1>5 DEF Next, Device

(***************************************************************************)
(* If no host application is ever given a port that makes the key of a     *)
(* connection there is, then the maps agree, every descriptor has an owner *)
(* and every pending operation a key in backend_rxq: VsockThreadBackend's  *)
(* books, and the types.                                                   *)
(***************************************************************************)
THEOREM BooksStayKept == Spec /\ []KeysFresh => []BooksKept
<1>1. BooksIInv => BooksKept
  BY DEF BooksIInv, Struct, BooksKept
<1> QED
  BY <1>1, BooksStart, BooksStep, PTL DEF Spec

\* OK is written to the stream of an application that has closed.
WritesToClosed == TxResponse /\ host[fds[conn_map[TxKey].fd]].st = "closed"

LEMMA PanicsByWrite ==
  ASSUME BooksIInv, Next, pc # "panic", pc' = "panic"
  PROVE  WritesToClosed
<1>1. ~(WakeBackend \/ WakeTx \/ WakeRx \/ Guest \/ Host)
  BY DEF WakeBackend, WakeTx, WakeRx, Guest, GuestReceive, GuestConnect, GuestClose,
              GuestTimeout, Host, HostConnect, HostAsk, HostWrite, HostClose, guestSide, hostSide
<1>2. ~DeviceRx
  BY DEF DeviceRx, RxDone, RxUnknown, RxNothing, RxReset, RxRequest, RxResponse,
              RxNotConnected, RxRead, RxReadNothing, Serve, Fill, PopKey
<1>3. ~DeviceEvent
  BY BooksByFlush, BooksByRead
     DEF DeviceEvent, EventsDone, Accept, AskConnects, Ask, IgnoreEvent, AskRefused
<1>4. DeviceTx => TxResponse
  BY DEF DeviceTx, TxDone, TxRefused, TxAbsorbed, TxRst, TxNothingNew, TxCreditUpdate,
              TxShutdown, TxConnect, TakeForConnection
<1>5. TxResponse => WritesToClosed
  BY DEF TxResponse, WritesToClosed
<1> QED
  BY <1>1, <1>2, <1>3, <1>4, <1>5 DEF Next, Device

(***************************************************************************)
(* Under the same hypothesis no event of the epoll makes the thread panic: *)
(* the unwrap() of the lookup of the connection and those of the epoll     *)
(* calls never fail.  The one step that may is the guest's RESPONSE to a   *)
(* connection whose application has closed, to which OK is written.        *)
(***************************************************************************)
THEOREM PanicOnlyByWrite ==
  Spec /\ []KeysFresh => [][pc # "panic" /\ pc' = "panic" => WritesToClosed]_vars
<1>1. BooksIInv /\ [Next]_vars => [pc # "panic" /\ pc' = "panic" => WritesToClosed]_vars
  BY PanicsByWrite
<1> QED
  BY <1>1, BooksStart, BooksStep, PTL DEF Spec

-----------------------------------------------------------------------------
(* What a step does to the ports and the keys.                             *)

Added(key) ==
  /\ DOMAIN conn_map' = DOMAIN conn_map \cup {key}
  /\ local_port_set' = local_port_set \cup {key.local}

Removed(key) ==
  /\ DOMAIN conn_map' = DOMAIN conn_map \ {key}
  /\ local_port_set' = local_port_set \ {key.local}

Kept == UNCHANGED local_port_set /\ DOMAIN conn_map' = DOMAIN conn_map

LEMMA PortsMove ==
  ASSUME [Next]_vars
  PROVE  \/ Kept
         \/ \E key \in DOMAIN conn_map : Removed(key)
         \/ \E peer \in Listening : FreePorts # {} /\ Added([local |-> FirstFree, peer |-> peer])
         \/ Served # {} /\ Added(TxKey)
<1> DEFINE Removes == \E key \in DOMAIN conn_map : Removed(key)
           Gives   == \E peer \in Listening : FreePorts # {} /\ Added([local |-> FirstFree, peer |-> peer])
           Takes   == Served # {} /\ Added(TxKey)
<1> SUFFICES Kept \/ Removes \/ Gives \/ Takes
  OBVIOUS
<1>1. ASSUME NEW key \in DOMAIN conn_map, RemoveConnection(key)
      PROVE  Removes
  <2>1. Removed(key)
    BY <1>1 DEF RemoveConnection, Remove, Restrict, Removed
  <2> QED
    BY <2>1
<1>2. CASE DeviceEvent
  <2>1. ASSUME NEW e \in events, NEW peer \in Listening, AskConnects(e, peer)
        PROVE  Gives
    <3>1. FreePorts # {} /\ Added([local |-> FirstFree, peer |-> peer])
      BY <2>1 DEF AskConnects, Insert, Added
    <3> QED
      BY <3>1
  <2>2. ASSUME NEW e \in events,
               IgnoreEvent(e) \/ AskRefused(e) \/ FlushEvent(e) \/ ReadEvent(e)
                 \/ \E s \in Streams : Accept(e, s)
        PROVE  Kept
    BY <2>2 DEF Kept, IgnoreEvent, AskRefused, FlushEvent, ReadEvent, Accept, Panic, maps
  <2> QED
    BY <1>2, <2>1, <2>2 DEF DeviceEvent, EventsDone, Kept, maps
<1>3. CASE DeviceTx
  <2>1. ASSUME NEW s \in Streams, TxConnect(s)
        PROVE  Takes
    BY <2>1 DEF TxConnect, Insert, Added
  <2>2. CASE TxRst
    BY <1>1, <2>2 DEF TxRst, Kept
  <2>3. CASE TxDone \/ TxRefused \/ TxAbsorbed \/ TxNothingNew \/ TxResponse \/ TxCreditUpdate \/ TxShutdown
    <3>1. Kept
      BY <2>3 DEF Kept, TxDone, TxRefused, TxAbsorbed, TxNothingNew, TxResponse, TxCreditUpdate,
                  TxShutdown, TakeForConnection, maps
    <3> QED
      BY <3>1
  <2> QED
    BY <1>3, <2>1, <2>2, <2>3 DEF DeviceTx
<1>4. CASE DeviceRx
  <2>1. CASE RxReset
    BY <1>1, <2>1 DEF RxReset, Serve
  <2>2. CASE RxDone \/ RxUnknown \/ RxNothing \/ RxRequest \/ RxResponse \/ RxNotConnected
             \/ RxRead \/ RxReadNothing
    <3>1. Kept
      BY <2>2 DEF Kept, RxDone, RxUnknown, RxNothing, RxRequest, RxResponse, RxNotConnected,
                  RxRead, RxReadNothing, OpDone, maps
    <3> QED
      BY <3>1
  <2> QED
    BY <1>4, <2>1, <2>2 DEF DeviceRx
<1>5. CASE WakeBackend \/ WakeTx \/ WakeRx \/ Guest \/ Host \/ UNCHANGED vars
  <2>1. UNCHANGED maps
    BY <1>5 DEF WakeBackend, WakeTx, WakeRx, Guest, GuestReceive, GuestConnect, GuestClose,
                GuestTimeout, Host, HostConnect, HostAsk, HostWrite, HostClose, guestSide,
                hostSide, vars
  <2> QED
    BY <2>1 DEF maps, Kept
<1> HIDE DEF Removes, Gives, Takes
<1> QED
  BY <1>2, <1>3, <1>4, <1>5 DEF Next, Device

(***************************************************************************)
(* No port stays in local_port_set without a connection that has it, so    *)
(* none is lost for good.  This needs no hypothesis: the set errs only by  *)
(* what it forgets, which is shown by VsockBackendPorts.cfg.               *)
(***************************************************************************)
THEOREM PortsComeBack == Spec => []PortsGivenBack
<1>1. Init => PortsGivenBack
  BY DEF Init, EmptyMaps, PortsGivenBack
<1>2. ASSUME PortsGivenBack, [Next]_vars
      PROVE  PortsGivenBack'
  <2>1. CASE Kept
    BY <1>2, <2>1 DEF Kept, PortsGivenBack
  <2>2. ASSUME NEW key, Removed(key)
        PROVE  PortsGivenBack'
    BY <1>2, <2>2 DEF Removed, PortsGivenBack
  <2>3. ASSUME NEW key, Added(key)
        PROVE  PortsGivenBack'
    BY <1>2, <2>3 DEF Added, PortsGivenBack
  <2> QED
    BY <1>2, <2>1, <2>2, <2>3, PortsMove
<1> QED
  BY <1>1, <1>2, PTL DEF Spec

-----------------------------------------------------------------------------
\* Who has a connection has asked for it or was told; who closes has not
\* asked yet or was told.
SpokenIInv ==
  /\ pc # "panic"
  /\ \A s \in Streams : host[s].st = "closed" => Phase(host[s]) \in {"silent", "told"}
  /\ \A fd \in DOMAIN listener_map : Phase(host[fds[fd]]) # "silent"

LEMMA SpokenStep ==
  ASSUME HostCloses \subseteq {"silent", "told"}, BooksIInv, BooksIInv', SpokenIInv,
         AnsweredOnce, [Next]_vars, pc' = "panic" => TxResponse
  PROVE  SpokenIInv'
<1> DEFINE Silent(end)  == end.asked = "nothing" /\ end.told = FALSE
           Settled(end) == Silent(end) \/ end.told = TRUE
<1>1. /\ host \in [Streams -> HostEnds] /\ host' \in [Streams -> HostEnds]
      /\ \A fd \in DOMAIN fds : fds[fd] \in Streams
      /\ \A fd \in DOMAIN fds' : fds'[fd] \in Streams
  BY DEF BooksIInv, TypeOK
<1>2. \A end \in HostEnds :
        /\ Phase(end) = "silent" <=> Silent(end)
        /\ Phase(end) \in {"silent", "told"} <=> Settled(end)
  BY DEF Phase, HostEnds
<1>3. /\ \A fd \in DOMAIN listener_map : fd \in DOMAIN fds
      /\ \A fd \in DOMAIN listener_map' : fd \in DOMAIN fds'
  <2>1. DOMAIN listener_map \subseteq DOMAIN fds
    BY OpenFds DEF BooksIInv, Primaries
  <2>2. DOMAIN listener_map' \subseteq DOMAIN fds'
    BY DEF BooksIInv, Struct, MapsAgree, DescriptorsAccounted
  <2> QED
    BY <2>1, <2>2
\* An application that has spoken has spoken; one that closes has not.
<1> DEFINE Goes(a, b) == /\ ~Silent(a) => ~Silent(b)
                         /\ (a.st = "closed" => Settled(a)) => (b.st = "closed" => Settled(b))
<1>4. \A s \in Streams : Goes(host[s], host'[s])
  <2> SUFFICES ASSUME NEW s \in Streams
               PROVE  Goes(host[s], host'[s])
    OBVIOUS
  <2>1. host[s] \in HostEnds
    BY <1>1
  <2>2. CASE host'[s] = host[s]
    BY <2>2
  <2>3. CASE \E n : host'[s] = [host[s] EXCEPT !.unread = n]
    BY <2>1, <2>3 DEF HostEnds
  <2>4. CASE \E st \in {"backlog", "open"} : host'[s] = [host[s] EXCEPT !.st = st]
    BY <2>1, <2>4 DEF HostEnds
  <2>5. CASE host'[s] = [host[s] EXCEPT !.st = "open", !.told = TRUE]
    BY <2>1, <2>5 DEF HostEnds
  <2>6. CASE host'[s] = [host[s] EXCEPT !.told = TRUE] /\ host[s].st # "closed"
    BY <2>1, <2>6 DEF HostEnds
  <2>7. CASE /\ \E what \in {"connect", "rubbish"} :
                  host'[s] = [host[s] EXCEPT !.asked = what, !.unread = 1]
             /\ host[s].st \in {"backlog", "open"}
    BY <2>1, <2>7 DEF HostEnds
  <2>8. CASE host'[s] = [host[s] EXCEPT !.st = "closed"] /\ Phase(host[s]) \in {"silent", "told"}
    BY <1>2, <2>1, <2>8 DEF HostEnds
  <2> DEFINE Went == \/ host'[s] = host[s]
                     \/ \E n : host'[s] = [host[s] EXCEPT !.unread = n]
                     \/ \E st \in {"backlog", "open"} : host'[s] = [host[s] EXCEPT !.st = st]
                     \/ host'[s] = [host[s] EXCEPT !.st = "open", !.told = TRUE]
                     \/ host'[s] = [host[s] EXCEPT !.told = TRUE] /\ host[s].st # "closed"
                     \/ /\ \E what \in {"connect", "rubbish"} :
                             host'[s] = [host[s] EXCEPT !.asked = what, !.unread = 1]
                        /\ host[s].st \in {"backlog", "open"}
                     \/ host'[s] = [host[s] EXCEPT !.st = "closed"] /\ Phase(host[s]) \in {"silent", "told"}
  <2>9. Went
    <3>1. CASE Host
      <4>1. PICK t \in Streams :
               \/ HostConnect(t) \/ HostWrite(t) \/ HostClose(t)
               \/ \E what \in {"connect", "rubbish"} : HostAsk(t, what)
        BY <3>1 DEF Host
      <4>2. CASE t # s
        <5>1. host'[s] = host[s]
          BY <1>1, <4>1, <4>2 DEF HostConnect, HostWrite, HostClose, HostAsk
        <5> QED
          BY <5>1
      <4>3. CASE t = s /\ HostClose(s)
        <5>1. host'[s] = [host[s] EXCEPT !.st = "closed"] /\ Phase(host[s]) \in {"silent", "told"}
          BY <1>1, <4>3 DEF HostClose
        <5> QED
          BY <5>1
      <4>4. CASE t = s /\ HostConnect(s)
        <5>1. host'[s] = [host[s] EXCEPT !.st = "backlog"]
          BY <1>1, <4>4 DEF HostConnect
        <5> QED
          BY <5>1
      <4>5. CASE t = s /\ HostWrite(s)
        <5>1. host'[s] = [host[s] EXCEPT !.unread = 1]
          BY <1>1, <4>5 DEF HostWrite
        <5> QED
          BY <5>1
      <4>6. ASSUME t = s, NEW what \in {"connect", "rubbish"}, HostAsk(s, what)
            PROVE  Went
        <5>1. /\ host'[s] = [host[s] EXCEPT !.asked = what, !.unread = 1]
              /\ host[s].st \in {"backlog", "open"}
          BY <1>1, <4>6 DEF HostAsk
        <5> QED
          BY <5>1
      <4> QED
        BY <4>1, <4>2, <4>3, <4>4, <4>5, <4>6
    <3>2. CASE DeviceEvent
      <4>1. ASSUME NEW e \in events, NEW t \in Streams, Accept(e, t)
            PROVE  Went
        <5>1. host'[s] = host[s] \/ host'[s] = [host[s] EXCEPT !.st = "open"]
          BY <1>1, <4>1 DEF Accept
        <5> QED
          BY <5>1
      <4>2. ASSUME NEW e \in events, NEW peer \in Listening, AskConnects(e, peer)
            PROVE  Went
        <5>1. host'[s] = host[s] \/ host'[s] = [host[s] EXCEPT !.unread = 0]
          BY <1>1, <4>2 DEF AskConnects
        <5> QED
          BY <5>1
      <4>3. ASSUME NEW e \in events, IgnoreEvent(e) \/ AskRefused(e) \/ FlushEvent(e) \/ ReadEvent(e)
            PROVE  Went
        <5>1. host' = host
          BY <4>3 DEF IgnoreEvent, AskRefused, FlushEvent, ReadEvent, Panic
        <5> QED
          BY <5>1
      <4>4. CASE EventsDone
        BY <4>4 DEF EventsDone
      <4> QED
        BY <3>2, <4>1, <4>2, <4>3, <4>4 DEF DeviceEvent
    <3>3. CASE DeviceTx
      <4>1. ASSUME NEW t \in Streams, TxConnect(t)
            PROVE  Went
        <5>1. host'[s] = host[s] \/ host'[s] = [host[s] EXCEPT !.st = "open", !.told = TRUE]
          BY <1>1, <4>1 DEF TxConnect
        <5> QED
          BY <5>1
      <4>2. CASE TxResponse
        <5>1. host'[s] = host[s]
                \/ (host'[s] = [host[s] EXCEPT !.told = TRUE] /\ host[s].st # "closed")
          BY <1>1, <4>2 DEF TxResponse
        <5> QED
          BY <5>1
      <4>3. CASE TxDone \/ TxRefused \/ TxAbsorbed \/ TxRst \/ TxNothingNew \/ TxCreditUpdate \/ TxShutdown
        <5>1. host' = host
          BY <4>3 DEF TxDone, TxRefused, TxAbsorbed, TxRst, TxNothingNew, TxCreditUpdate, TxShutdown
        <5> QED
          BY <5>1
      <4> QED
        BY <3>3, <4>1, <4>2, <4>3 DEF DeviceTx
    <3>4. CASE DeviceRx
      <4>1. host'[s] = host[s] \/ host'[s] = [host[s] EXCEPT !.unread = 0]
        BY <1>1, <3>4 DEF DeviceRx, RxDone, RxUnknown, RxNothing, RxReset, RxRequest, RxResponse,
                          RxNotConnected, RxRead, RxReadNothing
      <4> QED
        BY <4>1
    <3>5. CASE WakeBackend \/ WakeTx \/ WakeRx \/ Guest \/ UNCHANGED vars
      <4>1. host' = host
        BY <3>5 DEF WakeBackend, WakeTx, WakeRx, Guest, GuestReceive, GuestConnect, GuestClose,
                    GuestTimeout, guestSide, vars
      <4> QED
        BY <4>1
    <3> QED
      BY <3>1, <3>2, <3>3, <3>4, <3>5 DEF Next, Device
  <2> HIDE DEF Goes
  <2> QED
    BY <2>2, <2>3, <2>4, <2>5, <2>6, <2>7, <2>8, <2>9
<1>5. \A s \in Streams : host'[s].st = "closed" => Phase(host'[s]) \in {"silent", "told"}
  BY <1>1, <1>2, <1>4 DEF SpokenIInv
\* A connection stays with its stream, and a new one is of one that spoke.
<1> DEFINE Fine(fd) == \/ fd \in DOMAIN listener_map /\ fds'[fd] = fds[fd]
                       \/ ~Silent(host'[fds'[fd]])
<1>6. ASSUME NEW fd \in DOMAIN listener_map'
      PROVE  Fine(fd)
  <2>1. ASSUME NEW key \in DOMAIN conn_map, RemoveConnection(key)
        PROVE  Fine(fd)
    <3>1. DOMAIN listener_map' \subseteq DOMAIN listener_map
      BY <2>1 DEF RemoveConnection, Remove, Restrict
    <3>2. fds'[fd] = fds[fd]
      BY <1>3, <2>1 DEF RemoveConnection, Close, Remove, Restrict
    <3> QED
      BY <3>1, <3>2
  <2>2. CASE UNCHANGED <<listener_map, fds>>
    BY <2>2
  <2>3. CASE DeviceEvent
    <3>1. ASSUME NEW e \in events, NEW peer \in Listening, AskConnects(e, peer)
          PROVE  Fine(fd)
      <4>1. /\ fds' = fds /\ host[fds[e.fd]].asked = "connect"
            /\ DOMAIN listener_map' = DOMAIN listener_map \cup {e.fd}
            /\ host' = [host EXCEPT ![fds[e.fd]].unread = 0]
        BY <3>1 DEF AskConnects, Insert
      <4>2. e.fd \in DOMAIN listener_map'
        BY <4>1
      <4>3. fds[e.fd] \in Streams
        BY <1>1, <1>3, <4>1, <4>2
      <4>4. ~Silent(host'[fds[e.fd]])
        BY <1>1, <4>1, <4>3 DEF HostEnds
      <4> QED
        BY <4>1, <4>4
    <3>2. ASSUME NEW e \in events, NEW t \in Streams, Accept(e, t)
          PROVE  Fine(fd)
      <4>1. listener_map' = listener_map /\ \E x \in Fds \ DOMAIN fds : fds' = Insert(fds, x, t)
        BY <3>2, RoomForTwo, LowestFreeIsFree DEF Accept, BooksIInv
      <4> QED
        BY <1>3, <4>1 DEF Insert
    <3>3. ASSUME NEW e \in events, AskRefused(e)
          PROVE  Fine(fd)
      <4>1. listener_map' = listener_map /\ fds'[fd] = fds[fd]
        BY <1>3, <3>3 DEF AskRefused, Close, Remove, Restrict
      <4> QED
        BY <4>1
    <3>4. ASSUME NEW e \in events, IgnoreEvent(e) \/ FlushEvent(e) \/ ReadEvent(e)
          PROVE  Fine(fd)
      <4>1. UNCHANGED <<listener_map, fds>>
        BY <3>4 DEF IgnoreEvent, FlushEvent, ReadEvent, Panic, maps, kernel
      <4> QED
        BY <2>2, <4>1
    <3> QED
      BY <2>2, <2>3, <3>1, <3>2, <3>3, <3>4 DEF DeviceEvent, EventsDone, maps, kernel
  <2>4. CASE DeviceTx
    <3>1. ASSUME NEW s \in Streams, TxConnect(s)
          PROVE  Fine(fd)
      <4> DEFINE original == LowestFree(DOMAIN fds)
                 clone    == LowestFree(DOMAIN fds \cup {original})
      <4>1. host[s].st = "unused"
        BY <3>1 DEF TxConnect
      <4>2. original \in Fds \ DOMAIN fds /\ clone \in Fds \ (DOMAIN fds \cup {original})
        <5>1. /\ Fds \ DOMAIN fds # {}
              /\ \A one : Fds \ (DOMAIN fds \cup {one}) # {}
          BY <4>1, RoomForTwo DEF BooksIInv
        <5> QED
          BY <5>1, LowestFreeIsFree
      <4>3. /\ fds' = Insert(Insert(fds, original, s), clone, s)
            /\ DOMAIN listener_map' = DOMAIN listener_map \cup {clone}
            /\ host' = [host EXCEPT ![s].st = "open", ![s].told = TRUE]
        BY <3>1 DEF TxConnect, Insert
      <4> HIDE DEF original, clone
      <4>4. fds'[clone] = s /\ \A x \in DOMAIN fds : fds'[x] = fds[x]
        BY <4>2, <4>3 DEF Insert
      <4>5. ~Silent(host'[s])
        BY <1>1, <4>3 DEF HostEnds
      <4> QED
        BY <1>3, <4>3, <4>4, <4>5
    <3>2. CASE TxRst
      BY <2>1, <2>2, <3>2 DEF TxRst, kernel
    <3>3. CASE TxDone \/ TxRefused \/ TxAbsorbed \/ TxNothingNew \/ TxResponse \/ TxCreditUpdate \/ TxShutdown
      <4>1. UNCHANGED <<listener_map, fds>>
        BY <3>3 DEF TxDone, TxRefused, TxAbsorbed, TxNothingNew, TxResponse, TxCreditUpdate,
                    TxShutdown, TakeForConnection, maps, kernel
      <4> QED
        BY <2>2, <4>1
    <3> QED
      BY <2>4, <3>1, <3>2, <3>3 DEF DeviceTx
  <2>5. CASE DeviceRx
    <3>1. CASE RxReset
      BY <2>1, <3>1 DEF RxReset, Serve
    <3>2. CASE RxDone \/ RxUnknown \/ RxNothing \/ RxRequest \/ RxResponse \/ RxNotConnected
               \/ RxRead \/ RxReadNothing
      <4>1. UNCHANGED <<listener_map, fds>>
        BY <3>2 DEF RxDone, RxUnknown, RxNothing, RxRequest, RxResponse, RxNotConnected,
                    RxRead, RxReadNothing, maps, kernel
      <4> QED
        BY <2>2, <4>1
    <3> QED
      BY <2>5, <3>1, <3>2 DEF DeviceRx
  <2>6. CASE WakeBackend \/ WakeTx \/ WakeRx \/ Guest \/ Host \/ UNCHANGED vars
    <3>1. UNCHANGED <<listener_map, fds>>
      BY <2>6 DEF WakeBackend, WakeTx, WakeRx, Guest, GuestReceive, GuestConnect, GuestClose,
                  GuestTimeout, Host, HostConnect, HostAsk, HostWrite, HostClose, guestSide,
                  hostSide, vars, maps, kernel
    <3> QED
      BY <2>2, <3>1
  <2> QED
    BY <2>3, <2>4, <2>5, <2>6 DEF Next, Device
<1>7. ASSUME NEW fd \in DOMAIN listener_map'
      PROVE  Phase(host'[fds'[fd]]) # "silent"
  <2>1. fds'[fd] \in Streams /\ host'[fds'[fd]] \in HostEnds
    BY <1>1, <1>3
  <2>2. CASE ~Silent(host'[fds'[fd]])
    BY <1>2, <2>1, <2>2
  <2>3. CASE fd \in DOMAIN listener_map /\ fds'[fd] = fds[fd]
    <3>1. host[fds[fd]] \in HostEnds /\ ~Silent(host[fds[fd]])
      BY <1>1, <1>2, <1>3, <2>3 DEF SpokenIInv
    <3> QED
      BY <1>2, <1>4, <2>1, <2>3, <3>1
  <2> QED
    BY <1>6, <2>2, <2>3
\* So the stream that OK is written to is still open.
<1>8. pc' # "panic"
  <2>1. CASE TxResponse
    <3>1. TxKey \in DOMAIN conn_map
      BY <2>1 DEF TxResponse, TakeForConnection
    <3> DEFINE fd == conn_map[TxKey].fd
    <3>2. fd \in DOMAIN listener_map /\ fds[fd] \in Streams
      BY <1>1, <1>3, <3>1 DEF BooksIInv, Struct, MapsAgree
    <3>3. host[fds[fd]].st # "closed"
      <4>1. ~host[fds[fd]].told
        BY <2>1, <3>1 DEF AnsweredOnce, TxResponse, TakeForConnection, TakePacket
      <4>2. host[fds[fd]] \in HostEnds /\ Phase(host[fds[fd]]) # "silent"
        BY <1>1, <3>2 DEF SpokenIInv
      <4>3. Phase(host[fds[fd]]) # "told"
        BY <4>1, <4>2 DEF Phase, HostEnds
      <4> QED
        BY <3>2, <4>2, <4>3 DEF SpokenIInv
    <3>4. UNCHANGED pc
      BY <2>1, <3>3 DEF TxResponse
    <3> QED
      BY <3>4 DEF SpokenIInv
  <2> QED
    BY <2>1
<1> QED
  BY <1>5, <1>7, <1>8 DEF SpokenIInv

(***************************************************************************)
(* The thread never panics, every unwrap() of the backend succeeds, as     *)
(* long as applications close only before they ask for a port or after     *)
(* they were told of their connection, no application is given a port that *)
(* makes the key of another connection, and the guest answers a connection *)
(* once.  An application that asks and closes before it is told makes the  *)
(* write of OK fail: see VsockFlowEarlyClose.cfg.                          *)
(***************************************************************************)
THEOREM UnwrapsSucceed ==
  HostCloses \subseteq {"silent", "told"} /\ Spec /\ []KeysFresh /\ []AnsweredOnce => []NoPanic
<1> SUFFICES ASSUME HostCloses \subseteq {"silent", "told"}
             PROVE  Spec /\ []KeysFresh /\ []AnsweredOnce => []NoPanic
  OBVIOUS
<1>1. Init => SpokenIInv
  BY DEF Init, EmptyMaps, SpokenIInv
<1>2. ASSUME BooksIInv, KeysFresh, AnsweredOnce, SpokenIInv, [Next]_vars
      PROVE  SpokenIInv'
  <2>1. BooksIInv'
    BY <1>2, BooksStep
  <2>2. pc' = "panic" => TxResponse
    BY <1>2, PanicsByWrite DEF SpokenIInv, WritesToClosed, vars
  <2> QED
    BY <1>2, <2>1, <2>2, SpokenStep
<1>3. SpokenIInv => NoPanic
  BY DEF SpokenIInv, NoPanic
<1> QED
  BY <1>1, <1>2, <1>3, BooksStart, BooksStep, PTL DEF Spec

-----------------------------------------------------------------------------
\* A connection to a port on which the guest listens, as those of the host
\* applications are, shares its local port with no other.
PortsApart == \A a, b \in DOMAIN conn_map : a.peer \in Listening /\ a.local = b.local => a = b

\* The ports of these connections are in local_port_set.
GivenAllocated == \A key \in DOMAIN conn_map : key.peer \in Listening => key.local \in local_port_set

LEMMA GivenIsFresh ==
  ASSUME TypeOK, GivenAllocated
  PROVE  KeysFresh
<1> SUFFICES ASSUME FreePorts # {}, NEW peer \in Listening
             PROVE  [local |-> FirstFree, peer |-> peer] \notin DOMAIN conn_map
  BY DEF KeysFresh
<1>1. FirstFree \notin local_port_set
  BY FirstFreeIsFree DEF FreePorts
<1> QED
  BY <1>1 DEF GivenAllocated

LEMMA GivenStep ==
  ASSUME GivenAllocated, PortsApart, [Next]_vars
  PROVE  GivenAllocated'
<1>1. CASE Kept
  BY <1>1 DEF Kept, GivenAllocated
<1>2. ASSUME NEW key \in DOMAIN conn_map, Removed(key)
      PROVE  GivenAllocated'
  BY <1>2 DEF Removed, GivenAllocated, PortsApart
<1>3. ASSUME NEW key, Added(key)
      PROVE  GivenAllocated'
  BY <1>3 DEF Added, GivenAllocated
<1> QED
  BY <1>1, <1>2, <1>3, PortsMove

(***************************************************************************)
(* local_port_set serves its purpose, and the books are kept, as long as   *)
(* no connection to a listening port of the guest has its local port in    *)
(* common with another one.  Connections of the guest to one host port may *)
(* be as many as they like.                                                *)
(***************************************************************************)
THEOREM PortsHeld == Spec /\ []PortsApart => [](KeysFresh /\ BooksKept)
<1> DEFINE PortIInv == BooksIInv /\ GivenAllocated
<1>1. Init => PortIInv
  BY BooksStart DEF Init, EmptyMaps, GivenAllocated
<1>2. PortIInv => KeysFresh /\ BooksKept
  BY GivenIsFresh DEF BooksIInv, Struct, BooksKept
<1>3. PortIInv /\ PortsApart /\ [Next]_vars => PortIInv'
  BY <1>2, BooksStep, GivenStep
<1> QED
  BY <1>1, <1>2, <1>3, PTL DEF Spec

(***************************************************************************)
(* When connections are opened by one side only, because no host           *)
(* application listens or because the guest does not, the books are kept   *)
(* without any further hypothesis.                                         *)
(***************************************************************************)
THEOREM OneSideKeeps == (Served = {} \/ Listening = {}) /\ Spec => []BooksKept
<1> DEFINE Given    == \A key \in DOMAIN conn_map : key.peer \in Listening
           PortIInv == PortsApart /\ GivenAllocated /\ (Served = {} => Given)
<1> SUFFICES ASSUME Served = {} \/ Listening = {}
             PROVE  Spec => []BooksKept
  OBVIOUS
<1>1. Init => PortIInv
  BY DEF Init, EmptyMaps, PortsApart, GivenAllocated
<1>2. ASSUME TypeOK, PortIInv, [Next]_vars
      PROVE  PortIInv'
  <2>1. GivenAllocated'
    BY <1>2, GivenStep
  <2>2. CASE Listening = {}
    <3>1. PortsApart' /\ (Served = {} => Listening = {})
      BY <2>2 DEF PortsApart
    <3>2. Served = {} => Given'
      <4>1. CASE Kept
        BY <1>2, <4>1 DEF Kept
      <4>2. ASSUME NEW key, Removed(key)
            PROVE  Served = {} => Given'
        BY <1>2, <4>2 DEF Removed
      <4> QED
        BY <1>2, <2>2, <4>1, <4>2, PortsMove
    <3> QED
      BY <2>1, <3>1, <3>2
  <2>3. CASE Served = {}
    <3>1. CASE Kept
      BY <1>2, <2>1, <3>1 DEF Kept, PortsApart
    <3>2. ASSUME NEW key, Removed(key)
          PROVE  PortsApart' /\ Given'
      BY <1>2, <2>3, <3>2 DEF Removed, PortsApart
    <3>3. ASSUME NEW peer \in Listening, FreePorts # {}, Added([local |-> FirstFree, peer |-> peer])
          PROVE  PortsApart' /\ Given'
      <4> DEFINE key == [local |-> FirstFree, peer |-> peer]
      <4>1. FirstFree \notin local_port_set
        BY <1>2, <3>3, FirstFreeIsFree DEF FreePorts
      <4>2. key.local = FirstFree /\ key.peer \in Listening /\ DOMAIN conn_map' = DOMAIN conn_map \cup {key}
        BY <3>3 DEF Added
      <4>3. \A other \in DOMAIN conn_map : other.local # key.local
        BY <1>2, <2>3, <4>1, <4>2 DEF GivenAllocated
      <4> HIDE DEF key
      <4> QED
        BY <1>2, <2>3, <4>2, <4>3 DEF PortsApart
    <3> QED
      BY <1>2, <2>1, <2>3, <3>1, <3>2, <3>3, PortsMove
  <2> QED
    BY <2>2, <2>3
<1>3. BooksIInv /\ PortIInv => KeysFresh /\ BooksKept
  BY GivenIsFresh DEF BooksIInv, Struct, BooksKept
<1>4. BooksIInv => TypeOK
  BY DEF BooksIInv
<1> HIDE DEF PortIInv
<1> QED
  BY <1>1, <1>2, <1>3, <1>4, BooksStart, BooksStep, PTL DEF Spec

=============================================================================
