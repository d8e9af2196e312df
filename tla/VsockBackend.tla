----------------------------- MODULE VsockBackend -----------------------------
(***************************************************************************)
(* All the connections of one guest: the maps of VsockThreadBackend        *)
(* (thread_backend.rs) and the event loop that fills and empties them      *)
(* (vhu_vsock_thread.rs), with the unix domain socket backend.             *)
(*                                                                         *)
(* A connection is its key, its file descriptor and its pending rx         *)
(* operations.  The bytes, the tx buffer and the credit of a connection    *)
(* are the subject of VsockFlow: here a packet of data is forwarded whole, *)
(* the guest has room for what it is sent, and "CreditUpdate" never        *)
(* becomes pending.  Descriptors, epoll and its batches of events, ports   *)
(* and the queue of keys are modelled as they are.                         *)
(***************************************************************************)
EXTENDS Integers, Sequences, FiniteSets, Functions

CONSTANTS
  Streams,     \* the stream sockets there can be, each used once
  PortRange,   \* values of a local port, 2^32 in the code
  HostPorts,   \* ports the guest connects to
  Served,      \* those of them with a host application that listens
  Listening,   \* ports the guest listens on
  Ephemeral,   \* ports the guest connects from
  HostCloses,  \* when a host application may close: a subset of Phases
  GuestCloses, \* the guest may close
  TxCap,       \* packets in the tx ring
  RxCap,       \* descriptors in the rx ring
  EventIdx,    \* VIRTIO_RING_F_EVENT_IDX was negotiated
  MaxRxq       \* bound: with this many keys queued neither side asks for more

Phases == {"silent", "asked", "told"}

ASSUME BackendAssumption ==
  /\ IsFiniteSet(Streams)
  /\ PortRange \in Nat \ {0}
  /\ HostPorts \subseteq 0 .. PortRange - 1
  /\ Served \subseteq HostPorts
  /\ HostCloses \subseteq Phases
  /\ GuestCloses \in BOOLEAN
  /\ TxCap \in Nat \ {0} /\ RxCap \in Nat \ {0}
  /\ EventIdx \in BOOLEAN
  /\ MaxRxq \in Nat

VARIABLES
  \* The thread and its backend.
  conn_map,       \* key -> connection
  listener_map,   \* descriptor -> key
  stream_map,     \* descriptor -> descriptor of the stream that is kept
  local_port_set,
  local_port,
  backend_rxq,    \* keys of connections with pending rx operations
  events,         \* what epoll_wait returned and is still to be handled
  pc,
  \* The kernel.
  fds,            \* open descriptor -> stream
  epoll,          \* the registrations: descriptor, stream and events
  \* The rings and the two sides.
  txring, rxring, rxkick,
  host,           \* stream -> the application's end of it
  guest           \* key -> the state of the guest's socket

maps    == <<conn_map, listener_map, stream_map, local_port_set, local_port>>
kernel  == <<fds, epoll>>
rings   == <<txring, rxring, rxkick>>
vars    == <<maps, backend_rxq, events, pc, kernel, rings, host, guest>>

Ports == 0 .. PortRange - 1
Keys  == [local : Ports, peer : Listening \cup Ephemeral]
Fds   == 1 .. 2 * Cardinality(Streams)

\* The descriptor of the listening unix socket.
Listener == 0

RxOps == {"Request", "Rw", "Response", "Reset"}
Rank  == [Request |-> 1, Rw |-> 2, Response |-> 3, Reset |-> 4]

\* peek(): the pending operation of a connection that goes first.
Peek(conn) == CHOOSE op \in conn.rx_queue : \A other \in conn.rx_queue : Rank[op] <= Rank[other]

Packet(op, key) == [op |-> op, key |-> key]

(***************************************************************************)
(* The application's end: st is "unused" before it connects, "backlog"     *)
(* until the device accepts; asked is what it has said of its port;        *)
(* unread is what the device did not read yet.                             *)
(***************************************************************************)
HostEnds == [st : {"unused", "backlog", "open", "closed"},
             asked : {"nothing", "connect", "rubbish"}, told : BOOLEAN, unread : 0 .. 1]

Connections == [fd : Fds, rx_queue : SUBSET RxOps, connect : BOOLEAN]

\* The maps map what they are declared to map.
TypeOK ==
  /\ DOMAIN conn_map \subseteq Keys /\ \A key \in DOMAIN conn_map : conn_map[key] \in Connections
  /\ DOMAIN listener_map \subseteq Fds /\ \A fd \in DOMAIN listener_map : listener_map[fd] \in Keys
  /\ DOMAIN stream_map \subseteq Fds /\ \A fd \in DOMAIN stream_map : stream_map[fd] \in Fds
  /\ local_port_set \subseteq Ports /\ local_port \in Ports
  /\ backend_rxq \in Seq(Keys)
  /\ \A e \in events : e \in [fd : Fds \cup {Listener}, in : BOOLEAN, out : BOOLEAN, hup : BOOLEAN]
  /\ pc \in {"idle", "events", "tx", "rx", "panic"}
  /\ DOMAIN fds \subseteq Fds /\ \A fd \in DOMAIN fds : fds[fd] \in Streams
  /\ \A r \in epoll : r \in [fd : Fds, stream : Streams, events : {"in", "inout"}]
  /\ \A i \in 1 .. Len(txring) : txring[i].key \in Keys
  /\ \A i \in 1 .. Len(rxring) : rxring[i].key \in Keys
  /\ rxkick \in BOOLEAN
  /\ host \in [Streams -> HostEnds]
  /\ guest \in [Keys -> {"none", "connecting", "established", "closing"}]

EmptyMaps ==
  /\ conn_map = <<>> /\ listener_map = <<>> /\ stream_map = <<>>
  /\ local_port_set = {} /\ local_port = 0
  /\ backend_rxq = <<>>

Init ==
  /\ EmptyMaps
  /\ events = {} /\ pc = "idle"
  /\ fds = <<>> /\ epoll = {}
  /\ txring = <<>> /\ rxring = <<>> /\ rxkick = FALSE
  /\ host = [s \in Streams |->
               [st |-> "unused", asked |-> "nothing", told |-> FALSE, unread |-> 0]]
  /\ guest = [key \in Keys |-> "none"]

-----------------------------------------------------------------------------
\* Maps: insert and remove.

Insert(f, x, v) == [y \in DOMAIN f \cup {x} |-> IF y = x THEN v ELSE f[y]]
Remove(f, S)    == Restrict(f, DOMAIN f \ S)

(***************************************************************************)
(* The kernel: descriptors are the lowest that are free; a registration is *)
(* of a descriptor and its stream, and lives as long as some descriptor of *)
(* the stream is open.                                                     *)
(***************************************************************************)
LowestFree(used) == CHOOSE fd \in Fds \ used : \A other \in Fds \ used : fd <= other

Registration(fd) == {r \in epoll : r.fd = fd /\ fd \in DOMAIN fds /\ r.stream = fds[fd]}

Registered(fd) == Registration(fd) # {}

\* The registrations after epoll_modify() or epoll_register() of an open fd.
Watching(fd, evs) ==
  (epoll \ Registration(fd)) \cup {[fd |-> fd, stream |-> fds[fd], events |-> evs]}

Close(S) ==
  /\ fds' = Remove(fds, S)
  /\ epoll' = {r \in epoll : r.stream \in Range(fds')}

\* Level-triggered readiness; a hang-up is always reported.
Event(r) == [fd  |-> r.fd,
             in  |-> host[r.stream].unread > 0 \/ host[r.stream].st = "closed",
             out |-> r.events = "inout",
             hup |-> host[r.stream].st = "closed"]

Ready ==
  {e \in {Event(r) : r \in epoll} : e.in \/ e.out \/ e.hup}
    \cup {[fd |-> Listener, in |-> TRUE, out |-> FALSE, hup |-> FALSE] :
            s \in {s \in Streams : host[s].st = "backlog"}}

-----------------------------------------------------------------------------
(***************************************************************************)
(* handle_event() of VhostUserVsockBackend: BACKEND_EVENT takes the ready  *)
(* events at once and handles them one by one; then come the tx ring and   *)
(* the rx ring.                                                            *)
(***************************************************************************)
WakeBackend ==
  /\ pc = "idle"
  /\ Ready # {}
  /\ events' = Ready
  /\ pc' = "events"
  /\ UNCHANGED <<maps, backend_rxq, kernel, rings, host, guest>>

WakeTx ==
  /\ pc = "idle"
  /\ txring # <<>>
  /\ pc' = "tx"
  /\ UNCHANGED <<maps, backend_rxq, events, kernel, rings, host, guest>>

WakeRx ==
  /\ pc = "idle"
  /\ rxkick
  /\ rxkick' = FALSE
  /\ pc' = "rx"
  /\ UNCHANGED <<maps, backend_rxq, events, kernel, txring, rxring, host, guest>>

EventsDone ==
  /\ pc = "events"
  /\ events = {}
  /\ pc' = "tx"
  /\ UNCHANGED <<maps, backend_rxq, events, kernel, rings, host, guest>>

TakeEvent(e) ==
  /\ pc = "events"
  /\ e \in events
  /\ events' = events \ {e}
  /\ UNCHANGED <<rings, guest>>

\* A new stream of a host application: kept until it says CONNECT.
Accept(e, s) ==
  /\ TakeEvent(e)
  /\ e.fd = Listener
  /\ host[s].st = "backlog"
  /\ LET fd == LowestFree(DOMAIN fds)
     IN  /\ fds' = Insert(fds, fd, s)
         /\ stream_map' = Insert(stream_map, fd, fd)
         /\ epoll' = epoll \cup {[fd |-> fd, stream |-> s, events |-> "in"]}
  /\ host' = [host EXCEPT ![s].st = "open"]
  /\ UNCHANGED <<conn_map, listener_map, local_port_set, local_port, backend_rxq, pc>>

Unconnected(e) == e.fd # Listener /\ e.fd \notin DOMAIN listener_map
OnlyIn(e)      == e.in /\ ~e.out /\ ~e.hup
OnlyOut(e)     == e.out /\ ~e.in /\ ~e.hup

\* An event other than EPOLLIN of a stream that has not said CONNECT.
IgnoreEvent(e) ==
  /\ TakeEvent(e)
  /\ Unconnected(e)
  /\ ~OnlyIn(e) \/ e.fd \notin DOMAIN stream_map
  /\ UNCHANGED <<maps, backend_rxq, pc, kernel, host>>

\* allocate_local_port(): the first free port from local_port on.
FreePorts == Ports \ local_port_set
PortAfter(port)  == (port + 1) % PortRange
Distance(port) == (port - local_port) % PortRange
FirstFree == CHOOSE port \in FreePorts :
               \A other \in FreePorts : Distance(port) <= Distance(other)

Ask(e) ==
  /\ TakeEvent(e)
  /\ Unconnected(e)
  /\ OnlyIn(e)
  /\ e.fd \in DOMAIN stream_map
  /\ UNCHANGED pc

\* What the stream said is not a CONNECT, or there is no port: it is dropped.
AskRefused(e) ==
  /\ Ask(e)
  /\ host[fds[e.fd]].asked # "connect" \/ FreePorts = {}
  /\ stream_map' = Remove(stream_map, {e.fd})
  /\ Close({e.fd})
  /\ UNCHANGED <<conn_map, listener_map, local_port_set, local_port, backend_rxq, host>>

PushKey(key) == backend_rxq' = Append(backend_rxq, key)


\* add_new_connection_from_host()
AskConnects(e, peer) ==
  LET s   == fds[e.fd]
      key == [local |-> FirstFree, peer |-> peer]
  IN  /\ Ask(e)
      /\ host[s].asked = "connect"
      /\ FreePorts # {}
      /\ local_port_set' = local_port_set \cup {FirstFree}
      /\ local_port' = PortAfter(FirstFree)
      /\ stream_map' = Remove(stream_map, {e.fd})
      /\ listener_map' = Insert(listener_map, e.fd, key)
      /\ conn_map' = Insert(conn_map, key,
           [fd |-> e.fd, rx_queue |-> {"Request"}, connect |-> FALSE])
      /\ PushKey(key)
      /\ epoll' = Watching(e.fd, "inout")
      /\ host' = [host EXCEPT ![s].unread = 0]
      /\ UNCHANGED fds

\* The unwrap() of the lookup of the connection, and of epoll_unregister().
Panic == pc' = "panic" /\ UNCHANGED <<maps, backend_rxq, kernel, host>>

TakeConnectedEvent(e) == TakeEvent(e) /\ e.fd \in DOMAIN listener_map

Found(e) == listener_map[e.fd] \in DOMAIN conn_map

\* Nothing is left to flush: EPOLLOUT is disabled and the key is queued.
FlushEvent(e) ==
  /\ TakeConnectedEvent(e)
  /\ OnlyOut(e)
  /\ IF Found(e)
     THEN /\ epoll' = IF Registered(e.fd) THEN Watching(e.fd, "in") ELSE epoll
          /\ PushKey(listener_map[e.fd])
          /\ UNCHANGED <<maps, pc, fds, host>>
     ELSE Panic

\* Something to read, or a hang-up: out of the epoll until it is read.
ReadEvent(e) ==
  /\ TakeConnectedEvent(e)
  /\ ~OnlyOut(e)
  /\ IF Found(e) /\ Registered(e.fd)
     THEN /\ epoll' = epoll \ Registration(e.fd)
          /\ conn_map' = [conn_map EXCEPT ![listener_map[e.fd]].rx_queue = @ \cup {"Rw"}]
          /\ PushKey(listener_map[e.fd])
          /\ UNCHANGED <<listener_map, stream_map, local_port_set, local_port, pc, fds, host>>
     ELSE Panic

DeviceEvent ==
  \/ EventsDone
  \/ \E e \in events :
       \/ \E s \in Streams : Accept(e, s)
       \/ \E peer \in Listening : AskConnects(e, peer)
       \/ IgnoreEvent(e) \/ AskRefused(e) \/ FlushEvent(e) \/ ReadEvent(e)

-----------------------------------------------------------------------------
\* process_tx(): VsockThreadBackend::send_pkt(), one packet of the guest.

TxDone ==
  /\ pc = "tx"
  /\ txring = <<>>
  /\ pc' = "rx"
  /\ UNCHANGED <<maps, backend_rxq, events, kernel, rings, host, guest>>

TakePacket ==
  /\ pc = "tx"
  /\ txring # <<>>
  /\ txring' = Tail(txring)
  /\ UNCHANGED <<events, rxring, rxkick, guest>>

TxKey == Head(txring).key
TxOp  == Head(txring).op

\* handle_new_guest_conn() and add_new_guest_conn(): the connection has a
\* clone of the stream; the original is kept so that it stays open.
TxConnect(s) ==
  LET original == LowestFree(DOMAIN fds)
      fd       == LowestFree(DOMAIN fds \cup {original})
  IN  /\ TakePacket
      /\ TxOp = "REQUEST"
      /\ TxKey \notin DOMAIN conn_map
      /\ TxKey.local \in Served
      /\ host[s].st = "unused"
      /\ host' = [host EXCEPT ![s].st = "open", ![s].told = TRUE]
      /\ fds' = Insert(Insert(fds, original, s), fd, s)
      /\ epoll' = epoll \cup {[fd |-> fd, stream |-> s, events |-> "inout"]}
      /\ listener_map' = Insert(listener_map, fd, TxKey)
      /\ conn_map' = Insert(conn_map, TxKey,
           [fd |-> fd, rx_queue |-> {"Response"}, connect |-> FALSE])
      /\ stream_map' = Insert(stream_map, fd, original)
      /\ local_port_set' = local_port_set \cup {TxKey.local}
      /\ PushKey(TxKey)
      /\ UNCHANGED <<local_port, pc>>

\* connect() fails, no application listens: enq_rst() is still to be written.
TxRefused ==
  /\ TakePacket
  /\ TxOp = "REQUEST"
  /\ TxKey \notin DOMAIN conn_map
  /\ TxKey.local \notin Served \/ \A s \in Streams : host[s].st # "unused"
  /\ UNCHANGED <<maps, backend_rxq, pc, kernel, host>>

\* Anything else for a connection that does not exist is absorbed.
TxAbsorbed ==
  /\ TakePacket
  /\ TxOp # "REQUEST"
  /\ TxKey \notin DOMAIN conn_map
  /\ UNCHANGED <<maps, backend_rxq, pc, kernel, host>>

\* Mistakes: a map is forgotten.
BugRemoveKeepsPort(key) ==
  LET fd == conn_map[key].fd
  IN  /\ conn_map' = Remove(conn_map, {key})
      /\ listener_map' = Remove(listener_map, {fd})
      /\ Close({fd} \cup (IF fd \in DOMAIN stream_map THEN {stream_map[fd]} ELSE {}))
      /\ stream_map' = Remove(stream_map, {fd})
      /\ UNCHANGED local_port_set
BugRemoveKeepsListener(key) ==
  LET fd == conn_map[key].fd
  IN  /\ conn_map' = Remove(conn_map, {key})
      /\ Close({fd} \cup (IF fd \in DOMAIN stream_map THEN {stream_map[fd]} ELSE {}))
      /\ stream_map' = Remove(stream_map, {fd})
      /\ local_port_set' = local_port_set \ {key.local}
      /\ UNCHANGED listener_map

\* The connection leaves the maps, the port set and the epoll, and with the
\* last of its streams its descriptors are closed.
RemoveConnection(key) ==
  LET fd == conn_map[key].fd
  IN  /\ conn_map' = Remove(conn_map, {key})
      /\ listener_map' = Remove(listener_map, {fd})
      /\ Close({fd} \cup (IF fd \in DOMAIN stream_map THEN {stream_map[fd]} ELSE {}))
      /\ stream_map' = Remove(stream_map, {fd})
      /\ local_port_set' = local_port_set \ {key.local}

\* The guest's RST is ignored when the device is about to send its own.
TxRst ==
  /\ TakePacket
  /\ TxOp = "RST"
  /\ TxKey \in DOMAIN conn_map
  /\ IF "Reset" \in conn_map[TxKey].rx_queue
     THEN UNCHANGED <<conn_map, listener_map, stream_map, local_port_set, kernel>>
     ELSE RemoveConnection(TxKey)
  /\ UNCHANGED <<local_port, backend_rxq, pc, host>>

TakeForConnection(op) ==
  /\ TakePacket
  /\ TxOp = op
  /\ TxKey \in DOMAIN conn_map
  /\ UNCHANGED <<listener_map, stream_map, local_port_set, local_port, fds>>

PushKeyIfPending ==
  IF conn_map'[TxKey].rx_queue # {} THEN PushKey(TxKey) ELSE UNCHANGED backend_rxq

\* A second request changes nothing; data, which is not modelled, neither.
TxNothingNew ==
  /\ TakeForConnection("REQUEST")
  /\ UNCHANGED <<conn_map, pc, epoll, host>>
  /\ PushKeyIfPending

\* OK is written to the stream with write_all().unwrap().
TxResponse ==
  LET s == fds[conn_map[TxKey].fd]
  IN  /\ TakeForConnection("RESPONSE")
      /\ UNCHANGED epoll
      /\ IF host[s].st = "closed"
         THEN /\ pc' = "panic"
              /\ UNCHANGED <<conn_map, backend_rxq, host>>
         ELSE /\ conn_map' = [conn_map EXCEPT ![TxKey].connect = TRUE]
              /\ host' = [host EXCEPT ![s].told = TRUE]
              /\ PushKeyIfPending
              /\ UNCHANGED pc

TxCreditUpdate ==
  /\ TakeForConnection("CREDIT_UPDATE")
  /\ epoll' = Watching(conn_map[TxKey].fd, "inout")
  /\ UNCHANGED <<conn_map, pc, host>>
  /\ PushKeyIfPending

TxShutdown ==
  /\ TakeForConnection("SHUTDOWN")
  /\ conn_map' = [conn_map EXCEPT ![TxKey].rx_queue = @ \cup {"Reset"}]
  /\ PushKeyIfPending
  /\ UNCHANGED <<pc, epoll, host>>

DeviceTx ==
  \/ TxDone \/ TxRefused \/ TxAbsorbed \/ TxRst \/ TxNothingNew
  \/ TxResponse \/ TxCreditUpdate \/ TxShutdown
  \/ \E s \in Streams : TxConnect(s)

-----------------------------------------------------------------------------
\* process_rx(): VsockThreadBackend::recv_pkt(), one descriptor.

RxDone ==
  /\ pc = "rx"
  /\ backend_rxq = <<>> \/ Len(rxring) = RxCap
  /\ pc' = "idle"
  /\ UNCHANGED <<maps, backend_rxq, events, kernel, rings, host, guest>>

PopKey ==
  /\ pc = "rx"
  /\ backend_rxq # <<>>
  /\ Len(rxring) < RxCap
  /\ backend_rxq' = Tail(backend_rxq)
  /\ UNCHANGED <<events, txring, rxkick, guest, local_port>>

RxKey == Head(backend_rxq)

Return(packet) == rxring' = Append(rxring, packet)

Fill(op) == Return(Packet(op, RxKey)) /\ UNCHANGED pc

\* The connection is gone: the descriptor is returned as it was.
RxUnknown ==
  /\ PopKey
  /\ RxKey \notin DOMAIN conn_map
  /\ Fill("UNSET")
  /\ UNCHANGED <<conn_map, listener_map, stream_map, local_port_set, kernel, host>>

\* Nothing is pending: NoRequestRx ends the loop, which EVENT_IDX restarts.
BugRxNothingStops ==
  /\ PopKey
  /\ RxKey \in DOMAIN conn_map
  /\ conn_map[RxKey].rx_queue = {}
  /\ pc' = "idle"
  /\ UNCHANGED <<conn_map, listener_map, stream_map, local_port_set, kernel, rxring, host>>

RxNothing ==
  /\ PopKey
  /\ RxKey \in DOMAIN conn_map
  /\ conn_map[RxKey].rx_queue = {}
  /\ pc' = IF EventIdx THEN "rx" ELSE "idle"
  /\ UNCHANGED <<conn_map, listener_map, stream_map, local_port_set, kernel, rxring, host>>

Serve(op) ==
  /\ PopKey
  /\ RxKey \in DOMAIN conn_map
  /\ op \in conn_map[RxKey].rx_queue
  /\ Peek(conn_map[RxKey]) = op

RxReset ==
  /\ Serve("Reset")
  /\ RemoveConnection(RxKey)
  /\ Fill("RST")
  /\ UNCHANGED host

OpDone(op) == conn_map' = [conn_map EXCEPT ![RxKey].rx_queue = @ \ {op}]

RxRequest ==
  /\ Serve("Request")
  /\ OpDone("Request")
  /\ Fill("REQUEST")
  /\ UNCHANGED <<listener_map, stream_map, local_port_set, kernel, host>>

RxResponse ==
  /\ Serve("Response")
  /\ conn_map' = [conn_map EXCEPT ![RxKey].rx_queue = @ \ {"Response"}, ![RxKey].connect = TRUE]
  /\ Fill("RESPONSE")
  /\ UNCHANGED <<listener_map, stream_map, local_port_set, kernel, host>>

RxNotConnected ==
  /\ Serve("Rw")
  /\ ~conn_map[RxKey].connect
  /\ OpDone("Rw")
  /\ Fill("RST")
  /\ UNCHANGED <<listener_map, stream_map, local_port_set, kernel, host>>

\* A mistake: the stream is not watched again after it was read.
BugRxReadUnwatched ==
  LET s == fds[conn_map[RxKey].fd]
  IN  /\ Serve("Rw")
      /\ conn_map[RxKey].connect
      /\ host[s].unread > 0
      /\ OpDone("Rw")
      /\ host' = [host EXCEPT ![s].unread = 0]
      /\ Fill("RW")
      /\ UNCHANGED <<listener_map, stream_map, local_port_set, kernel>>

RxRead ==
  LET conn == conn_map[RxKey]
      s    == fds[conn.fd]
  IN  /\ Serve("Rw")
      /\ conn.connect
      /\ host[s].unread > 0
      /\ OpDone("Rw")
      /\ host' = [host EXCEPT ![s].unread = 0]
      /\ epoll' = Watching(conn.fd, "inout")
      /\ Fill("RW")
      /\ UNCHANGED <<listener_map, stream_map, local_port_set, fds>>

\* End of file, or nothing to read after all: the stream stays unwatched.
RxReadNothing ==
  LET s == fds[conn_map[RxKey].fd]
  IN  /\ Serve("Rw")
      /\ conn_map[RxKey].connect
      /\ host[s].unread = 0
      /\ OpDone("Rw")
      /\ Fill(IF host[s].st = "closed" THEN "SHUTDOWN" ELSE "INVALID")
      /\ UNCHANGED <<listener_map, stream_map, local_port_set, kernel, host>>

DeviceRx ==
  \/ RxDone \/ RxUnknown \/ RxNothing \/ RxReset \/ RxRequest \/ RxResponse
  \/ RxNotConnected \/ RxRead \/ RxReadNothing

Device == WakeBackend \/ WakeTx \/ WakeRx \/ DeviceEvent \/ DeviceTx \/ DeviceRx

-----------------------------------------------------------------------------
\* The guest driver (external).

Transmit(op, key) == Len(txring) < TxCap /\ txring' = Append(txring, Packet(op, key))

guestSide == <<maps, backend_rxq, events, pc, kernel, host>>

\* The queue of keys has no limit in the code; a connection whose guest is
\* slow to give descriptors back adds keys faster than they are taken out.
RxqIsShort == Len(backend_rxq) < MaxRxq

GuestConnect(key) ==
  /\ RxqIsShort
  /\ key.local \in HostPorts /\ key.peer \in Ephemeral
  /\ guest[key] = "none"
  /\ Transmit("REQUEST", key)
  /\ guest' = [guest EXCEPT ![key] = "connecting"]
  /\ UNCHANGED <<guestSide, rxring, rxkick>>

GuestClose(key) ==
  /\ GuestCloses
  /\ guest[key] = "established"
  /\ Transmit("SHUTDOWN", key)
  /\ guest' = [guest EXCEPT ![key] = "closing"]
  /\ UNCHANGED <<guestSide, rxring, rxkick>>

GuestTimeout(key) ==
  /\ guest[key] = "closing"
  /\ Transmit("RST", key)
  /\ guest' = [guest EXCEPT ![key] = "none"]
  /\ UNCHANGED <<guestSide, rxring, rxkick>>

\* What the driver does with a packet: the answers it may give.
Answers(op, key, st) ==
  IF op = "UNSET" \/ (op = "RST" /\ st = "none") THEN {<<"nothing", st>>}
  ELSE IF op = "RST" THEN {<<"nothing", "none">>}
  ELSE IF st = "none" /\ op = "REQUEST" /\ key.peer \in Listening
    THEN {<<"RESPONSE", "established">>, <<"RST", "none">>}
  ELSE IF st = "connecting" /\ op = "RESPONSE" THEN {<<"nothing", "established">>}
  ELSE IF st = "none" \/ (st = "connecting" /\ op # "INVALID") THEN {<<"RST", "none">>}
  ELSE IF st = "established" /\ op = "SHUTDOWN" THEN {<<"RST", "none">>}
  ELSE IF st = "established" /\ op = "RW" THEN {<<"nothing", st>>} \cup (IF RxqIsShort THEN {<<"CREDIT_UPDATE", st>>} ELSE {})
  ELSE {<<"nothing", st>>}

GuestReceive ==
  /\ rxring # <<>>
  /\ rxring' = Tail(rxring)
  /\ rxkick' = TRUE
  /\ UNCHANGED guestSide
  /\ LET pkt == Head(rxring)
     IN  \E answer \in Answers(pkt.op, pkt.key, guest[pkt.key]) :
           /\ guest' = [guest EXCEPT ![pkt.key] = answer[2]]
           /\ IF answer[1] = "nothing" THEN UNCHANGED txring ELSE Transmit(answer[1], pkt.key)

Guest ==
  \/ GuestReceive
  \/ \E key \in Keys :
       GuestConnect(key) \/ GuestClose(key) \/ GuestTimeout(key)

-----------------------------------------------------------------------------
\* The host applications (external).

hostSide == <<maps, backend_rxq, events, pc, kernel, rings, guest>>

HostConnect(s) ==
  /\ host[s].st = "unused"
  /\ host' = [host EXCEPT ![s].st = "backlog"]
  /\ UNCHANGED hostSide

HostAsk(s, what) ==
  /\ host[s].st \in {"backlog", "open"} /\ host[s].asked = "nothing" /\ ~host[s].told
  /\ host' = [host EXCEPT ![s].asked = what, ![s].unread = 1]
  /\ UNCHANGED hostSide

HostWrite(s) ==
  /\ host[s].st = "open" /\ host[s].told /\ host[s].unread = 0
  /\ RxqIsShort
  /\ host' = [host EXCEPT ![s].unread = 1]
  /\ UNCHANGED hostSide

Phase(end) == IF end.told THEN "told" ELSE IF end.asked = "nothing" THEN "silent" ELSE "asked"

HostClose(s) ==
  /\ host[s].st = "open"
  /\ Phase(host[s]) \in HostCloses
  /\ host' = [host EXCEPT ![s].st = "closed"]
  /\ UNCHANGED hostSide

Host ==
  \E s \in Streams :
    \/ HostConnect(s) \/ HostWrite(s) \/ HostClose(s)
    \/ \E what \in {"connect", "rubbish"} : HostAsk(s, what)

Next == Device \/ Guest \/ Host

Spec == Init /\ [][Next]_vars

\* As for VsockFlow: the loop, the driver and epoll overlook nobody.
Fairness ==
  /\ WF_vars(DeviceEvent) /\ WF_vars(DeviceTx) /\ WF_vars(DeviceRx)
  /\ SF_vars(WakeBackend) /\ SF_vars(WakeTx) /\ SF_vars(WakeRx)
  /\ SF_vars(GuestReceive)

FairSpec == Spec /\ Fairness

-----------------------------------------------------------------------------
(***************************************************************************)
(* listener_map and conn_map name each other: an event finds its           *)
(* connection, whose lookup is unwrapped, and a connection its events.     *)
(***************************************************************************)
MapsAgree ==
  /\ \A fd \in DOMAIN listener_map :
       listener_map[fd] \in DOMAIN conn_map /\ conn_map[listener_map[fd]].fd = fd
  /\ \A key \in DOMAIN conn_map :
       conn_map[key].fd \in DOMAIN listener_map /\ listener_map[conn_map[key].fd] = key

(***************************************************************************)
(* Every open descriptor belongs to a connection or is kept on purpose,    *)
(* and what they name is open: nothing leaks, nothing is used after its    *)
(* close.                                                                  *)
(***************************************************************************)
DescriptorsAccounted ==
  /\ DOMAIN fds = {conn_map[key].fd : key \in DOMAIN conn_map} \cup Range(stream_map)
  /\ DOMAIN stream_map \subseteq DOMAIN fds

Occurrences(key) == Cardinality({i \in 1 .. Len(backend_rxq) : backend_rxq[i] = key})

(***************************************************************************)
(* A pending operation always has a key in backend_rxq to bring it out.    *)
(***************************************************************************)
KeyPerOp ==
  \A key \in DOMAIN conn_map : Cardinality(conn_map[key].rx_queue) <= Occurrences(key)

\* The books of the backend: every event finds its connection, every
\* descriptor has an owner, every pending operation a key.
BooksKept == TypeOK /\ MapsAgree /\ DescriptorsAccounted /\ KeyPerOp

(***************************************************************************)
(* The unwrap() of the lookups and of the epoll calls never fail.          *)
(***************************************************************************)
NoPanic == pc # "panic"

(***************************************************************************)
(* local_port_set is the "set of allocated local ports": it has the port   *)
(* of every connection.                                                    *)
(***************************************************************************)
PortsAllocated == \A key \in DOMAIN conn_map : key.local \in local_port_set

(***************************************************************************)
(* What local_port_set is there for: the key that add_new_connection_from_ *)
(* host() makes of a port it has just been given is no connection's yet.   *)
(***************************************************************************)
KeysFresh ==
  \A e \in events, peer \in Listening :
    Unconnected(e) /\ e.fd \in DOMAIN stream_map /\ FreePorts # {} =>
      [local |-> FirstFree, peer |-> peer] \notin DOMAIN conn_map

(***************************************************************************)
(* The guest answers a connection once: the application it is of does not  *)
(* yet know when the answer is handled.                                    *)
(***************************************************************************)
AnsweredOnce ==
  pc = "tx" /\ txring # <<>> /\ TxOp = "RESPONSE" /\ TxKey \in DOMAIN conn_map =>
    ~host[fds[conn_map[TxKey].fd]].told


(***************************************************************************)
(* A port is given back with its connection: none is lost for good.        *)
(***************************************************************************)
PortsGivenBack == local_port_set \subseteq {key.local : key \in DOMAIN conn_map}

(***************************************************************************)
(* The event of a stream that did not say CONNECT "has to be EPOLLIN".     *)
(***************************************************************************)
FirstEventIsIn ==
  \A e \in events : Unconnected(e) /\ e.fd \in DOMAIN stream_map => OnlyIn(e)

-----------------------------------------------------------------------------
\* An application that has asked for a port is told, or its stream is dropped.
AskAnswered ==
  \A s \in Streams :
    (host[s].asked # "nothing" /\ host[s].st = "open") ~>
      (host[s].told \/ host[s].st = "closed" \/ s \notin Range(fds))

\* What an application writes is read, or its connection goes away.
WriteRead ==
  \A s \in Streams :
    (host[s].told /\ host[s].unread > 0) ~> (host[s].unread = 0 \/ s \notin Range(fds))

(***************************************************************************)
(* What does not hold: a connection request of the guest is answered, at   *)
(* the least by the reset that enq_rst() is said to enqueue ("Enqueue RST  *)
(* packets to be sent to guest") and only logs.                            *)
(***************************************************************************)
ConnectAnswered ==
  \A key \in Keys : (guest[key] = "connecting") ~> (guest[key] # "connecting")

=============================================================================
