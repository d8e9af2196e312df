----------------------------- MODULE VsockSiblings -----------------------------
(***************************************************************************)
(* The guests of one vhost-device-vsock process and the packets they send  *)
(* each other: cid_map, the queue of raw packets and the event descriptor  *)
(* of each guest (thread_backend.rs), the turns its thread gives to that   *)
(* queue and to backend_rxq (vhu_vsock_thread.rs), and a server that is    *)
(* torn down and made anew when its VMM goes away (main.rs).               *)
(*                                                                         *)
(* One thread per guest; what they share is cid_map, behind a lock held    *)
(* for reading while a packet is passed on, and the queues.  A packet is   *)
(* its sender and its number among those that the sender sent to the same  *)
(* guest, modulo Numbers.  Packets for the host are VsockBackend's: here   *)
(* they are the number of keys in backend_rxq.                             *)
(***************************************************************************)
EXTENDS Integers, Sequences, FiniteSets

CONSTANTS
  VMs,       \* the guests, named by their CID
  Groups,    \* VM -> the groups of its device
  Talks,     \* pairs of guests of which the first sends to the second
  Numbers,   \* numbers of packets wrap; more than can be under way
  TxCap,     \* packets in a tx ring
  RxCap,     \* descriptors in an rx ring
  MaxRaw,    \* bound: packets waiting for a guest when another is sent
  MaxStd,    \* bound: keys in backend_rxq; 0 is a guest no host talks to
  MayRestart,\* VMMs may disconnect
  EarlySend  \* a guest is sent to before its VMM has configured the device

ASSUME SiblingsAssumption ==
  /\ IsFiniteSet(VMs) /\ Talks \subseteq VMs \X VMs
  /\ Numbers \in Nat /\ Numbers > MaxRaw + TxCap + RxCap
  /\ TxCap \in Nat \ {0} /\ RxCap \in Nat \ {0} /\ MaxRaw \in Nat /\ MaxStd \in Nat
  /\ MayRestart \in BOOLEAN /\ EarlySend \in BOOLEAN

VARIABLES
  cid_map,          \* the guests that can be sent to
  readers,          \* the threads that hold cid_map for reading
  raw_pkts_queue,   \* VM -> packets of its siblings
  sibling_event_fd, \* VM -> the event is signalled
  last_processed,   \* VM -> the queue that went first
  std,              \* VM -> keys in backend_rxq
  server,           \* VM -> its server: "up", "stopping" or "down"
  mem,              \* VM -> the VMM has given the guest's memory
  pc,               \* VM -> where its thread is
  target,           \* VM -> the guest its thread is sending to
  txring, rxring, rxkick,
  sent,             \* VM -> VM -> number of the last packet sent
  taken,            \* history: of the last one that the device has taken
  got               \* VM -> VM -> number of the last packet received, if any

threads == <<cid_map, readers, raw_pkts_queue, sibling_event_fd, last_processed, std,
             pc, target>>
life    == <<server, mem>>
rings   == <<txring, rxring, rxkick>>
counts  == <<sent, taken, got>>
vars    == <<threads, life, rings, counts>>

Packets == [src : VMs, num : 0 .. Numbers - 1]
None    == Numbers
Host    == [num |-> None]   \* a packet of the host
NextNum(n) == (n + 1) % Numbers

\* The variables have their types; no ring holds more than its descriptors.
TypeOK ==
  /\ cid_map \subseteq VMs /\ readers \subseteq VMs
  /\ raw_pkts_queue \in [VMs -> Seq(Packets)]
  /\ sibling_event_fd \in [VMs -> BOOLEAN]
  /\ last_processed \in [VMs -> {"Standard", "RawPkts"}]
  /\ std \in [VMs -> 0 .. MaxStd]
  /\ server \in [VMs -> {"up", "stopping", "down"}]
  /\ mem \in [VMs -> BOOLEAN]
  /\ pc \in [VMs -> {"idle", "tx", "notify", "rx", "std1", "std2", "raw0", "raw1", "raw2", "dead"}]
  /\ target \in [VMs -> VMs]
  /\ txring \in [VMs -> Seq([dst : VMs, num : 0 .. Numbers - 1])]
  /\ rxring \in [VMs -> Seq(Packets \cup {Host})]
  /\ \A v \in VMs : Len(txring[v]) <= TxCap /\ Len(rxring[v]) <= RxCap
  /\ rxkick \in [VMs -> BOOLEAN]
  /\ {sent, taken} \subseteq [VMs -> [VMs -> 0 .. Numbers - 1]]
  /\ got \in [VMs -> [VMs -> 0 .. Numbers]]

\* All servers are up; their VMMs have not connected yet.
Init ==
  /\ cid_map = VMs /\ readers = {}
  /\ raw_pkts_queue = [v \in VMs |-> <<>>]
  /\ sibling_event_fd = [v \in VMs |-> FALSE]
  /\ last_processed = [v \in VMs |-> "Standard"]
  /\ std = [v \in VMs |-> 0]
  /\ server = [v \in VMs |-> "up"]
  /\ mem = [v \in VMs |-> FALSE]
  /\ pc = [v \in VMs |-> "idle"]
  /\ target = [v \in VMs |-> v]
  /\ txring = [v \in VMs |-> <<>>] /\ rxring = [v \in VMs |-> <<>>]
  /\ rxkick = [v \in VMs |-> FALSE]
  /\ sent = [v \in VMs |-> [d \in VMs |-> 0]] /\ taken = sent
  /\ got = [v \in VMs |-> [d \in VMs |-> None]]

-----------------------------------------------------------------------------
\* The wake-ups of a thread: handle_event() of VhostUserVsockBackend.

Idle(v) == server[v] = "up" /\ pc[v] = "idle"

Go(v, where) == pc' = [pc EXCEPT ![v] = where]

WakeTx(v) ==
  /\ Idle(v)
  /\ txring[v] # <<>>
  /\ Go(v, "tx")
  /\ UNCHANGED <<cid_map, readers, raw_pkts_queue, sibling_event_fd, last_processed, std,
                 target, life, rings, counts>>

WakeRx(v) ==
  /\ Idle(v)
  /\ rxkick[v]
  /\ rxkick' = [rxkick EXCEPT ![v] = FALSE]
  /\ Go(v, "rx")
  /\ UNCHANGED <<cid_map, readers, raw_pkts_queue, sibling_event_fd, last_processed, std,
                 target, life, txring, rxring, counts>>

(***************************************************************************)
(* An event of a host application that adds a key to backend_rxq.  Without *)
(* the guest's memory process_tx() only warns, but process_rx() then finds *)
(* the key and ends as in WakeSibling.                                     *)
(***************************************************************************)
WakeBackend(v) ==
  /\ Idle(v)
  /\ mem[v] \/ EarlySend
  /\ std[v] < MaxStd
  /\ std' = [std EXCEPT ![v] = @ + 1]
  /\ Go(v, IF mem[v] THEN "tx" ELSE "dead")
  /\ UNCHANGED <<cid_map, readers, raw_pkts_queue, sibling_event_fd, last_processed,
                 target, life, rings, counts>>

(***************************************************************************)
(* SIBLING_VM_EVENT is consumed and the raw packets are processed.         *)
(* Without the guest's memory that is an error of handle_event(), and the  *)
(* worker that called it stops (external).                                 *)
(***************************************************************************)
WakeSibling(v) ==
  /\ Idle(v)
  /\ sibling_event_fd[v]
  /\ sibling_event_fd' = [sibling_event_fd EXCEPT ![v] = FALSE]
  /\ Go(v, IF mem[v] THEN "raw0" ELSE "dead")
  /\ UNCHANGED <<cid_map, readers, raw_pkts_queue, last_processed, std,
                 target, life, rings, counts>>

-----------------------------------------------------------------------------
\* process_tx() and the part of send_pkt() for a sibling.

Sharing(u, v) == Groups[u] \cap Groups[v] # {}

\* The ring is empty: process_rx() follows.
TxDone(v) ==
  /\ pc[v] = "tx"
  /\ txring[v] = <<>>
  /\ Go(v, "rx")
  /\ UNCHANGED <<cid_map, readers, raw_pkts_queue, sibling_event_fd, last_processed, std,
                 target, life, rings, counts>>

TakePacket(v) ==
  /\ pc[v] = "tx"
  /\ txring[v] # <<>>
  /\ txring' = [txring EXCEPT ![v] = Tail(@)]
  /\ taken' = [taken EXCEPT ![v][Head(txring[v]).dst] = Head(txring[v]).num]
  /\ UNCHANGED <<cid_map, sibling_event_fd, last_processed, std, life,
                 rxring, rxkick, sent, got>>

Reachable(v, d) == d \in cid_map /\ Sharing(v, d)

TxDropped(v) ==
  /\ TakePacket(v)
  /\ ~Reachable(v, Head(txring[v]).dst)
  /\ UNCHANGED <<readers, raw_pkts_queue, pc, target>>

\* Mistake: the newest first.
BugEnqueueFirst(queue, pkt) == <<pkt>> \o queue
Enqueue(queue, pkt) == Append(queue, pkt)

\* The packet joins the queue while cid_map is held for reading...
TxPass(v) ==
  LET pkt == Head(txring[v])
  IN  /\ TakePacket(v)
      /\ Reachable(v, pkt.dst)
      /\ readers' = readers \cup {v}
      /\ raw_pkts_queue' = [raw_pkts_queue EXCEPT ![pkt.dst] =
                              Enqueue(@, [src |-> v, num |-> pkt.num])]
      /\ target' = [target EXCEPT ![v] = pkt.dst]
      /\ Go(v, "notify")

\* ...and then the event of its receiver is signalled.
TxNotify(v) ==
  /\ pc[v] = "notify"
  /\ sibling_event_fd' = [sibling_event_fd EXCEPT ![target[v]] = TRUE]
  /\ readers' = readers \ {v}
  /\ Go(v, "tx")
  /\ UNCHANGED <<cid_map, raw_pkts_queue, last_processed, std, target,
                 life, rings, counts>>

-----------------------------------------------------------------------------
(***************************************************************************)
(* process_rx(): the queue that did not go first the last time goes first, *)
(* if it has anything, and then the other.                                 *)
(***************************************************************************)
PendingRaw(v) == raw_pkts_queue[v] # <<>>
PendingRx(v)  == std[v] > 0
RxAvail(v)    == Len(rxring[v]) < RxCap

\* Mistake: only the queue whose turn it is.
BugFirstTurnOnly(v) ==
  IF last_processed[v] = "Standard" /\ PendingRaw(v) THEN "raw1"
  ELSE IF last_processed[v] = "RawPkts" /\ PendingRx(v) THEN "std1" ELSE "idle"

FirstTurn(v) ==
  IF last_processed[v] = "Standard"
  THEN IF PendingRaw(v) THEN "raw1" ELSE IF PendingRx(v) THEN "std2" ELSE "idle"
  ELSE IF PendingRx(v) THEN "std1" ELSE IF PendingRaw(v) THEN "raw2" ELSE "idle"

\* Only the first branch of each arm records that its queue went first.
RxStart(v) ==
  /\ pc[v] = "rx"
  /\ Go(v, FirstTurn(v))
  /\ UNCHANGED <<cid_map, readers, raw_pkts_queue, sibling_event_fd, last_processed, std,
                 target, life, rings, counts>>

\* process_raw_pkts(): a packet for a descriptor.
RawPacket(v) ==
  /\ pc[v] \in {"raw0", "raw1", "raw2"}
  /\ PendingRaw(v) /\ RxAvail(v)
  /\ rxring' = [rxring EXCEPT ![v] = Append(@, Head(raw_pkts_queue[v]))]
  /\ raw_pkts_queue' = [raw_pkts_queue EXCEPT ![v] = Tail(@)]
  /\ UNCHANGED <<cid_map, readers, sibling_event_fd, last_processed, std, pc, target,
                 life, txring, rxkick, counts>>

RawDone(v) ==
  /\ pc[v] \in {"raw0", "raw1", "raw2"}
  /\ ~PendingRaw(v) \/ ~RxAvail(v)
  /\ last_processed' = [last_processed EXCEPT ![v] = IF pc[v] = "raw1" THEN "RawPkts" ELSE @]
  /\ Go(v, IF pc[v] = "raw1" /\ PendingRx(v) THEN "std2" ELSE "idle")
  /\ UNCHANGED <<cid_map, readers, raw_pkts_queue, sibling_event_fd, std, target,
                 life, rings, counts>>

\* process_unix_sockets(): a packet of the host for a descriptor.
StdPacket(v) ==
  /\ pc[v] \in {"std1", "std2"}
  /\ PendingRx(v) /\ RxAvail(v)
  /\ rxring' = [rxring EXCEPT ![v] = Append(@, Host)]
  /\ std' = [std EXCEPT ![v] = @ - 1]
  /\ UNCHANGED <<cid_map, readers, raw_pkts_queue, sibling_event_fd, last_processed, pc,
                 target, life, txring, rxkick, counts>>

StdDone(v) ==
  /\ pc[v] \in {"std1", "std2"}
  /\ ~PendingRx(v) \/ ~RxAvail(v)
  /\ last_processed' = [last_processed EXCEPT ![v] = IF pc[v] = "std1" THEN "Standard" ELSE @]
  /\ Go(v, IF pc[v] = "std1" /\ PendingRaw(v) THEN "raw2" ELSE "idle")
  /\ UNCHANGED <<cid_map, readers, raw_pkts_queue, sibling_event_fd, std, target,
                 life, rings, counts>>

-----------------------------------------------------------------------------
(***************************************************************************)
(* start_backend_server(): when the VMM disconnects the backend is dropped *)
(* and leaves cid_map, which waits for the readers; a new one is made and  *)
(* waits for a VMM.                                                        *)
(***************************************************************************)
Disconnect(v) ==
  /\ MayRestart
  /\ server[v] = "up" /\ mem[v]
  /\ server' = [server EXCEPT ![v] = "stopping"]
  /\ UNCHANGED <<threads, mem, rings, counts>>

\* The worker has been joined, in the middle of no event.
DropBackend(v) ==
  /\ server[v] = "stopping"
  /\ pc[v] \in {"idle", "dead"}
  /\ readers = {}
  /\ cid_map' = cid_map \ {v}
  /\ server' = [server EXCEPT ![v] = "down"]
  /\ UNCHANGED <<readers, raw_pkts_queue, sibling_event_fd, last_processed, std, pc, target,
                 mem, rings, counts>>

\* What the old guest had sent and the device had not taken was never sent.
NewBackend(v) ==
  /\ server[v] = "down"
  /\ readers = {}
  /\ cid_map' = cid_map \cup {v}
  /\ server' = [server EXCEPT ![v] = "up"]
  /\ mem' = [mem EXCEPT ![v] = FALSE]
  /\ raw_pkts_queue' = [raw_pkts_queue EXCEPT ![v] = <<>>]
  /\ sibling_event_fd' = [sibling_event_fd EXCEPT ![v] = FALSE]
  /\ last_processed' = [last_processed EXCEPT ![v] = "Standard"]
  /\ std' = [std EXCEPT ![v] = 0]
  /\ Go(v, "idle")
  /\ txring' = [txring EXCEPT ![v] = <<>>]
  /\ rxring' = [rxring EXCEPT ![v] = <<>>]
  /\ rxkick' = [rxkick EXCEPT ![v] = FALSE]
  /\ sent' = [sent EXCEPT ![v] = taken[v]]
  /\ got' = [got EXCEPT ![v] = [u \in VMs |-> None]]
  /\ UNCHANGED <<readers, target, taken>>

-----------------------------------------------------------------------------
\* The guests and their VMMs (external).

Running(v) == server[v] = "up" /\ mem[v]

VmmConnect(v) ==
  /\ server[v] = "up" /\ ~mem[v]
  /\ mem' = [mem EXCEPT ![v] = TRUE]
  /\ UNCHANGED <<threads, server, rings, counts>>

GuestSend(v, d) ==
  /\ <<v, d>> \in Talks
  /\ Running(v)
  /\ mem[d] \/ EarlySend
  /\ Len(txring[v]) < TxCap
  /\ Len(raw_pkts_queue[d]) < MaxRaw
  /\ sent' = [sent EXCEPT ![v][d] = NextNum(@)]
  /\ txring' = [txring EXCEPT ![v] = Append(@, [dst |-> d, num |-> NextNum(sent[v][d])])]
  /\ UNCHANGED <<threads, life, rxring, rxkick, taken, got>>

\* The driver takes a packet, gives the buffer back and kicks.
GuestReceive(v) ==
  /\ Running(v)
  /\ rxring[v] # <<>>
  /\ rxring' = [rxring EXCEPT ![v] = Tail(@)]
  /\ rxkick' = [rxkick EXCEPT ![v] = TRUE]
  /\ got' = IF Head(rxring[v]) = Host THEN got
            ELSE [got EXCEPT ![v][Head(rxring[v]).src] = Head(rxring[v]).num]
  /\ UNCHANGED <<threads, life, txring, sent, taken>>

-----------------------------------------------------------------------------
Tx(v)  == TxDone(v) \/ TxDropped(v) \/ TxPass(v) \/ TxNotify(v)
Rx(v)  == RxStart(v) \/ RawPacket(v) \/ RawDone(v) \/ StdPacket(v) \/ StdDone(v)
Wake(v) == WakeTx(v) \/ WakeRx(v) \/ WakeBackend(v) \/ WakeSibling(v)
Restart(v) == Disconnect(v) \/ DropBackend(v) \/ NewBackend(v)
Guest(v) == VmmConnect(v) \/ GuestReceive(v) \/ \E d \in VMs : GuestSend(v, d)

Next == \E v \in VMs : Wake(v) \/ Tx(v) \/ Rx(v) \/ Restart(v) \/ Guest(v)

Spec == Init /\ [][Next]_vars

(***************************************************************************)
(* A thread goes on until its event is handled and epoll_wait() overlooks  *)
(* no descriptor that stays ready (SF: it is enabled only between events); *)
(* the driver takes what it is given and the VMM connects.  Nothing is     *)
(* said of what guests and applications send, or that a VMM goes away.     *)
(***************************************************************************)
Fairness ==
  \A v \in VMs :
    /\ WF_vars(Tx(v)) /\ WF_vars(Rx(v))
    /\ SF_vars(WakeTx(v)) /\ SF_vars(WakeRx(v)) /\ SF_vars(WakeSibling(v))
    /\ WF_vars(VmmConnect(v)) /\ WF_vars(GuestReceive(v))

FairSpec == Spec /\ Fairness

-----------------------------------------------------------------------------
\* The numbers that packets of one guest to another have in a queue, None for
\* those of other guests.
NumFrom(u, pkt) == IF pkt # Host /\ pkt.src = u THEN pkt.num ELSE None
NumTo(d, pkt)   == IF pkt.dst = d THEN pkt.num ELSE None
NumsFrom(u, queue) == [i \in 1 .. Len(queue) |-> NumFrom(u, queue[i])]
NumsTo(d, ring)    == [i \in 1 .. Len(ring) |-> NumTo(d, ring[i])]

\* No number is missing, repeated or out of its place; the last is that one.
Consecutive(nums, last) ==
  \A i \in 1 .. Len(nums) : nums[i] # None =>
    \/ /\ nums[i] = last
       /\ \A k \in i + 1 .. Len(nums) : nums[k] = None
    \/ \E j \in i + 1 .. Len(nums) :
         /\ nums[j] = NextNum(nums[i])
         /\ \A k \in i + 1 .. j - 1 : nums[k] = None

\* What v received last of u, has in its ring and has waiting, oldest first,
\* up to what the device took last; and what u has yet to be taken of.
Arriving(u, v) == <<got[v][u]>> \o (NumsFrom(u, rxring[v]) \o NumsFrom(u, raw_pkts_queue[v]))
Departing(u, v) == <<taken[u][v]>> \o NumsTo(v, txring[u])

(***************************************************************************)
(* What one guest sends another arrives in the order it was sent, without  *)
(* a gap and without a repetition, through every restart of either.        *)
(***************************************************************************)
SiblingsInOrder ==
  \A u, v \in VMs :
    /\ Consecutive(Departing(u, v), sent[u][v])
    /\ server[v] = "up" /\ Sharing(u, v) => Consecutive(Arriving(u, v), taken[u][v])

\* No ring holds more than its descriptors, and packets stay in order.
OrderKept == TypeOK /\ SiblingsInOrder

(***************************************************************************)
(* A thread does not sleep on a packet it could deliver: something is      *)
(* about to wake it, be it a sibling between the two halves of its send.   *)
(***************************************************************************)
NoLostWakeup ==
  \A v \in VMs :
    Running(v) /\ pc[v] = "idle" /\ PendingRaw(v) =>
      \/ sibling_event_fd[v] \/ rxkick[v]
      \/ \E u \in VMs : pc[u] = "notify" /\ target[u] = v
      \/ ~RxAvail(v)

(***************************************************************************)
(* A packet that waits for a guest is delivered, or its guest goes away.   *)
(* It is said of those numbered 1: the device does not tell numbers apart. *)
(***************************************************************************)
Waits(u, v, n) ==
  \E i \in 1 .. Len(raw_pkts_queue[v]) : raw_pkts_queue[v][i] = [src |-> u, num |-> n]

RawDelivered ==
  \A talk \in Talks : Waits(talk[1], talk[2], 1) ~> ~Waits(talk[1], talk[2], 1)

=============================================================================
