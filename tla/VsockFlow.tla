------------------------------- MODULE VsockFlow -------------------------------
(***************************************************************************)
(* One vsock connection of vhost-device-vsock and everything that moves    *)
(* it: the event loop of the device thread (vhu_vsock.rs,                  *)
(* vhu_vsock_thread.rs), the connection object (vsock_conn.rs, rxqueue.rs) *)
(* and the dispatch of packets to it (thread_backend.rs).                  *)
(*                                                                         *)
(*     guest --txring--> device thread --(tx buffer)--> stream --> host    *)
(*     guest <--rxring-- device thread <--------------- stream <-- host    *)
(*                                                                         *)
(* The guest driver, the kernel's stream socket and epoll, and the host    *)
(* application are not in src/; they are modelled from how src/ uses them. *)
(* The payload is abstracted to its length and, towards the host, to the   *)
(* offset of its first byte in the guest's stream.                         *)
(***************************************************************************)
EXTENDS Integers, Sequences, FiniteSets

CONSTANTS
  Wrap,          \* values of a Wrapping<u32> or u32 counter, 2^32 in the code
  TxBufSize,     \* tx_buffer_size: the tx buffer, advertised as buf_alloc
  GuestBufSizes, \* what the guest may advertise as its buf_alloc
  GuestChunks,   \* how much the guest writes in one packet
  HostChunks,    \* how much the host application writes at once
  SockCap,       \* bytes the kernel keeps in each direction of the stream
  TxCap,         \* packets in the tx ring
  RxCap,         \* descriptors in the rx ring
  RxBusy,        \* rx descriptors taken by other connections at the start
  GuestInitiated,\* who may open the connection: a subset of BOOLEAN
  MayShrink,     \* the guest may make its buffer smaller
  GuestAsks,     \* the guest driver may ask for credit
  GuestCloses,   \* the guest application may close
  HostCloses,    \* when the host application may close, see HostMayClose
  EventIdx,      \* VIRTIO_RING_F_EVENT_IDX was negotiated
  MaxKeys        \* bound: entries of backend_rxq beyond it are not counted

RxOps == {"Request", "Rw", "Response", "CreditUpdate", "Reset"}

ASSUME FlowAssumption ==
  /\ Wrap \in Nat
  /\ TxBufSize \in Nat \ {0} /\ TxBufSize < Wrap
  /\ GuestBufSizes \subseteq 1 .. Wrap - 1
  /\ GuestChunks \subseteq Nat \ {0}
  /\ HostChunks \subseteq Nat \ {0}
  /\ SockCap \in Nat \ {0}
  /\ TxCap \in Nat \ {0}
  /\ RxCap \in Nat \ {0}
  /\ RxBusy \subseteq 0 .. RxCap
  /\ GuestInitiated \subseteq BOOLEAN
  /\ MayShrink \in BOOLEAN
  /\ GuestAsks \in BOOLEAN
  /\ GuestCloses \in BOOLEAN
  /\ HostCloses \subseteq {"early", "unread", "drained"}
  /\ EventIdx \in BOOLEAN
  /\ MaxKeys \in Nat /\ 5 <= MaxKeys  \* one for each of RxOps

VARIABLES
  \* The connection object and what the thread keeps about it.
  present,        \* the connection is in conn_map, listener_map, stream_map
  connect,
  rx_queue,       \* the bitmap of pending rx operations, as a set
  fwd_cnt,
  last_fwd_cnt,
  peer_buf_alloc,
  peer_fwd_cnt,
  rx_cnt,
  tx_len,         \* tx_buf.len()
  interest,       \* the events epoll watches on the stream
  keys,           \* entries of backend_rxq that name the connection
  pc,             \* where the thread is in its event handler
  \* The rings shared with the guest.
  txring,
  rxring,
  rxkick,         \* the guest has notified the device of new rx descriptors
  \* The guest driver and its socket.
  g_state,
  g_tx_cnt,
  g_peer_fwd_cnt,
  g_buf_alloc,
  g_fwd_cnt,
  g_unread,
  \* The stream socket and the host application.
  h_in,           \* bytes the host wrote and the device did not read
  h_out,          \* bytes the device wrote and the host did not read
  h_told,         \* the application has its connection
  h_closed,
  h_reset         \* the host closed with unread bytes

credit    == <<fwd_cnt, last_fwd_cnt, peer_buf_alloc, peer_fwd_cnt, rx_cnt>>
connVars  == <<present, connect, rx_queue, credit, tx_len, interest, keys>>
guestVars == <<g_state, g_tx_cnt, g_peer_fwd_cnt, g_buf_alloc, g_fwd_cnt, g_unread>>
hostVars  == <<h_in, h_out, h_told, h_closed, h_reset>>
vars      == <<connVars, pc, txring, rxring, rxkick, guestVars, hostVars>>

-----------------------------------------------------------------------------
\* Counters wrap: a + b and a - b of Wrapping<u32>.

Counter == 0 .. Wrap - 1
Plus(a, b)  == IF a + b < Wrap THEN a + b ELSE a + b - Wrap
Minus(a, b) == IF a >= b THEN a - b ELSE a - b + Wrap

Rank == [Request |-> 1, Rw |-> 2, Response |-> 3, CreditUpdate |-> 4, Reset |-> 5]

\* peek(): the pending operation that goes first.
Peek == CHOOSE op \in rx_queue : \A other \in rx_queue : Rank[op] <= Rank[other]

\* Packets from the guest.  `off` is where the data is in the guest's stream.
GuestOps == {"RESPONSE", "RW", "CREDIT_UPDATE", "CREDIT_REQUEST", "SHUTDOWN", "RST"}

GuestPackets == [op : GuestOps, len : Counter, off : Counter,
                 buf_alloc : Counter, fwd_cnt : Counter]

(***************************************************************************)
(* Packets to the guest.  INVALID is a header filled in without an         *)
(* operation (op 0); UNSET is a buffer given back without a header; OTHER  *)
(* belongs to another connection.                                          *)
(***************************************************************************)
DeviceOps == {"REQUEST", "RESPONSE", "RW", "CREDIT_UPDATE", "CREDIT_REQUEST",
              "SHUTDOWN", "RST", "INVALID", "UNSET", "OTHER"}

DevicePackets == [op : DeviceOps, len : Counter, fwd_cnt : Counter]

DevicePacket(op, len, fwd) == [op |-> op, len |-> len, fwd_cnt |-> fwd]

\* The variables have their types: no count leaves the range of its field.
TypeOK ==
  /\ present \in BOOLEAN /\ connect \in BOOLEAN
  /\ rx_queue \subseteq RxOps
  /\ fwd_cnt \in Counter /\ last_fwd_cnt \in Counter
  /\ peer_buf_alloc \in Counter /\ peer_fwd_cnt \in Counter /\ rx_cnt \in Counter
  /\ tx_len \in 0 .. TxBufSize
  /\ interest \in {"none", "in", "inout"}
  /\ keys \in 0 .. MaxKeys
  /\ pc \in {"idle", "tx", "rx", "panic"}
  /\ txring \in Seq(GuestPackets)
  /\ rxring \in Seq(DevicePackets)
  /\ rxkick \in BOOLEAN
  /\ g_state \in {"listening", "connecting", "established", "closing", "closed"}
  /\ g_tx_cnt \in Counter /\ g_peer_fwd_cnt \in Counter /\ g_buf_alloc \in Counter
  /\ g_fwd_cnt \in Counter /\ g_unread \in Counter
  /\ h_in \in 0 .. SockCap /\ h_out \in 0 .. SockCap
  /\ h_told \in BOOLEAN /\ h_closed \in BOOLEAN /\ h_reset \in BOOLEAN

(***************************************************************************)
(* The connection has just been added: by new_local_init() after a host    *)
(* application said CONNECT, or by new_peer_init() for a REQUEST of the    *)
(* guest, whose connection the application may not have accepted yet.      *)
(***************************************************************************)
Init ==
  \E fromGuest \in GuestInitiated, size \in GuestBufSizes, busy \in RxBusy :
    /\ present = TRUE
    /\ connect = FALSE
    /\ rx_queue = IF fromGuest THEN {"Response"} ELSE {"Request"}
    /\ peer_buf_alloc = IF fromGuest THEN size ELSE 0
    /\ fwd_cnt = 0 /\ last_fwd_cnt = 0 /\ peer_fwd_cnt = 0 /\ rx_cnt = 0
    /\ tx_len = 0
    /\ interest = "inout"
    /\ keys = 1
    /\ pc = "tx"
    /\ txring = <<>>
    /\ rxring = [i \in 1 .. busy |-> DevicePacket("OTHER", 0, 0)]
    /\ rxkick = FALSE
    /\ g_state = IF fromGuest THEN "connecting" ELSE "listening"
    /\ g_tx_cnt = 0 /\ g_peer_fwd_cnt = 0 /\ g_fwd_cnt = 0 /\ g_unread = 0
    /\ g_buf_alloc = size
    /\ h_in = 0 /\ h_out = 0
    /\ h_told = fromGuest
    /\ h_closed = FALSE /\ h_reset = FALSE

-----------------------------------------------------------------------------
(***************************************************************************)
(* The kernel: epoll is level-triggered and always reports a hang-up.      *)
(***************************************************************************)
Registered  == interest # "none"
OnlyEpollOut == interest = "inout" /\ ~h_closed /\ h_in = 0 /\ h_out < SockCap
OtherEvent  == Registered /\ (h_closed \/ h_in > 0)

\* epoll_modify() fails on a stream that is not registered.
EpollModify(events) == interest' = IF Registered THEN events ELSE interest

\* epoll_modify(), and epoll_register() when that fails.
EpollRegister == interest' = "inout"

Amounts(limit) == 1 .. limit

\* push_back() on backend_rxq.
PushKey == keys' = IF keys < MaxKeys THEN keys + 1 ELSE keys

-----------------------------------------------------------------------------
(***************************************************************************)
(* handle_event() of VhostUserVsockBackend: the wake-ups of the thread.    *)
(* BACKEND_EVENT and TX_QUEUE_EVENT process the tx ring and then the rx    *)
(* ring, RX_QUEUE_EVENT only the rx ring.                                  *)
(***************************************************************************)
WakeTx ==
  /\ pc = "idle"
  /\ txring # <<>>
  /\ pc' = "tx"
  /\ UNCHANGED <<connVars, txring, rxring, rxkick, guestVars, hostVars>>

WakeRx ==
  /\ pc = "idle"
  /\ rxkick
  /\ rxkick' = FALSE
  /\ pc' = "rx"
  /\ UNCHANGED <<connVars, txring, rxring, guestVars, hostVars>>

(***************************************************************************)
(* An event that is exactly EPOLLOUT: flush the tx buffer.  The stream     *)
(* takes some of it; with nothing to flush EPOLLOUT is disabled.           *)
(***************************************************************************)
FlushTxBuf ==
  /\ pc = "idle"
  /\ OnlyEpollOut
  /\ \/ \E cnt \in Amounts(tx_len) :
          /\ cnt <= SockCap - h_out
          /\ tx_len' = tx_len - cnt
          /\ h_out' = h_out + cnt
          /\ fwd_cnt' = Plus(fwd_cnt, cnt)
          /\ rx_queue' = rx_queue \cup {"CreditUpdate"}
          /\ UNCHANGED interest
     \/ /\ tx_len = 0
        /\ EpollModify("in")
        /\ UNCHANGED <<tx_len, h_out, fwd_cnt, rx_queue>>
  /\ PushKey
  /\ pc' = "tx"
  /\ UNCHANGED <<present, connect, last_fwd_cnt, peer_buf_alloc, peer_fwd_cnt, rx_cnt,
                 txring, rxring, rxkick, guestVars, h_in, h_told, h_closed, h_reset>>

\* Any other event: stop watching the stream and ask for a read.
EnqueueRead ==
  /\ pc = "idle"
  /\ OtherEvent
  /\ interest' = "none"
  /\ rx_queue' = rx_queue \cup {"Rw"}
  /\ PushKey
  /\ pc' = "tx"
  /\ UNCHANGED <<present, connect, credit, tx_len, txring, rxring, rxkick,
                 guestVars, hostVars>>

-----------------------------------------------------------------------------
(***************************************************************************)
(* process_tx(): one packet of the guest, VsockThreadBackend::send_pkt()   *)
(* and VsockConnection::send_pkt().                                        *)
(***************************************************************************)
TxDone ==
  /\ pc = "tx"
  /\ txring = <<>>
  /\ pc' = "rx"
  /\ UNCHANGED <<connVars, txring, rxring, rxkick, guestVars, hostVars>>

TakePacket(op) ==
  /\ pc = "tx"
  /\ txring # <<>>
  /\ Head(txring).op = op
  /\ txring' = Tail(txring)

\* A packet whose connection is not in conn_map is absorbed.
TxUnknown ==
  /\ pc = "tx"
  /\ txring # <<>>
  /\ ~present
  /\ txring' = Tail(txring)
  /\ UNCHANGED <<connVars, pc, rxring, rxkick, guestVars, hostVars>>

\* What send_pkt() does around the operation of a packet.
Forward(op) ==
  /\ TakePacket(op)
  /\ present
  /\ peer_buf_alloc' = Head(txring).buf_alloc
  /\ peer_fwd_cnt' = Head(txring).fwd_cnt
  /\ UNCHANGED <<present, rx_cnt, last_fwd_cnt, rxring, rxkick, guestVars, h_in, h_closed, h_reset>>

PushKeyIfPending == IF rx_queue' # {} THEN PushKey ELSE UNCHANGED keys

\* The guest accepted.  The OK is written with write_all().unwrap().
TxResponse ==
  /\ Forward("RESPONSE")
  /\ UNCHANGED <<rx_queue, fwd_cnt, tx_len, interest, h_out>>
  /\ IF h_closed
     THEN /\ pc' = "panic"
          /\ UNCHANGED <<connect, keys, h_told>>
     ELSE /\ h_told' = TRUE
          /\ connect' = TRUE
          /\ PushKeyIfPending
          /\ UNCHANGED pc

TxBufIsEmpty == tx_len = 0

\* push(): all of the data or none of it.
PushTxBuf(n) == tx_len' = IF TxBufSize - tx_len >= n THEN tx_len + n ELSE tx_len

\* Mistakes: the rest of a short write is dropped, or waits with EPOLLOUT off.
BugKeepNothing(n) == UNCHANGED <<interest, tx_len>>
BugKeepUnwatched(n) == PushTxBuf(n) /\ UNCHANGED interest

\* The rest of a short write waits in the tx buffer.
KeepRest(n) == EpollModify("inout") /\ PushTxBuf(n)

(***************************************************************************)
(* The threshold of send_bytes(): less than a quarter of the tx buffer is  *)
(* left, counting from what the guest was last told.                       *)
(***************************************************************************)
BugCreditIsLowTooLate(fwd) == Minus(fwd, last_fwd_cnt) > TxBufSize
CreditIsLow(fwd) == Minus(TxBufSize, Minus(fwd, last_fwd_cnt)) < TxBufSize \div 4

\* Data is already waiting in the tx buffer: more goes behind it.
SendBehind ==
  /\ ~TxBufIsEmpty
  /\ PushTxBuf(Head(txring).len)
  /\ UNCHANGED <<fwd_cnt, rx_queue, interest, h_out>>

\* The stream takes `written` bytes, zero of them when it would block.
SendDirect(written) ==
  LET len == Head(txring).len
  IN  /\ TxBufIsEmpty
      /\ ~h_closed
      /\ written \in 0 .. len
      /\ written <= SockCap - h_out
      /\ written = 0 => h_out = SockCap
      /\ h_out' = h_out + written
      /\ fwd_cnt' = Plus(fwd_cnt, written)
      /\ rx_queue' = rx_queue \cup
           IF written > 0 /\ CreditIsLow(fwd_cnt') THEN {"CreditUpdate"} ELSE {}
      /\ IF written < len
         THEN KeepRest(len - written)
         ELSE UNCHANGED <<interest, tx_len>>

\* The write fails: the packet is dropped and the connection goes on.
SendFails ==
  /\ TxBufIsEmpty
  /\ h_closed
  /\ UNCHANGED <<tx_len, fwd_cnt, rx_queue, interest, h_out>>

TxRw ==
  /\ Forward("RW")
  /\ SendBehind \/ SendFails \/ \E written \in 0 .. SockCap : SendDirect(written)
  /\ PushKeyIfPending
  /\ UNCHANGED <<connect, pc, h_told>>

BugModifyOnly == EpollModify("inout")
RegisterOnCredit == EpollRegister

TxCreditUpdate ==
  /\ Forward("CREDIT_UPDATE")
  /\ RegisterOnCredit
  /\ UNCHANGED <<connect, rx_queue, fwd_cnt, tx_len, pc, h_out, h_told>>
  /\ PushKeyIfPending

TxCreditRequest ==
  /\ Forward("CREDIT_REQUEST")
  /\ rx_queue' = rx_queue \cup {"CreditUpdate"}
  /\ PushKeyIfPending
  /\ UNCHANGED <<connect, fwd_cnt, tx_len, interest, pc, h_out, h_told>>

\* Both directions are shut down; answered once the tx buffer is empty.
BugTxShutdownNoKey ==
  /\ Forward("SHUTDOWN")
  /\ rx_queue' = rx_queue \cup IF TxBufIsEmpty THEN {"Reset"} ELSE {}
  /\ UNCHANGED <<connect, fwd_cnt, tx_len, interest, keys, pc, h_out, h_told>>

TxShutdown ==
  /\ Forward("SHUTDOWN")
  /\ rx_queue' = rx_queue \cup IF TxBufIsEmpty THEN {"Reset"} ELSE {}
  /\ PushKeyIfPending
  /\ UNCHANGED <<connect, fwd_cnt, tx_len, interest, pc, h_out, h_told>>

\* The connection leaves all the maps and the epoll; its stream is closed.
Remove ==
  /\ present' = FALSE
  /\ interest' = "none"
  /\ UNCHANGED <<connect, rx_queue, credit, tx_len>>

\* The guest's RST is ignored when the device is about to send its own.
TxRst ==
  /\ TakePacket("RST")
  /\ present
  /\ IF "Reset" \in rx_queue
     THEN UNCHANGED <<present, interest, connect, rx_queue, credit, tx_len>>
     ELSE Remove
  /\ UNCHANGED <<keys, pc, rxring, rxkick, guestVars, hostVars>>

-----------------------------------------------------------------------------
(***************************************************************************)
(* process_rx(): fill one descriptor, VsockThreadBackend::recv_pkt() and   *)
(* VsockConnection::recv_pkt().                                            *)
(***************************************************************************)
RxAvail == RxCap - Len(rxring)

RxDone ==
  /\ pc = "rx"
  /\ keys = 0 \/ RxAvail = 0
  /\ pc' = "idle"
  /\ UNCHANGED <<connVars, txring, rxring, rxkick, guestVars, hostVars>>

\* A key is popped and a descriptor taken; the loop goes on while keys remain.
PopKey ==
  /\ pc = "rx"
  /\ keys > 0
  /\ RxAvail > 0
  /\ keys' = keys - 1
  /\ UNCHANGED <<peer_buf_alloc, peer_fwd_cnt, fwd_cnt, tx_len, txring, rxkick,
                 guestVars, h_out, h_told, h_closed>>

\* A mistake: bytes that only reached the tx buffer are given back as credit.
BugFillCountsBuffered(op, len) ==
  /\ rxring' = Append(rxring, DevicePacket(op, len, Plus(fwd_cnt, tx_len)))
  /\ UNCHANGED pc

Fill(op, len) ==
  /\ rxring' = Append(rxring, DevicePacket(op, len, fwd_cnt))
  /\ UNCHANGED pc

\* The next operation of the connection is dequeued.
Dequeue(op) ==
  /\ PopKey
  /\ present
  /\ op \in rx_queue
  /\ Peek = op
  /\ rx_queue' = rx_queue \ {op}

\* The connection of the key is gone: the descriptor is returned as it was.
RxUnknown ==
  /\ PopKey
  /\ ~present
  /\ rxring' = Append(rxring, DevicePacket("UNSET", 0, 0))
  /\ UNCHANGED <<pc, present, connect, rx_queue, last_fwd_cnt, rx_cnt, interest, h_in, h_reset>>

(***************************************************************************)
(* Nothing is pending: NoRequestRx leaves the descriptor and ends the      *)
(* loop, which only EVENT_IDX starts again.                                *)
(***************************************************************************)
RxNothing ==
  /\ PopKey
  /\ present
  /\ rx_queue = {}
  /\ pc' = IF EventIdx THEN "rx" ELSE "idle"
  /\ UNCHANGED <<present, connect, rx_queue, last_fwd_cnt, rx_cnt, interest, rxring, h_in, h_reset>>

RxReset ==
  /\ PopKey
  /\ present
  /\ "Reset" \in rx_queue
  /\ Peek = "Reset"
  /\ present' = FALSE
  /\ interest' = "none"
  /\ rxring' = Append(rxring, DevicePacket("RST", 0, 0))
  /\ UNCHANGED <<pc, connect, rx_queue, last_fwd_cnt, rx_cnt, h_in, h_reset>>

RxRequest ==
  /\ Dequeue("Request")
  /\ Fill("REQUEST", 0)
  /\ UNCHANGED <<present, connect, last_fwd_cnt, rx_cnt, interest, h_in, h_reset>>

BugRxResponseNotConnected ==
  /\ Dequeue("Response")
  /\ Fill("RESPONSE", 0)
  /\ UNCHANGED <<present, connect, last_fwd_cnt, rx_cnt, interest, h_in, h_reset>>

RxResponse ==
  /\ Dequeue("Response")
  /\ connect' = TRUE
  /\ Fill("RESPONSE", 0)
  /\ UNCHANGED <<present, last_fwd_cnt, rx_cnt, interest, h_in, h_reset>>

Advertised == last_fwd_cnt' = fwd_cnt

\* A credit update is a packet of its own only when nothing else is pending.
RxCreditUpdate ==
  /\ Dequeue("CreditUpdate")
  /\ IF rx_queue' = {}
     THEN Advertised /\ Fill("CREDIT_UPDATE", 0)
     ELSE UNCHANGED last_fwd_cnt /\ Fill("INVALID", 0)
  /\ UNCHANGED <<present, connect, rx_cnt, interest, h_in, h_reset>>

\* peer_avail_credit()
PeerAvailCredit == Minus(peer_buf_alloc, Minus(rx_cnt, peer_fwd_cnt))

\* Something is to be read but the connection is not established.
RxNotConnected ==
  /\ Dequeue("Rw")
  /\ ~connect
  /\ Fill("RST", 0)
  /\ UNCHANGED <<present, connect, last_fwd_cnt, rx_cnt, interest, h_in, h_reset>>

RxNeedCredit ==
  /\ Dequeue("Rw")
  /\ connect
  /\ PeerAvailCredit = 0
  /\ Advertised
  /\ Fill("CREDIT_REQUEST", 0)
  /\ UNCHANGED <<present, connect, rx_cnt, interest, h_in, h_reset>>

\* A read of the stream, within the peer's credit, puts it back in the epoll.
BugRxReadNoCreditCheck(len) ==
  /\ Dequeue("Rw")
  /\ connect
  /\ PeerAvailCredit > 0
  /\ len \in Amounts(h_in)
  /\ h_in' = h_in - len
  /\ Fill("RW", len)
  /\ EpollRegister
  /\ rx_cnt' = Plus(rx_cnt, len)
  /\ Advertised
  /\ UNCHANGED <<present, connect, h_reset>>

RxRead(len) ==
  /\ Dequeue("Rw")
  /\ connect
  /\ len \in Amounts(h_in)
  /\ len <= PeerAvailCredit
  /\ h_in' = h_in - len
  /\ Fill("RW", len)
  /\ EpollRegister
  /\ rx_cnt' = Plus(rx_cnt, len)
  /\ Advertised
  /\ UNCHANGED <<present, connect, h_reset>>

BugRxEndOfFileUntold ==
  /\ Dequeue("Rw")
  /\ connect
  /\ PeerAvailCredit > 0
  /\ h_in = 0 /\ h_closed /\ ~h_reset
  /\ Fill("INVALID", 0)
  /\ Advertised
  /\ UNCHANGED <<present, connect, rx_cnt, interest, h_in, h_reset>>

\* End of file: the guest is told, the stream stays out of the epoll.
RxEndOfFile ==
  /\ Dequeue("Rw")
  /\ connect
  /\ PeerAvailCredit > 0
  /\ h_in = 0 /\ h_closed /\ ~h_reset
  /\ Fill("SHUTDOWN", 0)
  /\ Advertised
  /\ UNCHANGED <<present, connect, rx_cnt, interest, h_in, h_reset>>

\* The read fails (the kernel reports the reset once): a header without an
\* operation goes out and the stream stays out of the epoll.
RxReadFails ==
  /\ Dequeue("Rw")
  /\ connect
  /\ PeerAvailCredit > 0
  /\ h_in = 0 /\ (h_closed => h_reset)
  /\ h_reset' = FALSE
  /\ Fill("INVALID", 0)
  /\ UNCHANGED <<present, connect, last_fwd_cnt, rx_cnt, interest, h_in>>

DeviceTx ==
  \/ TxDone \/ TxUnknown \/ TxResponse \/ TxRw \/ TxCreditUpdate
  \/ TxCreditRequest \/ TxShutdown \/ TxRst

DeviceRx ==
  \/ RxDone \/ RxUnknown \/ RxNothing \/ RxReset \/ RxRequest \/ RxResponse
  \/ RxCreditUpdate \/ RxNotConnected \/ RxNeedCredit \/ RxEndOfFile \/ RxReadFails
  \/ \E len \in 1 .. SockCap : RxRead(len)

Device == WakeTx \/ WakeRx \/ FlushTxBuf \/ EnqueueRead \/ DeviceTx \/ DeviceRx

-----------------------------------------------------------------------------
(***************************************************************************)
(* The guest driver (external): it obeys the credit it was given, answers  *)
(* a credit request and a shutdown, resets what it does not know, and      *)
(* gives up on a close after a timeout.                                    *)
(***************************************************************************)
GuestPacket(op, len, size, fwd) ==
  [op |-> op, len |-> len, off |-> g_tx_cnt, buf_alloc |-> size, fwd_cnt |-> fwd]

\* A packet with the operation is under way.
ToGuestSoon(op)  == \E i \in 1 .. Len(rxring) : rxring[i].op = op
ToDeviceSoon(op) == \E i \in 1 .. Len(txring) : txring[i].op = op

Transmit(pkt) == Len(txring) < TxCap /\ txring' = Append(txring, pkt)

\* A packet with no data and the credit of the moment.
Tell(op) == Transmit(GuestPacket(op, 0, g_buf_alloc, g_fwd_cnt))

GuestCredit == TxBufSize - Minus(g_tx_cnt, g_peer_fwd_cnt)

GuestSend(n) ==
  /\ g_state = "established"
  /\ n <= GuestCredit
  /\ Transmit(GuestPacket("RW", n, g_buf_alloc, g_fwd_cnt))
  /\ g_tx_cnt' = Plus(g_tx_cnt, n)
  /\ UNCHANGED <<connVars, pc, rxring, rxkick, hostVars,
                 g_state, g_peer_fwd_cnt, g_buf_alloc, g_fwd_cnt, g_unread>>

\* The application reads; the driver may tell the device about it.
GuestRead ==
  /\ g_unread > 0
  /\ g_unread' = 0
  /\ g_fwd_cnt' = Plus(g_fwd_cnt, g_unread)
  /\ \/ /\ g_state \in {"established", "closing"}
        /\ Transmit(GuestPacket("CREDIT_UPDATE", 0, g_buf_alloc, g_fwd_cnt'))
     \/ UNCHANGED txring
  /\ UNCHANGED <<connVars, pc, rxring, rxkick, hostVars,
                 g_state, g_tx_cnt, g_peer_fwd_cnt, g_buf_alloc>>

\* The application changes the size of its receive buffer.
GuestResize(size) ==
  /\ g_state = "established"
  /\ IF MayShrink THEN size # g_buf_alloc ELSE size > g_buf_alloc
  /\ g_buf_alloc' = size
  /\ Transmit(GuestPacket("CREDIT_UPDATE", 0, size, g_fwd_cnt))
  /\ UNCHANGED <<connVars, pc, rxring, rxkick, hostVars,
                 g_state, g_tx_cnt, g_peer_fwd_cnt, g_fwd_cnt, g_unread>>

GuestClose ==
  /\ GuestCloses
  /\ g_state = "established"
  /\ Tell("SHUTDOWN")
  /\ g_state' = "closing"
  /\ UNCHANGED <<connVars, pc, rxring, rxkick, hostVars,
                 g_tx_cnt, g_peer_fwd_cnt, g_buf_alloc, g_fwd_cnt, g_unread>>

\* A driver that has no credit left may ask for some.
GuestAskCredit ==
  /\ GuestAsks
  /\ g_state = "established"
  /\ GuestCredit = 0
  /\ ~ToDeviceSoon("CREDIT_REQUEST")
  /\ Tell("CREDIT_REQUEST")
  /\ UNCHANGED <<connVars, pc, rxring, rxkick, hostVars, guestVars>>

GuestTimeout ==
  /\ g_state = "closing"
  /\ Tell("RST")
  /\ g_state' = "closed"
  /\ UNCHANGED <<connVars, pc, rxring, rxkick, hostVars,
                 g_tx_cnt, g_peer_fwd_cnt, g_buf_alloc, g_fwd_cnt, g_unread>>

\* What the driver answers to a packet and the state the socket is in then.
Foreign(pkt) == pkt.op \in {"OTHER", "UNSET"}

Accepts(pkt) ==
  \/ g_state = "listening" /\ pkt.op = "REQUEST"
  \/ g_state = "connecting" /\ pkt.op = "RESPONSE"

Refuses(pkt) ==
  \/ g_state \in {"listening", "closed"}
  \/ g_state = "connecting" /\ pkt.op # "INVALID"
  \/ g_state = "established" /\ pkt.op = "SHUTDOWN" /\ g_unread = 0

NextState(pkt) ==
  IF Foreign(pkt) THEN g_state
  ELSE IF pkt.op = "RST" THEN "closed"
  ELSE IF Accepts(pkt) THEN "established"
  ELSE IF Refuses(pkt) THEN "closed"
  ELSE g_state

Reply(pkt) ==
  IF Foreign(pkt) \/ pkt.op = "RST" THEN "none"
  ELSE IF Accepts(pkt) THEN (IF g_state = "listening" THEN "RESPONSE" ELSE "none")
  ELSE IF Refuses(pkt) THEN "RST"
  ELSE IF pkt.op = "CREDIT_REQUEST" THEN "CREDIT_UPDATE"
  ELSE "none"

\* A packet of the device is taken; its descriptor goes back to the device.
\* Data that does not fit in the socket's buffer is dropped.
GuestReceive ==
  LET pkt   == Head(rxring)
      valid == g_state # "closed" /\ ~Foreign(pkt) /\ pkt.op # "RST"
  IN  /\ rxring # <<>>
      /\ rxring' = Tail(rxring)
      /\ rxkick' = TRUE
      /\ g_peer_fwd_cnt' = IF valid THEN pkt.fwd_cnt ELSE g_peer_fwd_cnt
      /\ g_unread' = IF g_state = "established" /\ pkt.op = "RW"
                          /\ g_unread + pkt.len <= g_buf_alloc
                     THEN g_unread + pkt.len ELSE g_unread
      /\ g_state' = NextState(pkt)
      /\ UNCHANGED <<connVars, pc, hostVars, g_tx_cnt, g_buf_alloc, g_fwd_cnt>>
      /\ IF Reply(pkt) = "none" THEN UNCHANGED txring ELSE Tell(Reply(pkt))

Guest ==
  \/ \E n \in GuestChunks : GuestSend(n)
  \/ \E size \in GuestBufSizes : GuestResize(size)
  \/ GuestRead \/ GuestClose \/ GuestAskCredit \/ GuestTimeout \/ GuestReceive

-----------------------------------------------------------------------------
(***************************************************************************)
(* The host application (external).  It writes once it has its connection. *)
(***************************************************************************)
HostWrite(n) ==
  /\ h_told /\ ~h_closed
  /\ h_in + n <= SockCap
  /\ h_in' = h_in + n
  /\ UNCHANGED <<connVars, pc, txring, rxring, rxkick, guestVars,
                 h_out, h_told, h_closed, h_reset>>

HostRead(n) ==
  /\ ~h_closed
  /\ h_out' = h_out - n
  /\ UNCHANGED <<connVars, pc, txring, rxring, rxkick, guestVars,
                 h_in, h_told, h_closed, h_reset>>

\* Before it is told OK, with bytes it has not read, or without.
HostMayClose ==
  IF ~h_told THEN "early" \in HostCloses
  ELSE IF h_out > 0 THEN "unread" \in HostCloses
  ELSE "drained" \in HostCloses

HostClose ==
  /\ ~h_closed
  /\ HostMayClose
  /\ h_closed' = TRUE
  /\ h_reset' = (h_out > 0)
  /\ h_out' = 0
  /\ UNCHANGED <<connVars, pc, txring, rxring, rxkick, guestVars, h_in, h_told>>

Host ==
  \/ \E n \in HostChunks : HostWrite(n)
  \/ \E n \in 1 .. h_out : HostRead(n)
  \/ HostClose

Next == Device \/ Guest \/ Host

Spec == Init /\ [][Next]_vars

-----------------------------------------------------------------------------
(***************************************************************************)
(* Fairness.  The event loop takes every ready event in turn, whatever     *)
(* other events are ready; the driver's workers run and its send queue is  *)
(* first in, first out; the applications go on reading, as the kernels     *)
(* schedule them.  Nothing makes an application write or close.            *)
(***************************************************************************)
Fairness ==
  /\ WF_vars(DeviceTx) /\ WF_vars(DeviceRx)
  /\ SF_vars(WakeTx) /\ SF_vars(WakeRx) /\ SF_vars(FlushTxBuf \/ EnqueueRead)
  /\ SF_vars(GuestReceive) /\ WF_vars(GuestRead) /\ SF_vars(GuestTimeout)
  /\ WF_vars(\E n \in 1 .. h_out : HostRead(n))

FairSpec == Spec /\ Fairness

-----------------------------------------------------------------------------
(***************************************************************************)
(* The guest's stream from the host's end: what is in the tx buffer comes  *)
(* right after what was forwarded, the packets in the ring follow without  *)
(* a gap, and the last of them ends where the guest has got to.            *)
(***************************************************************************)
NextOff(i) == IF i <= Len(txring) THEN txring[i].off ELSE g_tx_cnt

Contiguous ==
  \A i \in 1 .. Len(txring) : NextOff(i + 1) = Plus(txring[i].off, txring[i].len)

NoByteLost ==
  present /\ ~h_closed => Contiguous /\ NextOff(1) = Plus(fwd_cnt, tx_len)

(***************************************************************************)
(* send_bytes() writes a packet to the stream directly only when all that  *)
(* came before it has been written.                                        *)
(***************************************************************************)
InOrder ==
  [][fwd_cnt' # fwd_cnt /\ txring' # txring => Head(txring).off = fwd_cnt]_vars

(***************************************************************************)
(* A guest that keeps to the credit it is given never has a packet refused *)
(* by the tx buffer: push() would drop it without a trace.                 *)
(***************************************************************************)
TxBufNeverFull ==
  present => \A i \in 1 .. Len(txring) :
    txring[i].op = "RW" => tx_len + txring[i].len <= TxBufSize

(***************************************************************************)
(* Why it holds.  Behind(x) is how far the count x is behind the guest's   *)
(* stream.  What the guest knows of fwd_cnt is at most a tx buffer behind, *)
(* every header on its way brings it closer, in order, and the connection  *)
(* is closest; the bytes that make up its distance are in the tx buffer    *)
(* and, in order, in the tx ring.                                          *)
(***************************************************************************)
Behind(x) == Minus(g_tx_cnt, x)

CarriesCredit(pkt) == pkt.op \notin {"OTHER", "UNSET", "RST"}

GuestKnowsCredit ==
  /\ Behind(g_peer_fwd_cnt) <= TxBufSize
  /\ Behind(fwd_cnt) <= Behind(g_peer_fwd_cnt)
  /\ \A i \in 1 .. Len(rxring) : CarriesCredit(rxring[i]) =>
       /\ Behind(fwd_cnt) <= Behind(rxring[i].fwd_cnt)
       /\ Behind(rxring[i].fwd_cnt) <= Behind(g_peer_fwd_cnt)
  /\ \A i, j \in 1 .. Len(rxring) :
       i < j /\ CarriesCredit(rxring[i]) /\ CarriesCredit(rxring[j]) =>
         Behind(rxring[j].fwd_cnt) <= Behind(rxring[i].fwd_cnt)

DataIsAccounted ==
  /\ tx_len <= Behind(fwd_cnt)
  /\ \A i \in 1 .. Len(txring) :
       /\ txring[i].len <= Behind(txring[i].off)
       /\ tx_len + Behind(txring[i].off) <= Behind(fwd_cnt)
  /\ \A i, j \in 1 .. Len(txring) :
       i < j => txring[i].len + Behind(txring[j].off) <= Behind(txring[i].off)

\* Credit is never given for bytes that could still need the tx buffer: what
\* send_bytes() counts as forwarded is all the guest may reuse.
CreditIsHonest == present => GuestKnowsCredit /\ DataIsAccounted

(***************************************************************************)
(* What the device has sent and the guest's application has not read fits  *)
(* in the buffer the guest advertises.                                     *)
(***************************************************************************)
GuestBufferNeverOverflows == Minus(rx_cnt, g_fwd_cnt) <= g_buf_alloc

(***************************************************************************)
(* peer_avail_credit() is "the max number of bytes we can send to peer     *)
(* without overflowing the peer's buffer": it cannot be more than that     *)
(* buffer.                                                                 *)
(***************************************************************************)
CreditWithinBuffer == PeerAvailCredit <= peer_buf_alloc

(***************************************************************************)
(* Every pending operation has an entry of backend_rxq that will bring it  *)
(* out: a connection is never left with work nobody will look at.          *)
(***************************************************************************)
KeyPerOp == present => Cardinality(rx_queue) <= keys

(***************************************************************************)
(* The guest was never told less than a tx buffer ago, so the free space   *)
(* that send_bytes() compares with its threshold does not underflow.       *)
(***************************************************************************)
FwdLagBounded == present => Minus(fwd_cnt, last_fwd_cnt) <= TxBufSize

(***************************************************************************)
(* What a connection keeps on the way from the guest to the host: the      *)
(* bytes, their order, a key for every operation and the lag of its last   *)
(* word to the guest.                                                      *)
(***************************************************************************)
TransmitKept == [](NoByteLost /\ KeyPerOp /\ FwdLagBounded) /\ InOrder

\* The counters stay in the range of a u32, the tx buffer within its size,
\* and the credit they stand for is honest.
CreditKept == TypeOK /\ CreditIsHonest

\* What a connection keeps on the way to the guest: its counters and the
\* limit of the guest's buffer, in the device's view and in the guest's.
ReceiveKept == TypeOK /\ GuestBufferNeverOverflows /\ CreditWithinBuffer

(***************************************************************************)
(* The stream of a connection is out of the epoll only while a read is     *)
(* pending, the guest is being asked for credit, or it is about to get a   *)
(* reset: otherwise what the host writes would never be noticed.           *)
(***************************************************************************)
ReadNotForgotten ==
  present /\ ~h_closed /\ interest = "none" /\ g_state # "closed" =>
    \/ "Rw" \in rx_queue
    \/ ToGuestSoon("CREDIT_REQUEST") \/ ToGuestSoon("RST")
    \/ ToDeviceSoon("CREDIT_UPDATE")

(***************************************************************************)
(* recv_pkt() resets a connection that it keeps only before the connection *)
(* is answered: the reset overtakes the answer, as Rw goes before Response *)
(* among the pending operations, and never comes after it while the        *)
(* application is there.                                                   *)
(***************************************************************************)
NoResetOnceAnswered ==
  present =>
    \A i \in 1 .. Len(rxring) : rxring[i].op = "RST" =>
      \/ h_closed \/ "Response" \in rx_queue
      \/ \E j \in i + 1 .. Len(rxring) : rxring[j].op = "RESPONSE"

(***************************************************************************)
(* recv_pkt() sends that reset because "There is no host-side application  *)
(* listening for this packet".                                             *)
(***************************************************************************)
ResetMeansNoListener == present /\ ToGuestSoon("RST") => h_closed

\* RESPONSE is written to the stream with unwrap(): the thread survives it.
NoPanic == pc # "panic"

(***************************************************************************)
(* recv_pkt() returns Ok "if the packet was successfully filled in": no    *)
(* descriptor goes back to the guest without a header.                     *)
(***************************************************************************)
EveryPacketIsFilled == ~ToGuestSoon("UNSET")

-----------------------------------------------------------------------------
\* A guest that has used up its credit gets some back while the host reads.
CreditReturns ==
  (g_state = "established" /\ GuestCredit = 0) ~>
    (g_state # "established" \/ GuestCredit > 0 \/ h_closed)

\* What the host writes is read as long as the guest takes it.
HostDataTaken ==
  (h_in = SockCap) ~> (h_in < SockCap \/ ~present \/ g_state = "closed")

\* The tx buffer is flushed while the host reads.
TxBufFlushed ==
  \A cnt \in Counter :
    (tx_len > 0 /\ fwd_cnt = cnt) ~> (fwd_cnt # cnt \/ h_closed \/ ~present)

\* "Send a shutdown packet to the guest-side application": it learns that
\* the host application has closed.
CloseReachesGuest == h_closed ~> (g_state = "closed" \/ ToGuestSoon("SHUTDOWN"))

\* A connection that the guest closes is removed.
GuestCloseRemoves == (g_state = "closing") ~> ~present

=============================================================================
