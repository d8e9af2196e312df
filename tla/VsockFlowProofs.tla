---------------------------- MODULE VsockFlowProofs ----------------------------
(***************************************************************************)
(* Theorems about VsockFlow, for every size of the counters, the buffers,  *)
(* the rings and the packets.                                              *)
(***************************************************************************)
EXTENDS VsockFlow, FiniteSetTheorems, SequenceTheorems, TLAPS

-----------------------------------------------------------------------------
\* Sequences used as first-in first-out channels.

LEMMA AppendFacts ==
  ASSUME NEW S, NEW s \in Seq(S), NEW e \in S
  PROVE  /\ Append(s, e) \in Seq(S)
         /\ Len(Append(s, e)) = Len(s) + 1
         /\ \A i \in 1 .. Len(s) : Append(s, e)[i] = s[i]
         /\ Append(s, e)[Len(s) + 1] = e
  OBVIOUS

LEMMA TailFacts ==
  ASSUME NEW S, NEW s \in Seq(S), s # <<>>
  PROVE  /\ Head(s) \in S
         /\ Head(s) = s[1]
         /\ Tail(s) \in Seq(S)
         /\ Len(s) \in Nat \ {0}
         /\ Len(Tail(s)) = Len(s) - 1
         /\ \A i \in 1 .. Len(s) - 1 : Tail(s)[i] = s[i + 1]
  OBVIOUS

-----------------------------------------------------------------------------
\* Type correctness.

LEMMA CounterType ==
  ASSUME NEW a \in Counter, NEW b \in Counter
  PROVE  Plus(a, b) \in Counter /\ Minus(a, b) \in Counter
  BY FlowAssumption DEF Counter, Plus, Minus

LEMMA PacketTypes ==
  ASSUME TypeOK
  PROVE  /\ \A op \in GuestOps, len, fwd \in Counter, size \in Counter :
              GuestPacket(op, len, size, fwd) \in GuestPackets
         /\ \A op \in DeviceOps, len, fwd \in Counter :
              DevicePacket(op, len, fwd) \in DevicePackets
         /\ 0 \in Counter
  BY FlowAssumption DEF TypeOK, GuestPacket, GuestPackets, DevicePacket, DevicePackets, Counter

LEMMA TypeInit == Init => TypeOK
<1> SUFFICES ASSUME NEW fromGuest \in GuestInitiated, NEW size \in GuestBufSizes,
                    NEW busy \in RxBusy,
                    Init,
                    rx_queue = IF fromGuest THEN {"Response"} ELSE {"Request"},
                    peer_buf_alloc = IF fromGuest THEN size ELSE 0,
                    rxring = [i \in 1 .. busy |-> DevicePacket("OTHER", 0, 0)],
                    g_state = IF fromGuest THEN "connecting" ELSE "listening",
                    g_buf_alloc = size,
                    h_told = fromGuest
             PROVE  TypeOK
  BY DEF Init
<1>1. 0 \in Counter /\ DevicePacket("OTHER", 0, 0) \in DevicePackets
  BY FlowAssumption DEF Counter, DevicePacket, DevicePackets, DeviceOps
<1>2. rxring \in Seq(DevicePackets)
  BY <1>1, FlowAssumption
<1>3. g_buf_alloc \in Counter /\ peer_buf_alloc \in Counter /\ h_told \in BOOLEAN
  BY <1>1, FlowAssumption DEF Counter
<1>4. rx_queue \subseteq RxOps
  BY DEF RxOps
<1>5. /\ txring \in Seq(GuestPackets)
      /\ keys \in 0 .. MaxKeys /\ tx_len \in 0 .. TxBufSize
      /\ h_in \in 0 .. SockCap /\ h_out \in 0 .. SockCap
  BY FlowAssumption DEF Init
<1> QED
  BY <1>1, <1>2, <1>3, <1>4, <1>5 DEF Init, TypeOK

\* What the driver answers is an operation of its own and a state it knows.
LEMMA AnswerType ==
  ASSUME TypeOK, NEW pkt \in DevicePackets
  PROVE  /\ Reply(pkt) # "none" => Reply(pkt) \in GuestOps
         /\ NextState(pkt) \in {"listening", "connecting", "established", "closing", "closed"}
  BY DEF TypeOK, Reply, NextState, GuestOps

\* Facts about the pieces that the actions of the device share.
LEMMA KeyType ==
  ASSUME TypeOK, PushKey \/ UNCHANGED keys
  PROVE  keys' \in 0 .. MaxKeys
  BY FlowAssumption DEF TypeOK, PushKey

LEMMA InterestType ==
  ASSUME TypeOK, NEW events \in {"in", "inout"},
         EpollModify(events) \/ EpollRegister \/ UNCHANGED interest
  PROVE  interest' \in {"none", "in", "inout"}
  BY DEF TypeOK, EpollModify, EpollRegister

LEMMA TxBufType ==
  ASSUME TypeOK, NEW n \in Nat, PushTxBuf(n) \/ UNCHANGED tx_len
  PROVE  tx_len' \in 0 .. TxBufSize
  BY FlowAssumption DEF TypeOK, PushTxBuf

LEMMA PlusType ==
  ASSUME NEW a \in Counter, NEW n \in Nat, n < Wrap
  PROVE  Plus(a, n) \in Counter
  BY FlowAssumption DEF Counter, Plus

LEMMA TypeDevice == TypeOK /\ Device => TypeOK'
<1> SUFFICES ASSUME TypeOK PROVE Device => TypeOK'
  OBVIOUS
<1>0. txring # <<>> => Tail(txring) \in Seq(GuestPackets) /\ Head(txring) \in GuestPackets
  BY DEF TypeOK
<1>1. CASE WakeTx \/ WakeRx
  BY <1>1 DEF WakeTx, WakeRx, TypeOK, connVars, credit, guestVars, hostVars
<1>2. CASE FlushTxBuf
  <2>1. keys' \in 0 .. MaxKeys
    BY <1>2, KeyType DEF FlushTxBuf
  <2>2. ASSUME NEW cnt \in Amounts(tx_len), cnt <= SockCap - h_out,
               tx_len' = tx_len - cnt, h_out' = h_out + cnt,
               fwd_cnt' = Plus(fwd_cnt, cnt), rx_queue' = rx_queue \cup {"CreditUpdate"},
               UNCHANGED interest
        PROVE  TypeOK'
    <3>1. cnt \in Nat /\ cnt < Wrap
      BY <2>2, FlowAssumption DEF Amounts, TypeOK
    <3>2. fwd_cnt' \in Counter
      BY <2>2, <3>1, PlusType DEF TypeOK
    <3>3. tx_len' \in 0 .. TxBufSize /\ h_out' \in 0 .. SockCap
      BY <2>2, FlowAssumption DEF Amounts, TypeOK
    <3> QED
      BY <1>2, <2>1, <2>2, <3>2, <3>3 DEF FlushTxBuf, TypeOK, RxOps, guestVars
  <2>3. ASSUME EpollModify("in"), UNCHANGED <<tx_len, h_out, fwd_cnt, rx_queue>>
        PROVE  TypeOK'
    <3>1. interest' \in {"none", "in", "inout"}
      BY <2>3, InterestType
    <3> QED
      BY <1>2, <2>1, <2>3, <3>1 DEF FlushTxBuf, TypeOK, guestVars
  <2> QED
    BY <1>2, <2>2, <2>3 DEF FlushTxBuf
<1>3. CASE EnqueueRead
  BY <1>3, FlowAssumption
  DEF EnqueueRead, TypeOK, guestVars, hostVars, credit, PushKey, RxOps
<1>4. CASE TxDone
  BY <1>0, <1>4 DEF TxDone, TypeOK, connVars, credit, guestVars, hostVars
<1>5. CASE TxUnknown
  BY <1>0, <1>5 DEF TxUnknown, TypeOK, connVars, credit, guestVars, hostVars
<1>6. ASSUME NEW op, Forward(op),
             connect' \in BOOLEAN, rx_queue' \subseteq RxOps, fwd_cnt' \in Counter,
             tx_len' \in 0 .. TxBufSize, interest' \in {"none", "in", "inout"},
             keys' \in 0 .. MaxKeys, pc' \in {"idle", "tx", "rx", "panic"},
             h_out' \in 0 .. SockCap, h_told' \in BOOLEAN
      PROVE  TypeOK'
  BY <1>0, <1>6 DEF Forward, TakePacket, TypeOK, guestVars, GuestPackets
<1>7. CASE TxResponse
  <2>1. keys' \in 0 .. MaxKeys
    BY <1>7, KeyType DEF TxResponse, PushKeyIfPending
  <2> QED
    BY <1>6, <1>7, <2>1 DEF TxResponse, TypeOK
<1>8. CASE TxRw
  <2>1. keys' \in 0 .. MaxKeys
    BY <1>8, KeyType DEF TxRw, PushKeyIfPending
  <2>2. Head(txring).len \in Nat /\ Head(txring).len < Wrap
    BY <1>0, <1>8, FlowAssumption, SMTT(30) DEF TxRw, Forward, TakePacket, GuestPackets, Counter
  <2>3. ASSUME fwd_cnt' \in Counter, rx_queue' \subseteq RxOps, tx_len' \in 0 .. TxBufSize,
               interest' \in {"none", "in", "inout"}, h_out' \in 0 .. SockCap
        PROVE  TypeOK'
    BY <1>6, <1>8, <2>1, <2>3 DEF TxRw, TypeOK
  <2>4. CASE SendBehind
    <3>1. tx_len' \in 0 .. TxBufSize
      BY <2>2, <2>4, TxBufType DEF SendBehind
    <3> QED
      BY <2>3, <2>4, <3>1 DEF SendBehind, TypeOK
  <2>5. CASE SendFails
    BY <2>3, <2>5 DEF SendFails, TypeOK
  <2>6. ASSUME NEW written \in 0 .. SockCap, SendDirect(written) PROVE TypeOK'
    <3>1. written \in Nat /\ written <= Head(txring).len
      BY <2>2, <2>6 DEF SendDirect
    <3>2. fwd_cnt' \in Counter
      BY <2>2, <2>6, <3>1, PlusType, FlowAssumption DEF SendDirect, TypeOK
    <3>3. h_out' \in 0 .. SockCap
      BY <2>6, FlowAssumption DEF SendDirect, TypeOK
    <3>4. rx_queue' \subseteq RxOps
      BY <2>6 DEF SendDirect, TypeOK, RxOps
    <3>5. Head(txring).len - written \in Nat
      BY <2>2, <3>1
    <3>6. tx_len' \in 0 .. TxBufSize /\ interest' \in {"none", "in", "inout"}
      BY <2>6, <3>5, TxBufType, InterestType DEF SendDirect, KeepRest
    <3> QED
      BY <2>3, <3>2, <3>3, <3>4, <3>6
  <2> QED
    BY <1>8, <2>4, <2>5, <2>6 DEF TxRw
<1>9. CASE TxCreditUpdate
  <2>1. keys' \in 0 .. MaxKeys
    BY <1>9, KeyType DEF TxCreditUpdate, PushKeyIfPending
  <2>2. interest' \in {"none", "in", "inout"}
    BY <1>9 DEF TxCreditUpdate, RegisterOnCredit, EpollRegister
  <2> QED
    BY <1>6, <1>9, <2>1, <2>2 DEF TxCreditUpdate, TypeOK
<1>10. CASE TxCreditRequest \/ TxShutdown
  <2>1. keys' \in 0 .. MaxKeys
    BY <1>10, KeyType DEF TxCreditRequest, TxShutdown, PushKeyIfPending
  <2>2. rx_queue' \subseteq RxOps
    BY <1>10 DEF TxCreditRequest, TxShutdown, TypeOK, RxOps
  <2> QED
    BY <1>6, <1>10, <2>1, <2>2 DEF TxCreditRequest, TxShutdown, TypeOK
<1>11. CASE TxRst
  BY <1>0, <1>11 DEF TxRst, TakePacket, Remove, TypeOK, credit, guestVars, hostVars
<1>12. CASE RxDone
  BY <1>12 DEF RxDone, TypeOK, connVars, credit, guestVars, hostVars
<1>13. ASSUME PopKey, rxring' \in Seq(DevicePackets), present' \in BOOLEAN, connect' \in BOOLEAN,
              rx_queue' \subseteq RxOps, last_fwd_cnt' \in Counter, rx_cnt' \in Counter,
              interest' \in {"none", "in", "inout"}, pc' \in {"idle", "tx", "rx", "panic"},
              h_in' \in 0 .. SockCap, h_reset' \in BOOLEAN
       PROVE  TypeOK'
  <2>1. keys' \in 0 .. MaxKeys
    BY <1>13, FlowAssumption DEF PopKey, TypeOK
  <2> QED
    BY <1>13, <2>1 DEF PopKey, TypeOK, guestVars
<1>14. ASSUME NEW op \in DeviceOps, NEW len \in Counter, Fill(op, len)
       PROVE  rxring' \in Seq(DevicePackets)
  BY <1>14, PacketTypes, AppendFacts DEF Fill, TypeOK
<1>15. DeviceOps = {"REQUEST", "RESPONSE", "RW", "CREDIT_UPDATE", "CREDIT_REQUEST",
                    "SHUTDOWN", "RST", "INVALID", "UNSET", "OTHER"} /\ 0 \in Counter
  BY PacketTypes DEF DeviceOps
<1>16. CASE RxUnknown
  <2>1. rxring' \in Seq(DevicePackets)
    BY <1>15, <1>16, PacketTypes, AppendFacts DEF RxUnknown, TypeOK
  <2> QED
    BY <1>13, <1>16, <2>1 DEF RxUnknown, TypeOK
<1>17. CASE RxNothing
  BY <1>13, <1>17 DEF RxNothing, TypeOK
<1>18. CASE RxReset
  <2>1. rxring' \in Seq(DevicePackets)
    BY <1>15, <1>18, PacketTypes, AppendFacts DEF RxReset, TypeOK
  <2> QED
    BY <1>13, <1>18, <2>1 DEF RxReset, TypeOK
<1>19. ASSUME NEW next, Dequeue(next), NEW op \in DeviceOps, NEW len \in Counter, Fill(op, len),
              present' = present, connect' \in BOOLEAN, last_fwd_cnt' \in Counter,
              rx_cnt' \in Counter, interest' \in {"none", "in", "inout"},
              h_in' \in 0 .. SockCap, h_reset' \in BOOLEAN
       PROVE  TypeOK'
  <2>1. rxring' \in Seq(DevicePackets) /\ pc' = pc
    BY <1>14, <1>19 DEF Fill
  <2> QED
    BY <1>13, <1>19, <2>1 DEF Dequeue, TypeOK
<1>20. CASE RxRequest
  BY <1>15, <1>19, <1>20 DEF RxRequest, TypeOK
<1>21. CASE RxResponse
  BY <1>15, <1>19, <1>21 DEF RxResponse, TypeOK
<1>22. CASE RxCreditUpdate
  BY <1>15, <1>19, <1>22 DEF RxCreditUpdate, Advertised, TypeOK
<1>23. CASE RxNotConnected
  BY <1>15, <1>19, <1>23 DEF RxNotConnected, TypeOK
<1>24. CASE RxNeedCredit
  BY <1>15, <1>19, <1>24 DEF RxNeedCredit, Advertised, TypeOK
<1>25. CASE RxEndOfFile
  BY <1>15, <1>19, <1>25 DEF RxEndOfFile, Advertised, TypeOK
<1>26. CASE RxReadFails
  BY <1>15, <1>19, <1>26 DEF RxReadFails, TypeOK
<1>27. ASSUME NEW len \in 1 .. SockCap, RxRead(len) PROVE TypeOK'
  <2>1. PeerAvailCredit \in Counter
    BY CounterType DEF PeerAvailCredit, TypeOK
  <2>2. len \in Counter /\ len < Wrap /\ h_in' \in 0 .. SockCap
    BY <1>27, <2>1, FlowAssumption DEF RxRead, Counter, Amounts, TypeOK
  <2>3. rx_cnt' \in Counter
    BY <1>27, <2>2, PlusType DEF RxRead, TypeOK
  <2>4. Dequeue("Rw") /\ Fill("RW", len) /\ UNCHANGED <<present, connect, h_reset>>
        /\ last_fwd_cnt' \in Counter /\ interest' \in {"none", "in", "inout"}
    BY <1>27 DEF RxRead, Advertised, EpollRegister, TypeOK
  <2> QED
    BY <1>15, <1>19, <2>2, <2>3, <2>4 DEF TypeOK
<1> QED
  BY <1>1, <1>2, <1>3, <1>4, <1>5, <1>7, <1>8, <1>9, <1>10, <1>11, <1>12, <1>16, <1>17, <1>18,
     <1>20, <1>21, <1>22, <1>23, <1>24, <1>25, <1>26, <1>27
  DEF Device, DeviceTx, DeviceRx

LEMMA TransmitType ==
  ASSUME TypeOK, NEW pkt \in GuestPackets, Transmit(pkt) \/ UNCHANGED txring
  PROVE  txring' \in Seq(GuestPackets)
  BY AppendFacts, SMTT(30) DEF TypeOK, Transmit

LEMMA TellType ==
  ASSUME TypeOK, NEW op \in GuestOps, Tell(op)
  PROVE  txring' \in Seq(GuestPackets)
<1>1. GuestPacket(op, 0, g_buf_alloc, g_fwd_cnt) \in GuestPackets
  BY PacketTypes DEF TypeOK
<1> QED
  BY <1>1, TransmitType DEF Tell

LEMMA TypeGuest == TypeOK /\ Guest => TypeOK'
<1> SUFFICES ASSUME TypeOK PROVE Guest => TypeOK'
  OBVIOUS
<1>0. GuestOps = {"RESPONSE", "RW", "CREDIT_UPDATE", "CREDIT_REQUEST", "SHUTDOWN", "RST"}
  BY DEF GuestOps
<1>1. ASSUME NEW n \in GuestChunks, GuestSend(n) PROVE TypeOK'
  <2>0. Minus(g_tx_cnt, g_peer_fwd_cnt) \in Nat
    BY CounterType DEF Counter, TypeOK
  <2>1. n \in Counter
    BY <1>1, <2>0, FlowAssumption DEF GuestSend, GuestCredit, Counter
  <2>2. g_tx_cnt' \in Counter
    BY <1>1, <2>1, PlusType, FlowAssumption DEF GuestSend, TypeOK, Counter
  <2>3. GuestPacket("RW", n, g_buf_alloc, g_fwd_cnt) \in GuestPackets
    BY <1>0, <2>1, PacketTypes DEF TypeOK
  <2>4. txring' \in Seq(GuestPackets)
    BY <1>1, <2>3, TransmitType DEF GuestSend
  <2> QED
    BY <1>1, <2>2, <2>4 DEF GuestSend, TypeOK, connVars, credit, hostVars
<1>2. ASSUME NEW size \in GuestBufSizes, GuestResize(size) PROVE TypeOK'
  <2>1. size \in Counter
    BY FlowAssumption DEF Counter
  <2>2. GuestPacket("CREDIT_UPDATE", 0, size, g_fwd_cnt) \in GuestPackets
    BY <1>0, <2>1, PacketTypes DEF TypeOK
  <2>3. txring' \in Seq(GuestPackets)
    BY <1>2, <2>2, TransmitType DEF GuestResize
  <2> QED
    BY <1>2, <2>1, <2>3 DEF GuestResize, TypeOK, connVars, credit, hostVars
<1>3. CASE GuestRead
  <2>1. g_fwd_cnt' \in Counter /\ 0 \in Counter
    BY <1>3, CounterType, PacketTypes DEF GuestRead, TypeOK
  <2>2. GuestPacket("CREDIT_UPDATE", 0, g_buf_alloc, g_fwd_cnt') \in GuestPackets
    BY <1>0, <2>1, PacketTypes DEF TypeOK
  <2>3. txring' \in Seq(GuestPackets)
    BY <1>3, <2>2, TransmitType DEF GuestRead
  <2> QED
    BY <1>3, <2>1, <2>3 DEF GuestRead, TypeOK, connVars, credit, hostVars
<1>4. CASE GuestClose \/ GuestAskCredit \/ GuestTimeout
  <2>1. txring' \in Seq(GuestPackets)
    BY <1>0, <1>4, TellType DEF GuestClose, GuestAskCredit, GuestTimeout
  <2> QED
    BY <1>4, <2>1 DEF GuestClose, GuestAskCredit, GuestTimeout, TypeOK, connVars, credit, hostVars,
         guestVars
<1>5. CASE GuestReceive
  <2> DEFINE pkt == Head(rxring)
  <2>1. pkt \in DevicePackets /\ rxring' \in Seq(DevicePackets)
    BY <1>5, TailFacts DEF GuestReceive, TypeOK
  <2>2. pkt.len \in Counter /\ pkt.fwd_cnt \in Counter
    BY <2>1 DEF DevicePackets
  <2>3. txring' \in Seq(GuestPackets)
    BY <1>5, <2>1, AnswerType, TellType DEF GuestReceive, TypeOK
  <2>4. g_state' \in {"listening", "connecting", "established", "closing", "closed"}
    BY <1>5, <2>1, AnswerType DEF GuestReceive
  <2>5. g_peer_fwd_cnt' \in Counter
    BY <1>5, <2>2 DEF GuestReceive, TypeOK
  <2>6. g_unread' \in Counter
    BY <1>5, <2>2, FlowAssumption DEF GuestReceive, TypeOK, Counter
  <2> QED
    BY <1>5, <2>1, <2>3, <2>4, <2>5, <2>6
    DEF GuestReceive, TypeOK, connVars, credit, hostVars
<1> QED
  BY <1>1, <1>2, <1>3, <1>4, <1>5 DEF Guest

LEMMA TypeHost == TypeOK /\ Host => TypeOK'
<1> SUFFICES ASSUME TypeOK PROVE Host => TypeOK'
  OBVIOUS
<1>1. ASSUME NEW n \in HostChunks, HostWrite(n) PROVE TypeOK'
  BY <1>1, FlowAssumption DEF HostWrite, TypeOK, connVars, credit, guestVars
<1>2. ASSUME NEW n \in 1 .. h_out, HostRead(n) PROVE TypeOK'
  BY <1>2, FlowAssumption DEF HostRead, TypeOK, connVars, credit, guestVars
<1>3. CASE HostClose
  BY <1>3, FlowAssumption DEF HostClose, TypeOK, connVars, credit, guestVars
<1> QED
  BY <1>1, <1>2, <1>3 DEF Host

(***************************************************************************)
(* Type correctness: in particular the counters of the connection and of   *)
(* the guest stay within their width, and the tx buffer within its size.   *)
(***************************************************************************)
THEOREM TypeCorrect == Spec => []TypeOK
<1>1. TypeOK /\ UNCHANGED vars => TypeOK'
  BY DEF TypeOK, vars, connVars, credit, guestVars, hostVars
<1>2. TypeOK /\ [Next]_vars => TypeOK'
  BY <1>1, TypeDevice, TypeGuest, TypeHost DEF Next
<1> QED
  BY <1>2, TypeInit, PTL DEF Spec

-----------------------------------------------------------------------------
(***************************************************************************)
(* Distances on the ring of counters, as long as they stay below Wrap.     *)
(***************************************************************************)
LEMMA DistanceType ==
  ASSUME NEW a \in Counter, NEW x \in Counter
  PROVE  Minus(a, x) \in Nat /\ Minus(a, x) < Wrap /\ Minus(a, a) = 0
  BY FlowAssumption DEF Counter, Minus

LEMMA DistanceGrows ==
  ASSUME NEW a \in Counter, NEW x \in Counter, NEW n \in Nat, Minus(a, x) + n < Wrap
  PROVE  Minus(Plus(a, n), x) = Minus(a, x) + n
  BY FlowAssumption DEF Counter, Minus, Plus

LEMMA DistanceShrinks ==
  ASSUME NEW a \in Counter, NEW x \in Counter, NEW n \in Nat, n <= Minus(a, x)
  PROVE  Minus(a, Plus(x, n)) = Minus(a, x) - n
  BY FlowAssumption DEF Counter, Minus, Plus

LEMMA FieldTypes ==
  ASSUME TypeOK
  PROVE  /\ Len(txring) \in Nat /\ Len(rxring) \in Nat
         /\ \A i \in 1 .. Len(txring) : txring[i] \in GuestPackets
                                        /\ txring[i].off \in Counter /\ txring[i].len \in Nat
         /\ \A i \in 1 .. Len(rxring) : rxring[i] \in DevicePackets
                                        /\ rxring[i].fwd_cnt \in Counter
         /\ \A x \in Counter : Behind(x) \in Nat
         /\ fwd_cnt \in Counter /\ g_peer_fwd_cnt \in Counter /\ g_tx_cnt \in Counter
         /\ tx_len \in Nat
<1>1. Len(txring) \in Nat /\ \A i \in 1 .. Len(txring) : txring[i] \in GuestPackets
  BY DEF TypeOK
<1>2. Len(rxring) \in Nat /\ \A i \in 1 .. Len(rxring) : rxring[i] \in DevicePackets
  BY DEF TypeOK
<1>3. \A pkt \in GuestPackets : pkt.off \in Counter /\ pkt.len \in Nat
  BY FlowAssumption DEF GuestPackets, Counter
<1>4. \A pkt \in DevicePackets : pkt.fwd_cnt \in Counter
  BY DEF DevicePackets
<1>5. \A x \in Counter : Behind(x) \in Nat
  BY DistanceType DEF Behind, TypeOK
<1> QED
  BY <1>1, <1>2, <1>3, <1>4, <1>5, FlowAssumption, SMTT(30) DEF TypeOK

-----------------------------------------------------------------------------
\* What each side does to the channels, and what it leaves of CreditIsHonest.

\* The device forwards w bytes: fwd_cnt gets closer to the guest's stream.
LEMMA ForwardKnown ==
  ASSUME TypeOK, GuestKnowsCredit, NEW w \in Nat, w <= Behind(fwd_cnt),
         fwd_cnt' = Plus(fwd_cnt, w), UNCHANGED <<g_tx_cnt, g_peer_fwd_cnt, rxring>>
  PROVE  GuestKnowsCredit' /\ Minus(g_tx_cnt, fwd_cnt') = Behind(fwd_cnt) - w
<1>1. Minus(g_tx_cnt, fwd_cnt') = Behind(fwd_cnt) - w
  BY FieldTypes, DistanceShrinks DEF Behind
<1>2. \A x \in Counter : Behind(x) \in Nat
  BY FieldTypes
<1>3. /\ Behind(fwd_cnt) \in Nat /\ Behind(g_peer_fwd_cnt) \in Nat
      /\ \A i \in 1 .. Len(rxring) : Behind(rxring[i].fwd_cnt) \in Nat
  BY <1>2, FieldTypes
<1>4. (Behind(fwd_cnt))' = Behind(fwd_cnt) - w
  BY <1>1 DEF Behind
<1>5. (Behind(fwd_cnt))' <= Behind(g_peer_fwd_cnt)
  BY <1>3, <1>4 DEF GuestKnowsCredit
<1>6. \A i \in 1 .. Len(rxring) :
        CarriesCredit(rxring[i]) => (Behind(fwd_cnt))' <= Behind(rxring[i].fwd_cnt)
  BY <1>3, <1>4, SMTT(30) DEF GuestKnowsCredit
<1> QED
  BY <1>1, <1>5, <1>6 DEF GuestKnowsCredit, Behind, CarriesCredit

\* A packet leaves the tx ring for the stream, the tx buffer, or neither.
LEMMA TakeAccounted ==
  ASSUME TypeOK, TypeOK', DataIsAccounted, txring # <<>>, NEW w \in Nat,
         txring' = Tail(txring), w <= Head(txring).len,
         Minus(g_tx_cnt, fwd_cnt') = Behind(fwd_cnt) - w,
         tx_len' <= tx_len + Head(txring).len - w, UNCHANGED g_tx_cnt
  PROVE  DataIsAccounted'
<1>1. Head(txring) = txring[1] /\ Len(txring) \in Nat \ {0} /\ Len(txring') = Len(txring) - 1
      /\ \A i \in 1 .. Len(txring') : txring'[i] = txring[i + 1]
  BY TailFacts DEF TypeOK
<1>2. /\ \A i \in 1 .. Len(txring) : Behind(txring[i].off) \in Nat /\ txring[i].len \in Nat
      /\ Behind(fwd_cnt) \in Nat /\ tx_len \in Nat
  BY FieldTypes
<1>10. tx_len' \in Nat
  BY FlowAssumption DEF TypeOK
<1>3. 1 \in 1 .. Len(txring)
  BY <1>1
<1>4. /\ txring[1].len <= Behind(txring[1].off)
      /\ tx_len + Behind(txring[1].off) <= Behind(fwd_cnt)
  BY <1>3 DEF DataIsAccounted
<1>5. tx_len' <= Behind(fwd_cnt) - w
  BY <1>1, <1>2, <1>3, <1>4, <1>10
<1>6. \A i \in 1 .. Len(txring') :
        /\ i + 1 \in 1 .. Len(txring) /\ 1 < i + 1
  BY <1>1
<1>7. \A i \in 1 .. Len(txring') : tx_len' + Behind(txring'[i].off) <= Behind(fwd_cnt) - w
  <2> SUFFICES ASSUME NEW i \in 1 .. Len(txring')
               PROVE  tx_len' + Behind(txring'[i].off) <= Behind(fwd_cnt) - w
    OBVIOUS
  <2>1. txring[1].len + Behind(txring[i + 1].off) <= Behind(txring[1].off)
    BY <1>3, <1>6 DEF DataIsAccounted
  <2>2. Behind(txring[i + 1].off) \in Nat /\ txring[1].len \in Nat
        /\ Behind(txring[1].off) \in Nat
    BY <1>2, <1>3, <1>6
  <2>3. txring'[i] = txring[i + 1]
    BY <1>1
  <2>4. tx_len' <= tx_len + txring[1].len - w
    BY <1>1
  <2>5. tx_len \in Nat /\ Behind(fwd_cnt) \in Nat
    BY <1>2
  <2>6. tx_len' + Behind(txring[i + 1].off) <= Behind(fwd_cnt) - w
    BY <1>4, <1>10, <2>1, <2>2, <2>4, <2>5, SMTT(30)
  <2> QED
    BY <2>3, <2>6
<1>8. \A i \in 1 .. Len(txring') : txring'[i].len <= Behind(txring'[i].off)
  BY <1>1, <1>6 DEF DataIsAccounted
<1>9. \A i, j \in 1 .. Len(txring') :
        i < j => txring'[i].len + Behind(txring'[j].off) <= Behind(txring'[i].off)
  <2> SUFFICES ASSUME NEW i \in 1 .. Len(txring'), NEW j \in 1 .. Len(txring'), i < j
               PROVE  txring'[i].len + Behind(txring'[j].off) <= Behind(txring'[i].off)
    OBVIOUS
  <2>1. i + 1 < j + 1 /\ txring'[i] = txring[i + 1] /\ txring'[j] = txring[j + 1]
    BY <1>1
  <2> QED
    BY <1>6, <2>1 DEF DataIsAccounted
<1> QED
  BY <1>5, <1>7, <1>8, <1>9 DEF DataIsAccounted, Behind

\* Bytes of the tx buffer reach the stream.
LEMMA FlushAccounted ==
  ASSUME TypeOK, DataIsAccounted, NEW w \in Nat, w <= tx_len,
         Minus(g_tx_cnt, fwd_cnt') = Behind(fwd_cnt) - w,
         tx_len' = tx_len - w, UNCHANGED <<txring, g_tx_cnt>>
  PROVE  DataIsAccounted'
<1>1. /\ \A i \in 1 .. Len(txring) : Behind(txring[i].off) \in Nat
      /\ Behind(fwd_cnt) \in Nat /\ tx_len \in Nat
  BY FieldTypes
<1>2. tx_len' <= Behind(fwd_cnt) - w
  BY <1>1 DEF DataIsAccounted
<1>3. \A i \in 1 .. Len(txring) : tx_len' + Behind(txring[i].off) <= Behind(fwd_cnt) - w
  BY <1>1 DEF DataIsAccounted
<1> QED
  BY <1>2, <1>3 DEF DataIsAccounted, Behind

\* The device sends a header that carries the count of the moment, or none.
LEMMA HeaderKnown ==
  ASSUME TypeOK, GuestKnowsCredit, NEW pkt \in DevicePackets,
         pkt.fwd_cnt = fwd_cnt \/ ~CarriesCredit(pkt),
         rxring' = Append(rxring, pkt), UNCHANGED <<g_tx_cnt, g_peer_fwd_cnt, fwd_cnt>>
  PROVE  GuestKnowsCredit'
<1>1. Len(rxring) \in Nat /\ Len(rxring') = Len(rxring) + 1 /\ rxring'[Len(rxring) + 1] = pkt
      /\ \A i \in 1 .. Len(rxring) : rxring'[i] = rxring[i]
  BY AppendFacts DEF TypeOK
<1>2. \A i \in 1 .. Len(rxring') : i \in 1 .. Len(rxring) \/ i = Len(rxring) + 1
  BY <1>1
<1>3. /\ Behind(fwd_cnt) \in Nat
      /\ \A i \in 1 .. Len(rxring) : Behind(rxring[i].fwd_cnt) \in Nat
  BY FieldTypes
<1>4. \A i \in 1 .. Len(rxring') : CarriesCredit(rxring'[i]) =>
        /\ Behind(fwd_cnt) <= Behind(rxring'[i].fwd_cnt)
        /\ Behind(rxring'[i].fwd_cnt) <= Behind(g_peer_fwd_cnt)
  BY <1>1, <1>2, <1>3 DEF GuestKnowsCredit
<1>5. \A i, j \in 1 .. Len(rxring') :
        i < j /\ CarriesCredit(rxring'[i]) /\ CarriesCredit(rxring'[j]) =>
          Behind(rxring'[j].fwd_cnt) <= Behind(rxring'[i].fwd_cnt)
  <2> SUFFICES ASSUME NEW i \in 1 .. Len(rxring'), NEW j \in 1 .. Len(rxring'), i < j,
                      CarriesCredit(rxring'[i]), CarriesCredit(rxring'[j])
               PROVE  Behind(rxring'[j].fwd_cnt) <= Behind(rxring'[i].fwd_cnt)
    OBVIOUS
  <2>1. i \in 1 .. Len(rxring) /\ rxring'[i] = rxring[i]
    BY <1>1
  <2>2. CASE j \in 1 .. Len(rxring)
    BY <1>1, <2>1, <2>2 DEF GuestKnowsCredit
  <2>3. CASE j = Len(rxring) + 1
    BY <1>1, <2>1, <2>3 DEF GuestKnowsCredit
  <2> QED
    BY <1>2, <2>2, <2>3
<1> QED
  BY <1>4, <1>5 DEF GuestKnowsCredit, Behind, CarriesCredit

\* The guest takes a header and learns the count it carries, if any.
LEMMA HeaderTaken ==
  ASSUME TypeOK, GuestKnowsCredit, rxring # <<>>, rxring' = Tail(rxring),
         \/ g_peer_fwd_cnt' = Head(rxring).fwd_cnt /\ CarriesCredit(Head(rxring))
         \/ UNCHANGED g_peer_fwd_cnt,
         UNCHANGED <<g_tx_cnt, fwd_cnt>>
  PROVE  GuestKnowsCredit'
<1>1. Head(rxring) = rxring[1] /\ Len(rxring) \in Nat \ {0} /\ Len(rxring') = Len(rxring) - 1
      /\ \A i \in 1 .. Len(rxring') : rxring'[i] = rxring[i + 1]
  BY TailFacts DEF TypeOK
<1>2. 1 \in 1 .. Len(rxring)
      /\ \A i \in 1 .. Len(rxring') : i + 1 \in 1 .. Len(rxring) /\ 1 < i + 1
  BY <1>1
<1>3. /\ Behind(fwd_cnt) \in Nat /\ Behind(g_peer_fwd_cnt) \in Nat
      /\ \A i \in 1 .. Len(rxring) : Behind(rxring[i].fwd_cnt) \in Nat
      /\ TxBufSize \in Nat
  BY FieldTypes, FlowAssumption
<1>4. Behind(g_peer_fwd_cnt') <= TxBufSize /\ Behind(fwd_cnt) <= Behind(g_peer_fwd_cnt')
  BY <1>1, <1>2, <1>3 DEF GuestKnowsCredit
<1>5. \A i \in 1 .. Len(rxring') : CarriesCredit(rxring'[i]) =>
        /\ Behind(fwd_cnt) <= Behind(rxring'[i].fwd_cnt)
        /\ Behind(rxring'[i].fwd_cnt) <= Behind(g_peer_fwd_cnt')
  BY <1>1, <1>2, <1>3 DEF GuestKnowsCredit
<1>6. \A i, j \in 1 .. Len(rxring') :
        i < j /\ CarriesCredit(rxring'[i]) /\ CarriesCredit(rxring'[j]) =>
          Behind(rxring'[j].fwd_cnt) <= Behind(rxring'[i].fwd_cnt)
  BY <1>1, <1>2 DEF GuestKnowsCredit
<1> QED
  BY <1>4, <1>5, <1>6 DEF GuestKnowsCredit, Behind, CarriesCredit

\* The guest's stream grows by n bytes: everything is n bytes further behind.
LEMMA StreamGrows ==
  ASSUME TypeOK, GuestKnowsCredit, NEW n \in Nat, n <= GuestCredit,
         g_tx_cnt' = Plus(g_tx_cnt, n)
  PROVE  \A x \in Counter : Behind(x) <= Behind(g_peer_fwd_cnt) =>
           Minus(g_tx_cnt', x) = Behind(x) + n
<1> SUFFICES ASSUME NEW x \in Counter, Behind(x) <= Behind(g_peer_fwd_cnt)
             PROVE  Minus(g_tx_cnt', x) = Behind(x) + n
  OBVIOUS
<1>1. Behind(x) \in Nat /\ Behind(g_peer_fwd_cnt) \in Nat /\ TxBufSize \in Nat /\ Wrap \in Nat
      /\ TxBufSize < Wrap
  BY FieldTypes, FlowAssumption
<1>2. Behind(x) + n < Wrap
  BY <1>1 DEF GuestCredit, Behind
<1> QED
  BY <1>2, FieldTypes, DistanceGrows DEF Behind

LEMMA SendKnown ==
  ASSUME TypeOK, GuestKnowsCredit, NEW n \in Nat, n <= GuestCredit,
         g_tx_cnt' = Plus(g_tx_cnt, n), UNCHANGED <<fwd_cnt, g_peer_fwd_cnt, rxring>>
  PROVE  GuestKnowsCredit'
<1>1. /\ Behind(fwd_cnt) \in Nat /\ Behind(g_peer_fwd_cnt) \in Nat /\ TxBufSize \in Nat
      /\ \A i \in 1 .. Len(rxring) : /\ rxring[i].fwd_cnt \in Counter
                                     /\ Behind(rxring[i].fwd_cnt) \in Nat
      /\ fwd_cnt \in Counter /\ g_peer_fwd_cnt \in Counter
  BY FieldTypes, FlowAssumption
<1>2. (Behind(g_peer_fwd_cnt))' = Behind(g_peer_fwd_cnt) + n
  BY <1>1, StreamGrows DEF Behind
<1>3. (Behind(fwd_cnt))' = Behind(fwd_cnt) + n
  BY <1>1, StreamGrows DEF Behind, GuestKnowsCredit
<1>4. \A i \in 1 .. Len(rxring) : CarriesCredit(rxring[i]) =>
        Minus(g_tx_cnt', rxring[i].fwd_cnt) = Behind(rxring[i].fwd_cnt) + n
  BY <1>1, StreamGrows DEF GuestKnowsCredit
<1>5. (Behind(g_peer_fwd_cnt))' <= TxBufSize
  BY <1>1, <1>2 DEF GuestCredit, Behind
<1>6. (Behind(fwd_cnt))' <= (Behind(g_peer_fwd_cnt))'
  BY <1>1, <1>2, <1>3 DEF GuestKnowsCredit
<1>7. \A i \in 1 .. Len(rxring) : CarriesCredit(rxring[i]) =>
        /\ (Behind(fwd_cnt))' <= Minus(g_tx_cnt', rxring[i].fwd_cnt)
        /\ Minus(g_tx_cnt', rxring[i].fwd_cnt) <= (Behind(g_peer_fwd_cnt))'
  BY <1>1, <1>2, <1>3, <1>4, SMTT(30) DEF GuestKnowsCredit
<1>8. \A i, j \in 1 .. Len(rxring) :
        i < j /\ CarriesCredit(rxring[i]) /\ CarriesCredit(rxring[j]) =>
          Minus(g_tx_cnt', rxring[j].fwd_cnt) <= Minus(g_tx_cnt', rxring[i].fwd_cnt)
  <2> SUFFICES ASSUME NEW i \in 1 .. Len(rxring), NEW j \in 1 .. Len(rxring), i < j,
                      CarriesCredit(rxring[i]), CarriesCredit(rxring[j])
               PROVE  Minus(g_tx_cnt', rxring[j].fwd_cnt) <= Minus(g_tx_cnt', rxring[i].fwd_cnt)
    OBVIOUS
  <2>1. Behind(rxring[j].fwd_cnt) <= Behind(rxring[i].fwd_cnt)
    BY DEF GuestKnowsCredit
  <2>2. /\ Minus(g_tx_cnt', rxring[j].fwd_cnt) = Behind(rxring[j].fwd_cnt) + n
        /\ Minus(g_tx_cnt', rxring[i].fwd_cnt) = Behind(rxring[i].fwd_cnt) + n
    BY <1>4
  <2> QED
    BY <1>1, <2>1, <2>2
<1> QED
  BY <1>5, <1>6, <1>7, <1>8 DEF GuestKnowsCredit, Behind, CarriesCredit

\* A packet with the n bytes joins the tx ring.
LEMMA SendAccounted ==
  ASSUME TypeOK, GuestKnowsCredit, DataIsAccounted, NEW n \in Nat, n <= GuestCredit,
         g_tx_cnt' = Plus(g_tx_cnt, n), UNCHANGED <<fwd_cnt, tx_len>>,
         NEW pkt \in GuestPackets, pkt.off = g_tx_cnt, pkt.len = n,
         txring' = Append(txring, pkt)
  PROVE  DataIsAccounted'
<1>1. Len(txring) \in Nat /\ Len(txring') = Len(txring) + 1 /\ txring'[Len(txring) + 1] = pkt
      /\ \A i \in 1 .. Len(txring) : txring'[i] = txring[i]
  BY AppendFacts DEF TypeOK
<1>2. \A i \in 1 .. Len(txring') : i \in 1 .. Len(txring) \/ i = Len(txring) + 1
  BY <1>1
<1>3. /\ Behind(fwd_cnt) \in Nat /\ tx_len \in Nat /\ Behind(g_peer_fwd_cnt) \in Nat
      /\ fwd_cnt \in Counter
      /\ \A i \in 1 .. Len(txring) : /\ txring[i].off \in Counter /\ txring[i].len \in Nat
                                     /\ Behind(txring[i].off) \in Nat
  BY FieldTypes
<1>4. (Behind(fwd_cnt))' = Behind(fwd_cnt) + n
  BY <1>3, StreamGrows DEF Behind, GuestKnowsCredit
<1>5. \A i \in 1 .. Len(txring) :
        Minus(g_tx_cnt', txring[i].off) = Behind(txring[i].off) + n
  <2> SUFFICES ASSUME NEW i \in 1 .. Len(txring)
               PROVE  Minus(g_tx_cnt', txring[i].off) = Behind(txring[i].off) + n
    OBVIOUS
  <2>1. Behind(txring[i].off) <= Behind(g_peer_fwd_cnt)
    BY <1>3 DEF GuestKnowsCredit, DataIsAccounted
  <2> QED
    BY <1>3, <2>1, StreamGrows
<1>6. Minus(g_tx_cnt', pkt.off) = n
  <2>1. Behind(g_tx_cnt) = 0 /\ g_tx_cnt \in Counter
    BY FieldTypes, DistanceType DEF Behind
  <2> QED
    BY <1>3, <2>1, StreamGrows
<1>7. tx_len' <= (Behind(fwd_cnt))'
  BY <1>3, <1>4 DEF DataIsAccounted
<1>8. \A i \in 1 .. Len(txring') :
        /\ txring'[i].len <= Minus(g_tx_cnt', txring'[i].off)
        /\ tx_len' + Minus(g_tx_cnt', txring'[i].off) <= (Behind(fwd_cnt))'
  <2> SUFFICES ASSUME NEW i \in 1 .. Len(txring')
               PROVE  /\ txring'[i].len <= Minus(g_tx_cnt', txring'[i].off)
                      /\ tx_len' + Minus(g_tx_cnt', txring'[i].off) <= (Behind(fwd_cnt))'
    OBVIOUS
  <2>1. CASE i \in 1 .. Len(txring)
    BY <1>1, <1>3, <1>4, <1>5, <2>1, SMTT(30) DEF DataIsAccounted
  <2>2. CASE i = Len(txring) + 1
    BY <1>1, <1>3, <1>4, <1>6, <2>2 DEF DataIsAccounted
  <2> QED
    BY <1>2, <2>1, <2>2
<1>9. \A i, j \in 1 .. Len(txring') : i < j =>
        txring'[i].len + Minus(g_tx_cnt', txring'[j].off) <= Minus(g_tx_cnt', txring'[i].off)
  <2> SUFFICES ASSUME NEW i \in 1 .. Len(txring'), NEW j \in 1 .. Len(txring'), i < j
               PROVE  txring'[i].len + Minus(g_tx_cnt', txring'[j].off)
                        <= Minus(g_tx_cnt', txring'[i].off)
    OBVIOUS
  <2>1. i \in 1 .. Len(txring) /\ txring'[i] = txring[i]
    BY <1>1
  <2>2. CASE j \in 1 .. Len(txring)
    <3>1. txring[i].len + Behind(txring[j].off) <= Behind(txring[i].off)
      BY <2>1, <2>2 DEF DataIsAccounted
    <3>2. /\ Minus(g_tx_cnt', txring[j].off) = Behind(txring[j].off) + n
          /\ Minus(g_tx_cnt', txring[i].off) = Behind(txring[i].off) + n
          /\ txring'[j] = txring[j]
      BY <1>1, <1>5, <2>1, <2>2
    <3>3. /\ Behind(txring[j].off) \in Nat /\ Behind(txring[i].off) \in Nat
          /\ txring[i].len \in Nat
      BY <1>3, <2>1, <2>2
    <3> QED
      BY <2>1, <3>1, <3>2, <3>3
  <2>3. CASE j = Len(txring) + 1
    BY <1>1, <1>3, <1>5, <1>6, <2>1, <2>3, SMTT(30) DEF DataIsAccounted
  <2> QED
    BY <1>2, <2>2, <2>3
<1> QED
  BY <1>7, <1>8, <1>9 DEF DataIsAccounted, Behind

LEMMA Untouched ==
  ASSUME GuestKnowsCredit, DataIsAccounted, UNCHANGED <<g_tx_cnt, fwd_cnt>>
  PROVE  /\ UNCHANGED <<rxring, g_peer_fwd_cnt>> => GuestKnowsCredit'
         /\ UNCHANGED <<txring, tx_len>> => DataIsAccounted'
  BY DEF GuestKnowsCredit, DataIsAccounted, Behind, CarriesCredit

-----------------------------------------------------------------------------
\* CreditIsHonest is inductive relative to TypeOK.

LEMMA HonestInit == Init => CreditIsHonest
<1> SUFFICES ASSUME Init PROVE GuestKnowsCredit /\ DataIsAccounted
  BY DEF CreditIsHonest
<1>1. /\ fwd_cnt = 0 /\ g_peer_fwd_cnt = 0 /\ g_tx_cnt = 0 /\ tx_len = 0 /\ txring = <<>>
      /\ \E busy \in RxBusy : rxring = [i \in 1 .. busy |-> DevicePacket("OTHER", 0, 0)]
  BY DEF Init
<1>2. PICK busy \in RxBusy : rxring = [i \in 1 .. busy |-> DevicePacket("OTHER", 0, 0)]
  BY <1>1
<1>3. \A i \in 1 .. Len(rxring) : rxring[i].op = "OTHER"
  BY <1>2, FlowAssumption DEF DevicePacket
<1>4. \A i \in 1 .. Len(rxring) : ~CarriesCredit(rxring[i])
  BY <1>3 DEF CarriesCredit
<1>5. Behind(0) = 0
  BY <1>1, FlowAssumption DEF Behind, Minus
<1>6. GuestKnowsCredit
  BY <1>1, <1>4, <1>5, FlowAssumption DEF GuestKnowsCredit
<1>7. DataIsAccounted
  BY <1>1, <1>5 DEF DataIsAccounted
<1> QED
  BY <1>6, <1>7

\* One packet of the guest: all the ways of send_pkt().
LEMMA HonestTx ==
  ASSUME TypeOK, TypeOK', GuestKnowsCredit, DataIsAccounted,
         txring # <<>>, txring' = Tail(txring),
         UNCHANGED <<rxring, g_tx_cnt, g_peer_fwd_cnt>>,
         TxRw \/ UNCHANGED <<fwd_cnt, tx_len>>
  PROVE  GuestKnowsCredit' /\ DataIsAccounted'
<1> DEFINE pkt == Head(txring)
<1>2. /\ pkt = txring[1] /\ 1 \in 1 .. Len(txring) /\ pkt \in GuestPackets
      /\ pkt.len \in Nat /\ pkt.len <= Behind(pkt.off) /\ tx_len \in Nat /\ tx_len' \in Nat
      /\ TxBufSize \in Nat
      /\ Behind(pkt.off) \in Nat /\ tx_len + Behind(pkt.off) <= Behind(fwd_cnt)
      /\ Behind(fwd_cnt) \in Nat
  <2>1. pkt = txring[1] /\ 1 \in 1 .. Len(txring) /\ pkt \in GuestPackets
    BY TailFacts DEF TypeOK
  <2>2. tx_len' \in Nat /\ TxBufSize \in Nat
    BY FlowAssumption DEF TypeOK
  <2> QED
    BY <2>1, <2>2, FieldTypes DEF DataIsAccounted
<1>3. ASSUME NEW w \in Nat, w <= pkt.len, fwd_cnt' = Plus(fwd_cnt, w),
             tx_len' <= tx_len + pkt.len - w
      PROVE  GuestKnowsCredit' /\ DataIsAccounted'
  <2>1. w <= Behind(fwd_cnt)
    BY <1>2, <1>3
  <2>2. GuestKnowsCredit' /\ Minus(g_tx_cnt, fwd_cnt') = Behind(fwd_cnt) - w
    BY <1>3, <2>1, ForwardKnown
  <2> QED
    BY <1>3, <2>2, TakeAccounted
<1>4. ASSUME UNCHANGED fwd_cnt, tx_len' <= tx_len + pkt.len
      PROVE  GuestKnowsCredit' /\ DataIsAccounted'
  <2>1. fwd_cnt' = Plus(fwd_cnt, 0)
    BY <1>4, FieldTypes, FlowAssumption DEF Plus, Counter
  <2> QED
    BY <1>2, <1>3, <1>4, <2>1
<1>5. CASE UNCHANGED <<fwd_cnt, tx_len>>
  BY <1>2, <1>4, <1>5
<1>6. CASE TxRw
  <2>1. CASE SendBehind
    BY <1>2, <1>4, <2>1 DEF SendBehind, PushTxBuf
  <2>2. CASE SendFails
    BY <1>5, <2>2 DEF SendFails
  <2>3. ASSUME NEW written \in 0 .. SockCap, SendDirect(written)
        PROVE  GuestKnowsCredit' /\ DataIsAccounted'
    <3>1. written \in Nat /\ written <= pkt.len /\ fwd_cnt' = Plus(fwd_cnt, written)
      BY <1>2, <2>3 DEF SendDirect
    <3>2. tx_len' <= tx_len + pkt.len - written
      BY <1>2, <2>3, <3>1 DEF SendDirect, KeepRest, PushTxBuf
    <3> QED
      BY <1>3, <3>1, <3>2
  <2> QED
    BY <1>6, <2>1, <2>2, <2>3 DEF TxRw
<1> QED
  BY <1>5, <1>6

\* One descriptor filled: all the ways of recv_pkt() that keep the connection.
LEMMA HonestFill ==
  ASSUME TypeOK, GuestKnowsCredit, DataIsAccounted, PopKey,
         NEW op \in DeviceOps, NEW len \in Counter, Fill(op, len)
  PROVE  GuestKnowsCredit' /\ DataIsAccounted'
<1> DEFINE pkt == DevicePacket(op, len, fwd_cnt)
<1>1. /\ rxring' = Append(rxring, pkt)
      /\ UNCHANGED <<txring, tx_len, fwd_cnt, g_tx_cnt, g_peer_fwd_cnt>>
  BY DEF Fill, PopKey, guestVars
<1>2. pkt \in DevicePackets /\ pkt.fwd_cnt = fwd_cnt
  BY FieldTypes DEF DevicePacket, DevicePackets
<1>3. GuestKnowsCredit'
  BY <1>1, <1>2, HeaderKnown
<1> QED
  BY <1>1, <1>3, Untouched

LEMMA HonestDevice ==
  ASSUME TypeOK, TypeOK', CreditIsHonest, Device
  PROVE  CreditIsHonest'
<1> SUFFICES ASSUME present' PROVE GuestKnowsCredit' /\ DataIsAccounted'
  BY DEF CreditIsHonest
<1> DEFINE Held == GuestKnowsCredit /\ DataIsAccounted
<1>1. present => Held
  BY DEF CreditIsHonest
<1>2. CASE WakeTx \/ WakeRx \/ EnqueueRead \/ TxDone \/ RxDone \/ RxNothing
  <2>1. UNCHANGED <<present, fwd_cnt, tx_len, txring, rxring, g_tx_cnt, g_peer_fwd_cnt>>
    BY <1>2 DEF WakeTx, WakeRx, EnqueueRead, TxDone, RxDone, RxNothing, PopKey,
                connVars, credit, guestVars
  <2> QED
    BY <1>1, <2>1, Untouched
<1>3. CASE FlushTxBuf
  <2>1. UNCHANGED <<present, txring, rxring, g_tx_cnt, g_peer_fwd_cnt>>
    BY <1>3 DEF FlushTxBuf, guestVars
  <2>2. CASE UNCHANGED <<fwd_cnt, tx_len>>
    BY <1>1, <2>1, <2>2, Untouched
  <2>3. ASSUME NEW cnt \in Amounts(tx_len), tx_len' = tx_len - cnt,
               fwd_cnt' = Plus(fwd_cnt, cnt)
        PROVE  GuestKnowsCredit' /\ DataIsAccounted'
    <3>1. cnt \in Nat /\ cnt <= tx_len /\ cnt <= Behind(fwd_cnt)
      BY <1>1, <2>1, <2>3, FieldTypes DEF Amounts, DataIsAccounted
    <3>2. GuestKnowsCredit' /\ Minus(g_tx_cnt, fwd_cnt') = Behind(fwd_cnt) - cnt
      BY <1>1, <2>1, <2>3, <3>1, ForwardKnown
    <3> QED
      BY <1>1, <2>1, <2>3, <3>1, <3>2, FlushAccounted
  <2> QED
    BY <1>3, <2>2, <2>3 DEF FlushTxBuf
<1>4. CASE TxResponse \/ TxRw \/ TxCreditUpdate \/ TxCreditRequest \/ TxShutdown \/ TxRst
  <2>1. /\ txring # <<>> /\ txring' = Tail(txring) /\ present
        /\ UNCHANGED <<rxring, g_tx_cnt, g_peer_fwd_cnt>>
    BY <1>4 DEF TxResponse, TxRw, TxCreditUpdate, TxCreditRequest, TxShutdown, TxRst,
                Forward, TakePacket, guestVars
  <2>2. TxRw \/ UNCHANGED <<fwd_cnt, tx_len>>
    BY <1>4 DEF TxResponse, TxCreditUpdate, TxCreditRequest, TxShutdown, TxRst, Remove, credit
  <2> QED
    BY <1>1, <2>1, <2>2, HonestTx
<1>5. CASE TxUnknown \/ RxUnknown \/ RxReset
  BY <1>5 DEF TxUnknown, RxUnknown, RxReset, connVars
<1>6. CASE RxRequest \/ RxResponse \/ RxCreditUpdate \/ RxNotConnected
           \/ RxNeedCredit \/ RxEndOfFile \/ RxReadFails
  <2>1. PopKey /\ present
        /\ \E op \in {"REQUEST", "RESPONSE", "CREDIT_UPDATE", "INVALID", "RST",
                      "CREDIT_REQUEST", "SHUTDOWN"} : Fill(op, 0)
    BY <1>6 DEF RxRequest, RxResponse, RxCreditUpdate, RxNotConnected, RxNeedCredit,
                RxEndOfFile, RxReadFails, Dequeue
  <2>2. 0 \in Counter
    BY PacketTypes
  <2> QED
    BY <1>1, <2>1, <2>2, HonestFill DEF DeviceOps
<1>7. ASSUME NEW len \in 1 .. SockCap, RxRead(len)
      PROVE  GuestKnowsCredit' /\ DataIsAccounted'
  <2>1. PopKey /\ present /\ Fill("RW", len) /\ len <= PeerAvailCredit
    BY <1>7 DEF RxRead, Dequeue
  <2>2. PeerAvailCredit \in Counter
    BY CounterType DEF PeerAvailCredit, TypeOK
  <2>3. len \in Counter
    BY <2>1, <2>2, FlowAssumption DEF Counter
  <2> QED
    BY <1>1, <2>1, <2>3, HonestFill DEF DeviceOps
<1> QED
  BY <1>2, <1>3, <1>4, <1>5, <1>6, <1>7 DEF Device, DeviceTx, DeviceRx

\* A packet without data is the case of no bytes.
LEMMA HonestTell ==
  ASSUME TypeOK, GuestKnowsCredit, DataIsAccounted,
         NEW op \in GuestOps, NEW size \in Counter, NEW fwd \in Counter,
         Transmit(GuestPacket(op, 0, size, fwd)), UNCHANGED <<g_tx_cnt, fwd_cnt, tx_len>>
  PROVE  DataIsAccounted'
<1> DEFINE pkt == GuestPacket(op, 0, size, fwd)
<1>1. pkt \in GuestPackets /\ pkt.off = g_tx_cnt /\ pkt.len = 0
  BY PacketTypes DEF GuestPacket
<1>2. 0 <= GuestCredit
  <2>1. Behind(g_peer_fwd_cnt) \in Nat /\ TxBufSize \in Nat
    BY FieldTypes, FlowAssumption
  <2> QED
    BY <2>1 DEF GuestCredit, GuestKnowsCredit, Behind
<1>3. g_tx_cnt' = Plus(g_tx_cnt, 0)
  BY FieldTypes, FlowAssumption DEF Plus, Counter
<1> QED
  BY <1>1, <1>2, <1>3, SendAccounted DEF Transmit

LEMMA HonestGuest ==
  ASSUME TypeOK, TypeOK', CreditIsHonest, Guest
  PROVE  CreditIsHonest'
<1> SUFFICES ASSUME present' PROVE GuestKnowsCredit' /\ DataIsAccounted'
  BY DEF CreditIsHonest
<1>1. UNCHANGED <<present, fwd_cnt, tx_len>>
  BY DEF Guest, GuestSend, GuestResize, GuestRead, GuestClose, GuestAskCredit, GuestTimeout, GuestReceive,
         connVars, credit
<1>2. GuestKnowsCredit /\ DataIsAccounted
  BY <1>1 DEF CreditIsHonest
<1>3. g_buf_alloc \in Counter /\ g_fwd_cnt \in Counter
      /\ g_buf_alloc' \in Counter /\ g_fwd_cnt' \in Counter
      /\ GuestOps = {"RESPONSE", "RW", "CREDIT_UPDATE", "CREDIT_REQUEST", "SHUTDOWN", "RST"}
  BY DEF TypeOK, GuestOps
<1>4. ASSUME NEW n \in GuestChunks, GuestSend(n)
      PROVE  GuestKnowsCredit' /\ DataIsAccounted'
  <2>1. n \in Nat /\ n <= GuestCredit /\ g_tx_cnt' = Plus(g_tx_cnt, n)
        /\ UNCHANGED <<g_peer_fwd_cnt, rxring>>
    BY <1>4, FlowAssumption DEF GuestSend
  <2>2. GuestKnowsCredit'
    BY <1>1, <1>2, <2>1, SendKnown
  <2>3. Minus(g_tx_cnt, g_peer_fwd_cnt) \in Nat
    BY FieldTypes, DistanceType
  <2>4. n \in Counter
    BY <2>1, <2>3, FlowAssumption DEF GuestCredit, Counter
  <2> DEFINE pkt == GuestPacket("RW", n, g_buf_alloc, g_fwd_cnt)
  <2>5. pkt \in GuestPackets /\ pkt.off = g_tx_cnt /\ pkt.len = n
    BY <1>3, <2>4, PacketTypes DEF GuestPacket
  <2>6. txring' = Append(txring, pkt)
    BY <1>4 DEF GuestSend, Transmit
  <2>7. DataIsAccounted'
    BY <1>1, <1>2, <2>1, <2>5, <2>6, SendAccounted
  <2> QED
    BY <2>2, <2>7
<1>5. ASSUME NEW size \in GuestBufSizes, GuestResize(size)
      PROVE  GuestKnowsCredit' /\ DataIsAccounted'
  <2>1. UNCHANGED <<rxring, g_tx_cnt, g_peer_fwd_cnt>>
        /\ Transmit(GuestPacket("CREDIT_UPDATE", 0, size, g_fwd_cnt))
    BY <1>5 DEF GuestResize
  <2>2. size \in Counter
    BY FlowAssumption DEF Counter
  <2> QED
    BY <1>1, <1>2, <1>3, <2>1, <2>2, HonestTell, Untouched
<1>6. CASE GuestRead
  <2>1. /\ UNCHANGED <<rxring, g_tx_cnt, g_peer_fwd_cnt>>
        /\ \/ Transmit(GuestPacket("CREDIT_UPDATE", 0, g_buf_alloc, g_fwd_cnt'))
           \/ UNCHANGED txring
    BY <1>6 DEF GuestRead
  <2> QED
    BY <1>1, <1>2, <1>3, <2>1, HonestTell, Untouched
<1>7. CASE GuestClose \/ GuestAskCredit \/ GuestTimeout
  <2>1. /\ UNCHANGED <<rxring, g_tx_cnt, g_peer_fwd_cnt>>
        /\ \E op \in {"SHUTDOWN", "CREDIT_REQUEST", "RST"} : Transmit(GuestPacket(op, 0, g_buf_alloc, g_fwd_cnt))
    BY <1>7 DEF GuestClose, GuestAskCredit, GuestTimeout, Tell, guestVars
  <2> QED
    BY <1>1, <1>2, <1>3, <2>1, HonestTell, Untouched
<1>8. CASE GuestReceive
  <2>1. /\ rxring # <<>> /\ rxring' = Tail(rxring) /\ UNCHANGED g_tx_cnt
        /\ \/ UNCHANGED g_peer_fwd_cnt
           \/ /\ g_peer_fwd_cnt' = Head(rxring).fwd_cnt
              /\ CarriesCredit(Head(rxring))
    BY <1>8 DEF GuestReceive, Foreign, CarriesCredit
  <2>2. GuestKnowsCredit'
    BY <1>1, <1>2, <2>1, HeaderTaken
  <2>3. UNCHANGED txring
        \/ \E op \in {"RESPONSE", "RST", "CREDIT_UPDATE"} :
             Transmit(GuestPacket(op, 0, g_buf_alloc, g_fwd_cnt))
    BY <1>8 DEF GuestReceive, Reply, Tell
  <2> QED
    BY <1>1, <1>2, <1>3, <2>1, <2>2, <2>3, HonestTell, Untouched
<1> QED
  BY <1>4, <1>5, <1>6, <1>7, <1>8 DEF Guest

(***************************************************************************)
(* The credit the guest was given is honest at every step: what the guest  *)
(* believes, the headers on their way and the counters of the connection   *)
(* agree on where every byte is (the fwd_cnt of init_pkt(), the push and   *)
(* the flush of the tx buffer).                                            *)
(***************************************************************************)
THEOREM CreditHonest == Spec => []CreditIsHonest
<1>1. TypeOK /\ TypeOK' /\ CreditIsHonest /\ [Next]_vars => CreditIsHonest'
  <2> SUFFICES ASSUME TypeOK, TypeOK', CreditIsHonest, [Next]_vars PROVE CreditIsHonest'
    OBVIOUS
  <2>1. CASE Host \/ UNCHANGED vars
    <3>1. UNCHANGED <<present, fwd_cnt, tx_len, txring, rxring, g_tx_cnt, g_peer_fwd_cnt>>
      BY <2>1 DEF Host, HostWrite, HostRead, HostClose, vars, connVars, credit, guestVars
    <3> QED
      BY <3>1, Untouched DEF CreditIsHonest
  <2> QED
    BY <2>1, HonestDevice, HonestGuest DEF Next
<1> QED
  BY <1>1, HonestInit, TypeCorrect, PTL DEF Spec

(***************************************************************************)
(* push() never refuses the data of a guest that keeps to its credit,      *)
(* whatever the sizes of the counters, of the buffer and of the packets.   *)
(***************************************************************************)
THEOREM TxBufFits == Spec => []TxBufNeverFull
<1>1. TypeOK /\ CreditIsHonest => TxBufNeverFull
  <2> SUFFICES ASSUME TypeOK, CreditIsHonest, present, NEW i \in 1 .. Len(txring)
               PROVE  tx_len + txring[i].len <= TxBufSize
    BY DEF TxBufNeverFull
  <2>1. /\ txring[i].len \in Nat /\ Behind(txring[i].off) \in Nat /\ tx_len \in Nat
        /\ Behind(fwd_cnt) \in Nat /\ Behind(g_peer_fwd_cnt) \in Nat /\ TxBufSize \in Nat
    BY FieldTypes, FlowAssumption
  <2>2. /\ txring[i].len <= Behind(txring[i].off)
        /\ tx_len + Behind(txring[i].off) <= Behind(fwd_cnt)
        /\ Behind(fwd_cnt) <= Behind(g_peer_fwd_cnt)
        /\ Behind(g_peer_fwd_cnt) <= TxBufSize
    BY DEF CreditIsHonest, GuestKnowsCredit, DataIsAccounted
  <2> QED
    BY <2>1, <2>2
<1> QED
  BY <1>1, TypeCorrect, CreditHonest, PTL

(***************************************************************************)
(* Types and credit in one, as the run of VsockFlowTx checks them.         *)
(***************************************************************************)
THEOREM CreditStaysKept == Spec => []CreditKept
<1>1. TypeOK /\ CreditIsHonest => CreditKept
  BY DEF CreditKept
<1> QED
  BY <1>1, TypeCorrect, CreditHonest, PTL

-----------------------------------------------------------------------------
\* What peek() gives: of the pending operations, the one of lowest rank.
LEMMA PeekFirst ==
  ASSUME TypeOK, rx_queue # {}
  PROVE  Peek \in rx_queue /\ \A other \in rx_queue : Rank[Peek] <= Rank[other]
<1>1. \A op \in rx_queue : op \in {"Request", "Rw", "Response", "CreditUpdate", "Reset"}
  BY DEF TypeOK, RxOps
<1>2. /\ Rank["Request"] = 1 /\ Rank["Rw"] = 2 /\ Rank["Response"] = 3
      /\ Rank["CreditUpdate"] = 4 /\ Rank["Reset"] = 5
  BY DEF Rank
<1>0. PICK some \in rx_queue : TRUE
  OBVIOUS
<1>3. \E op \in rx_queue : \A other \in rx_queue : Rank[op] <= Rank[other]
  <2>1. CASE "Request" \in rx_queue
    BY <1>1, <1>2, <2>1
  <2>2. CASE "Request" \notin rx_queue /\ "Rw" \in rx_queue
    BY <1>1, <1>2, <2>2
  <2>3. CASE rx_queue \subseteq {"Response", "CreditUpdate", "Reset"} /\ "Response" \in rx_queue
    BY <1>1, <1>2, <2>3
  <2>4. CASE rx_queue \subseteq {"CreditUpdate", "Reset"} /\ "CreditUpdate" \in rx_queue
    BY <1>1, <1>2, <2>4
  <2>5. CASE rx_queue \subseteq {"Reset"}
    BY <1>0, <1>1, <1>2, <2>5
  <2> QED
    BY <1>1, <2>1, <2>2, <2>3, <2>4, <2>5
<1> QED
  BY <1>3 DEF Peek

\* An operation that is taken comes before all that stay.
LEMMA TakenFirst ==
  ASSUME TypeOK, rx_queue # {}
  PROVE  /\ Peek = "Rw" => "Request" \notin rx_queue
         /\ Peek = "Response" => {"Request", "Rw"} \cap rx_queue = {}
         /\ Peek = "CreditUpdate" => rx_queue \subseteq {"CreditUpdate", "Reset"}
         /\ Peek = "Reset" => rx_queue = {"Reset"}
<1>1. \A op \in rx_queue : op \in {"Request", "Rw", "Response", "CreditUpdate", "Reset"}
  BY DEF TypeOK, RxOps
<1>2. /\ Rank["Request"] = 1 /\ Rank["Rw"] = 2 /\ Rank["Response"] = 3
      /\ Rank["CreditUpdate"] = 4 /\ Rank["Reset"] = 5
  BY DEF Rank
<1>3. Peek \in rx_queue /\ \A other \in rx_queue : Rank[Peek] <= Rank[other]
  BY PeekFirst
<1> QED
  BY <1>1, <1>2, <1>3

\* A packet joins a ring, or leaves it.
LEMMA GuestToldMore ==
  ASSUME TypeOK, NEW pkt \in DevicePackets, rxring' = Append(rxring, pkt)
  PROVE  \A op : ToGuestSoon(op)' <=> ToGuestSoon(op) \/ op = pkt.op
  BY AppendFacts DEF TypeOK, ToGuestSoon

LEMMA GuestToldLess ==
  ASSUME TypeOK, rxring # <<>>, rxring' = Tail(rxring)
  PROVE  /\ Len(rxring') < Len(rxring)
         /\ \A op : ToGuestSoon(op) <=> ToGuestSoon(op)' \/ op = Head(rxring).op
<1>1. /\ Head(rxring) = rxring[1] /\ Len(rxring) \in Nat \ {0} /\ Len(rxring') = Len(rxring) - 1
      /\ \A i \in 1 .. Len(rxring') : rxring'[i] = rxring[i + 1]
  BY TailFacts DEF TypeOK
<1>2. /\ 1 \in 1 .. Len(rxring)
      /\ \A i \in 1 .. Len(rxring') : i + 1 \in 1 .. Len(rxring)
      /\ \A i \in 1 .. Len(rxring) : i = 1 \/ (i - 1 \in 1 .. Len(rxring') /\ (i - 1) + 1 = i)
  BY <1>1
<1>3. \A op : ToGuestSoon(op) => ToGuestSoon(op)' \/ op = Head(rxring).op
  BY <1>1, <1>2 DEF ToGuestSoon
<1>4. \A op : ToGuestSoon(op)' \/ op = Head(rxring).op => ToGuestSoon(op)
  BY <1>1, <1>2 DEF ToGuestSoon
<1> QED
  BY <1>1, <1>3, <1>4

LEMMA DeviceToldMore ==
  ASSUME TypeOK, NEW pkt \in GuestPackets, txring' = Append(txring, pkt)
  PROVE  \A op : ToDeviceSoon(op)' <=> ToDeviceSoon(op) \/ op = pkt.op
  BY AppendFacts DEF TypeOK, ToDeviceSoon

LEMMA DeviceToldLess ==
  ASSUME TypeOK, txring # <<>>, txring' = Tail(txring)
  PROVE  \A op : ToDeviceSoon(op) <=> ToDeviceSoon(op)' \/ op = Head(txring).op
<1>1. /\ Head(txring) = txring[1] /\ Len(txring) \in Nat \ {0} /\ Len(txring') = Len(txring) - 1
      /\ \A i \in 1 .. Len(txring') : txring'[i] = txring[i + 1]
  BY TailFacts DEF TypeOK
<1>2. /\ 1 \in 1 .. Len(txring)
      /\ \A i \in 1 .. Len(txring') : i + 1 \in 1 .. Len(txring)
      /\ \A i \in 1 .. Len(txring) : i = 1 \/ (i - 1 \in 1 .. Len(txring') /\ (i - 1) + 1 = i)
  BY <1>1
<1>3. \A op : ToDeviceSoon(op) => ToDeviceSoon(op)' \/ op = Head(txring).op
  BY <1>1, <1>2 DEF ToDeviceSoon
<1>4. \A op : ToDeviceSoon(op)' \/ op = Head(txring).op => ToDeviceSoon(op)
  BY <1>1, <1>2 DEF ToDeviceSoon
<1> QED
  BY <1>3, <1>4


-----------------------------------------------------------------------------
(***************************************************************************)
(* How a connection opens.  Until it is connected either the answer to the *)
(* guest is pending, or the host application asked for it, has not been    *)
(* told and has nothing to write; so what is looked for too early is a     *)
(* close, or data that the answer comes after.                             *)
(***************************************************************************)
AnswerPending == present /\ ~connect => "Response" \in rx_queue \/ ~h_told

SilentUntilTold == ~h_told => h_in = 0

Opening == AnswerPending /\ SilentUntilTold

\* A read is asked for when there is something to read.
ReadHasReason == present /\ "Rw" \in rx_queue => h_in > 0 \/ h_closed

LEMMA ReasonHeld == Spec => []ReadHasReason
<1>1. Init => ReadHasReason
  BY DEF Init, ReadHasReason
<1>2. TypeOK /\ ReadHasReason /\ Device => ReadHasReason'
  <2> SUFFICES ASSUME TypeOK, ReadHasReason, Device, present', "Rw" \in rx_queue'
               PROVE  h_in' > 0 \/ h_closed'
    BY DEF ReadHasReason
  <2>1. CASE EnqueueRead
    BY <2>1 DEF EnqueueRead, OtherEvent, hostVars
  <2>2. ASSUME NEW len \in 1 .. SockCap, RxRead(len) PROVE FALSE
    BY <2>2 DEF RxRead, Dequeue
  <2> DEFINE Kept == /\ UNCHANGED <<h_in, h_closed>> /\ present
                     /\ rx_queue' \subseteq rx_queue \cup {"CreditUpdate", "Reset"}
  <2>3. ASSUME WakeTx \/ WakeRx \/ FlushTxBuf PROVE Kept
    BY <2>3 DEF WakeTx, WakeRx, FlushTxBuf, connVars, hostVars
  <2>4. ASSUME DeviceTx PROVE Kept
    <3>1. UNCHANGED <<h_in, h_closed>> /\ present
      BY <2>4 DEF DeviceTx, TxDone, TxUnknown, TxResponse, TxRw, TxCreditUpdate, TxCreditRequest,
                  TxShutdown, TxRst, Remove, Forward, connVars, hostVars
    <3>2. rx_queue' \subseteq rx_queue \cup {"CreditUpdate", "Reset"}
      BY <2>4 DEF DeviceTx, TxDone, TxUnknown, TxResponse, TxRw, SendBehind, SendFails,
                  SendDirect, TxCreditUpdate, TxCreditRequest, TxShutdown, TxRst, Remove, connVars
    <3> QED
      BY <3>1, <3>2
  <2>5. ASSUME DeviceRx, ~\E len \in 1 .. SockCap : RxRead(len) PROVE Kept
    BY <2>5 DEF DeviceRx, RxDone, RxUnknown, RxNothing, RxReset, RxRequest, RxResponse,
       RxCreditUpdate, RxNotConnected, RxNeedCredit, RxEndOfFile, RxReadFails, PopKey, Dequeue,
       connVars, hostVars
  <2>6. Kept => h_in' > 0 \/ h_closed'
    BY DEF ReadHasReason
  <2> QED
    BY <2>1, <2>2, <2>3, <2>4, <2>5, <2>6 DEF Device
<1>3. TypeOK /\ ReadHasReason /\ Host => ReadHasReason'
  <2> SUFFICES ASSUME TypeOK, ReadHasReason, Host PROVE ReadHasReason'
    OBVIOUS
  <2>1. h_in \in Int /\ \A n \in HostChunks : h_in + n > h_in /\ h_in + n \in Int
    BY FlowAssumption DEF TypeOK
  <2>2. UNCHANGED <<present, rx_queue>>
    BY DEF Host, HostWrite, HostRead, HostClose, connVars
  <2>3. /\ UNCHANGED h_in \/ \E n \in HostChunks : h_in' = h_in + n
        /\ h_closed => h_closed'
    BY DEF Host, HostWrite, HostRead, HostClose
  <2> QED
    BY <2>1, <2>2, <2>3 DEF ReadHasReason
<1>4. ReadHasReason /\ (Guest \/ UNCHANGED vars) => ReadHasReason'
  BY DEF Guest, GuestSend, GuestResize, GuestRead, GuestClose, GuestAskCredit, GuestTimeout,
     GuestReceive, ReadHasReason, connVars, hostVars, vars
<1> QED
  BY <1>1, <1>2, <1>3, <1>4, TypeCorrect, PTL DEF Spec, Next

LEMMA OpeningKept ==
  ASSUME TypeOK, Opening, [Next]_vars
  PROVE  Opening'
<1> USE DEF Opening, AnswerPending, SilentUntilTold
<1>1. CASE WakeTx \/ WakeRx \/ FlushTxBuf \/ EnqueueRead
  BY <1>1 DEF WakeTx, WakeRx, FlushTxBuf, EnqueueRead, connVars, hostVars
<1>2. CASE DeviceTx
  <2>1. CASE TxResponse
    BY <2>1 DEF TxResponse, Forward
  <2>2. CASE TxRw
    BY <2>2 DEF TxRw, SendBehind, SendFails, SendDirect, Forward
  <2>3. CASE TxDone \/ TxUnknown \/ TxCreditUpdate \/ TxCreditRequest \/ TxShutdown \/ TxRst
    BY <2>3 DEF TxDone, TxUnknown, TxCreditUpdate, TxCreditRequest, TxShutdown, TxRst, Remove, Forward,
       connVars, hostVars
  <2> QED
    BY <1>2, <2>1, <2>2, <2>3 DEF DeviceTx
<1>3. CASE DeviceRx
  <2>1. ASSUME NEW len \in 1 .. SockCap, RxRead(len) PROVE Opening'
    <3>1. h_in # 0 /\ h_told' = h_told
      BY <2>1, FlowAssumption DEF RxRead, Amounts, TypeOK, Dequeue, PopKey
    <3> QED
      BY <2>1, <3>1 DEF RxRead, Dequeue
  <2>2. CASE RxDone \/ RxUnknown \/ RxNothing \/ RxReset \/ RxRequest \/ RxResponse
    BY <2>2 DEF RxDone, RxUnknown, RxNothing, RxReset, RxRequest, RxResponse, Dequeue, PopKey, connVars, hostVars
  <2>3. CASE RxCreditUpdate \/ RxNotConnected \/ RxNeedCredit \/ RxEndOfFile \/ RxReadFails
    BY <2>3 DEF RxCreditUpdate, RxNotConnected, RxNeedCredit, RxEndOfFile, RxReadFails, Dequeue, PopKey
  <2> QED
    BY <1>3, <2>1, <2>2, <2>3 DEF DeviceRx
<1>4. CASE Guest
  BY <1>4 DEF Guest, GuestSend, GuestResize, GuestRead, GuestClose, GuestAskCredit, GuestTimeout,
     GuestReceive, connVars, hostVars
<1>5. CASE Host
  BY <1>5 DEF Host, HostWrite, HostRead, HostClose, connVars
<1>6. CASE UNCHANGED vars
  BY <1>6 DEF vars, connVars, hostVars
<1> QED
  BY <1>1, <1>2, <1>3, <1>4, <1>5, <1>6 DEF Next, Device

LEMMA OpeningHeld == Spec => []Opening
<1>1. Init => Opening
  BY DEF Init, Opening, AnswerPending, SilentUntilTold
<1> QED
  BY <1>1, OpeningKept, TypeCorrect, PTL DEF Spec

-----------------------------------------------------------------------------
\* What the driver answers to a packet that is no answer itself.
LEMMA CreditAnswered ==
  ASSUME TypeOK, rxring # <<>>, Head(rxring).op = "CREDIT_REQUEST", GuestReceive
  PROVE  g_state' = "closed" \/ ToDeviceSoon("CREDIT_UPDATE")'
<1> DEFINE pkt == Head(rxring)
<1>1. NextState(pkt) = "closed" \/ Reply(pkt) = "CREDIT_UPDATE"
  BY DEF NextState, Reply, Foreign, Accepts, Refuses, TypeOK
<1>2. CASE Reply(pkt) = "CREDIT_UPDATE"
  <2>1. Transmit(GuestPacket("CREDIT_UPDATE", 0, g_buf_alloc, g_fwd_cnt))
    BY <1>2 DEF GuestReceive, Tell
  <2>2. GuestPacket("CREDIT_UPDATE", 0, g_buf_alloc, g_fwd_cnt) \in GuestPackets
    BY PacketTypes DEF TypeOK, GuestOps
  <2> QED
    BY <2>1, <2>2, DeviceToldMore DEF Transmit, GuestPacket
<1> QED
  BY <1>1, <1>2 DEF GuestReceive

\* What is under way to the device stays until the device takes it.
LEMMA GuestOnlyTells ==
  ASSUME TypeOK, Guest
  PROVE  \A op : ToDeviceSoon(op) => ToDeviceSoon(op)'
<1> SUFFICES ASSUME NEW pkt, txring' = Append(txring, pkt), NEW op, ToDeviceSoon(op)
             PROVE  ToDeviceSoon(op)'
  <2>1. UNCHANGED txring \/ \E pkt : txring' = Append(txring, pkt)
    BY DEF Guest, GuestSend, GuestResize, GuestRead, GuestClose, GuestAskCredit, GuestTimeout,
       GuestReceive, Tell, Transmit
  <2> QED
    BY <2>1 DEF ToDeviceSoon
<1>1. PICK i \in 1 .. Len(txring) : txring[i].op = op
  BY DEF ToDeviceSoon
<1>2. Len(txring) \in Nat /\ Len(txring') = Len(txring) + 1 /\ txring'[i] = txring[i]
  BY DEF TypeOK
<1> QED
  BY <1>1, <1>2 DEF ToDeviceSoon

-----------------------------------------------------------------------------
(* A reset in the ring, when a packet goes in behind it or one before it    *)
(* goes out.                                                               *)

LEMMA ResetsBefore ==
  ASSUME TypeOK, NoResetOnceAnswered, NEW pkt \in DevicePackets, rxring' = Append(rxring, pkt),
         present, h_closed => h_closed',
         "Response" \in rx_queue => "Response" \in rx_queue' \/ pkt.op = "RESPONSE",
         pkt.op = "RST" => h_closed' \/ "Response" \in rx_queue'
  PROVE  NoResetOnceAnswered'
<1> SUFFICES ASSUME NEW i \in 1 .. Len(rxring'), rxring'[i].op = "RST"
             PROVE  \/ h_closed' \/ "Response" \in rx_queue'
                    \/ \E j \in i + 1 .. Len(rxring') : rxring'[j].op = "RESPONSE"
  BY DEF NoResetOnceAnswered
<1>1. /\ Len(rxring) \in Nat /\ Len(rxring') = Len(rxring) + 1
      /\ \A k \in 1 .. Len(rxring) : rxring'[k] = rxring[k]
      /\ rxring'[Len(rxring) + 1] = pkt
  BY AppendFacts DEF TypeOK
<1>2. CASE i \in 1 .. Len(rxring)
  <2>1. rxring[i].op = "RST"
    BY <1>1, <1>2
  <2>2. \/ h_closed \/ "Response" \in rx_queue
        \/ \E j \in i + 1 .. Len(rxring) : rxring[j].op = "RESPONSE"
    BY <1>2, <2>1 DEF NoResetOnceAnswered
  <2>3. CASE h_closed
    BY <2>3
  <2>4. CASE "Response" \in rx_queue
    <3>1. Len(rxring) + 1 \in i + 1 .. Len(rxring')
      BY <1>1, <1>2
    <3> QED
      BY <1>1, <2>4, <3>1
  <2>5. ASSUME NEW j \in i + 1 .. Len(rxring), rxring[j].op = "RESPONSE"
        PROVE  \E k \in i + 1 .. Len(rxring') : rxring'[k].op = "RESPONSE"
    <3>1. j \in 1 .. Len(rxring) /\ j \in i + 1 .. Len(rxring')
      BY <1>1, <1>2
    <3> QED
      BY <1>1, <2>5, <3>1
  <2> QED
    BY <2>2, <2>3, <2>4, <2>5
<1>3. CASE i = Len(rxring) + 1
  BY <1>1, <1>3
<1> QED
  BY <1>1, <1>2, <1>3

LEMMA ResetsAfter ==
  ASSUME TypeOK, NoResetOnceAnswered, rxring # <<>>, rxring' = Tail(rxring),
         UNCHANGED <<present, rx_queue, h_closed>>
  PROVE  NoResetOnceAnswered'
<1> SUFFICES ASSUME present, NEW i \in 1 .. Len(rxring'), rxring'[i].op = "RST"
             PROVE  \/ h_closed \/ "Response" \in rx_queue
                    \/ \E j \in i + 1 .. Len(rxring') : rxring'[j].op = "RESPONSE"
  BY DEF NoResetOnceAnswered
<1>1. /\ Len(rxring) \in Nat \ {0} /\ Len(rxring') = Len(rxring) - 1
      /\ \A k \in 1 .. Len(rxring') : rxring'[k] = rxring[k + 1]
  BY TailFacts DEF TypeOK
<1>2. i + 1 \in 1 .. Len(rxring) /\ rxring[i + 1].op = "RST"
  BY <1>1
<1>3. \/ h_closed \/ "Response" \in rx_queue
      \/ \E j \in (i + 1) + 1 .. Len(rxring) : rxring[j].op = "RESPONSE"
  BY <1>2 DEF NoResetOnceAnswered
<1>4. ASSUME NEW j \in (i + 1) + 1 .. Len(rxring), rxring[j].op = "RESPONSE"
      PROVE  \E k \in i + 1 .. Len(rxring') : rxring'[k].op = "RESPONSE"
  <2>1. j - 1 \in i + 1 .. Len(rxring') /\ j - 1 \in 1 .. Len(rxring') /\ (j - 1) + 1 = j
    BY <1>1
  <2>2. rxring'[j - 1] = rxring[j]
    BY <1>1, <2>1
  <2> QED
    BY <1>4, <2>1, <2>2
<1> QED
  BY <1>3, <1>4

-----------------------------------------------------------------------------
\* The two properties of a stream that is to be read.
LEMMA ListenDevice ==
  ASSUME TypeOK, TypeOK', Opening, ReadHasReason, NoResetOnceAnswered, ReadNotForgotten, Device
  PROVE  NoResetOnceAnswered' /\ ReadNotForgotten'
<1> USE DEF ReadNotForgotten
<1>0. /\ 0 \in Counter
      /\ \A op \in DeviceOps : DevicePacket(op, 0, fwd_cnt) \in DevicePackets /\ DevicePacket(op, 0, fwd_cnt).op = op
      /\ DeviceOps = {"REQUEST", "RESPONSE", "RW", "CREDIT_UPDATE", "CREDIT_REQUEST",
                      "SHUTDOWN", "RST", "INVALID", "UNSET", "OTHER"}
  BY PacketTypes DEF TypeOK, DevicePacket, DeviceOps
<1>1. UNCHANGED <<g_state, h_closed>>
  BY DEF Device, WakeTx, WakeRx, FlushTxBuf, EnqueueRead, DeviceTx, TxDone, TxUnknown, TxResponse, TxRw,
     TxCreditUpdate, TxCreditRequest, TxShutdown, TxRst, Forward, DeviceRx, RxDone, RxUnknown, RxNothing,
     RxReset, RxRequest, RxResponse, RxCreditUpdate, RxNotConnected, RxNeedCredit, RxEndOfFile,
     RxReadFails, RxRead, Dequeue, PopKey, guestVars, hostVars
<1>2. CASE WakeTx \/ WakeRx \/ TxDone \/ RxDone \/ RxNothing
  BY <1>2 DEF WakeTx, WakeRx, TxDone, RxDone, RxNothing, PopKey, connVars, guestVars, hostVars,
     ToGuestSoon, ToDeviceSoon, NoResetOnceAnswered
<1>3. CASE FlushTxBuf \/ EnqueueRead
  BY <1>1, <1>3 DEF FlushTxBuf, EnqueueRead, EpollModify, Registered, ToGuestSoon, ToDeviceSoon, guestVars, NoResetOnceAnswered
<1>4. CASE TxUnknown \/ RxUnknown \/ RxReset
  BY <1>4 DEF TxUnknown, RxUnknown, RxReset, PopKey, connVars, NoResetOnceAnswered
<1>5. CASE TxResponse \/ TxRw \/ TxCreditUpdate \/ TxCreditRequest \/ TxShutdown \/ TxRst
  <2>1. txring # <<>> /\ txring' = Tail(txring) /\ UNCHANGED rxring /\ present /\ rx_queue \subseteq rx_queue'
    BY <1>5 DEF TxResponse, TxRw, TxCreditUpdate, TxCreditRequest, TxShutdown, TxRst, Forward, TakePacket,
       SendBehind, SendFails, SendDirect, Remove
  <2>2. Head(txring).op = "CREDIT_UPDATE" => interest' = "inout"
    BY <1>5 DEF TxResponse, TxRw, TxCreditUpdate, TxCreditRequest, TxShutdown, TxRst, Forward, TakePacket,
       RegisterOnCredit, EpollRegister
  <2>3. present' /\ interest' = "none" => interest = "none"
    BY <1>5 DEF TxResponse, TxRw, TxCreditUpdate, TxCreditRequest, TxShutdown, TxRst, SendBehind, SendFails,
       SendDirect, KeepRest, EpollModify, Registered, RegisterOnCredit, EpollRegister, Remove
  <2>5. \A op : ToDeviceSoon(op) <=> ToDeviceSoon(op)' \/ op = Head(txring).op
    BY <2>1, DeviceToldLess
  <2>6. \A op : ToGuestSoon(op)' <=> ToGuestSoon(op)
    BY <2>1 DEF ToGuestSoon
  <2> QED
    BY <1>1, <2>1, <2>2, <2>3, <2>5, <2>6 DEF NoResetOnceAnswered
<1>6. ASSUME NEW op \in DeviceOps, NEW len \in Counter, Fill(op, len),
             present, UNCHANGED <<present, txring>>,
             op = "RST" => h_closed \/ "Response" \in rx_queue',
             "Response" \in rx_queue => "Response" \in rx_queue' \/ op = "RESPONSE",
             interest' = interest,
             "Rw" \in rx_queue /\ "Rw" \notin rx_queue' => op \in {"CREDIT_REQUEST", "RST"} \/ h_closed
      PROVE  NoResetOnceAnswered' /\ ReadNotForgotten'
  <2>1. DevicePacket(op, len, fwd_cnt) \in DevicePackets /\ DevicePacket(op, len, fwd_cnt).op = op
    BY PacketTypes DEF TypeOK, DevicePacket
  <2>2. \A o : ToGuestSoon(o)' <=> ToGuestSoon(o) \/ o = op
    BY <1>6, <2>1, GuestToldMore DEF Fill
  <2>3. \A o : ToDeviceSoon(o)' <=> ToDeviceSoon(o)
    BY <1>6 DEF ToDeviceSoon
  <2>4. NoResetOnceAnswered'
    BY <1>1, <1>6, <2>1, ResetsBefore DEF Fill
  <2> QED
    BY <1>1, <1>6, <2>2, <2>3, <2>4
<1>7. CASE RxRequest \/ RxResponse \/ RxCreditUpdate
  BY <1>0, <1>6, <1>7 DEF RxRequest, RxResponse, RxCreditUpdate, Dequeue, PopKey
<1>8. CASE RxNotConnected
  <2>1. h_closed \/ "Response" \in rx_queue'
    <3>1. h_in \in Nat
      BY FlowAssumption DEF TypeOK
    <3> QED
      BY <1>8, <3>1 DEF RxNotConnected, Dequeue, PopKey, Opening, AnswerPending, SilentUntilTold, ReadHasReason
  <2> QED
    BY <1>0, <1>6, <1>8, <2>1 DEF RxNotConnected, Dequeue, PopKey
<1>9. CASE RxNeedCredit \/ RxEndOfFile
  BY <1>0, <1>6, <1>9 DEF RxNeedCredit, RxEndOfFile, Dequeue, PopKey
<1>10. CASE RxReadFails
  BY <1>0, <1>6, <1>10 DEF RxReadFails, Dequeue, PopKey, ReadHasReason
<1>11. ASSUME NEW len \in 1 .. SockCap, RxRead(len)
       PROVE  NoResetOnceAnswered' /\ ReadNotForgotten'
  <2>1. PeerAvailCredit \in Counter
    BY CounterType DEF PeerAvailCredit, TypeOK
  <2>2. len \in Counter
    BY <1>11, <2>1, FlowAssumption DEF RxRead, Counter
  <2>3. DevicePacket("RW", len, fwd_cnt) \in DevicePackets /\ DevicePacket("RW", len, fwd_cnt).op = "RW"
    BY <1>0, <2>2, PacketTypes DEF TypeOK, DevicePacket
  <2>4. NoResetOnceAnswered'
    BY <1>1, <1>11, <2>3, ResetsBefore DEF RxRead, Fill, Dequeue
  <2> QED
    BY <1>1, <1>11, <2>4 DEF RxRead, EpollRegister
<1> QED
  BY <1>2, <1>3, <1>4, <1>5, <1>7, <1>8, <1>9, <1>10, <1>11 DEF Device, DeviceTx, DeviceRx

LEMMA ListenOutside ==
  ASSUME TypeOK, NoResetOnceAnswered, ReadNotForgotten, Guest \/ Host \/ UNCHANGED vars
  PROVE  NoResetOnceAnswered' /\ ReadNotForgotten'
<1> USE DEF ReadNotForgotten
<1>1. CASE Guest
  <2>1. UNCHANGED <<connVars, h_closed>>
    BY <1>1 DEF Guest, GuestSend, GuestResize, GuestRead, GuestClose, GuestAskCredit, GuestTimeout,
       GuestReceive, hostVars
  <2>2. \A op : ToDeviceSoon(op) => ToDeviceSoon(op)'
    BY <1>1, GuestOnlyTells
  <2>3. CASE GuestReceive
    <3>1. rxring # <<>> /\ \A op : ToGuestSoon(op) <=> ToGuestSoon(op)' \/ op = Head(rxring).op
      BY <2>3, GuestToldLess DEF GuestReceive
    <3>2. g_state = "closed" => g_state' = "closed"
      BY <2>3 DEF GuestReceive, NextState, Accepts, Refuses
    <3>3. Head(rxring).op = "CREDIT_REQUEST" => g_state' = "closed" \/ ToDeviceSoon("CREDIT_UPDATE")'
      BY <2>3, <3>1, CreditAnswered
    <3>4. Head(rxring).op = "RST" => g_state' = "closed" \/ Foreign(Head(rxring))
      BY <2>3 DEF GuestReceive, NextState
    <3>5. NoResetOnceAnswered'
      BY <2>1, <3>1, <2>3, ResetsAfter DEF GuestReceive, connVars
    <3> QED
      BY <2>1, <2>2, <3>1, <3>2, <3>3, <3>4, <3>5 DEF connVars, Foreign
  <2>4. CASE UNCHANGED rxring /\ (g_state = "closed" => g_state' = "closed")
    BY <2>1, <2>2, <2>4 DEF connVars, ToGuestSoon, NoResetOnceAnswered
  <2>5. CASE \E n \in GuestChunks : GuestSend(n)
    BY <2>4, <2>5 DEF GuestSend
  <2>6. CASE \E size \in GuestBufSizes : GuestResize(size)
    BY <2>4, <2>6 DEF GuestResize
  <2>7. CASE GuestRead \/ GuestClose \/ GuestAskCredit \/ GuestTimeout
    BY <2>4, <2>7 DEF GuestRead, GuestClose, GuestAskCredit, GuestTimeout, guestVars
  <2> QED
    BY <1>1, <2>3, <2>5, <2>6, <2>7 DEF Guest
<1>2. CASE Host
  BY <1>2 DEF Host, HostWrite, HostRead, HostClose, connVars, guestVars, ToGuestSoon, ToDeviceSoon, NoResetOnceAnswered
<1> QED
  BY <1>1, <1>2 DEF vars, connVars, guestVars, hostVars, ToGuestSoon, ToDeviceSoon, NoResetOnceAnswered

\* The two properties of a stream that is to be read, by one invariant.
LEMMA ListenHolds == Spec => [](NoResetOnceAnswered /\ ReadNotForgotten)
<1> DEFINE Listen == NoResetOnceAnswered /\ ReadNotForgotten
<1>1. Init => Listen
  <2> SUFFICES ASSUME Init PROVE Listen
    OBVIOUS
  <2>1. interest = "inout"
    BY DEF Init
  <2>2. \A i \in 1 .. Len(rxring) : rxring[i].op # "RST"
    <3>1. PICK busy \in RxBusy : rxring = [i \in 1 .. busy |-> DevicePacket("OTHER", 0, 0)]
      BY DEF Init
    <3>2. \A i \in 1 .. Len(rxring) : rxring[i].op = "OTHER"
      BY <3>1, FlowAssumption DEF DevicePacket
    <3> QED
      BY <3>2
  <2> QED
    BY <2>1, <2>2 DEF NoResetOnceAnswered, ReadNotForgotten
<1>2. TypeOK /\ TypeOK' /\ Opening /\ ReadHasReason /\ Listen /\ [Next]_vars => Listen'
  BY ListenDevice, ListenOutside DEF Next
<1> HIDE DEF Listen
<1>3. Spec => []Listen
  BY <1>1, <1>2, TypeCorrect, OpeningHeld, ReasonHeld, PTL DEF Spec
<1> QED
  BY <1>3, PTL DEF Listen


(***************************************************************************)
(* A connection that the device keeps is never reset after the guest was   *)
(* told that it is established, unless the host application has closed:    *)
(* a reset that comes too early has the answer behind it (recv_pkt() of    *)
(* VsockConnection, when it is not connected yet).                         *)
(***************************************************************************)
THEOREM ResetsComeFirst == Spec => []NoResetOnceAnswered
  BY ListenHolds, PTL

(***************************************************************************)
(* A stream that is not watched has a read pending, or the guest is being  *)
(* asked for credit, or about to be reset: epoll is never left for good    *)
(* (epoll_unregister() at a wake-up, EPOLL_CTL_MOD and _ADD afterwards).   *)
(***************************************************************************)
THEOREM ReadsAreRemembered == Spec => []ReadNotForgotten
  BY ListenHolds, PTL

-----------------------------------------------------------------------------
(***************************************************************************)
(* What reaches the guest.  Ahead(x) is how far the device's stream to the *)
(* guest is ahead of a count x of the guest.  The counts that the guest    *)
(* has sent are further behind the earlier it has sent them, the one that  *)
(* the connection knows furthest, and the buffer only grows; the bytes of  *)
(* the packets on their way follow each other: Sent is where each begins,  *)
(* from the guest's own count.                                             *)
(***************************************************************************)
Ahead(x) == Minus(rx_cnt, x)

CountsInOrder ==
  /\ Ahead(peer_fwd_cnt) <= peer_buf_alloc
  /\ Ahead(g_fwd_cnt) <= Ahead(peer_fwd_cnt)
  /\ peer_buf_alloc <= g_buf_alloc
  /\ \A i \in 1 .. Len(txring) :
       /\ Ahead(g_fwd_cnt) <= Ahead(txring[i].fwd_cnt)
       /\ Ahead(txring[i].fwd_cnt) <= Ahead(peer_fwd_cnt)
       /\ peer_buf_alloc <= txring[i].buf_alloc
       /\ txring[i].buf_alloc <= g_buf_alloc
  /\ \A i, j \in 1 .. Len(txring) : i < j =>
       /\ Ahead(txring[j].fwd_cnt) <= Ahead(txring[i].fwd_cnt)
       /\ txring[i].buf_alloc <= txring[j].buf_alloc

Places == 0 .. Wrap

Sent(place) ==
  /\ \A i \in 1 .. Len(rxring) :
       g_unread <= place[i] /\ place[i] + rxring[i].len <= Ahead(g_fwd_cnt)
  /\ \A i, j \in 1 .. Len(rxring) : i < j => place[i] + rxring[i].len <= place[j]

DataFits ==
  /\ g_unread <= Ahead(g_fwd_cnt)
  /\ \E place \in [1 .. Len(rxring) -> Places] : Sent(place)

LEMMA CountTypes ==
  ASSUME TypeOK
  PROVE  /\ Len(txring) \in Nat /\ Len(rxring) \in Nat
         /\ \A i \in 1 .. Len(txring) :
              txring[i].fwd_cnt \in Counter /\ txring[i].buf_alloc \in Counter
         /\ \A i \in 1 .. Len(rxring) : rxring[i].len \in Nat
         /\ \A x \in Counter : Ahead(x) \in Nat /\ Ahead(x) < Wrap
         /\ rx_cnt \in Counter /\ g_fwd_cnt \in Counter /\ peer_fwd_cnt \in Counter
         /\ g_buf_alloc \in Nat /\ peer_buf_alloc \in Nat /\ g_unread \in Nat
         /\ Wrap \in Nat /\ peer_buf_alloc < Wrap /\ \A x \in Counter : x \in Nat
<1>1. Len(txring) \in Nat /\ \A i \in 1 .. Len(txring) : txring[i] \in GuestPackets
  BY DEF TypeOK
<1>2. Len(rxring) \in Nat /\ \A i \in 1 .. Len(rxring) : rxring[i] \in DevicePackets
  BY DEF TypeOK
<1>3. \A pkt \in GuestPackets : pkt.fwd_cnt \in Counter /\ pkt.buf_alloc \in Counter
  BY DEF GuestPackets
<1>4. \A x \in Counter : x \in Nat /\ x < Wrap
  BY FlowAssumption DEF Counter
<1>5. \A pkt \in DevicePackets : pkt.len \in Nat
  BY <1>4 DEF DevicePackets
<1>6. \A x \in Counter : Ahead(x) \in Nat /\ Ahead(x) < Wrap
  BY DistanceType DEF Ahead, TypeOK
<1> QED
  BY <1>1, <1>2, <1>3, <1>4, <1>5, <1>6, FlowAssumption DEF TypeOK

-----------------------------------------------------------------------------
\* The order of the counts, through each thing that happens to them.

\* The device takes a packet and believes it, or not.
LEMMA CountsTaken ==
  ASSUME TypeOK, CountsInOrder, txring # <<>>, txring' = Tail(txring),
         \/ peer_fwd_cnt' = Head(txring).fwd_cnt /\ peer_buf_alloc' = Head(txring).buf_alloc
         \/ UNCHANGED <<peer_fwd_cnt, peer_buf_alloc>>,
         UNCHANGED <<rx_cnt, g_fwd_cnt, g_buf_alloc>>
  PROVE  CountsInOrder'
<1>1. Head(txring) = txring[1] /\ Len(txring) \in Nat \ {0} /\ Len(txring') = Len(txring) - 1
      /\ \A i \in 1 .. Len(txring') : txring'[i] = txring[i + 1]
  BY TailFacts DEF TypeOK
<1>2. 1 \in 1 .. Len(txring)
      /\ \A i \in 1 .. Len(txring') : i + 1 \in 1 .. Len(txring) /\ 1 < i + 1
  BY <1>1
<1>3. /\ \A i \in 1 .. Len(txring) : Ahead(txring[i].fwd_cnt) \in Nat /\ txring[i].buf_alloc \in Nat
      /\ Ahead(peer_fwd_cnt) \in Nat /\ Ahead(g_fwd_cnt) \in Nat
      /\ peer_buf_alloc \in Nat /\ g_buf_alloc \in Nat
  BY CountTypes
<1>4. /\ Ahead(peer_fwd_cnt') <= peer_buf_alloc'
      /\ Ahead(g_fwd_cnt) <= Ahead(peer_fwd_cnt')
      /\ peer_buf_alloc' <= g_buf_alloc
  <2>1. CASE UNCHANGED <<peer_fwd_cnt, peer_buf_alloc>>
    BY <2>1 DEF CountsInOrder
  <2>2. CASE peer_fwd_cnt' = txring[1].fwd_cnt /\ peer_buf_alloc' = txring[1].buf_alloc
    <3>1. /\ Ahead(txring[1].fwd_cnt) <= Ahead(peer_fwd_cnt) /\ peer_buf_alloc <= txring[1].buf_alloc
          /\ Ahead(g_fwd_cnt) <= Ahead(txring[1].fwd_cnt) /\ txring[1].buf_alloc <= g_buf_alloc
          /\ Ahead(peer_fwd_cnt) <= peer_buf_alloc
      BY <1>2 DEF CountsInOrder
    <3>2. Ahead(txring[1].fwd_cnt) <= txring[1].buf_alloc
      BY <1>2, <1>3, <3>1
    <3> QED
      BY <2>2, <3>1, <3>2
  <2> QED
    BY <1>1, <2>1, <2>2
<1>5. \A i \in 1 .. Len(txring') :
        /\ Ahead(g_fwd_cnt) <= Ahead(txring'[i].fwd_cnt)
        /\ Ahead(txring'[i].fwd_cnt) <= Ahead(peer_fwd_cnt')
        /\ peer_buf_alloc' <= txring'[i].buf_alloc
        /\ txring'[i].buf_alloc <= g_buf_alloc
  <2> SUFFICES ASSUME NEW i \in 1 .. Len(txring')
               PROVE  /\ Ahead(g_fwd_cnt) <= Ahead(txring[i + 1].fwd_cnt)
                      /\ Ahead(txring[i + 1].fwd_cnt) <= Ahead(peer_fwd_cnt')
                      /\ peer_buf_alloc' <= txring[i + 1].buf_alloc
                      /\ txring[i + 1].buf_alloc <= g_buf_alloc
    BY <1>1
  <2>1. /\ Ahead(txring[i + 1].fwd_cnt) <= Ahead(txring[1].fwd_cnt)
        /\ txring[1].buf_alloc <= txring[i + 1].buf_alloc
    BY <1>2 DEF CountsInOrder
  <2>2. /\ Ahead(g_fwd_cnt) <= Ahead(txring[i + 1].fwd_cnt)
        /\ Ahead(txring[i + 1].fwd_cnt) <= Ahead(peer_fwd_cnt)
        /\ peer_buf_alloc <= txring[i + 1].buf_alloc
        /\ txring[i + 1].buf_alloc <= g_buf_alloc
    BY <1>2 DEF CountsInOrder
  <2> QED
    BY <1>1, <2>1, <2>2
<1>6. \A i, j \in 1 .. Len(txring') : i < j =>
        /\ Ahead(txring'[j].fwd_cnt) <= Ahead(txring'[i].fwd_cnt)
        /\ txring'[i].buf_alloc <= txring'[j].buf_alloc
  <2> SUFFICES ASSUME NEW i \in 1 .. Len(txring'), NEW j \in 1 .. Len(txring'), i < j
               PROVE  /\ Ahead(txring[j + 1].fwd_cnt) <= Ahead(txring[i + 1].fwd_cnt)
                      /\ txring[i + 1].buf_alloc <= txring[j + 1].buf_alloc
    BY <1>1
  <2>1. i + 1 < j + 1 /\ i + 1 \in 1 .. Len(txring) /\ j + 1 \in 1 .. Len(txring)
    BY <1>2
  <2> QED
    BY <2>1 DEF CountsInOrder
<1> QED
  BY <1>4, <1>5, <1>6 DEF CountsInOrder, Ahead

\* The device reads len bytes of the host, within the credit that it believes
\* it has: it is len bytes further ahead of everything.
LEMMA CreditObeyed ==
  ASSUME TypeOK, CountsInOrder, NEW len \in Nat, len <= PeerAvailCredit,
         NEW x \in Counter, Ahead(x) <= Ahead(peer_fwd_cnt)
  PROVE  /\ Minus(Plus(rx_cnt, len), x) = Ahead(x) + len
         /\ Ahead(x) + len <= peer_buf_alloc
<1>1. /\ Ahead(x) \in Nat /\ Ahead(peer_fwd_cnt) \in Nat /\ peer_buf_alloc \in Nat
      /\ peer_buf_alloc < Wrap /\ Wrap \in Nat /\ rx_cnt \in Counter
  BY CountTypes
<1>2. Ahead(peer_fwd_cnt) <= peer_buf_alloc
  BY DEF CountsInOrder
<1>3. PeerAvailCredit = peer_buf_alloc - Ahead(peer_fwd_cnt)
  BY <1>1, <1>2 DEF PeerAvailCredit, Ahead, Minus
<1>4. Ahead(x) + len <= peer_buf_alloc
  BY <1>1, <1>3
<1> QED
  BY <1>1, <1>4, DistanceGrows DEF Ahead

LEMMA CountsRead ==
  ASSUME TypeOK, CountsInOrder, NEW len \in Nat, len <= PeerAvailCredit,
         rx_cnt' = Plus(rx_cnt, len),
         UNCHANGED <<txring, peer_fwd_cnt, peer_buf_alloc, g_fwd_cnt, g_buf_alloc>>
  PROVE  CountsInOrder'
<1>1. /\ Ahead(peer_fwd_cnt) \in Nat /\ Ahead(g_fwd_cnt) \in Nat
      /\ peer_fwd_cnt \in Counter /\ g_fwd_cnt \in Counter
      /\ \A i \in 1 .. Len(txring) : txring[i].fwd_cnt \in Counter /\ Ahead(txring[i].fwd_cnt) \in Nat
  BY CountTypes
<1>2. /\ Minus(rx_cnt', peer_fwd_cnt) = Ahead(peer_fwd_cnt) + len
      /\ Ahead(peer_fwd_cnt) + len <= peer_buf_alloc
  BY <1>1, CreditObeyed
<1>3. Minus(rx_cnt', g_fwd_cnt) = Ahead(g_fwd_cnt) + len
  BY <1>1, CreditObeyed DEF CountsInOrder
<1>4. \A i \in 1 .. Len(txring) : Minus(rx_cnt', txring[i].fwd_cnt) = Ahead(txring[i].fwd_cnt) + len
  BY <1>1, CreditObeyed DEF CountsInOrder
<1>5. Ahead(g_fwd_cnt) + len <= Ahead(peer_fwd_cnt) + len
  BY <1>1 DEF CountsInOrder
<1>6. \A i \in 1 .. Len(txring) :
        /\ Ahead(g_fwd_cnt) + len <= Ahead(txring[i].fwd_cnt) + len
        /\ Ahead(txring[i].fwd_cnt) + len <= Ahead(peer_fwd_cnt) + len
  BY <1>1 DEF CountsInOrder
<1>7. \A i, j \in 1 .. Len(txring) : i < j =>
        Ahead(txring[j].fwd_cnt) + len <= Ahead(txring[i].fwd_cnt) + len
  BY <1>1 DEF CountsInOrder
<1> QED
  BY <1>2, <1>3, <1>4, <1>5, <1>6, <1>7 DEF CountsInOrder, Ahead

\* The guest's count and buffer grow, and it may tell the device.
LEMMA CountsTold ==
  ASSUME TypeOK, TypeOK', CountsInOrder,
         Ahead(g_fwd_cnt') <= Ahead(g_fwd_cnt), g_buf_alloc <= g_buf_alloc',
         \/ UNCHANGED txring
         \/ \E pkt \in GuestPackets : /\ txring' = Append(txring, pkt)
                                      /\ pkt.fwd_cnt = g_fwd_cnt' /\ pkt.buf_alloc = g_buf_alloc',
         UNCHANGED <<rx_cnt, peer_fwd_cnt, peer_buf_alloc>>
  PROVE  CountsInOrder'
<1>1. /\ \A i \in 1 .. Len(txring) : Ahead(txring[i].fwd_cnt) \in Nat /\ txring[i].buf_alloc \in Nat
      /\ Ahead(peer_fwd_cnt) \in Nat /\ Ahead(g_fwd_cnt) \in Nat
      /\ peer_buf_alloc \in Nat /\ g_buf_alloc \in Nat /\ Len(txring) \in Nat
  BY CountTypes
<1>2. g_fwd_cnt' \in Counter /\ g_buf_alloc' \in Nat
  BY CountTypes, FlowAssumption DEF TypeOK, Counter
<1>3. Ahead(g_fwd_cnt') \in Nat
  BY <1>2, CountTypes
<1>4. /\ Ahead(g_fwd_cnt') <= Ahead(peer_fwd_cnt) /\ peer_buf_alloc <= g_buf_alloc'
  BY <1>1, <1>2, <1>3 DEF CountsInOrder
<1>5. \A i \in 1 .. Len(txring) :
        /\ Ahead(g_fwd_cnt') <= Ahead(txring[i].fwd_cnt)
        /\ txring[i].buf_alloc <= g_buf_alloc'
  BY <1>1, <1>2, <1>3 DEF CountsInOrder
<1>6. CASE UNCHANGED txring
  BY <1>4, <1>5, <1>6 DEF CountsInOrder, Ahead
<1>7. ASSUME NEW pkt \in GuestPackets, txring' = Append(txring, pkt),
             pkt.fwd_cnt = g_fwd_cnt', pkt.buf_alloc = g_buf_alloc'
      PROVE  CountsInOrder'
  <2>1. Len(txring') = Len(txring) + 1 /\ txring'[Len(txring) + 1] = pkt
        /\ \A i \in 1 .. Len(txring) : txring'[i] = txring[i]
    BY <1>7, AppendFacts DEF TypeOK
  <2>2. \A i \in 1 .. Len(txring') : i \in 1 .. Len(txring) \/ i = Len(txring) + 1
    BY <1>1, <2>1
  <2>3. \A i \in 1 .. Len(txring') :
          /\ Ahead(g_fwd_cnt') <= Ahead(txring'[i].fwd_cnt)
          /\ Ahead(txring'[i].fwd_cnt) <= Ahead(peer_fwd_cnt)
          /\ peer_buf_alloc <= txring'[i].buf_alloc
          /\ txring'[i].buf_alloc <= g_buf_alloc'
    <3> SUFFICES ASSUME NEW i \in 1 .. Len(txring')
                 PROVE  /\ Ahead(g_fwd_cnt') <= Ahead(txring'[i].fwd_cnt)
                        /\ Ahead(txring'[i].fwd_cnt) <= Ahead(peer_fwd_cnt)
                        /\ peer_buf_alloc <= txring'[i].buf_alloc
                        /\ txring'[i].buf_alloc <= g_buf_alloc'
      OBVIOUS
    <3>1. CASE i \in 1 .. Len(txring)
      BY <1>5, <2>1, <3>1 DEF CountsInOrder
    <3>2. CASE i = Len(txring) + 1
      BY <1>2, <1>3, <1>4, <1>7, <2>1, <3>2
    <3> QED
      BY <2>2, <3>1, <3>2
  <2>4. \A i, j \in 1 .. Len(txring') : i < j =>
          /\ Ahead(txring'[j].fwd_cnt) <= Ahead(txring'[i].fwd_cnt)
          /\ txring'[i].buf_alloc <= txring'[j].buf_alloc
    <3> SUFFICES ASSUME NEW i \in 1 .. Len(txring'), NEW j \in 1 .. Len(txring'), i < j
                 PROVE  /\ Ahead(txring'[j].fwd_cnt) <= Ahead(txring'[i].fwd_cnt)
                        /\ txring'[i].buf_alloc <= txring'[j].buf_alloc
      OBVIOUS
    <3>1. i \in 1 .. Len(txring) /\ txring'[i] = txring[i]
      BY <1>1, <2>1
    <3>2. CASE j \in 1 .. Len(txring)
      BY <2>1, <3>1, <3>2 DEF CountsInOrder
    <3>3. CASE j = Len(txring) + 1
      BY <1>5, <1>7, <2>1, <3>1, <3>3
    <3> QED
      BY <2>2, <3>2, <3>3
  <2> QED
    BY <1>4, <2>3, <2>4 DEF CountsInOrder, Ahead
<1> QED
  BY <1>6, <1>7

-----------------------------------------------------------------------------
\* The bytes on their way, through each thing that happens to them.

\* A packet with len bytes more joins the rx ring: it is placed at the end.
LEMMA FitsFilled ==
  ASSUME TypeOK, TypeOK', DataFits, NEW len \in Nat, NEW pkt \in DevicePackets, pkt.len = len,
         rxring' = Append(rxring, pkt), UNCHANGED <<g_fwd_cnt, g_unread>>,
         Minus(rx_cnt', g_fwd_cnt) = Ahead(g_fwd_cnt) + len
  PROVE  DataFits'
<1>1. /\ Ahead(g_fwd_cnt) \in Nat /\ g_unread \in Nat /\ Wrap \in Nat /\ Ahead(g_fwd_cnt) < Wrap
      /\ \A i \in 1 .. Len(rxring) : rxring[i].len \in Nat
  BY CountTypes
<1>2. /\ Len(rxring) \in Nat /\ Len(rxring') = Len(rxring) + 1 /\ rxring'[Len(rxring) + 1] = pkt
      /\ \A i \in 1 .. Len(rxring) : rxring'[i] = rxring[i]
  BY AppendFacts DEF TypeOK
<1>3. PICK place \in [1 .. Len(rxring) -> Places] : Sent(place)
  BY DEF DataFits
<1>4. (Ahead(g_fwd_cnt))' = Ahead(g_fwd_cnt) + len
  BY DEF Ahead
<1>5. PICK end \in [1 .. Len(rxring') -> Places] :
        /\ \A i \in 1 .. Len(rxring) : end[i] = place[i] /\ place[i] \in Nat
        /\ end[Len(rxring) + 1] = Ahead(g_fwd_cnt)
  <2> DEFINE e == [i \in 1 .. Len(rxring') |-> IF i \in 1 .. Len(rxring) THEN place[i] ELSE Ahead(g_fwd_cnt)]
  <2>1. /\ Ahead(g_fwd_cnt) \in Places /\ Len(rxring) + 1 \in 1 .. Len(rxring')
        /\ Len(rxring) + 1 \notin 1 .. Len(rxring)
    BY <1>1, <1>2 DEF Places
  <2>2. \A i \in 1 .. Len(rxring) : place[i] \in Places /\ place[i] \in Nat
    BY <1>3 DEF Places
  <2>3. \A i \in 1 .. Len(rxring) : i \in 1 .. Len(rxring')
    BY <1>2
  <2>4. e \in [1 .. Len(rxring') -> Places]
    BY <2>1, <2>2, <2>3
  <2>5. /\ \A i \in 1 .. Len(rxring) : e[i] = place[i] /\ place[i] \in Nat
        /\ e[Len(rxring) + 1] = Ahead(g_fwd_cnt)
    BY <2>1, <2>2, <2>3
  <2> HIDE DEF e
  <2> QED
    BY <2>4, <2>5
<1>6. \A i \in 1 .. Len(rxring') : i \in 1 .. Len(rxring) \/ i = Len(rxring) + 1
  BY <1>2
<1>7. \A i \in 1 .. Len(rxring') :
        g_unread <= end[i] /\ end[i] + rxring'[i].len <= Ahead(g_fwd_cnt) + len
  <2> SUFFICES ASSUME NEW i \in 1 .. Len(rxring')
               PROVE  g_unread <= end[i] /\ end[i] + rxring'[i].len <= Ahead(g_fwd_cnt) + len
    OBVIOUS
  <2>1. CASE i \in 1 .. Len(rxring)
    <3>1. /\ g_unread <= place[i] /\ place[i] + rxring[i].len <= Ahead(g_fwd_cnt)
          /\ rxring[i].len \in Nat /\ place[i] \in Nat
      BY <1>1, <1>3, <1>5, <2>1 DEF Sent
    <3> QED
      BY <1>1, <1>2, <1>5, <2>1, <3>1
  <2>2. CASE i = Len(rxring) + 1
    <3>1. g_unread <= Ahead(g_fwd_cnt) /\ end[i] = Ahead(g_fwd_cnt) /\ rxring'[i].len = len
      BY <1>2, <1>5, <2>2 DEF DataFits
    <3> QED
      BY <1>1, <3>1
  <2> QED
    BY <1>6, <2>1, <2>2
<1>8. \A i, j \in 1 .. Len(rxring') : i < j => end[i] + rxring'[i].len <= end[j]
  <2> SUFFICES ASSUME NEW i \in 1 .. Len(rxring'), NEW j \in 1 .. Len(rxring'), i < j
               PROVE  end[i] + rxring'[i].len <= end[j]
    OBVIOUS
  <2>1. i \in 1 .. Len(rxring) /\ rxring'[i] = rxring[i] /\ end[i] = place[i]
    BY <1>2, <1>5
  <2>2. CASE j \in 1 .. Len(rxring)
    BY <1>3, <1>5, <2>1, <2>2 DEF Sent
  <2>3. CASE j = Len(rxring) + 1
    BY <1>3, <1>5, <2>1, <2>3 DEF Sent
  <2> QED
    BY <1>6, <2>2, <2>3
<1>9. g_unread' <= (Ahead(g_fwd_cnt))'
  BY <1>1, <1>4 DEF DataFits
<1>10. Sent(end)'
  BY <1>4, <1>7, <1>8 DEF Sent
<1> QED
  BY <1>5, <1>9, <1>10 DEF DataFits, Places

\* The guest takes a packet and keeps its bytes, or drops them.
LEMMA FitsTaken ==
  ASSUME TypeOK, DataFits, rxring # <<>>, rxring' = Tail(rxring),
         g_unread' \in {g_unread, g_unread + Head(rxring).len},
         UNCHANGED <<rx_cnt, g_fwd_cnt>>
  PROVE  DataFits'
<1>1. Head(rxring) = rxring[1] /\ Len(rxring) \in Nat \ {0} /\ Len(rxring') = Len(rxring) - 1
      /\ \A i \in 1 .. Len(rxring') : rxring'[i] = rxring[i + 1]
  BY TailFacts DEF TypeOK
<1>2. /\ 1 \in 1 .. Len(rxring)
      /\ \A i \in 1 .. Len(rxring') : i + 1 \in 1 .. Len(rxring) /\ 1 < i + 1
  BY <1>1
<1>3. PICK place \in [1 .. Len(rxring) -> Places] : Sent(place)
  BY DEF DataFits
<1>4. PICK rest \in [1 .. Len(rxring') -> Places] : \A i \in 1 .. Len(rxring') : rest[i] = place[i + 1]
  <2> DEFINE r == [i \in 1 .. Len(rxring') |-> place[i + 1]]
  <2>1. r \in [1 .. Len(rxring') -> Places] /\ \A i \in 1 .. Len(rxring') : r[i] = place[i + 1]
    BY <1>2, <1>3
  <2> HIDE DEF r
  <2> QED
    BY <2>1
<1>5. /\ \A i \in 1 .. Len(rxring) : place[i] \in Nat /\ rxring[i].len \in Nat
      /\ g_unread \in Nat /\ Ahead(g_fwd_cnt) \in Nat
  BY <1>3, CountTypes DEF Places
<1>6. /\ g_unread <= place[1] /\ place[1] + rxring[1].len <= Ahead(g_fwd_cnt)
      /\ \A i \in 1 .. Len(rxring') :
           /\ place[1] + rxring[1].len <= place[i + 1]
           /\ place[i + 1] + rxring[i + 1].len <= Ahead(g_fwd_cnt)
  BY <1>2, <1>3 DEF Sent
<1>7. \A n \in Nat : place[1] + rxring[1].len <= n => g_unread' <= n
  BY <1>1, <1>2, <1>5, <1>6
<1>8. \A i \in 1 .. Len(rxring') :
        g_unread' <= rest[i] /\ rest[i] + rxring'[i].len <= Ahead(g_fwd_cnt)
  BY <1>1, <1>2, <1>4, <1>5, <1>6, <1>7
<1>9. \A i, j \in 1 .. Len(rxring') : i < j => rest[i] + rxring'[i].len <= rest[j]
  <2> SUFFICES ASSUME NEW i \in 1 .. Len(rxring'), NEW j \in 1 .. Len(rxring'), i < j
               PROVE  rest[i] + rxring'[i].len <= rest[j]
    OBVIOUS
  <2>1. i + 1 < j + 1 /\ i + 1 \in 1 .. Len(rxring) /\ j + 1 \in 1 .. Len(rxring)
    BY <1>2
  <2> QED
    BY <1>1, <1>3, <1>4, <2>1 DEF Sent
<1>10. Sent(rest)'
  BY <1>8, <1>9 DEF Sent, Ahead
<1>11. g_unread' <= Ahead(g_fwd_cnt)
  BY <1>5, <1>6, <1>7
<1> QED
  BY <1>4, <1>10, <1>11 DEF DataFits, Ahead, Places

\* The guest's application reads what there is: its count comes closer.
LEMMA FitsRead ==
  ASSUME TypeOK, DataFits, g_unread' = 0, g_fwd_cnt' = Plus(g_fwd_cnt, g_unread),
         UNCHANGED <<rx_cnt, rxring>>
  PROVE  DataFits' /\ Ahead(g_fwd_cnt') <= Ahead(g_fwd_cnt)
<1>1. PICK place \in [1 .. Len(rxring) -> Places] : Sent(place)
  BY DEF DataFits
<1>2. /\ \A i \in 1 .. Len(rxring) : place[i] \in Nat /\ place[i] <= Wrap /\ rxring[i].len \in Nat
      /\ g_unread \in Nat /\ Ahead(g_fwd_cnt) \in Nat /\ Wrap \in Nat
      /\ g_unread <= Ahead(g_fwd_cnt) /\ rx_cnt \in Counter /\ g_fwd_cnt \in Counter
  BY <1>1, CountTypes DEF Places, DataFits
<1>3. Ahead(g_fwd_cnt') = Ahead(g_fwd_cnt) - g_unread
  BY <1>2, DistanceShrinks DEF Ahead
<1>4. \A i \in 1 .. Len(rxring) : place[i] - g_unread \in Places
  BY <1>1, <1>2 DEF Sent, Places
<1>5. PICK nearer \in [1 .. Len(rxring) -> Places] :
        \A i \in 1 .. Len(rxring) : nearer[i] = place[i] - g_unread
  <2> DEFINE n == [i \in 1 .. Len(rxring) |-> place[i] - g_unread]
  <2>1. n \in [1 .. Len(rxring) -> Places] /\ \A i \in 1 .. Len(rxring) : n[i] = place[i] - g_unread
    BY <1>4
  <2> HIDE DEF n
  <2> QED
    BY <2>1
<1>6. \A i \in 1 .. Len(rxring) :
        0 <= nearer[i] /\ nearer[i] + rxring[i].len <= Ahead(g_fwd_cnt) - g_unread
  <2> SUFFICES ASSUME NEW i \in 1 .. Len(rxring)
               PROVE  0 <= nearer[i] /\ nearer[i] + rxring[i].len <= Ahead(g_fwd_cnt) - g_unread
    OBVIOUS
  <2>1. g_unread <= place[i] /\ place[i] + rxring[i].len <= Ahead(g_fwd_cnt)
    BY <1>1 DEF Sent
  <2> QED
    BY <1>2, <1>5, <2>1
<1>7. \A i, j \in 1 .. Len(rxring) : i < j => nearer[i] + rxring[i].len <= nearer[j]
  <2> SUFFICES ASSUME NEW i \in 1 .. Len(rxring), NEW j \in 1 .. Len(rxring), i < j
               PROVE  nearer[i] + rxring[i].len <= nearer[j]
    OBVIOUS
  <2>1. place[i] + rxring[i].len <= place[j]
    BY <1>1 DEF Sent
  <2> QED
    BY <1>2, <1>5, <2>1
<1>8. (Ahead(g_fwd_cnt))' = Ahead(g_fwd_cnt) - g_unread
  BY <1>3 DEF Ahead
<1>9. Sent(nearer)'
  BY <1>6, <1>7, <1>8 DEF Sent
<1>10. 0 <= Ahead(g_fwd_cnt) - g_unread
  BY <1>2
<1> QED
  BY <1>2, <1>3, <1>5, <1>8, <1>9, <1>10 DEF DataFits, Places

-----------------------------------------------------------------------------
LEMMA ReceiveInit == Init => CountsInOrder /\ DataFits
<1> SUFFICES ASSUME Init PROVE CountsInOrder /\ DataFits
  OBVIOUS
<1>1. /\ peer_fwd_cnt = 0 /\ g_fwd_cnt = 0 /\ rx_cnt = 0 /\ g_unread = 0 /\ txring = <<>>
      /\ g_buf_alloc \in GuestBufSizes /\ peer_buf_alloc \in {0, g_buf_alloc}
  BY DEF Init
<1>2. PICK busy \in RxBusy : rxring = [i \in 1 .. busy |-> DevicePacket("OTHER", 0, 0)]
  BY DEF Init
<1>3. Ahead(0) = 0 /\ g_buf_alloc \in Nat
  BY <1>1, FlowAssumption DEF Ahead, Minus
<1>4. CountsInOrder
  BY <1>1, <1>3 DEF CountsInOrder
<1>5. busy \in Nat /\ Len(rxring) = busy /\ \A i \in 1 .. busy : rxring[i].len = 0
  BY <1>2, FlowAssumption DEF DevicePacket
<1>6. PICK place \in [1 .. Len(rxring) -> Places] : \A i \in 1 .. Len(rxring) : place[i] = 0
  <2>1. [i \in 1 .. Len(rxring) |-> 0] \in [1 .. Len(rxring) -> Places]
    BY FlowAssumption DEF Places
  <2> QED
    BY <2>1
<1>7. Sent(place)
  BY <1>1, <1>3, <1>5, <1>6 DEF Sent
<1> QED
  BY <1>1, <1>3, <1>4, <1>7 DEF DataFits

LEMMA ReceiveDevice ==
  ASSUME TypeOK, TypeOK', CountsInOrder, DataFits, Device
  PROVE  CountsInOrder' /\ DataFits'
<1>0. UNCHANGED <<g_fwd_cnt, g_buf_alloc, g_unread>>
  BY DEF Device, WakeTx, WakeRx, FlushTxBuf, EnqueueRead, DeviceTx, TxDone, TxUnknown, TxResponse, TxRw,
     TxCreditUpdate, TxCreditRequest, TxShutdown, TxRst, Forward, DeviceRx, RxDone, RxUnknown, RxNothing,
     RxReset, RxRequest, RxResponse, RxCreditUpdate, RxNotConnected, RxNeedCredit, RxEndOfFile,
     RxReadFails, RxRead, Dequeue, PopKey, guestVars
<1>1. UNCHANGED <<rx_cnt, peer_fwd_cnt, peer_buf_alloc, txring>> => CountsInOrder'
  BY <1>0 DEF CountsInOrder, Ahead
<1>2. UNCHANGED <<rx_cnt, rxring>> => DataFits'
  BY <1>0 DEF DataFits, Sent, Ahead, Places
<1>3. CASE WakeTx \/ WakeRx \/ FlushTxBuf \/ EnqueueRead \/ TxDone \/ RxDone \/ RxNothing
  BY <1>1, <1>2, <1>3 DEF WakeTx, WakeRx, FlushTxBuf, EnqueueRead, TxDone, RxDone, RxNothing, PopKey,
     connVars, credit
<1>4. CASE TxUnknown \/ TxResponse \/ TxRw \/ TxCreditUpdate \/ TxCreditRequest \/ TxShutdown \/ TxRst
  <2>1. /\ txring # <<>> /\ txring' = Tail(txring) /\ UNCHANGED <<rx_cnt, rxring>>
        /\ \/ peer_fwd_cnt' = Head(txring).fwd_cnt /\ peer_buf_alloc' = Head(txring).buf_alloc
           \/ UNCHANGED <<peer_fwd_cnt, peer_buf_alloc>>
    BY <1>4 DEF TxUnknown, TxResponse, TxRw, TxCreditUpdate, TxCreditRequest, TxShutdown, TxRst,
       Forward, TakePacket, Remove, connVars, credit
  <2> QED
    BY <1>0, <1>2, <2>1, CountsTaken
<1>5. ASSUME NEW pkt \in DevicePackets, pkt.len = 0, rxring' = Append(rxring, pkt),
             UNCHANGED <<rx_cnt, peer_fwd_cnt, peer_buf_alloc, txring>>
      PROVE  CountsInOrder' /\ DataFits'
  <2>1. Minus(rx_cnt', g_fwd_cnt) = Ahead(g_fwd_cnt) + 0
    BY <1>5, CountTypes DEF Ahead
  <2> QED
    BY <1>0, <1>1, <1>5, <2>1, FitsFilled
<1>6. /\ \A op \in DeviceOps : DevicePacket(op, 0, fwd_cnt) \in DevicePackets
      /\ \A op \in DeviceOps : DevicePacket(op, 0, 0) \in DevicePackets
      /\ DeviceOps = {"REQUEST", "RESPONSE", "RW", "CREDIT_UPDATE", "CREDIT_REQUEST",
                      "SHUTDOWN", "RST", "INVALID", "UNSET", "OTHER"}
  BY PacketTypes DEF TypeOK, DeviceOps
<1>7. CASE RxUnknown \/ RxReset
  BY <1>5, <1>6, <1>7 DEF RxUnknown, RxReset, PopKey, DevicePacket
<1>8. CASE RxRequest \/ RxResponse \/ RxCreditUpdate \/ RxNotConnected \/ RxNeedCredit
           \/ RxEndOfFile \/ RxReadFails
  <2>1. /\ \E op \in {"REQUEST", "RESPONSE", "CREDIT_UPDATE", "INVALID", "RST",
                      "CREDIT_REQUEST", "SHUTDOWN"} : rxring' = Append(rxring, DevicePacket(op, 0, fwd_cnt))
        /\ UNCHANGED <<rx_cnt, peer_fwd_cnt, peer_buf_alloc, txring>>
    BY <1>8 DEF RxRequest, RxResponse, RxCreditUpdate, RxNotConnected, RxNeedCredit, RxEndOfFile,
       RxReadFails, Dequeue, PopKey, Fill
  <2> QED
    BY <1>5, <1>6, <2>1 DEF DevicePacket
<1>9. ASSUME NEW len \in 1 .. SockCap, RxRead(len)
      PROVE  CountsInOrder' /\ DataFits'
  <2>1. /\ len \in Nat /\ len <= PeerAvailCredit /\ rx_cnt' = Plus(rx_cnt, len)
        /\ rxring' = Append(rxring, DevicePacket("RW", len, fwd_cnt))
        /\ UNCHANGED <<peer_fwd_cnt, peer_buf_alloc, txring>>
    BY <1>9, FlowAssumption DEF RxRead, Dequeue, PopKey, Fill
  <2>2. PeerAvailCredit \in Counter
    BY CounterType DEF PeerAvailCredit, TypeOK
  <2>3. len \in Counter
    BY <2>1, <2>2, FlowAssumption DEF Counter
  <2>4. DevicePacket("RW", len, fwd_cnt) \in DevicePackets /\ DevicePacket("RW", len, fwd_cnt).len = len
    BY <1>6, <2>3, PacketTypes DEF TypeOK, DevicePacket
  <2>5. Minus(rx_cnt', g_fwd_cnt) = Ahead(g_fwd_cnt) + len
    BY <2>1, CreditObeyed, CountTypes DEF CountsInOrder
  <2> QED
    BY <1>0, <2>1, <2>4, <2>5, CountsRead, FitsFilled
<1> QED
  BY <1>3, <1>4, <1>7, <1>8, <1>9 DEF Device, DeviceTx, DeviceRx

LEMMA ReceiveGuest ==
  ASSUME ~MayShrink, TypeOK, TypeOK', CountsInOrder, DataFits, Guest
  PROVE  CountsInOrder' /\ DataFits'
<1>0. UNCHANGED <<rx_cnt, peer_fwd_cnt, peer_buf_alloc>>
  BY DEF Guest, GuestSend, GuestResize, GuestRead, GuestClose, GuestAskCredit, GuestTimeout,
     GuestReceive, connVars, credit
<1>1. /\ g_buf_alloc \in Nat /\ Ahead(g_fwd_cnt) \in Nat
      /\ g_buf_alloc \in Counter /\ g_fwd_cnt \in Counter /\ g_fwd_cnt' \in Counter
      /\ GuestOps = {"RESPONSE", "RW", "CREDIT_UPDATE", "CREDIT_REQUEST", "SHUTDOWN", "RST"}
  BY CountTypes DEF TypeOK, GuestOps
<1>2. UNCHANGED <<rxring, g_fwd_cnt, g_unread>> => DataFits'
  BY <1>0 DEF DataFits, Sent, Ahead, Places
<1>3. ASSUME NEW op \in GuestOps, Tell(op), UNCHANGED <<g_fwd_cnt, g_buf_alloc>>
      PROVE  CountsInOrder'
  <2>1. GuestPacket(op, 0, g_buf_alloc, g_fwd_cnt) \in GuestPackets
    BY <1>1, PacketTypes
  <2> QED
    BY <1>0, <1>1, <1>3, <2>1, CountsTold DEF Tell, Transmit, GuestPacket
<1>4. ASSUME NEW n \in GuestChunks, GuestSend(n) PROVE CountsInOrder' /\ DataFits'
  <2>1. n \in Counter
    <3>1. Minus(g_tx_cnt, g_peer_fwd_cnt) \in Nat
      BY DistanceType DEF TypeOK
    <3> QED
      BY <1>4, <3>1, FlowAssumption DEF GuestSend, GuestCredit, Counter
  <2>2. GuestPacket("RW", n, g_buf_alloc, g_fwd_cnt) \in GuestPackets
    BY <1>1, <2>1, PacketTypes
  <2>3. UNCHANGED <<rxring, g_fwd_cnt, g_unread, g_buf_alloc>>
        /\ txring' = Append(txring, GuestPacket("RW", n, g_buf_alloc, g_fwd_cnt))
    BY <1>4 DEF GuestSend, Transmit
  <2> QED
    BY <1>0, <1>1, <1>2, <2>2, <2>3, CountsTold DEF GuestPacket
<1>5. ASSUME NEW size \in GuestBufSizes, GuestResize(size) PROVE CountsInOrder' /\ DataFits'
  <2>1. size \in Counter
    BY FlowAssumption DEF Counter
  <2>2. GuestPacket("CREDIT_UPDATE", 0, size, g_fwd_cnt) \in GuestPackets
    BY <1>1, <2>1, PacketTypes
  <2>3. UNCHANGED <<rxring, g_fwd_cnt, g_unread>> /\ g_buf_alloc' = size /\ size > g_buf_alloc
        /\ txring' = Append(txring, GuestPacket("CREDIT_UPDATE", 0, size, g_fwd_cnt))
    BY <1>5 DEF GuestResize, Transmit
  <2>4. g_buf_alloc <= g_buf_alloc'
    BY <1>1, <2>1, <2>3, CountTypes
  <2> QED
    BY <1>0, <1>1, <1>2, <2>2, <2>3, <2>4, CountsTold DEF GuestPacket
<1>6. CASE GuestRead
  <2>1. /\ g_unread' = 0 /\ g_fwd_cnt' = Plus(g_fwd_cnt, g_unread) /\ UNCHANGED <<rxring, g_buf_alloc>>
        /\ \/ UNCHANGED txring
           \/ txring' = Append(txring, GuestPacket("CREDIT_UPDATE", 0, g_buf_alloc, g_fwd_cnt'))
    BY <1>6 DEF GuestRead, Transmit
  <2>2. DataFits' /\ Ahead(g_fwd_cnt') <= Ahead(g_fwd_cnt)
    BY <1>0, <2>1, FitsRead
  <2>3. GuestPacket("CREDIT_UPDATE", 0, g_buf_alloc, g_fwd_cnt') \in GuestPackets
    BY <1>1, PacketTypes
  <2> QED
    BY <1>0, <1>1, <2>1, <2>2, <2>3, CountsTold DEF GuestPacket
<1>7. CASE GuestClose \/ GuestAskCredit \/ GuestTimeout
  BY <1>1, <1>2, <1>3, <1>7 DEF GuestClose, GuestAskCredit, GuestTimeout, guestVars
<1>8. CASE GuestReceive
  <2>1. /\ rxring # <<>> /\ rxring' = Tail(rxring) /\ UNCHANGED <<g_fwd_cnt, g_buf_alloc>>
        /\ g_unread' \in {g_unread, g_unread + Head(rxring).len}
    BY <1>8 DEF GuestReceive
  <2>2. DataFits'
    BY <1>0, <2>1, FitsTaken
  <2>3. UNCHANGED txring \/ \E op \in {"RESPONSE", "RST", "CREDIT_UPDATE"} : Tell(op)
    BY <1>8 DEF GuestReceive, Reply
  <2>4. CountsInOrder'
    BY <1>0, <1>1, <1>3, <2>1, <2>3, CountsTold
  <2> QED
    BY <2>2, <2>4
<1> QED
  BY <1>4, <1>5, <1>6, <1>7, <1>8 DEF Guest

(***************************************************************************)
(* A guest whose buffer does not become smaller never gets more than that  *)
(* buffer takes, and the device's own reckoning of what it may send never  *)
(* exceeds it: the two subtractions of peer_avail_credit() do not wrap.    *)
(***************************************************************************)
THEOREM ReceiveStaysKept == ~MayShrink /\ Spec => []ReceiveKept
<1> SUFFICES ASSUME ~MayShrink PROVE Spec => []ReceiveKept
  OBVIOUS
<1> DEFINE Kept == CountsInOrder /\ DataFits
<1>1. Init => Kept
  BY ReceiveInit
<1>2. TypeOK /\ TypeOK' /\ Kept /\ [Next]_vars => Kept'
  <2> SUFFICES ASSUME TypeOK, TypeOK', Kept, [Next]_vars PROVE Kept'
    OBVIOUS
  <2>1. CASE Host \/ UNCHANGED vars
    <3>1. UNCHANGED <<rx_cnt, peer_fwd_cnt, peer_buf_alloc, g_fwd_cnt, g_buf_alloc, g_unread, txring, rxring>>
      BY <2>1 DEF Host, HostWrite, HostRead, HostClose, vars, connVars, credit, guestVars
    <3> QED
      BY <3>1 DEF CountsInOrder, DataFits, Sent, Ahead, Places
  <2> QED
    BY <2>1, ReceiveDevice, ReceiveGuest DEF Next
<1>3. TypeOK /\ Kept => ReceiveKept
  <2> SUFFICES ASSUME TypeOK, CountsInOrder PROVE ReceiveKept
    OBVIOUS
  <2>1. /\ Ahead(g_fwd_cnt) \in Nat /\ Ahead(peer_fwd_cnt) \in Nat
        /\ peer_buf_alloc \in Nat /\ g_buf_alloc \in Nat
    BY CountTypes
  <2>2. /\ Ahead(g_fwd_cnt) <= Ahead(peer_fwd_cnt) /\ Ahead(peer_fwd_cnt) <= peer_buf_alloc
        /\ peer_buf_alloc <= g_buf_alloc
    BY DEF CountsInOrder
  <2>3. GuestBufferNeverOverflows
    BY <2>1, <2>2 DEF GuestBufferNeverOverflows, Ahead
  <2>4. PeerAvailCredit = peer_buf_alloc - Ahead(peer_fwd_cnt)
    BY <2>1, <2>2 DEF PeerAvailCredit, Ahead, Minus
  <2>5. CreditWithinBuffer
    BY <2>1, <2>2, <2>4 DEF CreditWithinBuffer
  <2> QED
    BY <2>3, <2>5 DEF ReceiveKept
<1> HIDE DEF Kept
<1> QED
  BY <1>1, <1>2, <1>3, TypeCorrect, PTL DEF Spec

-----------------------------------------------------------------------------
(***************************************************************************)
(* A key for each operation: backend_rxq has at least as many entries for  *)
(* the connection as its bitmap has bits.                                  *)
(***************************************************************************)
LEMMA OneMore ==
  ASSUME NEW S, NEW x, NEW n \in Nat,
         IsFiniteSet(S), Cardinality(S) \in Nat, Cardinality(S) <= n
  PROVE  /\ IsFiniteSet(S \cup {x})
         /\ Cardinality(S \cup {x}) \in Nat
         /\ Cardinality(S \cup {x}) <= n + 1
  BY FS_AddElement

LEMMA OpsCounted ==
  ASSUME NEW queue \in SUBSET RxOps
  PROVE  IsFiniteSet(queue) /\ Cardinality(queue) \in Nat /\ Cardinality(queue) <= 5
<1> DEFINE A == {"Request"} \cup {"Rw"}
           B == A \cup {"Response"}
           C == B \cup {"CreditUpdate"}
           D == C \cup {"Reset"}
           Counted(S, n) == IsFiniteSet(S) /\ Cardinality(S) \in Nat /\ Cardinality(S) <= n
<1>1. Counted({"Request"}, 1)
  <2>1. IsFiniteSet({"Request"}) /\ Cardinality({"Request"}) = 1
    BY FS_Singleton
  <2> QED
    BY <2>1
<1>2. Counted(A, 2)
  BY <1>1, OneMore, 1 + 1 = 2
<1>3. Counted(B, 3)
  <2> HIDE DEF A
  <2> QED
    BY <1>2, OneMore, 2 + 1 = 3
<1>4. Counted(C, 4)
  <2> HIDE DEF B
  <2> QED
    BY <1>3, OneMore, 3 + 1 = 4
<1>5. Counted(D, 5)
  <2> HIDE DEF C
  <2> QED
    BY <1>4, OneMore, 4 + 1 = 5
<1>6. RxOps = D
  BY DEF RxOps
<1> HIDE DEF A, B, C, D
<1> QED
  BY <1>5, <1>6, FS_Subset, FS_CardinalityType

\* An operation is added and a key for it, or a key alone.
LEMMA KeyAdded ==
  ASSUME TypeOK, Cardinality(rx_queue) <= keys, PushKey,
         NEW op \in RxOps, rx_queue' = rx_queue \cup {op} \/ rx_queue' = rx_queue
  PROVE  Cardinality(rx_queue') <= keys'
<1>1. IsFiniteSet(rx_queue) /\ Cardinality(rx_queue) \in Nat /\ rx_queue' \in SUBSET RxOps
  BY OpsCounted DEF TypeOK
<1>2. Cardinality(rx_queue') \in Nat /\ Cardinality(rx_queue') <= 5
  BY <1>1, OpsCounted
<1>3. Cardinality(rx_queue') <= Cardinality(rx_queue) + 1
  BY <1>1, FS_AddElement
<1> QED
  BY <1>1, <1>2, <1>3, FlowAssumption DEF PushKey, TypeOK

LEMMA KeyAddedIfPending ==
  ASSUME TypeOK, Cardinality(rx_queue) <= keys, PushKeyIfPending,
         NEW op \in RxOps, rx_queue' = rx_queue \cup {op} \/ rx_queue' = rx_queue
  PROVE  Cardinality(rx_queue') <= keys'
<1>1. CASE PushKey
  BY <1>1, KeyAdded
<1>2. CASE rx_queue' = {} /\ UNCHANGED keys
  BY <1>2, FS_EmptySet, FlowAssumption DEF TypeOK
<1> QED
  BY <1>1, <1>2 DEF PushKeyIfPending

LEMMA KeyTaken ==
  ASSUME TypeOK, Cardinality(rx_queue) <= keys, NEW op, Dequeue(op)
  PROVE  Cardinality(rx_queue') <= keys'
<1>1. IsFiniteSet(rx_queue) /\ Cardinality(rx_queue) \in Nat /\ keys \in Nat
  BY OpsCounted, FlowAssumption DEF TypeOK
<1>2. Cardinality(rx_queue') = Cardinality(rx_queue) - 1
  BY <1>1, FS_RemoveElement DEF Dequeue
<1> QED
  BY <1>1, <1>2 DEF Dequeue, PopKey

LEMMA KeysDevice ==
  ASSUME TypeOK, KeyPerOp, Device
  PROVE  KeyPerOp'
<1> SUFFICES ASSUME present' PROVE Cardinality(rx_queue') <= keys'
  BY DEF KeyPerOp
<1>0. /\ RxOps = {"Request", "Rw", "Response", "CreditUpdate", "Reset"}
      /\ present => Cardinality(rx_queue) <= keys
  BY DEF RxOps, KeyPerOp
<1>1. CASE WakeTx \/ WakeRx \/ TxDone \/ TxUnknown \/ RxDone
  BY <1>0, <1>1 DEF WakeTx, WakeRx, TxDone, TxUnknown, RxDone, connVars
<1>2. CASE FlushTxBuf \/ EnqueueRead
  BY <1>0, <1>2, KeyAdded DEF FlushTxBuf, EnqueueRead
<1>3. CASE TxResponse
  BY <1>0, <1>3, KeyAddedIfPending DEF TxResponse, Forward
<1>4. CASE TxRw
  BY <1>0, <1>4, KeyAddedIfPending DEF TxRw, Forward, SendBehind, SendFails, SendDirect
<1>5. CASE TxCreditUpdate \/ TxCreditRequest \/ TxShutdown
  BY <1>0, <1>5, KeyAddedIfPending DEF TxCreditUpdate, TxCreditRequest, TxShutdown, Forward
<1>6. CASE TxRst
  BY <1>0, <1>6 DEF TxRst, Remove
<1>7. CASE RxUnknown \/ RxReset
  BY <1>7 DEF RxUnknown, RxReset, PopKey
<1>8. CASE RxNothing
  BY <1>8, FS_EmptySet, FlowAssumption DEF RxNothing, PopKey, TypeOK
<1>9. CASE \E op : Dequeue(op)
  BY <1>0, <1>9, KeyTaken DEF Dequeue
<1> QED
  BY <1>1, <1>2, <1>3, <1>4, <1>5, <1>6, <1>7, <1>8, <1>9
  DEF Device, DeviceTx, DeviceRx, RxRequest, RxResponse, RxCreditUpdate, RxNotConnected, RxNeedCredit,
      RxEndOfFile, RxReadFails, RxRead

LEMMA KeysHeld == Spec => []KeyPerOp
<1>1. Init => KeyPerOp
  <2> SUFFICES ASSUME Init PROVE Cardinality(rx_queue) <= keys
    BY DEF KeyPerOp
  <2>1. keys = 1 /\ rx_queue \in {{"Response"}, {"Request"}}
    BY DEF Init
  <2> QED
    BY <2>1, FS_Singleton
<1>2. TypeOK /\ KeyPerOp /\ [Next]_vars => KeyPerOp'
  <2>1. UNCHANGED <<present, rx_queue, keys>> /\ KeyPerOp => KeyPerOp'
    BY DEF KeyPerOp
  <2>2. Guest \/ Host \/ UNCHANGED vars => UNCHANGED <<present, rx_queue, keys>>
    BY DEF Guest, GuestSend, GuestResize, GuestRead, GuestClose, GuestAskCredit, GuestTimeout, GuestReceive,
       Host, HostWrite, HostRead, HostClose, connVars, vars
  <2> QED
    BY <2>1, <2>2, KeysDevice DEF Next
<1> QED
  BY <1>1, <1>2, TypeCorrect, PTL DEF Spec

-----------------------------------------------------------------------------
(***************************************************************************)
(* No byte is lost and none overtaken on the way to the host.              *)
(***************************************************************************)
\* Only packets with data carry bytes.
OnlyRwHasData == \A i \in 1 .. Len(txring) : txring[i].op # "RW" => txring[i].len = 0

NothingMissing == Contiguous /\ NextOff(1) = Plus(fwd_cnt, tx_len)

LEMMA PlusAdds ==
  ASSUME NEW a \in Counter, NEW m \in Nat, NEW n \in Nat, m + n < Wrap
  PROVE  Plus(Plus(a, m), n) = Plus(a, m + n) /\ Plus(a, 0) = a
  BY FlowAssumption DEF Counter, Plus

\* A packet leaves the ring, and its bytes are forwarded or in the tx buffer.
LEMMA BytesTaken ==
  ASSUME TypeOK, NothingMissing, txring # <<>>, txring' = Tail(txring), UNCHANGED g_tx_cnt,
         Plus(fwd_cnt', tx_len') = Plus(Plus(fwd_cnt, tx_len), Head(txring).len)
  PROVE  NothingMissing'
<1>1. Head(txring) = txring[1] /\ Len(txring) \in Nat \ {0} /\ Len(txring') = Len(txring) - 1
      /\ \A i \in 1 .. Len(txring') : txring'[i] = txring[i + 1]
  BY TailFacts DEF TypeOK
<1>2. \A i \in 1 .. Len(txring) : NextOff(i)' = NextOff(i + 1)
  BY <1>1 DEF NextOff
<1>3. 1 \in 1 .. Len(txring)
      /\ \A i \in 1 .. Len(txring') : i \in 1 .. Len(txring) /\ i + 1 \in 1 .. Len(txring)
  BY <1>1
<1>4. NextOff(1)' = Plus(fwd_cnt', tx_len')
  <2>1. NextOff(1) = txring[1].off /\ NextOff(1 + 1) = Plus(txring[1].off, txring[1].len)
    BY <1>1, <1>3 DEF NothingMissing, Contiguous, NextOff
  <2> QED
    BY <1>1, <1>2, <1>3, <2>1 DEF NothingMissing
<1>5. \A i \in 1 .. Len(txring') : (NextOff(i + 1) = Plus(txring[i].off, txring[i].len))'
  <2> SUFFICES ASSUME NEW i \in 1 .. Len(txring')
               PROVE  NextOff(i + 1)' = Plus(txring'[i].off, txring'[i].len)
    BY DEF Plus
  <2>1. NextOff((i + 1) + 1) = Plus(txring[i + 1].off, txring[i + 1].len)
    BY <1>3 DEF NothingMissing, Contiguous
  <2> QED
    BY <1>1, <1>2, <1>3, <2>1
<1> QED
  BY <1>4, <1>5 DEF NothingMissing, Contiguous, Plus

\* A packet joins the ring at the end of the guest's stream.
LEMMA BytesSent ==
  ASSUME TypeOK, NothingMissing, NEW pkt \in GuestPackets, txring' = Append(txring, pkt),
         pkt.off = g_tx_cnt, g_tx_cnt' = Plus(g_tx_cnt, pkt.len), UNCHANGED <<fwd_cnt, tx_len>>
  PROVE  NothingMissing'
<1>1. Len(txring) \in Nat /\ Len(txring') = Len(txring) + 1 /\ txring'[Len(txring) + 1] = pkt
      /\ \A i \in 1 .. Len(txring) : txring'[i] = txring[i]
  BY AppendFacts DEF TypeOK
<1>2. \A i \in 1 .. Len(txring) + 1 : NextOff(i)' = NextOff(i)
  BY <1>1 DEF NextOff
<1>3. \A i \in Nat : i = Len(txring) + 2 => NextOff(i)' = Plus(pkt.off, pkt.len)
  BY <1>1 DEF NextOff
<1>4. \A i \in 1 .. Len(txring') : NextOff(i + 1)' = Plus(txring'[i].off, txring'[i].len)
  <2> SUFFICES ASSUME NEW i \in 1 .. Len(txring')
               PROVE  NextOff(i + 1)' = Plus(txring'[i].off, txring'[i].len)
    OBVIOUS
  <2>1. CASE i \in 1 .. Len(txring)
    <3>1. NextOff(i + 1) = Plus(txring[i].off, txring[i].len) /\ i + 1 \in 1 .. Len(txring) + 1
      BY <1>1, <2>1 DEF NothingMissing, Contiguous
    <3> QED
      BY <1>1, <1>2, <2>1, <3>1
  <2>2. CASE i = Len(txring) + 1
    BY <1>1, <1>3, <2>2
  <2> QED
    BY <1>1, <2>1, <2>2
<1>5. 1 \in 1 .. Len(txring) + 1
  BY <1>1
<1> QED
  BY <1>2, <1>4, <1>5 DEF NothingMissing, Contiguous, Plus

\* Whatever the driver says besides sending data has no data.
LEMMA GuestWordless ==
  ASSUME TypeOK, TypeOK', Guest, ~\E n \in GuestChunks : GuestSend(n)
  PROVE  /\ UNCHANGED g_tx_cnt
         /\ \/ UNCHANGED txring
            \/ \E op \in GuestOps, size \in Counter, fwd \in Counter :
                 Transmit(GuestPacket(op, 0, size, fwd))
<1>1. /\ g_buf_alloc \in Counter /\ g_fwd_cnt \in Counter
      /\ g_buf_alloc' \in Counter /\ g_fwd_cnt' \in Counter
      /\ GuestOps = {"RESPONSE", "RW", "CREDIT_UPDATE", "CREDIT_REQUEST", "SHUTDOWN", "RST"}
  BY DEF TypeOK, GuestOps
<1>2. ASSUME NEW size \in GuestBufSizes, GuestResize(size)
      PROVE  /\ UNCHANGED g_tx_cnt
             /\ Transmit(GuestPacket("CREDIT_UPDATE", 0, g_buf_alloc', g_fwd_cnt))
  BY <1>2 DEF GuestResize
<1>3. CASE GuestRead
  BY <1>1, <1>3 DEF GuestRead
<1>4. CASE GuestClose \/ GuestAskCredit \/ GuestTimeout
  BY <1>1, <1>4 DEF GuestClose, GuestAskCredit, GuestTimeout, Tell, guestVars
<1>5. CASE GuestReceive
  <2>1. UNCHANGED txring
        \/ \E op \in {"RESPONSE", "RST", "CREDIT_UPDATE"} :
             Transmit(GuestPacket(op, 0, g_buf_alloc, g_fwd_cnt))
    BY <1>5 DEF GuestReceive, Reply, Tell
  <2> QED
    BY <1>1, <1>5, <2>1 DEF GuestReceive
<1> QED
  BY <1>1, <1>2, <1>3, <1>4, <1>5 DEF Guest

\* One packet of the guest: all the ways of send_pkt().
LEMMA BytesTx ==
  ASSUME TypeOK, TypeOK', TxBufNeverFull, OnlyRwHasData, NothingMissing, present, ~h_closed,
         txring # <<>>, txring' = Tail(txring), UNCHANGED g_tx_cnt,
         TxRw \/ (Head(txring).op # "RW" /\ UNCHANGED <<fwd_cnt, tx_len>>)
  PROVE  NothingMissing'
<1> DEFINE len == Head(txring).len
<1>1. /\ Head(txring) = txring[1] /\ 1 \in 1 .. Len(txring) /\ len \in Counter
      /\ fwd_cnt \in Counter /\ tx_len \in Nat /\ tx_len <= TxBufSize /\ tx_len' \in Nat
      /\ TxBufSize \in Nat /\ Wrap \in Nat /\ TxBufSize < Wrap
  <2>1. Head(txring) = txring[1] /\ 1 \in 1 .. Len(txring) /\ Head(txring) \in GuestPackets
    BY TailFacts DEF TypeOK
  <2> QED
    BY <2>1, FlowAssumption DEF TypeOK, GuestPackets
<1>2. len \in Nat /\ len < Wrap
  BY <1>1 DEF Counter
<1> SUFFICES Plus(fwd_cnt', tx_len') = Plus(Plus(fwd_cnt, tx_len), len)
  BY BytesTaken
<1>3. CASE Head(txring).op # "RW" /\ UNCHANGED <<fwd_cnt, tx_len>>
  <2>1. len = 0
    BY <1>1, <1>3 DEF OnlyRwHasData
  <2>2. Plus(Plus(fwd_cnt, tx_len), 0) = Plus(fwd_cnt, tx_len + 0)
    BY <1>1, PlusAdds
  <2> QED
    BY <1>1, <1>3, <2>1, <2>2
<1>4. CASE TxRw
  <2>1. tx_len + len <= TxBufSize
    BY <1>1, <1>4 DEF TxBufNeverFull, TxRw, Forward, TakePacket
  <2>2. CASE SendBehind
    <3>1. tx_len' = tx_len + len /\ fwd_cnt' = fwd_cnt
      BY <1>1, <1>2, <2>1, <2>2 DEF SendBehind, PushTxBuf
    <3> QED
      BY <1>1, <1>2, <2>1, <3>1, PlusAdds
  <2>3. ASSUME NEW written \in 0 .. SockCap, SendDirect(written)
        PROVE  Plus(fwd_cnt', tx_len') = Plus(Plus(fwd_cnt, tx_len), len)
    <3>1. /\ tx_len = 0 /\ written \in Nat /\ written <= len /\ fwd_cnt' = Plus(fwd_cnt, written)
          /\ IF written < len THEN KeepRest(len - written) ELSE UNCHANGED <<interest, tx_len>>
      BY <1>2, <2>3, FlowAssumption DEF SendDirect, TxBufIsEmpty
    <3>2. tx_len' = len - written
      BY <1>1, <1>2, <2>1, <3>1 DEF KeepRest, PushTxBuf
    <3>3. Plus(Plus(fwd_cnt, written), len - written) = Plus(fwd_cnt, written + (len - written))
      BY <1>1, <1>2, <3>1, PlusAdds
    <3>4. Plus(fwd_cnt, 0) = fwd_cnt
      BY <1>1, PlusAdds
    <3> QED
      BY <1>2, <3>1, <3>2, <3>3, <3>4
  <2> QED
    BY <1>4, <2>2, <2>3 DEF TxRw, SendFails
<1> QED
  BY <1>3, <1>4

LEMMA BytesDevice ==
  ASSUME TypeOK, TypeOK', TxBufNeverFull, OnlyRwHasData, NoByteLost, Device
  PROVE  OnlyRwHasData' /\ NoByteLost'
<1>1. UNCHANGED h_closed /\ (present' => present) /\ UNCHANGED g_tx_cnt
  BY DEF Device, DeviceTx, DeviceRx, WakeTx, WakeRx, FlushTxBuf, EnqueueRead, TxDone, TxUnknown,
         TxResponse, TxRw, TxCreditUpdate, TxCreditRequest, TxShutdown, TxRst, Remove, Forward,
         RxDone, RxUnknown, RxNothing, RxReset, RxRequest, RxResponse, RxCreditUpdate,
         RxNotConnected, RxNeedCredit, RxRead, RxEndOfFile, RxReadFails, PopKey, Dequeue,
         connVars, hostVars, guestVars
<1>2. UNCHANGED txring \/ (txring # <<>> /\ txring' = Tail(txring))
  BY DEF Device, DeviceTx, DeviceRx, WakeTx, WakeRx, FlushTxBuf, EnqueueRead, TxDone, TxUnknown,
         TxResponse, TxRw, TxCreditUpdate, TxCreditRequest, TxShutdown, TxRst, TakePacket, Forward,
         RxDone, RxUnknown, RxNothing, RxReset, RxRequest, RxResponse, RxCreditUpdate,
         RxNotConnected, RxNeedCredit, RxRead, RxEndOfFile, RxReadFails, PopKey, Dequeue
<1>3. OnlyRwHasData'
  <2>1. CASE UNCHANGED txring
    BY <2>1 DEF OnlyRwHasData
  <2>2. CASE txring # <<>> /\ txring' = Tail(txring)
    <3>1. /\ Len(txring) \in Nat \ {0} /\ Len(txring') = Len(txring) - 1
          /\ \A i \in 1 .. Len(txring') : txring'[i] = txring[i + 1] /\ i + 1 \in 1 .. Len(txring)
      BY <2>2, TailFacts DEF TypeOK
    <3> QED
      BY <3>1 DEF OnlyRwHasData
  <2> QED
    BY <1>2, <2>1, <2>2
<1>4. NoByteLost'
  <2> SUFFICES ASSUME present', ~h_closed' PROVE NothingMissing'
    BY DEF NoByteLost, NothingMissing, Contiguous
  <2>1. NothingMissing /\ present /\ ~h_closed /\ UNCHANGED g_tx_cnt
    BY <1>1 DEF NoByteLost, NothingMissing
  <2>2. CASE UNCHANGED <<txring, fwd_cnt, tx_len>>
    BY <2>1, <2>2 DEF NothingMissing, Contiguous, NextOff
  <2>3. CASE FlushTxBuf
    <3>1. ASSUME NEW cnt \in Amounts(tx_len), tx_len' = tx_len - cnt,
                 fwd_cnt' = Plus(fwd_cnt, cnt), UNCHANGED txring
          PROVE  NothingMissing'
      <4>1. /\ cnt \in Nat /\ cnt <= tx_len /\ tx_len \in Nat /\ tx_len < Wrap
            /\ fwd_cnt \in Counter
        BY <3>1, FlowAssumption DEF Amounts, TypeOK
      <4>2. Plus(Plus(fwd_cnt, cnt), tx_len - cnt) = Plus(fwd_cnt, cnt + (tx_len - cnt))
        BY <4>1, PlusAdds
      <4>3. Plus(fwd_cnt', tx_len') = Plus(fwd_cnt, tx_len)
        BY <3>1, <4>1, <4>2
      <4> QED
        BY <2>1, <3>1, <4>3 DEF NothingMissing, Contiguous, NextOff
    <3> QED
      BY <2>2, <2>3, <3>1 DEF FlushTxBuf
  <2>4. CASE TxRw
    BY <2>1, <2>4, BytesTx DEF TxRw, Forward, TakePacket
  <2>5. CASE TxResponse \/ TxCreditUpdate \/ TxCreditRequest \/ TxShutdown \/ TxRst
    <3>1. /\ txring # <<>> /\ txring' = Tail(txring) /\ Head(txring).op # "RW"
          /\ UNCHANGED <<fwd_cnt, tx_len>>
      BY <2>5 DEF TxResponse, TxCreditUpdate, TxCreditRequest, TxShutdown, TxRst, Remove,
                  Forward, TakePacket, credit
    <3> QED
      BY <2>1, <3>1, BytesTx
  <2>6. \/ UNCHANGED <<txring, fwd_cnt, tx_len>>
        \/ FlushTxBuf \/ TxRw
        \/ TxResponse \/ TxCreditUpdate \/ TxCreditRequest \/ TxShutdown \/ TxRst
    BY <2>1 DEF Device, DeviceTx, DeviceRx, WakeTx, WakeRx, EnqueueRead, TxDone, TxUnknown,
           RxDone, RxUnknown, RxNothing, RxReset, RxRequest, RxResponse, RxCreditUpdate,
           RxNotConnected, RxNeedCredit, RxRead, RxEndOfFile, RxReadFails, PopKey, Dequeue,
           connVars, credit
  <2> QED
    BY <2>2, <2>3, <2>4, <2>5, <2>6
<1> QED
  BY <1>3, <1>4

LEMMA BytesGuest ==
  ASSUME TypeOK, TypeOK', OnlyRwHasData, NoByteLost, Guest
  PROVE  OnlyRwHasData' /\ NoByteLost'
<1>1. UNCHANGED <<present, fwd_cnt, tx_len, h_closed>>
  BY DEF Guest, GuestSend, GuestResize, GuestRead, GuestClose, GuestAskCredit, GuestTimeout,
         GuestReceive, connVars, credit, hostVars
<1>2. NoByteLost' <=> (present /\ ~h_closed => NothingMissing')
  BY <1>1 DEF NoByteLost, NothingMissing, Contiguous
<1>3. CASE UNCHANGED <<txring, g_tx_cnt>>
  BY <1>1, <1>3 DEF OnlyRwHasData, NoByteLost, Contiguous, NextOff
<1>4. ASSUME NEW pkt \in GuestPackets, pkt.off = g_tx_cnt, pkt.op # "RW" => pkt.len = 0,
             txring' = Append(txring, pkt), g_tx_cnt' = Plus(g_tx_cnt, pkt.len)
      PROVE  OnlyRwHasData' /\ NoByteLost'
  <2>1. /\ Len(txring) \in Nat /\ Len(txring') = Len(txring) + 1
        /\ txring'[Len(txring) + 1] = pkt
        /\ \A i \in 1 .. Len(txring) : txring'[i] = txring[i]
    BY <1>4, AppendFacts DEF TypeOK
  <2>2. OnlyRwHasData'
    BY <1>4, <2>1 DEF OnlyRwHasData
  <2> QED
    BY <1>1, <1>2, <1>4, <2>2, BytesSent DEF NoByteLost, NothingMissing
<1>5. CASE \E n \in GuestChunks : GuestSend(n)
  <2> PICK n \in GuestChunks : GuestSend(n)
    BY <1>5
  <2> DEFINE pkt == GuestPacket("RW", n, g_buf_alloc, g_fwd_cnt)
  <2>1. /\ n \in Nat /\ n <= GuestCredit /\ txring' = Append(txring, pkt)
        /\ g_tx_cnt' = Plus(g_tx_cnt, n)
    BY FlowAssumption DEF GuestSend, Transmit
  <2>2. Minus(g_tx_cnt, g_peer_fwd_cnt) \in Nat
    BY FieldTypes, DistanceType
  <2>3. n \in Counter
    BY <2>1, <2>2, FlowAssumption DEF GuestCredit, Counter
  <2>4. pkt \in GuestPackets /\ pkt.off = g_tx_cnt /\ pkt.op = "RW" /\ pkt.len = n
    BY <2>3 DEF GuestPacket, GuestPackets, GuestOps, TypeOK
  <2> HIDE DEF pkt
  <2> QED
    BY <1>4, <2>1, <2>4
<1>6. ASSUME NEW op \in GuestOps, NEW size \in Counter, NEW fwd \in Counter,
             Transmit(GuestPacket(op, 0, size, fwd)), UNCHANGED g_tx_cnt
      PROVE  OnlyRwHasData' /\ NoByteLost'
  <2> DEFINE pkt == GuestPacket(op, 0, size, fwd)
  <2>1. pkt \in GuestPackets /\ pkt.off = g_tx_cnt /\ pkt.len = 0
    BY PacketTypes DEF GuestPacket
  <2>2. g_tx_cnt' = Plus(g_tx_cnt, 0)
    BY <1>6, PlusAdds, FlowAssumption DEF TypeOK, Counter, Plus
  <2>3. txring' = Append(txring, pkt)
    BY <1>6 DEF Transmit
  <2> HIDE DEF pkt
  <2> QED
    BY <1>4, <2>1, <2>2, <2>3
<1>7. ~(\E n \in GuestChunks : GuestSend(n)) =>
        /\ UNCHANGED g_tx_cnt
        /\ \/ UNCHANGED txring
           \/ \E op \in GuestOps, size \in Counter, fwd \in Counter :
                Transmit(GuestPacket(op, 0, size, fwd))
  BY GuestWordless
<1> QED
  BY <1>3, <1>5, <1>6, <1>7

LEMMA BytesKept == Spec => [](OnlyRwHasData /\ NoByteLost)
<1>1. Init => OnlyRwHasData /\ NoByteLost
  BY FlowAssumption DEF Init, OnlyRwHasData, NoByteLost, Contiguous, NextOff, Plus
<1>2. TypeOK /\ TypeOK' /\ TxBufNeverFull /\ OnlyRwHasData /\ NoByteLost /\ [Next]_vars
        => OnlyRwHasData' /\ NoByteLost'
  <2> SUFFICES ASSUME TypeOK, TypeOK', TxBufNeverFull, OnlyRwHasData, NoByteLost, [Next]_vars
               PROVE  OnlyRwHasData' /\ NoByteLost'
    OBVIOUS
  <2>1. CASE Host \/ UNCHANGED vars
    <3>1. UNCHANGED <<present, txring, g_tx_cnt, fwd_cnt, tx_len>> /\ (h_closed => h_closed')
      BY <2>1 DEF Host, HostWrite, HostRead, HostClose, connVars, credit, guestVars, hostVars, vars
    <3> QED
      BY <3>1 DEF OnlyRwHasData, NoByteLost, Contiguous, NextOff
  <2> QED
    BY <2>1, BytesDevice, BytesGuest DEF Next
<1> QED
  BY <1>1, <1>2, TypeCorrect, TxBufFits, PTL DEF Spec

\* What is written straight from a packet is what comes next in the stream.
LEMMA OrderKept == Spec => InOrder
<1>1. TypeOK /\ NoByteLost /\ [Next]_vars =>
        [fwd_cnt' # fwd_cnt /\ txring' # txring => Head(txring).off = fwd_cnt]_vars
  <2> SUFFICES ASSUME TypeOK, NoByteLost, Next, fwd_cnt' # fwd_cnt, txring' # txring
               PROVE  Head(txring).off = fwd_cnt
    OBVIOUS
  <2>1. TxRw
    BY DEF Next, Guest, GuestSend, GuestResize, GuestRead, GuestClose, GuestAskCredit,
       GuestTimeout, GuestReceive, Host, HostWrite, HostRead, HostClose,
       Device, DeviceTx, DeviceRx, WakeTx, WakeRx, FlushTxBuf, EnqueueRead, TxDone, TxUnknown,
       TxResponse, TxCreditUpdate, TxCreditRequest, TxShutdown, TxRst, Remove, Forward,
       RxDone, RxUnknown, RxNothing, RxReset, RxRequest, RxResponse, RxCreditUpdate,
       RxNotConnected, RxNeedCredit, RxRead, RxEndOfFile, RxReadFails, PopKey, Dequeue,
       connVars, credit
  <2>2. present /\ txring # <<>> /\ tx_len = 0 /\ ~h_closed
    BY <2>1 DEF TxRw, Forward, TakePacket, SendBehind, SendFails, SendDirect, TxBufIsEmpty
  <2>3. Head(txring) = txring[1] /\ 1 <= Len(txring)
    BY <2>2, TailFacts DEF TypeOK
  <2>4. Plus(fwd_cnt, 0) = fwd_cnt
    BY FlowAssumption DEF TypeOK, Counter, Plus
  <2> QED
    BY <2>2, <2>3, <2>4 DEF NoByteLost, NextOff
<1> QED
  BY <1>1, TypeCorrect, BytesKept, PTL DEF Spec, InOrder

-----------------------------------------------------------------------------
(***************************************************************************)
(* What the guest was last told.  It is no further behind the stream than  *)
(* what the guest knows and than every header on its way, except where     *)
(* init_pkt() fills in fwd_cnt without a word in last_fwd_cnt: while the   *)
(* connection opens, when nothing is forwarded yet; before a reset, when   *)
(* the guest has closed; and when a read has failed, when the host has.    *)
(***************************************************************************)
NotSentYet == g_tx_cnt = 0 /\ fwd_cnt = 0 /\ last_fwd_cnt = 0

OpensFirst ==
  present =>
    /\ "Request" \in rx_queue =>
         NotSentYet /\ g_state \in {"listening", "closed"} /\ ~ToGuestSoon("REQUEST")
    /\ "Response" \in rx_queue =>
         NotSentYet /\ g_state \in {"connecting", "closed"} /\ ~ToGuestSoon("RESPONSE")

ClosedByGuest ==
  present /\ ("Reset" \in rx_queue \/ ToDeviceSoon("SHUTDOWN")) => g_state \in {"closing", "closed"}

\* Forwarding: nothing else moves fwd_cnt, and it needs bytes to forward.
LEMMA ForwardMoves ==
  ASSUME TypeOK, TypeOK', CreditIsHonest, Device, present'
  PROVE  /\ UNCHANGED g_tx_cnt
         /\ \/ UNCHANGED fwd_cnt
            \/ \E n \in Nat : /\ n <= Behind(fwd_cnt) /\ fwd_cnt' = Plus(fwd_cnt, n)
                              /\ UNCHANGED <<last_fwd_cnt, rxring, guestVars>>
<1>1. UNCHANGED g_tx_cnt /\ present
  BY DEF Device, DeviceTx, DeviceRx, WakeTx, WakeRx, FlushTxBuf, EnqueueRead, TxDone, TxUnknown,
     TxResponse, TxRw, TxCreditUpdate, TxCreditRequest, TxShutdown, TxRst, Remove, Forward,
     RxDone, RxUnknown, RxNothing, RxReset, RxRequest, RxResponse, RxCreditUpdate,
     RxNotConnected, RxNeedCredit, RxRead, RxEndOfFile, RxReadFails, PopKey, Dequeue,
     connVars, guestVars
<1>2. DataIsAccounted
  BY <1>1 DEF CreditIsHonest
<1>3. CASE FlushTxBuf
  <2>1. UNCHANGED <<last_fwd_cnt, rxring, guestVars>>
    BY <1>3 DEF FlushTxBuf
  <2>2. ASSUME NEW cnt \in Amounts(tx_len) PROVE cnt \in Nat /\ cnt <= Behind(fwd_cnt)
    BY <1>2, FieldTypes DEF Amounts, DataIsAccounted
  <2> QED
    BY <1>1, <1>3, <2>1, <2>2 DEF FlushTxBuf
<1>4. CASE TxRw
  <2>1. /\ txring # <<>> /\ UNCHANGED <<last_fwd_cnt, rxring, guestVars>>
        /\ SendBehind \/ SendFails \/ \E written \in 0 .. SockCap : SendDirect(written)
    BY <1>4 DEF TxRw, Forward, TakePacket
  <2>2. Head(txring) = txring[1] /\ 1 \in 1 .. Len(txring)
    BY <2>1, TailFacts DEF TypeOK
  <2>3. Head(txring).len \in Nat /\ Head(txring).len <= Behind(fwd_cnt)
    BY <1>2, <2>2, FieldTypes DEF DataIsAccounted
  <2>4. ASSUME NEW written \in 0 .. SockCap, SendDirect(written)
        PROVE  \E n \in Nat : n <= Behind(fwd_cnt) /\ fwd_cnt' = Plus(fwd_cnt, n)
    <3>1. written \in Nat /\ written <= Head(txring).len /\ fwd_cnt' = Plus(fwd_cnt, written)
      BY <2>3, <2>4, FlowAssumption DEF SendDirect
    <3>2. written <= Behind(fwd_cnt)
      BY <2>3, <3>1, FieldTypes
    <3> QED
      BY <3>1, <3>2
  <2> QED
    BY <1>1, <2>1, <2>4 DEF SendBehind, SendFails
<1>5. FlushTxBuf \/ TxRw \/ UNCHANGED fwd_cnt
  BY DEF Device, DeviceTx, DeviceRx, WakeTx, WakeRx, EnqueueRead, TxDone, TxUnknown,
     TxResponse, TxCreditUpdate, TxCreditRequest, TxShutdown, TxRst, Remove, Forward,
     RxDone, RxUnknown, RxNothing, RxReset, RxRequest, RxResponse, RxCreditUpdate,
     RxNotConnected, RxNeedCredit, RxRead, RxEndOfFile, RxReadFails, PopKey, Dequeue,
     connVars, credit
<1> QED
  BY <1>1, <1>3, <1>4, <1>5

\* What the device says of its fwd_cnt, and when it does not note that it has.
Unnoted ==
  \/ "Request" \in rx_queue \/ "Response" \in rx_queue \/ "Reset" \in rx_queue
  \/ "Rw" \in rx_queue /\ h_in = 0 /\ (h_closed => h_reset)

LEMMA DeviceSays ==
  ASSUME TypeOK, Device, present'
  PROVE  \/ UNCHANGED <<rxring, last_fwd_cnt>>
         \/ \E pkt \in DevicePackets :
              /\ rxring' = Append(rxring, pkt) /\ pkt.fwd_cnt = fwd_cnt
              /\ pkt.op = "REQUEST" => "Request" \notin rx_queue'
              /\ pkt.op = "RESPONSE" => "Response" \notin rx_queue'
              /\ Advertised \/ (UNCHANGED last_fwd_cnt /\ (CarriesCredit(pkt) => Unnoted))
<1> DEFINE Said(pkt) ==
             /\ rxring' = Append(rxring, pkt) /\ pkt.fwd_cnt = fwd_cnt
             /\ pkt.op = "REQUEST" => "Request" \notin rx_queue'
             /\ pkt.op = "RESPONSE" => "Response" \notin rx_queue'
             /\ Advertised \/ (UNCHANGED last_fwd_cnt /\ (CarriesCredit(pkt) => Unnoted))
<1>1. ASSUME NEW op \in DeviceOps, NEW len \in Counter, Fill(op, len)
      PROVE  /\ DevicePacket(op, len, fwd_cnt) \in DevicePackets
             /\ rxring' = Append(rxring, DevicePacket(op, len, fwd_cnt))
             /\ DevicePacket(op, len, fwd_cnt).fwd_cnt = fwd_cnt
             /\ DevicePacket(op, len, fwd_cnt).op = op
  BY <1>1, FieldTypes DEF Fill, DevicePacket, DevicePackets
<1>2. 0 \in Counter
  BY PacketTypes
<1>3. /\ "REQUEST" \in DeviceOps /\ "RESPONSE" \in DeviceOps /\ "CREDIT_UPDATE" \in DeviceOps
      /\ "INVALID" \in DeviceOps /\ "RST" \in DeviceOps /\ "CREDIT_REQUEST" \in DeviceOps
      /\ "SHUTDOWN" \in DeviceOps /\ "RW" \in DeviceOps
  BY DEF DeviceOps
<1>4. ASSUME NEW op \in DeviceOps, NEW len \in Counter, Fill(op, len),
             op = "REQUEST" => "Request" \notin rx_queue',
             op = "RESPONSE" => "Response" \notin rx_queue',
             Advertised \/ (UNCHANGED last_fwd_cnt /\ (op # "RST" => Unnoted))
      PROVE  \E pkt \in DevicePackets : Said(pkt)
  <2> DEFINE pkt == DevicePacket(op, len, fwd_cnt)
  <2>1. /\ pkt \in DevicePackets /\ rxring' = Append(rxring, pkt)
        /\ pkt.fwd_cnt = fwd_cnt /\ pkt.op = op
    BY <1>1, <1>4
  <2> HIDE DEF pkt
  <2>2. Said(pkt)
    BY <1>4, <2>1 DEF CarriesCredit
  <2> QED
    BY <2>1, <2>2
<1>5. CASE RxRequest \/ RxResponse
  <2>1. CASE RxRequest
    BY <1>2, <1>3, <1>4, <2>1 DEF RxRequest, Dequeue, Unnoted
  <2>2. CASE RxResponse
    BY <1>2, <1>3, <1>4, <2>2 DEF RxResponse, Dequeue, Unnoted
  <2> QED
    BY <1>5, <2>1, <2>2
<1>6. CASE RxCreditUpdate
  <2>1. CASE rx_queue' = {}
    BY <1>2, <1>3, <1>4, <1>6, <2>1 DEF RxCreditUpdate
  <2>2. CASE rx_queue' # {}
    <3>1. PICK other \in rx_queue' : TRUE
      BY <2>2
    <3>2. "Reset" \in rx_queue
      BY <1>6, <3>1, TakenFirst DEF RxCreditUpdate, Dequeue
    <3> QED
      BY <1>2, <1>3, <1>4, <1>6, <2>2, <3>2 DEF RxCreditUpdate, Unnoted
  <2> QED
    BY <2>1, <2>2
<1>7. CASE RxNotConnected
  BY <1>2, <1>3, <1>4, <1>7 DEF RxNotConnected
<1>8. CASE RxNeedCredit
  BY <1>2, <1>3, <1>4, <1>8 DEF RxNeedCredit
<1>9. CASE RxEndOfFile
  BY <1>2, <1>3, <1>4, <1>9 DEF RxEndOfFile
<1>10. CASE RxReadFails
  BY <1>2, <1>3, <1>4, <1>10 DEF RxReadFails, Dequeue, Unnoted
<1>11. ASSUME NEW len \in 1 .. SockCap, RxRead(len)
       PROVE  \E pkt \in DevicePackets : Said(pkt)
  <2>1. Fill("RW", len) /\ len <= PeerAvailCredit /\ Advertised
    BY <1>11 DEF RxRead
  <2>2. PeerAvailCredit \in Counter
    BY CounterType DEF PeerAvailCredit, TypeOK
  <2>3. len \in Counter
    BY <2>1, <2>2, FlowAssumption DEF Counter
  <2> QED
    BY <1>3, <1>4, <2>1, <2>3
<1>12. \/ UNCHANGED <<rxring, last_fwd_cnt>> \/ RxRequest \/ RxResponse \/ RxCreditUpdate
       \/ RxNotConnected \/ RxNeedCredit \/ RxEndOfFile \/ RxReadFails
       \/ \E len \in 1 .. SockCap : RxRead(len)
  BY DEF Device, DeviceTx, DeviceRx, WakeTx, WakeRx, FlushTxBuf, EnqueueRead, TxDone, TxUnknown,
     TxResponse, TxRw, TxCreditUpdate, TxCreditRequest, TxShutdown, TxRst, Remove, Forward,
     RxDone, RxUnknown, RxNothing, RxReset, PopKey, connVars, credit
<1> QED
  BY <1>5, <1>6, <1>7, <1>8, <1>9, <1>10, <1>11, <1>12

LEMMA OpensDevice ==
  ASSUME TypeOK, TypeOK', CreditIsHonest, OpensFirst, Device
  PROVE  OpensFirst'
<1> SUFFICES ASSUME present' PROVE OpensFirst'
  BY DEF OpensFirst
<1>1. present /\ UNCHANGED g_state
      /\ \A op \in {"Request", "Response"} : op \in rx_queue' => op \in rx_queue
  BY DEF Device, DeviceTx, DeviceRx, WakeTx, WakeRx, FlushTxBuf, EnqueueRead, TxDone, TxUnknown,
     TxResponse, TxRw, SendBehind, SendFails, SendDirect, TxCreditUpdate, TxCreditRequest,
     TxShutdown, TxRst, Remove, Forward,
     RxDone, RxUnknown, RxNothing, RxReset, RxRequest, RxResponse, RxCreditUpdate,
     RxNotConnected, RxNeedCredit, RxRead, RxEndOfFile, RxReadFails, PopKey, Dequeue,
     connVars, guestVars
<1>2. NotSentYet => NotSentYet'
  <2> SUFFICES ASSUME NotSentYet PROVE NotSentYet'
    OBVIOUS
  <2>1. Behind(fwd_cnt) = 0
    BY FlowAssumption DEF NotSentYet, Behind, Minus
  <2>2. UNCHANGED g_tx_cnt /\ fwd_cnt' = 0
    <3>1. CASE UNCHANGED fwd_cnt
      BY <3>1, ForwardMoves DEF NotSentYet
    <3>2. ASSUME NEW n \in Nat, n <= Behind(fwd_cnt), fwd_cnt' = Plus(fwd_cnt, n)
          PROVE  fwd_cnt' = 0
      BY <2>1, <3>2, FlowAssumption DEF NotSentYet, Plus
    <3> QED
      BY <3>1, <3>2, ForwardMoves
  <2>3. last_fwd_cnt' = 0
    BY DeviceSays DEF NotSentYet, Advertised
  <2> QED
    BY <2>2, <2>3 DEF NotSentYet
<1>3. /\ "Request" \in rx_queue' /\ ToGuestSoon("REQUEST")' => ToGuestSoon("REQUEST")
      /\ "Response" \in rx_queue' /\ ToGuestSoon("RESPONSE")' => ToGuestSoon("RESPONSE")
  <2>1. CASE UNCHANGED rxring
    BY <2>1 DEF ToGuestSoon
  <2>2. ASSUME NEW pkt \in DevicePackets, rxring' = Append(rxring, pkt),
               pkt.op = "REQUEST" => "Request" \notin rx_queue',
               pkt.op = "RESPONSE" => "Response" \notin rx_queue'
        PROVE  /\ "Request" \in rx_queue' /\ ToGuestSoon("REQUEST")' => ToGuestSoon("REQUEST")
               /\ "Response" \in rx_queue' /\ ToGuestSoon("RESPONSE")' => ToGuestSoon("RESPONSE")
    BY <2>2, GuestToldMore
  <2> QED
    BY <2>1, <2>2, DeviceSays
<1> QED
  BY <1>1, <1>2, <1>3 DEF OpensFirst

\* Only what it waits for moves a guest that opens.
LEMMA OpensGuest ==
  ASSUME TypeOK, OpensFirst, Guest
  PROVE  OpensFirst'
<1>1. UNCHANGED <<present, rx_queue, fwd_cnt, last_fwd_cnt>>
  BY DEF Guest, GuestSend, GuestResize, GuestRead, GuestClose, GuestAskCredit, GuestTimeout,
     GuestReceive, connVars, credit
<1>2. CASE GuestReceive
  <2>1. UNCHANGED g_tx_cnt /\ rxring # <<>> /\ rxring' = Tail(rxring)
        /\ g_state' = NextState(Head(rxring))
    BY <1>2 DEF GuestReceive
  <2>2. \A op : ToGuestSoon(op) <=> ToGuestSoon(op)' \/ op = Head(rxring).op
    BY <2>1, GuestToldLess
  <2>3. /\ ~ToGuestSoon("REQUEST") => Head(rxring).op # "REQUEST"
        /\ ~ToGuestSoon("RESPONSE") => Head(rxring).op # "RESPONSE"
    BY <2>2
  <2>4. /\ g_state = "closed" => g_state' = "closed"
        /\ g_state = "listening" /\ Head(rxring).op # "REQUEST" => g_state' \in {"listening", "closed"}
        /\ g_state = "connecting" /\ Head(rxring).op # "RESPONSE" => g_state' \in {"connecting", "closed"}
    BY <2>1 DEF NextState, Foreign, Accepts, Refuses
  <2>5. /\ ToGuestSoon("REQUEST")' => ToGuestSoon("REQUEST")
        /\ ToGuestSoon("RESPONSE")' => ToGuestSoon("RESPONSE")
    BY <2>2
  <2> QED
    BY <1>1, <2>1, <2>3, <2>4, <2>5 DEF OpensFirst, NotSentYet
<1>3. CASE ~GuestReceive
  <2>1. UNCHANGED rxring
        /\ (g_state \in {"listening", "connecting", "closed"} => UNCHANGED <<g_state, g_tx_cnt>>)
    BY <1>3 DEF Guest, GuestSend, GuestResize, GuestRead, GuestClose, GuestAskCredit, GuestTimeout,
       guestVars
  <2> QED
    BY <1>1, <2>1 DEF OpensFirst, NotSentYet, ToGuestSoon
<1> QED
  BY <1>2, <1>3

LEMMA OpensHeld == Spec => []OpensFirst
<1>1. Init => OpensFirst
  <2> SUFFICES ASSUME NEW fromGuest \in GuestInitiated, NEW busy \in RxBusy, Init,
                      rx_queue = IF fromGuest THEN {"Response"} ELSE {"Request"},
                      g_state = IF fromGuest THEN "connecting" ELSE "listening",
                      rxring = [i \in 1 .. busy |-> DevicePacket("OTHER", 0, 0)]
               PROVE  OpensFirst
    BY DEF Init
  <2>1. \A i \in 1 .. Len(rxring) : rxring[i].op = "OTHER"
    BY FlowAssumption DEF DevicePacket
  <2>2. g_tx_cnt = 0 /\ fwd_cnt = 0 /\ last_fwd_cnt = 0
    BY DEF Init
  <2> QED
    BY <2>1, <2>2 DEF OpensFirst, NotSentYet, ToGuestSoon
<1>2. TypeOK /\ TypeOK' /\ CreditIsHonest /\ OpensFirst /\ [Next]_vars => OpensFirst'
  <2>1. OpensFirst /\ (Host \/ UNCHANGED vars) => OpensFirst'
    BY DEF Host, HostWrite, HostRead, HostClose, vars, connVars, credit, guestVars,
       OpensFirst, NotSentYet, ToGuestSoon
  <2> QED
    BY <2>1, OpensDevice, OpensGuest DEF Next
<1> QED
  BY <1>1, <1>2, TypeCorrect, CreditHonest, PTL DEF Spec

\* A reset is due only to a guest that has shut down.
LEMMA ClosedHeld == Spec => []ClosedByGuest
<1>1. Init => ClosedByGuest
  BY DEF Init, ClosedByGuest, ToDeviceSoon
<1>2. TypeOK /\ ClosedByGuest /\ Device => ClosedByGuest'
  <2> SUFFICES ASSUME TypeOK, ClosedByGuest, Device, present' PROVE ClosedByGuest'
    BY DEF ClosedByGuest
  <2>1. present /\ UNCHANGED g_state
    BY DEF Device, DeviceTx, DeviceRx, WakeTx, WakeRx, FlushTxBuf, EnqueueRead, TxDone, TxUnknown,
       TxResponse, TxRw, TxCreditUpdate, TxCreditRequest, TxShutdown, TxRst, Remove, Forward,
       RxDone, RxUnknown, RxNothing, RxReset, RxRequest, RxResponse, RxCreditUpdate,
       RxNotConnected, RxNeedCredit, RxRead, RxEndOfFile, RxReadFails, PopKey, Dequeue,
       connVars, guestVars
  <2>2. UNCHANGED txring \/ (txring # <<>> /\ txring' = Tail(txring))
    BY DEF Device, DeviceTx, DeviceRx, WakeTx, WakeRx, FlushTxBuf, EnqueueRead, TxDone, TxUnknown,
       TxResponse, TxRw, TxCreditUpdate, TxCreditRequest, TxShutdown, TxRst, TakePacket, Forward,
       RxDone, RxUnknown, RxNothing, RxReset, RxRequest, RxResponse, RxCreditUpdate,
       RxNotConnected, RxNeedCredit, RxRead, RxEndOfFile, RxReadFails, PopKey, Dequeue
  <2>3. ToDeviceSoon("SHUTDOWN")' => ToDeviceSoon("SHUTDOWN")
    <3>1. CASE UNCHANGED txring
      BY <3>1 DEF ToDeviceSoon
    <3>2. CASE txring # <<>> /\ txring' = Tail(txring)
      BY <3>2, DeviceToldLess
    <3> QED
      BY <2>2, <3>1, <3>2
  <2>4. CASE TxShutdown
    <3>1. txring # <<>> /\ txring' = Tail(txring) /\ Head(txring).op = "SHUTDOWN"
      BY <2>4 DEF TxShutdown, Forward, TakePacket
    <3>2. ToDeviceSoon("SHUTDOWN")
      BY <3>1, DeviceToldLess
    <3> QED
      BY <2>1, <3>2 DEF ClosedByGuest
  <2>5. TxShutdown \/ ("Reset" \in rx_queue' => "Reset" \in rx_queue)
    <3>1. CASE WakeTx \/ WakeRx \/ FlushTxBuf \/ EnqueueRead
      <4>1. rx_queue' \subseteq rx_queue \cup {"CreditUpdate", "Rw"}
        BY <3>1 DEF WakeTx, WakeRx, FlushTxBuf, EnqueueRead, connVars
      <4> QED
        BY <4>1
    <3>2. CASE DeviceTx
      <4>1. TxShutdown \/ rx_queue' \subseteq rx_queue \cup {"CreditUpdate"}
        BY <3>2 DEF DeviceTx, TxDone, TxUnknown, TxResponse, TxRw, SendBehind, SendFails,
                    SendDirect, TxCreditUpdate, TxCreditRequest, TxRst, Remove, connVars
      <4> QED
        BY <4>1
    <3>3. CASE DeviceRx
      BY <3>3 DEF DeviceRx, RxDone, RxUnknown, RxNothing, RxReset, RxRequest, RxResponse,
                  RxCreditUpdate, RxNotConnected, RxNeedCredit, RxRead, RxEndOfFile, RxReadFails,
                  Dequeue, connVars
    <3> QED
      BY <3>1, <3>2, <3>3 DEF Device
  <2> QED
    BY <2>1, <2>3, <2>4, <2>5 DEF ClosedByGuest
<1>3. TypeOK /\ TypeOK' /\ ClosedByGuest /\ Guest => ClosedByGuest'
  <2> SUFFICES ASSUME TypeOK, TypeOK', ClosedByGuest, Guest PROVE ClosedByGuest'
    OBVIOUS
  <2>1. UNCHANGED <<present, rx_queue>>
    BY DEF Guest, GuestSend, GuestResize, GuestRead, GuestClose, GuestAskCredit, GuestTimeout,
       GuestReceive, connVars
  <2>2. g_state \in {"closing", "closed"} => g_state' \in {"closing", "closed"}
    <3>1. CASE GuestReceive
      BY <3>1 DEF GuestReceive, NextState, Accepts, Refuses
    <3> QED
      BY <3>1 DEF Guest, GuestSend, GuestResize, GuestRead, GuestClose, GuestAskCredit,
                  GuestTimeout, guestVars
  <2>3. CASE GuestClose
    BY <2>1, <2>2, <2>3 DEF GuestClose, ClosedByGuest
  <2>4. CASE ~GuestClose
    <3>1. UNCHANGED txring
          \/ \E op \in GuestOps \ {"SHUTDOWN"}, len, size, fwd \in Counter :
               Transmit(GuestPacket(op, len, size, fwd))
      <4>1. /\ g_buf_alloc \in Counter /\ g_fwd_cnt \in Counter /\ 0 \in Counter
            /\ g_buf_alloc' \in Counter /\ g_fwd_cnt' \in Counter
            /\ GuestOps = {"RESPONSE", "RW", "CREDIT_UPDATE", "CREDIT_REQUEST", "SHUTDOWN", "RST"}
        BY PacketTypes DEF TypeOK, GuestOps
      <4>2. ASSUME NEW n \in GuestChunks, GuestSend(n) PROVE n \in Counter
        <5>1. Minus(g_tx_cnt, g_peer_fwd_cnt) \in Nat
          BY FieldTypes, DistanceType
        <5> QED
          BY <4>2, <5>1, FlowAssumption DEF GuestSend, GuestCredit, Counter
      <4>3. CASE \E n \in GuestChunks : GuestSend(n)
        BY <4>1, <4>2, <4>3 DEF GuestSend
      <4>4. ASSUME NEW size \in GuestBufSizes, GuestResize(size)
            PROVE  Transmit(GuestPacket("CREDIT_UPDATE", 0, g_buf_alloc', g_fwd_cnt))
        BY <4>4 DEF GuestResize
      <4>5. CASE GuestRead
        BY <4>1, <4>5 DEF GuestRead
      <4>6. CASE GuestAskCredit \/ GuestTimeout
        BY <4>1, <4>6 DEF GuestAskCredit, GuestTimeout, Tell
      <4>7. CASE GuestReceive
        <5>1. UNCHANGED txring
              \/ \E op \in {"RESPONSE", "RST", "CREDIT_UPDATE"} :
                   Transmit(GuestPacket(op, 0, g_buf_alloc, g_fwd_cnt))
          BY <4>7 DEF GuestReceive, Reply, Tell
        <5> QED
          BY <4>1, <5>1
      <4> QED
        BY <2>4, <4>1, <4>3, <4>4, <4>5, <4>6, <4>7 DEF Guest
    <3>2. ASSUME NEW op \in GuestOps \ {"SHUTDOWN"}, NEW len \in Counter, NEW size \in Counter,
                 NEW fwd \in Counter, Transmit(GuestPacket(op, len, size, fwd))
          PROVE  ToDeviceSoon("SHUTDOWN")' => ToDeviceSoon("SHUTDOWN")
      <4> DEFINE pkt == GuestPacket(op, len, size, fwd)
      <4>1. pkt \in GuestPackets /\ pkt.op # "SHUTDOWN" /\ txring' = Append(txring, pkt)
        BY <3>2 DEF GuestPacket, GuestPackets, Transmit, TypeOK
      <4> HIDE DEF pkt
      <4> QED
        BY <4>1, DeviceToldMore
    <3>3. ToDeviceSoon("SHUTDOWN")' => ToDeviceSoon("SHUTDOWN")
      BY <3>1, <3>2 DEF ToDeviceSoon
    <3> QED
      BY <2>1, <2>2, <3>3 DEF ClosedByGuest
  <2> QED
    BY <2>3, <2>4
<1>4. ClosedByGuest /\ (Host \/ UNCHANGED vars) => ClosedByGuest'
  BY DEF Host, HostWrite, HostRead, HostClose, vars, connVars, guestVars, ClosedByGuest,
     ToDeviceSoon
<1> QED
  BY <1>1, <1>2, <1>3, <1>4, TypeCorrect, PTL DEF Spec, Next

LagIsBounded ==
  present /\ ~h_closed =>
    /\ Behind(last_fwd_cnt) <= TxBufSize
    /\ Behind(fwd_cnt) <= Behind(last_fwd_cnt)
    /\ g_state \notin {"closing", "closed"} =>
         /\ Behind(last_fwd_cnt) <= Behind(g_peer_fwd_cnt)
         /\ \A i \in 1 .. Len(rxring) : CarriesCredit(rxring[i]) =>
              Behind(last_fwd_cnt) <= Behind(rxring[i].fwd_cnt)

LEMMA LagIsDifference ==
  ASSUME NEW sent \in Counter, NEW fwd \in Counter, NEW last \in Counter,
         Minus(sent, fwd) <= Minus(sent, last)
  PROVE  Minus(fwd, last) = Minus(sent, last) - Minus(sent, fwd)
  BY FlowAssumption DEF Counter, Minus

LEMMA LagDevice ==
  ASSUME TypeOK, TypeOK', CreditIsHonest, ReadHasReason, OpensFirst, ClosedByGuest,
         LagIsBounded, Device, present', ~h_closed'
  PROVE  LagIsBounded'
<1>0. (present' => present) /\ UNCHANGED <<h_closed, g_state, g_tx_cnt, g_peer_fwd_cnt>>
  BY DEF Device, DeviceTx, DeviceRx, WakeTx, WakeRx, FlushTxBuf, EnqueueRead, TxDone, TxUnknown,
     TxResponse, TxRw, TxCreditUpdate, TxCreditRequest, TxShutdown, TxRst, Remove, Forward,
     RxDone, RxUnknown, RxNothing, RxReset, RxRequest, RxResponse, RxCreditUpdate,
     RxNotConnected, RxNeedCredit, RxRead, RxEndOfFile, RxReadFails, PopKey, Dequeue,
     connVars, guestVars, hostVars
<1>1. present /\ ~h_closed /\ UNCHANGED <<g_state, g_tx_cnt, g_peer_fwd_cnt>>
  BY <1>0
<1>2. GuestKnowsCredit
  BY <1>1 DEF CreditIsHonest
<1>3. /\ Behind(last_fwd_cnt) <= TxBufSize
      /\ Behind(fwd_cnt) <= Behind(last_fwd_cnt)
      /\ g_state \notin {"closing", "closed"} =>
           /\ Behind(last_fwd_cnt) <= Behind(g_peer_fwd_cnt)
           /\ \A i \in 1 .. Len(rxring) : CarriesCredit(rxring[i]) =>
                Behind(last_fwd_cnt) <= Behind(rxring[i].fwd_cnt)
  BY <1>1 DEF LagIsBounded
<1>4. /\ Behind(fwd_cnt) \in Nat /\ Behind(last_fwd_cnt) \in Nat
      /\ Behind(g_peer_fwd_cnt) \in Nat /\ TxBufSize \in Nat
      /\ fwd_cnt \in Counter /\ g_tx_cnt \in Counter
  BY FieldTypes, FlowAssumption DEF TypeOK
<1>5. ASSUME NEW n \in Nat, n <= Behind(fwd_cnt), fwd_cnt' = Plus(fwd_cnt, n),
             UNCHANGED <<last_fwd_cnt, rxring, guestVars>>
      PROVE  LagIsBounded'
  <2>1. Minus(g_tx_cnt, fwd_cnt') = Behind(fwd_cnt) - n
    BY <1>4, <1>5, DistanceShrinks DEF Behind
  <2>2. Minus(g_tx_cnt, fwd_cnt') <= Behind(last_fwd_cnt)
    BY <1>3, <1>4, <1>5, <2>1
  <2> QED
    BY <1>1, <1>3, <1>5, <2>2 DEF LagIsBounded, Behind, CarriesCredit
<1>6. CASE UNCHANGED <<fwd_cnt, rxring, last_fwd_cnt>>
  BY <1>1, <1>3, <1>6 DEF LagIsBounded, Behind, CarriesCredit
<1>7. ASSUME UNCHANGED fwd_cnt,
             NEW pkt \in DevicePackets, rxring' = Append(rxring, pkt), pkt.fwd_cnt = fwd_cnt,
             Advertised \/ (UNCHANGED last_fwd_cnt /\ (CarriesCredit(pkt) => Unnoted))
      PROVE  LagIsBounded'
  <2>1. /\ Len(rxring) \in Nat /\ Len(rxring') = Len(rxring) + 1
        /\ rxring'[Len(rxring) + 1] = pkt
        /\ \A i \in 1 .. Len(rxring) : rxring'[i] = rxring[i]
    BY <1>7, AppendFacts DEF TypeOK
  <2>2. \A i \in 1 .. Len(rxring') : i \in 1 .. Len(rxring) \/ i = Len(rxring) + 1
    BY <2>1
  <2>3. CASE Advertised
    <3>1. Behind(fwd_cnt) <= TxBufSize /\ Behind(fwd_cnt) <= Behind(g_peer_fwd_cnt)
      BY <1>2, <1>4 DEF GuestKnowsCredit
    <3>2. \A i \in 1 .. Len(rxring') : CarriesCredit(rxring'[i]) =>
            Behind(fwd_cnt) <= Behind(rxring'[i].fwd_cnt)
      BY <1>2, <1>4, <1>7, <2>1, <2>2 DEF GuestKnowsCredit
    <3> QED
      BY <1>1, <1>4, <1>7, <2>3, <3>1, <3>2 DEF LagIsBounded, Behind, CarriesCredit, Advertised
  <2>4. CASE UNCHANGED last_fwd_cnt /\ (CarriesCredit(pkt) => Unnoted)
    <3>1. CarriesCredit(pkt) /\ g_state \notin {"closing", "closed"} =>
            Behind(last_fwd_cnt) <= Behind(fwd_cnt)
      <4>1. \/ NotSentYet
            \/ g_state \in {"closing", "closed"}
            \/ ~Unnoted
        BY <1>1 DEF Unnoted, OpensFirst, ClosedByGuest, ReadHasReason, TypeOK
      <4> QED
        BY <1>4, <2>4, <4>1 DEF NotSentYet
    <3>2. g_state \notin {"closing", "closed"} =>
            \A i \in 1 .. Len(rxring') : CarriesCredit(rxring'[i]) =>
              Behind(last_fwd_cnt) <= Behind(rxring'[i].fwd_cnt)
      BY <1>3, <1>7, <2>1, <2>2, <3>1
    <3> QED
      BY <1>1, <1>3, <1>7, <2>4, <3>2 DEF LagIsBounded, Behind, CarriesCredit
  <2> QED
    BY <1>7, <2>3, <2>4
<1>8. UNCHANGED fwd_cnt
      \/ \E n \in Nat : /\ n <= Behind(fwd_cnt) /\ fwd_cnt' = Plus(fwd_cnt, n)
                        /\ UNCHANGED <<last_fwd_cnt, rxring, guestVars>>
  BY ForwardMoves
<1>9. CASE UNCHANGED fwd_cnt
  BY <1>6, <1>7, <1>9, DeviceSays
<1> QED
  BY <1>5, <1>8, <1>9

LEMMA LagGuest ==
  ASSUME TypeOK, TypeOK', CreditIsHonest, LagIsBounded, Guest, present', ~h_closed'
  PROVE  LagIsBounded'
<1>0. UNCHANGED <<present, h_closed, fwd_cnt, last_fwd_cnt>>
  BY DEF Guest, GuestSend, GuestResize, GuestRead, GuestClose, GuestAskCredit, GuestTimeout,
     GuestReceive, connVars, credit, hostVars
<1>1. present /\ ~h_closed /\ UNCHANGED <<fwd_cnt, last_fwd_cnt>>
  BY <1>0
<1>2. GuestKnowsCredit
  BY <1>1 DEF CreditIsHonest
<1>3. /\ Behind(last_fwd_cnt) <= TxBufSize
      /\ Behind(fwd_cnt) <= Behind(last_fwd_cnt)
      /\ g_state \notin {"closing", "closed"} =>
           /\ Behind(last_fwd_cnt) <= Behind(g_peer_fwd_cnt)
           /\ \A i \in 1 .. Len(rxring) : CarriesCredit(rxring[i]) =>
                Behind(last_fwd_cnt) <= Behind(rxring[i].fwd_cnt)
  BY <1>1 DEF LagIsBounded
<1>4. /\ Behind(fwd_cnt) \in Nat /\ Behind(last_fwd_cnt) \in Nat
      /\ Behind(g_peer_fwd_cnt) \in Nat /\ TxBufSize \in Nat
      /\ fwd_cnt \in Counter /\ last_fwd_cnt \in Counter /\ g_peer_fwd_cnt \in Counter
      /\ \A i \in 1 .. Len(rxring) :
           rxring[i].fwd_cnt \in Counter /\ Behind(rxring[i].fwd_cnt) \in Nat
  BY FieldTypes, FlowAssumption DEF TypeOK
<1>5. g_state \in {"closing", "closed"} => g_state' \in {"closing", "closed"}
  <2>1. CASE GuestReceive
    BY <2>1 DEF GuestReceive, NextState, Accepts, Refuses
  <2> QED
    BY <2>1 DEF Guest, GuestSend, GuestResize, GuestRead, GuestClose, GuestAskCredit,
                GuestTimeout, guestVars
<1>6. CASE UNCHANGED <<g_tx_cnt, g_peer_fwd_cnt, rxring>>
  BY <1>1, <1>3, <1>5, <1>6 DEF LagIsBounded, Behind, CarriesCredit
<1>7. ASSUME NEW n \in GuestChunks, GuestSend(n) PROVE LagIsBounded'
  <2>1. /\ n \in Nat /\ n <= GuestCredit /\ g_tx_cnt' = Plus(g_tx_cnt, n)
        /\ g_state = "established" /\ UNCHANGED <<g_state, g_peer_fwd_cnt, rxring>>
    BY <1>7, FlowAssumption DEF GuestSend
  <2>2. \A x \in Counter : Behind(x) <= Behind(g_peer_fwd_cnt) =>
          Minus(g_tx_cnt', x) = Behind(x) + n
    BY <1>2, <2>1, StreamGrows
  <2>3. Minus(g_tx_cnt', last_fwd_cnt) = Behind(last_fwd_cnt) + n
    BY <1>3, <1>4, <2>1, <2>2
  <2>4. Minus(g_tx_cnt', fwd_cnt) = Behind(fwd_cnt) + n
    BY <1>2, <1>4, <2>2 DEF GuestKnowsCredit
  <2>5. Minus(g_tx_cnt', g_peer_fwd_cnt) = Behind(g_peer_fwd_cnt) + n
    BY <1>4, <2>2
  <2>6. Minus(g_tx_cnt', last_fwd_cnt) <= TxBufSize
    BY <1>3, <1>4, <2>1, <2>3 DEF GuestCredit, Behind
  <2>7. /\ Minus(g_tx_cnt', fwd_cnt) <= Minus(g_tx_cnt', last_fwd_cnt)
        /\ Minus(g_tx_cnt', last_fwd_cnt) <= Minus(g_tx_cnt', g_peer_fwd_cnt)
    BY <1>3, <1>4, <2>1, <2>3, <2>4, <2>5
  <2>8. \A i \in 1 .. Len(rxring) : CarriesCredit(rxring[i]) =>
          Minus(g_tx_cnt', last_fwd_cnt) <= Minus(g_tx_cnt', rxring[i].fwd_cnt)
    <3> SUFFICES ASSUME NEW i \in 1 .. Len(rxring), CarriesCredit(rxring[i])
                 PROVE  Minus(g_tx_cnt', last_fwd_cnt) <= Minus(g_tx_cnt', rxring[i].fwd_cnt)
      OBVIOUS
    <3>1. Minus(g_tx_cnt', rxring[i].fwd_cnt) = Behind(rxring[i].fwd_cnt) + n
      BY <1>2, <1>4, <2>2 DEF GuestKnowsCredit
    <3>2. Behind(last_fwd_cnt) <= Behind(rxring[i].fwd_cnt)
      BY <1>3, <2>1
    <3> QED
      BY <1>4, <2>1, <2>3, <3>1, <3>2
  <2> QED
    BY <1>1, <2>1, <2>6, <2>7, <2>8 DEF LagIsBounded, Behind, CarriesCredit
<1>8. CASE GuestReceive
  <2>1. /\ rxring # <<>> /\ rxring' = Tail(rxring) /\ UNCHANGED g_tx_cnt
        /\ \/ UNCHANGED g_peer_fwd_cnt
           \/ /\ g_peer_fwd_cnt' = Head(rxring).fwd_cnt
              /\ CarriesCredit(Head(rxring))
    BY <1>8 DEF GuestReceive, Foreign, CarriesCredit
  <2>2. /\ Head(rxring) = rxring[1] /\ 1 \in 1 .. Len(rxring)
        /\ \A i \in 1 .. Len(rxring') : rxring'[i] = rxring[i + 1] /\ i + 1 \in 1 .. Len(rxring)
    BY <2>1, TailFacts DEF TypeOK
  <2>3. g_state' \notin {"closing", "closed"} =>
          /\ Behind(last_fwd_cnt) <= Minus(g_tx_cnt, g_peer_fwd_cnt')
          /\ \A i \in 1 .. Len(rxring') : CarriesCredit(rxring'[i]) =>
               Behind(last_fwd_cnt) <= Behind(rxring'[i].fwd_cnt)
    BY <1>3, <1>5, <2>1, <2>2 DEF Behind
  <2> QED
    BY <1>1, <1>3, <2>1, <2>3 DEF LagIsBounded, Behind, CarriesCredit
<1> QED
  BY <1>6, <1>7, <1>8 DEF Guest, GuestResize, GuestRead, GuestClose, GuestAskCredit, GuestTimeout,
                          guestVars

LEMMA LagHeld == Spec => [](LagIsBounded /\ FwdLagBounded)
<1> DEFINE Known == /\ TypeOK /\ CreditIsHonest /\ ReadHasReason /\ OpensFirst /\ ClosedByGuest
<1>1. Init => LagIsBounded /\ FwdLagBounded
  <2> SUFFICES ASSUME Init, NEW busy \in RxBusy,
                      rxring = [i \in 1 .. busy |-> DevicePacket("OTHER", 0, 0)]
               PROVE  LagIsBounded /\ FwdLagBounded
    BY DEF Init
  <2>1. \A i \in 1 .. Len(rxring) : ~CarriesCredit(rxring[i])
    BY FlowAssumption DEF DevicePacket, CarriesCredit
  <2>2. fwd_cnt = 0 /\ last_fwd_cnt = 0 /\ g_tx_cnt = 0 /\ g_peer_fwd_cnt = 0
    BY DEF Init
  <2>3. Minus(0, 0) = 0
    BY FlowAssumption DEF Minus
  <2> QED
    BY <2>1, <2>2, <2>3, FlowAssumption DEF LagIsBounded, FwdLagBounded, Behind
<1>2. Known /\ TypeOK' /\ LagIsBounded /\ [Next]_vars => LagIsBounded'
  <2> SUFFICES ASSUME Known, TypeOK', LagIsBounded, [Next]_vars, present', ~h_closed'
               PROVE  LagIsBounded'
    BY DEF LagIsBounded
  <2>1. CASE Host \/ UNCHANGED vars
    <3>1. UNCHANGED <<present, fwd_cnt, last_fwd_cnt, rxring, g_tx_cnt, g_peer_fwd_cnt, g_state>>
      BY <2>1 DEF Host, HostWrite, HostRead, HostClose, vars, connVars, credit, guestVars
    <3>2. UNCHANGED h_closed \/ ~h_closed
      BY <2>1 DEF Host, HostWrite, HostRead, HostClose, vars, hostVars
    <3> QED
      BY <3>1, <3>2 DEF LagIsBounded, Behind, CarriesCredit
  <2> QED
    BY <2>1, LagDevice, LagGuest DEF Next
<1>3. Known /\ TypeOK' /\ LagIsBounded' /\ FwdLagBounded /\ [Next]_vars => FwdLagBounded'
  <2> SUFFICES ASSUME Known, TypeOK', LagIsBounded', FwdLagBounded, [Next]_vars, present'
               PROVE  Minus(fwd_cnt', last_fwd_cnt') <= TxBufSize
    BY DEF FwdLagBounded
  <2>1. CASE ~h_closed'
    <3>1. /\ Minus(g_tx_cnt', fwd_cnt') <= Minus(g_tx_cnt', last_fwd_cnt')
          /\ Minus(g_tx_cnt', last_fwd_cnt') <= TxBufSize
      BY <2>1 DEF LagIsBounded, Behind
    <3>2. fwd_cnt' \in Counter /\ last_fwd_cnt' \in Counter /\ g_tx_cnt' \in Counter
      BY DEF TypeOK
    <3>3. /\ Minus(g_tx_cnt', fwd_cnt') \in Nat /\ Minus(g_tx_cnt', last_fwd_cnt') \in Nat
          /\ TxBufSize \in Nat
      BY <3>2, DistanceType, FlowAssumption
    <3>4. Minus(fwd_cnt', last_fwd_cnt') = Minus(g_tx_cnt', last_fwd_cnt') - Minus(g_tx_cnt', fwd_cnt')
      BY <3>1, <3>2, LagIsDifference
    <3> QED
      BY <3>1, <3>3, <3>4
  <2>2. CASE h_closed'
    <3>1. present /\ UNCHANGED fwd_cnt /\ (UNCHANGED last_fwd_cnt \/ Advertised)
      <4>1. CASE Device
        <5>1. present /\ h_closed
          BY <2>2, <4>1
          DEF Device, DeviceTx, DeviceRx, WakeTx, WakeRx, FlushTxBuf, EnqueueRead, TxDone, TxUnknown,
              TxResponse, TxRw, TxCreditUpdate, TxCreditRequest, TxShutdown, TxRst, Remove, Forward,
              RxDone, RxUnknown, RxNothing, RxReset, RxRequest, RxResponse, RxCreditUpdate,
              RxNotConnected, RxNeedCredit, RxRead, RxEndOfFile, RxReadFails, PopKey, Dequeue,
              connVars, hostVars
        <5>2. UNCHANGED fwd_cnt
          BY <4>1, <5>1
          DEF Device, DeviceTx, DeviceRx, WakeTx, WakeRx, FlushTxBuf, OnlyEpollOut, EnqueueRead,
              TxDone, TxUnknown, TxResponse, TxRw, SendBehind, SendFails, SendDirect,
              TxCreditUpdate, TxCreditRequest, TxShutdown, TxRst, Remove,
              RxDone, RxUnknown, RxNothing, RxReset, RxRequest, RxResponse, RxCreditUpdate,
              RxNotConnected, RxNeedCredit, RxRead, RxEndOfFile, RxReadFails, PopKey, Dequeue,
              connVars, credit
        <5> QED
          BY <4>1, <5>1, <5>2, DeviceSays
      <4>2. CASE Guest \/ Host \/ UNCHANGED vars
        BY <4>2 DEF Guest, GuestSend, GuestResize, GuestRead, GuestClose, GuestAskCredit,
           GuestTimeout, GuestReceive, Host, HostWrite, HostRead, HostClose, vars, connVars, credit
      <4> QED
        BY <4>1, <4>2 DEF Next
    <3>2. Minus(fwd_cnt, fwd_cnt) = 0
      BY DistanceType DEF TypeOK
    <3> QED
      BY <3>1, <3>2, FlowAssumption DEF Advertised, FwdLagBounded
  <2> QED
    BY <2>1, <2>2
<1>4. Spec => []Known
  BY TypeCorrect, CreditHonest, ReasonHeld, OpensHeld, ClosedHeld, PTL
<1> HIDE DEF Known
<1>5. Known => TypeOK
  BY DEF Known
<1> QED
  BY <1>1, <1>2, <1>3, <1>4, <1>5, PTL DEF Spec

(***************************************************************************)
(* What a connection keeps on the way to the host, as the run of           *)
(* VsockFlowTx checks it: no byte is lost or overtaken between the tx ring *)
(* and the stream (send_bytes() and flush_tx_buf()), every pending         *)
(* operation has its entry of backend_rxq, and the free space that         *)
(* send_bytes() compares with its threshold does not underflow.            *)
(***************************************************************************)
THEOREM TransmitStaysKept == Spec => TransmitKept
  BY BytesKept, KeysHeld, LagHeld, OrderKept, PTL DEF TransmitKept

=============================================================================
