-------------------------- MODULE VsockSiblingsProofs ---------------------------
(***************************************************************************)
(* For any number of guests, whatever they send to whom, and with every    *)
(* restart:                                                                *)
(*  - no thread sleeps on a packet of a sibling.  NoLostWakeup is not      *)
(*    inductive: a thread that is at its other queue after this one is     *)
(*    about to sleep as well, and the thread of a server that is made anew *)
(*    must not have been between the two halves of a send;                 *)
(*  - what one guest sends another arrives in order.  Seen by one pair of  *)
(*    guests, a packet of anyone else is a gap in the queues, and each     *)
(*    step puts a gap in or takes one out, takes the oldest, appends the   *)
(*    next, or moves one from a queue to the next;                         *)
(*  - the tx buffer under a connection is a bounded byte queue.            *)
(***************************************************************************)
EXTENDS VsockSiblings, VsockTxBuf, SequenceTheorems, TLAPS

\* What the argument needs of the types; of the queues, only whether they
\* are empty or full.
WakeTypeOK ==
  /\ cid_map \subseteq VMs
  /\ raw_pkts_queue = [v \in VMs |-> raw_pkts_queue[v]]
  /\ rxring = [v \in VMs |-> rxring[v]]
  /\ sibling_event_fd \in [VMs -> BOOLEAN] /\ rxkick \in [VMs -> BOOLEAN]
  /\ server \in [VMs -> {"up", "stopping", "down"}]
  /\ pc \in [VMs -> {"idle", "tx", "notify", "rx", "std1", "std2", "raw0", "raw1", "raw2", "dead"}]
  /\ target \in [VMs -> VMs]

\* The thread will look at its raw packets again, or has no room for one.
Woken(v) ==
  \/ sibling_event_fd[v] \/ rxkick[v]
  \/ \E u \in VMs : pc[u] = "notify" /\ target[u] = v
  \/ ~RxAvail(v)

\* A thread that sleeps, or will not come to its raw packets before it does.
WakesCome == \A v \in VMs : pc[v] \in {"idle", "std2"} /\ PendingRaw(v) => Woken(v)

\* The thread of a server that is down is in the middle of no event.
DownIsIdle == \A v \in VMs : server[v] = "down" => pc[v] \in {"idle", "dead"}

WakeIInv == WakeTypeOK /\ WakesCome /\ DownIsIdle

LEMMA WakeStart == Init => WakeIInv
BY DEF Init, WakeIInv, WakeTypeOK, WakesCome, DownIsIdle, PendingRaw

\* An event or a kick is only consumed by a thread that goes to its queues.
LEMMA WakeByWake ==
  ASSUME WakeIInv, NEW v \in VMs, Wake(v)
  PROVE  WakeIInv'
<1> USE DEF WakeIInv, WakeTypeOK, WakesCome, DownIsIdle, Woken, PendingRaw, RxAvail, Idle, Go,
      life, rings, counts
<1>1. CASE WakeTx(v)
  BY <1>1 DEF WakeTx
<1>2. CASE WakeRx(v)
  BY <1>2 DEF WakeRx
<1>3. CASE WakeBackend(v)
  BY <1>3 DEF WakeBackend
<1>4. CASE WakeSibling(v)
  BY <1>4 DEF WakeSibling
<1> QED
  BY <1>1, <1>2, <1>3, <1>4 DEF Wake

\* A sender is about to notify until it has.
LEMMA WakeByTx ==
  ASSUME WakeIInv, NEW v \in VMs, Tx(v)
  PROVE  WakeIInv'
<1> USE DEF WakeIInv, WakeTypeOK, WakesCome, DownIsIdle, Woken, PendingRaw, RxAvail, Idle, Go,
      life, rings, counts
<1>1. CASE TxDone(v)
  BY <1>1 DEF TxDone
<1>2. CASE TxDropped(v)
  BY <1>2 DEF TxDropped, TakePacket
<1>3. CASE TxPass(v)
  BY <1>3 DEF TxPass, TakePacket, Reachable
<1>4. CASE TxNotify(v)
  BY <1>4 DEF TxNotify
<1> QED
  BY <1>1, <1>2, <1>3, <1>4 DEF Tx

\* A thread leaves its raw packets when there is none or no room for one.
LEMMA WakeByRx ==
  ASSUME WakeIInv, NEW v \in VMs, Rx(v)
  PROVE  WakeIInv'
<1> USE DEF WakeIInv, WakeTypeOK, WakesCome, DownIsIdle, Woken, PendingRaw, RxAvail, Idle, Go,
      life, rings, counts
<1>1. CASE RxStart(v)
  BY <1>1 DEF RxStart, FirstTurn
<1>2. CASE RawPacket(v)
  BY <1>2 DEF RawPacket
<1>3. CASE RawDone(v)
  BY <1>3 DEF RawDone
<1>4. CASE StdPacket(v)
  BY <1>4 DEF StdPacket
<1>5. CASE StdDone(v)
  BY <1>5 DEF StdDone
<1> QED
  BY <1>1, <1>2, <1>3, <1>4, <1>5 DEF Rx

\* A server goes down between two events, and a new one has an empty queue.
LEMMA WakeByRestart ==
  ASSUME WakeIInv, NEW v \in VMs, Restart(v)
  PROVE  WakeIInv'
<1> USE DEF WakeIInv, WakeTypeOK, WakesCome, DownIsIdle, Woken, PendingRaw, RxAvail, Idle, Go,
      threads, life, rings, counts
<1>1. CASE Disconnect(v)
  BY <1>1 DEF Disconnect
<1>2. CASE DropBackend(v)
  BY <1>2 DEF DropBackend
<1>3. CASE NewBackend(v)
  BY <1>3 DEF NewBackend
<1> QED
  BY <1>1, <1>2, <1>3 DEF Restart

\* A guest that makes room kicks.
LEMMA WakeByGuest ==
  ASSUME WakeIInv, NEW v \in VMs, Guest(v)
  PROVE  WakeIInv'
<1> USE DEF WakeIInv, WakeTypeOK, WakesCome, DownIsIdle, Woken, PendingRaw, RxAvail,
      threads, life, rings, counts
<1>1. CASE VmmConnect(v)
  BY <1>1 DEF VmmConnect
<1>2. CASE GuestReceive(v)
  BY <1>2 DEF GuestReceive
<1>3. ASSUME NEW d \in VMs, GuestSend(v, d) PROVE WakeIInv'
  BY <1>3 DEF GuestSend
<1> QED
  BY <1>1, <1>2, <1>3 DEF Guest

\* No packet of a sibling waits for a thread that nothing will wake, for any
\* guests, groups, rings and restarts (send_pkt(), process_rx()).
THEOREM WakesComeBack == Spec => []NoLostWakeup
<1>1. WakeIInv /\ [Next]_vars => WakeIInv'
  <2> SUFFICES ASSUME WakeIInv, [Next]_vars PROVE WakeIInv'
    OBVIOUS
  <2>1. CASE Next
    BY <2>1, WakeByWake, WakeByTx, WakeByRx, WakeByRestart, WakeByGuest DEF Next
  <2>2. CASE UNCHANGED vars
    BY <2>2 DEF WakeIInv, WakeTypeOK, WakesCome, DownIsIdle, Woken, PendingRaw, RxAvail,
       vars, threads, life, rings, counts
  <2> QED
    BY <2>1, <2>2
<1>2. WakeIInv => NoLostWakeup
  BY DEF WakeIInv, WakesCome, Woken, NoLostWakeup
<1> QED
  BY <1>1, <1>2, WakeStart, PTL DEF Spec

-----------------------------------------------------------------------------
(***************************************************************************)
(* The order of the packets, for any number of guests, sizes of the rings  *)
(* and numbers of packets, through every restart.  For each pair of guests *)
(* the packets of the others count as gaps; the steps of the code append a *)
(* packet, take the oldest away, and put gaps in or take them out.         *)
(***************************************************************************)
Nums == 0 .. Numbers

LEMMA NumbersPositive == Numbers \in Nat /\ 0 < Numbers
BY SiblingsAssumption

LEMMA NextIsNumber ==
  ASSUME NEW n \in 0 .. Numbers - 1
  PROVE  NextNum(n) \in 0 .. Numbers - 1
BY NumbersPositive, SMT DEF NextNum

\* A gap may be put in anywhere.
LEMMA GapPutIn ==
  ASSUME NEW a \in Seq(Nums), NEW b \in Seq(Nums), NEW last,
         Consecutive(a \o b, last)
  PROVE  Consecutive(a \o (<<None>> \o b), last)
<1> DEFINE s == a \o b
           t == a \o (<<None>> \o b)
           n == Len(a)
           f(i) == IF i <= n THEN i ELSE i + 1
<1>1. /\ n \in Nat /\ Len(s) \in Nat /\ Len(t) = Len(s) + 1 /\ n <= Len(s)
      /\ \A i \in 1 .. Len(s) : t[f(i)] = s[i]
      /\ t[n + 1] = None
  OBVIOUS
<1> SUFFICES ASSUME NEW x \in 1 .. Len(t), t[x] # None
             PROVE  \/ t[x] = last /\ \A k \in x + 1 .. Len(t) : t[k] = None
                    \/ \E y \in x + 1 .. Len(t) :
                         t[y] = NextNum(t[x]) /\ \A k \in x + 1 .. y - 1 : t[k] = None
  BY DEF Consecutive
<1> HIDE DEF s, t, n
<1>2. PICK i \in 1 .. Len(s) : x = f(i)
  <2>1. CASE x <= n
    BY <1>1, <2>1
  <2>2. CASE x > n + 1
    <3>1. x - 1 \in 1 .. Len(s) /\ f(x - 1) = x
      BY <1>1, <2>2
    <3> QED
      BY <3>1
  <2> QED
    BY <1>1, <2>1, <2>2
<1>3. t[x] = s[i] /\ s[i] # None
  BY <1>1, <1>2
<1>4. \A k \in x + 1 .. Len(t) : k = n + 1 \/ \E j \in i + 1 .. Len(s) : k = f(j)
  <2> SUFFICES ASSUME NEW k \in x + 1 .. Len(t), k # n + 1
               PROVE  \E j \in i + 1 .. Len(s) : k = f(j)
    OBVIOUS
  <2>1. CASE k <= n
    BY <1>1, <1>2, <2>1
  <2>2. CASE k > n + 1
    <3>1. k - 1 \in i + 1 .. Len(s) /\ f(k - 1) = k
      BY <1>1, <1>2, <2>2
    <3> QED
      BY <3>1
  <2> QED
    BY <1>1, <2>1, <2>2
<1>5. CASE s[i] = last /\ \A k \in i + 1 .. Len(s) : s[k] = None
  <2>1. ASSUME NEW k \in x + 1 .. Len(t) PROVE t[k] = None
    <3>1. CASE k = n + 1
      BY <1>1, <3>1
    <3>2. CASE k # n + 1
      <4>1. PICK j \in i + 1 .. Len(s) : k = f(j)
        BY <1>4, <3>2
      <4>2. j \in 1 .. Len(s) /\ s[j] = None
        BY <1>1, <1>5
      <4> QED
        BY <1>1, <4>1, <4>2
    <3> QED
      BY <3>1, <3>2
  <2> QED
    BY <1>3, <1>5, <2>1
<1>6. ASSUME NEW j \in i + 1 .. Len(s),
             s[j] = NextNum(s[i]), \A k \in i + 1 .. j - 1 : s[k] = None
      PROVE  \E y \in x + 1 .. Len(t) :
               t[y] = NextNum(t[x]) /\ \A k \in x + 1 .. y - 1 : t[k] = None
  <2>1. f(j) \in x + 1 .. Len(t) /\ t[f(j)] = NextNum(t[x])
    BY <1>1, <1>2, <1>3, <1>6
  <2>2. ASSUME NEW k \in x + 1 .. f(j) - 1 PROVE t[k] = None
    <3>1. CASE k = n + 1
      BY <1>1, <3>1
    <3>2. CASE k # n + 1
      <4>1. k \in x + 1 .. Len(t)
        BY <1>1, <1>2, <2>1
      <4>2. PICK m \in i + 1 .. Len(s) : k = f(m)
        BY <1>4, <3>2, <4>1
      <4>3. m \in i + 1 .. j - 1
        BY <1>1, <4>2
      <4> QED
        BY <1>1, <1>6, <4>2, <4>3
    <3> QED
      BY <3>1, <3>2
  <2> QED
    BY <2>1, <2>2
<1>7. \/ s[i] = last /\ \A k \in i + 1 .. Len(s) : s[k] = None
      \/ \E j \in i + 1 .. Len(s) :
           s[j] = NextNum(s[i]) /\ \A k \in i + 1 .. j - 1 : s[k] = None
  BY <1>3 DEF Consecutive, s
<1> QED
  BY <1>3, <1>5, <1>6, <1>7

\* And taken out.
LEMMA GapTakenOut ==
  ASSUME NEW a \in Seq(Nums), NEW b \in Seq(Nums), NEW last,
         Consecutive(a \o (<<None>> \o b), last)
  PROVE  Consecutive(a \o b, last)
<1> DEFINE s == a \o b
           t == a \o (<<None>> \o b)
           n == Len(a)
           f(i) == IF i <= n THEN i ELSE i + 1
           g(k) == IF k <= n THEN k ELSE k - 1
<1>1. /\ n \in Nat /\ Len(s) \in Nat /\ Len(t) = Len(s) + 1 /\ n <= Len(s)
      /\ \A i \in 1 .. Len(s) : t[f(i)] = s[i]
      /\ t[n + 1] = None
  OBVIOUS
<1>2. \A l \in 0 .. Numbers - 1 : NextNum(l) # None
  BY NextIsNumber, NumbersPositive DEF None
<1>3. \A i \in 1 .. Len(s) : s[i] \in Nums
  OBVIOUS
<1> SUFFICES ASSUME NEW i \in 1 .. Len(s), s[i] # None
             PROVE  \/ s[i] = last /\ \A k \in i + 1 .. Len(s) : s[k] = None
                    \/ \E j \in i + 1 .. Len(s) :
                         s[j] = NextNum(s[i]) /\ \A k \in i + 1 .. j - 1 : s[k] = None
  BY DEF Consecutive
<1> HIDE DEF s, t, n
<1>4. t[f(i)] = s[i] /\ f(i) \in 1 .. Len(t) /\ NextNum(s[i]) # None
  <2>1. s[i] \in 0 .. Numbers - 1
    BY <1>3, NumbersPositive DEF None, Nums
  <2> QED
    BY <1>1, <1>2, <2>1
<1>5. \/ s[i] = last /\ \A k \in f(i) + 1 .. Len(t) : t[k] = None
      \/ \E y \in f(i) + 1 .. Len(t) :
           t[y] = NextNum(s[i]) /\ \A k \in f(i) + 1 .. y - 1 : t[k] = None
  BY <1>4 DEF Consecutive, t
<1>6. CASE s[i] = last /\ \A k \in f(i) + 1 .. Len(t) : t[k] = None
  <2>1. ASSUME NEW k \in i + 1 .. Len(s) PROVE s[k] = None
    <3>1. f(k) \in f(i) + 1 .. Len(t) /\ t[f(k)] = s[k]
      BY <1>1, <2>1
    <3> QED
      BY <1>6, <3>1
  <2> QED
    BY <1>6, <2>1
<1>7. ASSUME NEW y \in f(i) + 1 .. Len(t),
             t[y] = NextNum(s[i]), \A k \in f(i) + 1 .. y - 1 : t[k] = None
      PROVE  \E j \in i + 1 .. Len(s) :
               s[j] = NextNum(s[i]) /\ \A k \in i + 1 .. j - 1 : s[k] = None
  <2>1. y # n + 1
    BY <1>1, <1>4, <1>7
  <2>2. g(y) \in i + 1 .. Len(s) /\ f(g(y)) = y
    BY <1>1, <2>1, SMTT(30)
  <2>3. s[g(y)] = NextNum(s[i])
    <3>1. g(y) \in 1 .. Len(s)
      BY <1>1, <2>2
    <3>2. t[f(g(y))] = s[g(y)]
      BY <1>1, <3>1
    <3> QED
      BY <1>7, <2>2, <3>2
  <2>4. ASSUME NEW k \in i + 1 .. g(y) - 1 PROVE s[k] = None
    <3>1. k \in 1 .. Len(s) /\ f(k) \in f(i) + 1 .. y - 1
      BY <1>1, <2>1, <2>2
    <3> QED
      BY <1>1, <1>7, <3>1
  <2> QED
    BY <2>2, <2>3, <2>4
<1> QED
  BY <1>5, <1>6, <1>7

\* The oldest may be taken away.
LEMMA OldestTaken ==
  ASSUME NEW b \in Seq(Nums), NEW x \in Nums, NEW last, Consecutive(<<x>> \o b, last)
  PROVE  Consecutive(b, last)
<1> DEFINE t == <<x>> \o b
<1>1. Len(b) \in Nat /\ Len(t) = Len(b) + 1 /\ \A i \in 1 .. Len(b) : t[i + 1] = b[i]
  OBVIOUS
<1> SUFFICES ASSUME NEW i \in 1 .. Len(b), b[i] # None
             PROVE  \/ b[i] = last /\ \A k \in i + 1 .. Len(b) : b[k] = None
                    \/ \E j \in i + 1 .. Len(b) :
                         b[j] = NextNum(b[i]) /\ \A k \in i + 1 .. j - 1 : b[k] = None
  BY DEF Consecutive
<1> HIDE DEF t
<1>2. \/ b[i] = last /\ \A k \in i + 2 .. Len(t) : t[k] = None
      \/ \E y \in i + 2 .. Len(t) :
           t[y] = NextNum(b[i]) /\ \A k \in i + 2 .. y - 1 : t[k] = None
  <2>1. i + 1 \in 1 .. Len(t) /\ t[i + 1] = b[i] /\ (i + 1) + 1 = i + 2
    BY <1>1
  <2> QED
    BY <2>1 DEF Consecutive, t
<1>3. CASE b[i] = last /\ \A k \in i + 2 .. Len(t) : t[k] = None
  <2>1. ASSUME NEW k \in i + 1 .. Len(b) PROVE b[k] = None
    <3>1. k + 1 \in i + 2 .. Len(t) /\ t[k + 1] = b[k]
      BY <1>1
    <3> QED
      BY <1>3, <3>1
  <2> QED
    BY <1>3, <2>1
<1>4. ASSUME NEW y \in i + 2 .. Len(t),
             t[y] = NextNum(b[i]), \A k \in i + 2 .. y - 1 : t[k] = None
      PROVE  \E j \in i + 1 .. Len(b) :
               b[j] = NextNum(b[i]) /\ \A k \in i + 1 .. j - 1 : b[k] = None
  <2>1. y - 1 \in i + 1 .. Len(b) /\ b[y - 1] = NextNum(b[i])
    BY <1>1, <1>4, SMTT(30)
  <2>2. ASSUME NEW k \in i + 1 .. y - 2 PROVE b[k] = None
    <3>1. k + 1 \in i + 2 .. y - 1 /\ t[k + 1] = b[k]
      BY <1>1, <2>1
    <3> QED
      BY <1>4, <3>1
  <2>3. (y - 1) - 1 = y - 2
    OBVIOUS
  <2> QED
    BY <2>1, <2>2, <2>3
<1> QED
  BY <1>2, <1>3, <1>4

\* The next one may be appended.
LEMMA NextAppended ==
  ASSUME NEW a \in Seq(Nums), NEW last \in 0 .. Numbers - 1, Consecutive(a, last)
  PROVE  Consecutive(a \o <<NextNum(last)>>, NextNum(last))
<1> DEFINE x == NextNum(last)
           t == a \o <<x>>
<1>1. /\ Len(a) \in Nat /\ Len(t) = Len(a) + 1 /\ t[Len(a) + 1] = x
      /\ \A i \in 1 .. Len(a) : t[i] = a[i]
  OBVIOUS
<1> HIDE DEF x, t
<1> SUFFICES ASSUME NEW i \in 1 .. Len(t), t[i] # None
             PROVE  \/ t[i] = x /\ \A k \in i + 1 .. Len(t) : t[k] = None
                    \/ \E j \in i + 1 .. Len(t) :
                         t[j] = NextNum(t[i]) /\ \A k \in i + 1 .. j - 1 : t[k] = None
  BY DEF Consecutive, t, x
<1>2. CASE i = Len(a) + 1
  BY <1>1, <1>2
<1>3. CASE i \in 1 .. Len(a)
  <2>1. CASE a[i] = last /\ \A k \in i + 1 .. Len(a) : a[k] = None
    <3>1. Len(a) + 1 \in i + 1 .. Len(t) /\ t[Len(a) + 1] = NextNum(t[i])
      BY <1>1, <1>3, <2>1 DEF x
    <3>2. \A k \in i + 1 .. (Len(a) + 1) - 1 : t[k] = None
      BY <1>1, <1>3, <2>1
    <3> QED
      BY <3>1, <3>2
  <2>2. ASSUME NEW j \in i + 1 .. Len(a),
               a[j] = NextNum(a[i]), \A k \in i + 1 .. j - 1 : a[k] = None
        PROVE  \E y \in i + 1 .. Len(t) :
                 t[y] = NextNum(t[i]) /\ \A k \in i + 1 .. y - 1 : t[k] = None
    BY <1>1, <1>3, <2>2
  <2> QED
    BY <1>1, <1>3, <2>1, <2>2 DEF Consecutive
<1> QED
  BY <1>1, <1>2, <1>3

-----------------------------------------------------------------------------
\* The numbers in a queue follow what is done to the queue.
RxPackets == Packets \cup {Host}
TxPackets == [dst : VMs, num : 0 .. Numbers - 1]

LEMMA NumsTyped ==
  /\ \A u : \A pkt \in RxPackets : NumFrom(u, pkt) \in Nums
  /\ \A d : \A pkt \in TxPackets : NumTo(d, pkt) \in Nums
<1>1. ASSUME NEW u, NEW pkt \in RxPackets PROVE NumFrom(u, pkt) \in Nums
  <2>1. CASE pkt = Host
    BY <2>1, NumbersPositive DEF NumFrom, None, Nums
  <2>2. CASE pkt \in Packets
    BY <2>2, NumbersPositive DEF NumFrom, None, Nums, Packets
  <2> QED
    BY <2>1, <2>2 DEF RxPackets
<1>2. ASSUME NEW d, NEW pkt \in TxPackets PROVE NumTo(d, pkt) \in Nums
  BY NumbersPositive DEF NumTo, None, Nums, TxPackets
<1> QED
  BY <1>1, <1>2

LEMMA ConsIs ==
  ASSUME NEW S, NEW x \in S, NEW b \in Seq(S), NEW s \in Seq(S),
         Len(s) = Len(b) + 1, s[1] = x, \A i \in 2 .. Len(s) : s[i] = b[i - 1]
  PROVE  s = <<x>> \o b
<1> DEFINE t == <<x>> \o b
<1>1. t \in Seq(S) /\ Len(t) = Len(b) + 1 /\ Len(b) \in Nat
  OBVIOUS
<1>2. ASSUME NEW i \in 1 .. Len(s) PROVE s[i] = t[i]
  OBVIOUS
<1> HIDE DEF t
<1>3. s = t
  BY <1>1, <1>2, SeqEqual
<1> QED
  BY <1>3 DEF t

LEMMA SnocIs ==
  ASSUME NEW S, NEW x \in S, NEW b \in Seq(S), NEW s \in Seq(S),
         Len(s) = Len(b) + 1, s[Len(s)] = x, \A i \in 1 .. Len(b) : s[i] = b[i]
  PROVE  s = b \o <<x>>
<1> DEFINE t == b \o <<x>>
<1>1. t \in Seq(S) /\ Len(t) = Len(b) + 1 /\ Len(b) \in Nat
  OBVIOUS
<1>2. ASSUME NEW i \in 1 .. Len(s) PROVE s[i] = t[i]
  OBVIOUS
<1> HIDE DEF t
<1>3. s = t
  BY <1>1, <1>2, SeqEqual
<1> QED
  BY <1>3 DEF t

LEMMA NumsFromQueue ==
  ASSUME NEW u, NEW queue \in Seq(RxPackets)
  PROVE  /\ NumsFrom(u, queue) \in Seq(Nums)
         /\ NumsFrom(u, <<>>) = <<>>
         /\ \A pkt \in RxPackets :
              NumsFrom(u, Append(queue, pkt)) = NumsFrom(u, queue) \o <<NumFrom(u, pkt)>>
         /\ queue # <<>> =>
              NumsFrom(u, queue) = <<NumFrom(u, Head(queue))>> \o NumsFrom(u, Tail(queue))
<1>1. \A q \in Seq(RxPackets) :
        /\ NumsFrom(u, q) \in Seq(Nums) /\ Len(NumsFrom(u, q)) = Len(q)
        /\ \A i \in 1 .. Len(q) : NumsFrom(u, q)[i] = NumFrom(u, q[i])
  <2> SUFFICES ASSUME NEW q \in Seq(RxPackets)
               PROVE  /\ NumsFrom(u, q) \in Seq(Nums) /\ Len(NumsFrom(u, q)) = Len(q)
                      /\ \A i \in 1 .. Len(q) : NumsFrom(u, q)[i] = NumFrom(u, q[i])
    OBVIOUS
  <2>1. Len(q) \in Nat /\ \A i \in 1 .. Len(q) : NumFrom(u, q[i]) \in Nums
    BY NumsTyped
  <2>2. NumsFrom(u, q) \in [1 .. Len(q) -> Nums]
    BY <2>1 DEF NumsFrom
  <2>3. NumsFrom(u, q) \in Seq(Nums) /\ Len(NumsFrom(u, q)) = Len(q)
    BY <2>1, <2>2
  <2> QED
    BY <2>3 DEF NumsFrom
<1>2. NumsFrom(u, <<>>) = <<>>
  <2>1. NumsFrom(u, <<>>) \in Seq(Nums) /\ Len(NumsFrom(u, <<>>)) = 0
    BY <1>1, EmptySeq
  <2> QED
    BY <2>1, EmptySeq
<1>3. ASSUME NEW pkt \in RxPackets
      PROVE  NumsFrom(u, Append(queue, pkt)) = NumsFrom(u, queue) \o <<NumFrom(u, pkt)>>
  <2>1. PICK q : q = Append(queue, pkt)
    OBVIOUS
  <2>2. /\ q \in Seq(RxPackets) /\ Len(q) = Len(queue) + 1 /\ Len(queue) \in Nat
        /\ \A i \in 1 .. Len(queue) : q[i] = queue[i]
        /\ q[Len(queue) + 1] = pkt /\ NumFrom(u, pkt) \in Nums
    BY <1>3, <2>1, NumsTyped
  <2>3. PICK s, b : s = NumsFrom(u, q) /\ b = NumsFrom(u, queue)
    OBVIOUS
  <2>4. /\ s \in Seq(Nums) /\ Len(s) = Len(q) /\ b \in Seq(Nums) /\ Len(b) = Len(queue)
        /\ \A i \in 1 .. Len(q) : s[i] = NumFrom(u, q[i])
        /\ \A i \in 1 .. Len(queue) : b[i] = NumFrom(u, queue[i])
    BY <1>1, <2>2, <2>3
  <2>5. s[Len(s)] = NumFrom(u, pkt) /\ \A i \in 1 .. Len(b) : s[i] = b[i]
    BY <2>2, <2>4
  <2>6. s = b \o <<NumFrom(u, pkt)>>
    BY <2>2, <2>4, <2>5, SnocIs
  <2> QED
    BY <2>1, <2>3, <2>6
<1>4. ASSUME queue # <<>>
      PROVE  NumsFrom(u, queue) = <<NumFrom(u, Head(queue))>> \o NumsFrom(u, Tail(queue))
  <2>1. PICK q, pkt : q = Tail(queue) /\ pkt = Head(queue)
    OBVIOUS
  <2>2. /\ q \in Seq(RxPackets) /\ Len(queue) = Len(q) + 1 /\ Len(q) \in Nat
        /\ \A i \in 2 .. Len(queue) : queue[i] = q[i - 1]
        /\ queue[1] = pkt /\ pkt \in RxPackets /\ NumFrom(u, pkt) \in Nums
    BY <1>4, <2>1, NumsTyped
  <2>3. PICK s, b : s = NumsFrom(u, queue) /\ b = NumsFrom(u, q)
    OBVIOUS
  <2>4. /\ s \in Seq(Nums) /\ Len(s) = Len(queue) /\ b \in Seq(Nums) /\ Len(b) = Len(q)
        /\ \A i \in 1 .. Len(queue) : s[i] = NumFrom(u, queue[i])
        /\ \A i \in 1 .. Len(q) : b[i] = NumFrom(u, q[i])
    BY <1>1, <2>2, <2>3
  <2>5. s[1] = NumFrom(u, pkt)
    BY <2>2, <2>4
  <2>6. ASSUME NEW i \in 2 .. Len(s) PROVE s[i] = b[i - 1]
    <3>1. i \in 1 .. Len(queue) /\ i \in 2 .. Len(queue) /\ i - 1 \in 1 .. Len(q)
      BY <2>2, <2>4
    <3> QED
      BY <2>2, <2>4, <3>1
  <2>7. s = <<NumFrom(u, pkt)>> \o b
    BY <2>2, <2>4, <2>5, <2>6, ConsIs
  <2> QED
    BY <2>1, <2>3, <2>7
<1> QED
  BY <1>1, <1>2, <1>3, <1>4

LEMMA NumsToRing ==
  ASSUME NEW d, NEW ring \in Seq(TxPackets)
  PROVE  /\ NumsTo(d, ring) \in Seq(Nums)
         /\ NumsTo(d, <<>>) = <<>>
         /\ \A pkt \in TxPackets :
              NumsTo(d, Append(ring, pkt)) = NumsTo(d, ring) \o <<NumTo(d, pkt)>>
         /\ ring # <<>> =>
              NumsTo(d, ring) = <<NumTo(d, Head(ring))>> \o NumsTo(d, Tail(ring))
<1>1. \A q \in Seq(TxPackets) :
        /\ NumsTo(d, q) \in Seq(Nums) /\ Len(NumsTo(d, q)) = Len(q)
        /\ \A i \in 1 .. Len(q) : NumsTo(d, q)[i] = NumTo(d, q[i])
  <2> SUFFICES ASSUME NEW q \in Seq(TxPackets)
               PROVE  /\ NumsTo(d, q) \in Seq(Nums) /\ Len(NumsTo(d, q)) = Len(q)
                      /\ \A i \in 1 .. Len(q) : NumsTo(d, q)[i] = NumTo(d, q[i])
    OBVIOUS
  <2>1. Len(q) \in Nat /\ \A i \in 1 .. Len(q) : NumTo(d, q[i]) \in Nums
    BY NumsTyped
  <2>2. NumsTo(d, q) \in [1 .. Len(q) -> Nums]
    BY <2>1 DEF NumsTo
  <2>3. NumsTo(d, q) \in Seq(Nums) /\ Len(NumsTo(d, q)) = Len(q)
    BY <2>1, <2>2
  <2> QED
    BY <2>3 DEF NumsTo
<1>2. NumsTo(d, <<>>) = <<>>
  <2>1. NumsTo(d, <<>>) \in Seq(Nums) /\ Len(NumsTo(d, <<>>)) = 0
    BY <1>1, EmptySeq
  <2> QED
    BY <2>1, EmptySeq
<1>3. ASSUME NEW pkt \in TxPackets
      PROVE  NumsTo(d, Append(ring, pkt)) = NumsTo(d, ring) \o <<NumTo(d, pkt)>>
  <2>1. PICK q : q = Append(ring, pkt)
    OBVIOUS
  <2>2. /\ q \in Seq(TxPackets) /\ Len(q) = Len(ring) + 1 /\ Len(ring) \in Nat
        /\ \A i \in 1 .. Len(ring) : q[i] = ring[i]
        /\ q[Len(ring) + 1] = pkt /\ NumTo(d, pkt) \in Nums
    BY <1>3, <2>1, NumsTyped
  <2>3. PICK s, b : s = NumsTo(d, q) /\ b = NumsTo(d, ring)
    OBVIOUS
  <2>4. /\ s \in Seq(Nums) /\ Len(s) = Len(q) /\ b \in Seq(Nums) /\ Len(b) = Len(ring)
        /\ \A i \in 1 .. Len(q) : s[i] = NumTo(d, q[i])
        /\ \A i \in 1 .. Len(ring) : b[i] = NumTo(d, ring[i])
    BY <1>1, <2>2, <2>3
  <2>5. s[Len(s)] = NumTo(d, pkt) /\ \A i \in 1 .. Len(b) : s[i] = b[i]
    BY <2>2, <2>4
  <2>6. s = b \o <<NumTo(d, pkt)>>
    BY <2>2, <2>4, <2>5, SnocIs
  <2> QED
    BY <2>1, <2>3, <2>6
<1>4. ASSUME ring # <<>>
      PROVE  NumsTo(d, ring) = <<NumTo(d, Head(ring))>> \o NumsTo(d, Tail(ring))
  <2>1. PICK q, pkt : q = Tail(ring) /\ pkt = Head(ring)
    OBVIOUS
  <2>2. /\ q \in Seq(TxPackets) /\ Len(ring) = Len(q) + 1 /\ Len(q) \in Nat
        /\ \A i \in 2 .. Len(ring) : ring[i] = q[i - 1]
        /\ ring[1] = pkt /\ pkt \in TxPackets /\ NumTo(d, pkt) \in Nums
    BY <1>4, <2>1, NumsTyped
  <2>3. PICK s, b : s = NumsTo(d, ring) /\ b = NumsTo(d, q)
    OBVIOUS
  <2>4. /\ s \in Seq(Nums) /\ Len(s) = Len(ring) /\ b \in Seq(Nums) /\ Len(b) = Len(q)
        /\ \A i \in 1 .. Len(ring) : s[i] = NumTo(d, ring[i])
        /\ \A i \in 1 .. Len(q) : b[i] = NumTo(d, q[i])
    BY <1>1, <2>2, <2>3
  <2>5. s[1] = NumTo(d, pkt)
    BY <2>2, <2>4
  <2>6. ASSUME NEW i \in 2 .. Len(s) PROVE s[i] = b[i - 1]
    <3>1. i \in 1 .. Len(ring) /\ i \in 2 .. Len(ring) /\ i - 1 \in 1 .. Len(q)
      BY <2>2, <2>4
    <3> QED
      BY <2>2, <2>4, <3>1
  <2>7. s = <<NumTo(d, pkt)>> \o b
    BY <2>2, <2>4, <2>5, <2>6, ConsIs
  <2> QED
    BY <2>1, <2>3, <2>7
<1> QED
  BY <1>1, <1>2, <1>3, <1>4

-----------------------------------------------------------------------------
\* A server that is up can be sent to: no packet for its guest is dropped.
UpIsListed == \A v \in VMs : server[v] = "up" => v \in cid_map

OrderIInv == OrderKept /\ UpIsListed

LEMMA OrderStart == Init => OrderIInv
<1> SUFFICES ASSUME Init PROVE OrderIInv
  OBVIOUS
<1>1. /\ sent = [v \in VMs |-> [d \in VMs |-> 0]] /\ taken = sent
      /\ got = [v \in VMs |-> [d \in VMs |-> None]]
      /\ \A v \in VMs : raw_pkts_queue[v] = <<>> /\ txring[v] = <<>> /\ rxring[v] = <<>>
  BY DEF Init
<1>2. TypeOK
  BY SiblingsAssumption, <1>1, NumbersPositive DEF Init, TypeOK, None
<1>3. SiblingsInOrder
  <2> SUFFICES ASSUME NEW u \in VMs, NEW v \in VMs
               PROVE  /\ Consecutive(Departing(u, v), sent[u][v])
                      /\ Consecutive(Arriving(u, v), taken[u][v])
    BY DEF SiblingsInOrder
  <2>1. NumsTo(v, <<>>) = <<>> /\ NumsFrom(u, <<>>) = <<>>
    BY NumsToRing, NumsFromQueue, EmptySeq
  <2>2. Departing(u, v) = <<0>> /\ Arriving(u, v) = <<None>>
    <3>1. taken[u][v] = 0 /\ got[v][u] = None
      BY <1>1
    <3>2. Departing(u, v) = <<0>> \o <<>> /\ Arriving(u, v) = <<None>> \o (<<>> \o <<>>)
      BY <1>1, <2>1, <3>1 DEF Departing, Arriving
    <3> QED
      BY <3>2
  <2> QED
    BY <1>1, <2>2 DEF Consecutive
<1>4. UpIsListed
  BY DEF Init, UpIsListed
<1> QED
  BY <1>2, <1>3, <1>4 DEF OrderIInv, OrderKept

\* One ring or queue is replaced.
LEMMA RingReplaced ==
  ASSUME NEW S, NEW r \in [VMs -> Seq(S)], NEW v \in VMs, NEW q \in Seq(S), NEW cap \in Nat,
         \A u \in VMs : Len(r[u]) <= cap, Len(q) <= cap
  PROVE  /\ [r EXCEPT ![v] = q] \in [VMs -> Seq(S)]
         /\ \A u \in VMs : Len([r EXCEPT ![v] = q][u]) <= cap
OBVIOUS

\* The types.  A guest sends into a ring with room, and its device puts a
\* packet into one with room.
LEMMA TypeByWake ==
  ASSUME TypeOK, NEW v \in VMs, Wake(v)
  PROVE  TypeOK'
<1> USE DEF TypeOK, Idle, Go, life, rings, counts
<1>1. CASE WakeTx(v)
  BY <1>1 DEF WakeTx
<1>2. CASE WakeRx(v)
  BY <1>2 DEF WakeRx
<1>3. CASE WakeBackend(v)
  <2>1. std' \in [VMs -> 0 .. MaxStd]
    BY <1>3, SiblingsAssumption, SMTT(30) DEF WakeBackend
  <2> QED
    BY <1>3, <2>1 DEF WakeBackend
<1>4. CASE WakeSibling(v)
  BY <1>4 DEF WakeSibling
<1> QED
  BY <1>1, <1>2, <1>3, <1>4 DEF Wake

LEMMA TakenTyped ==
  ASSUME TypeOK, NEW v \in VMs, TakePacket(v)
  PROVE  /\ Head(txring[v]) \in TxPackets
         /\ txring' \in [VMs -> Seq(TxPackets)]
         /\ \A u \in VMs : Len(txring'[u]) <= TxCap
         /\ taken' \in [VMs -> [VMs -> 0 .. Numbers - 1]]
<1>1. txring \in [VMs -> Seq(TxPackets)] /\ txring[v] # <<>>
  BY DEF TypeOK, TakePacket, TxPackets
<1>2. /\ Head(txring[v]) \in TxPackets /\ Tail(txring[v]) \in Seq(TxPackets)
      /\ Len(Tail(txring[v])) = Len(txring[v]) - 1 /\ Len(txring[v]) \in Nat
  BY <1>1
<1>3. Head(txring[v]).dst \in VMs /\ Head(txring[v]).num \in 0 .. Numbers - 1
  BY <1>2 DEF TxPackets
<1>4. \A u \in VMs : Len(txring'[u]) <= TxCap
  BY <1>1, <1>2, SiblingsAssumption DEF TypeOK, TakePacket
<1> QED
  BY <1>1, <1>2, <1>3, <1>4 DEF TypeOK, TakePacket

LEMMA TypeByTx ==
  ASSUME TypeOK, NEW v \in VMs, Tx(v)
  PROVE  TypeOK'
<1> USE DEF TypeOK, Go, life, rings, counts
<1>1. CASE TxDone(v)
  BY <1>1 DEF TxDone
<1>2. CASE TxDropped(v)
  <2> HIDE DEF TypeOK
  <2>1. /\ txring' \in [VMs -> Seq(TxPackets)] /\ taken' \in [VMs -> [VMs -> 0 .. Numbers - 1]]
        /\ \A u \in VMs : Len(txring'[u]) <= TxCap
    BY <1>2, TakenTyped DEF TxDropped
  <2> QED
    <3>1. UNCHANGED <<cid_map, readers, raw_pkts_queue, sibling_event_fd, last_processed, std,
                      pc, target, server, mem, rxring, rxkick, sent, got>>
      BY <1>2 DEF TxDropped, TakePacket
    <3> QED
      BY <2>1, <3>1 DEF TypeOK, TxPackets
<1>3. CASE TxPass(v)
  <2> HIDE DEF TypeOK
  <2> DEFINE pkt == Head(txring[v])
  <2>1. /\ txring' \in [VMs -> Seq(TxPackets)] /\ taken' \in [VMs -> [VMs -> 0 .. Numbers - 1]]
        /\ \A u \in VMs : Len(txring'[u]) <= TxCap
        /\ pkt \in TxPackets
    BY <1>3, TakenTyped DEF TxPass
  <2>2. pkt.dst \in VMs /\ [src |-> v, num |-> pkt.num] \in Packets
    BY <2>1 DEF TxPackets, Packets
  <2> HIDE DEF pkt
  <2>3. /\ raw_pkts_queue' = [raw_pkts_queue EXCEPT ![pkt.dst] = Append(@, [src |-> v, num |-> pkt.num])]
        /\ target' = [target EXCEPT ![v] = pkt.dst]
        /\ pc' = [pc EXCEPT ![v] = "notify"] /\ readers' = readers \cup {v}
        /\ UNCHANGED <<cid_map, sibling_event_fd, last_processed, std, life, rxring, rxkick, sent, got>>
    BY <1>3 DEF TxPass, TakePacket, Enqueue, pkt
  <2>4. raw_pkts_queue' \in [VMs -> Seq(Packets)]
    <3>1. raw_pkts_queue \in [VMs -> Seq(Packets)]
      BY DEF TypeOK
    <3> QED
      BY <2>2, <2>3, <3>1
  <2> QED
    BY <2>1, <2>2, <2>3, <2>4 DEF TypeOK, TxPackets
<1>4. CASE TxNotify(v)
  BY <1>4 DEF TxNotify
<1> QED
  BY <1>1, <1>2, <1>3, <1>4 DEF Tx

LEMMA TypeByRx ==
  ASSUME TypeOK, NEW v \in VMs, Rx(v)
  PROVE  TypeOK'
<1> USE DEF TypeOK, Go, life, rings, counts
<1>1. CASE RxStart(v)
  BY <1>1 DEF RxStart, FirstTurn
<1>2. CASE RawPacket(v)
  <2>1. /\ Head(raw_pkts_queue[v]) \in Packets /\ Tail(raw_pkts_queue[v]) \in Seq(Packets)
        /\ Len(rxring[v]) \in Nat /\ Len(rxring[v]) < RxCap
    BY <1>2 DEF RawPacket, PendingRaw, RxAvail
  <2>2. raw_pkts_queue' \in [VMs -> Seq(Packets)]
    BY <1>2, <2>1 DEF RawPacket
  <2>3. /\ rxring' \in [VMs -> Seq(Packets \cup {Host})]
        /\ \A u \in VMs : Len(rxring'[u]) <= RxCap
    <3> DEFINE q == Append(rxring[v], Head(raw_pkts_queue[v]))
    <3> HIDE DEF TypeOK
    <3>1. rxring \in [VMs -> Seq(Packets \cup {Host})] /\ \A u \in VMs : Len(rxring[u]) <= RxCap
      BY DEF TypeOK
    <3>2. q \in Seq(Packets \cup {Host}) /\ Len(q) <= RxCap /\ RxCap \in Nat
      BY <2>1, <3>1, SiblingsAssumption
    <3>3. rxring' = [rxring EXCEPT ![v] = q]
      BY <1>2 DEF RawPacket
    <3> HIDE DEF q
    <3> QED
      BY <3>1, <3>2, <3>3, RingReplaced
  <2> QED
    BY <1>2, <2>2, <2>3 DEF RawPacket
<1>3. CASE RawDone(v)
  BY <1>3 DEF RawDone
<1>4. CASE StdPacket(v)
  <2>1. std[v] - 1 \in 0 .. MaxStd /\ Len(rxring[v]) \in Nat /\ Len(rxring[v]) < RxCap
    BY <1>4, SiblingsAssumption DEF StdPacket, PendingRx, RxAvail
  <2>2. /\ rxring' \in [VMs -> Seq(Packets \cup {Host})]
        /\ \A u \in VMs : Len(rxring'[u]) <= RxCap
    <3> DEFINE q == Append(rxring[v], Host)
    <3> HIDE DEF TypeOK
    <3>1. rxring \in [VMs -> Seq(Packets \cup {Host})] /\ \A u \in VMs : Len(rxring[u]) <= RxCap
      BY DEF TypeOK
    <3>2. q \in Seq(Packets \cup {Host}) /\ Len(q) <= RxCap /\ RxCap \in Nat
      BY <2>1, <3>1, SiblingsAssumption
    <3>3. rxring' = [rxring EXCEPT ![v] = q]
      BY <1>4 DEF StdPacket
    <3> HIDE DEF q
    <3> QED
      BY <3>1, <3>2, <3>3, RingReplaced
  <2> QED
    BY <1>4, <2>1, <2>2 DEF StdPacket
<1>5. CASE StdDone(v)
  BY <1>5 DEF StdDone
<1> QED
  BY <1>1, <1>2, <1>3, <1>4, <1>5 DEF Rx

LEMMA TypeByRestart ==
  ASSUME TypeOK, NEW v \in VMs, Restart(v)
  PROVE  TypeOK'
<1> USE DEF TypeOK, Go, threads, life, rings, counts
<1>1. CASE Disconnect(v)
  BY <1>1 DEF Disconnect
<1>2. CASE DropBackend(v)
  BY <1>2 DEF DropBackend
<1>3. CASE NewBackend(v)
  <2>1. raw_pkts_queue' \in [VMs -> Seq(Packets)] /\ std' \in [VMs -> 0 .. MaxStd]
    BY <1>3, SiblingsAssumption, SMTT(30) DEF NewBackend
  <2>2. /\ txring' \in [VMs -> Seq([dst : VMs, num : 0 .. Numbers - 1])]
        /\ rxring' \in [VMs -> Seq(Packets \cup {Host})]
        /\ \A u \in VMs : Len(txring'[u]) <= TxCap /\ Len(rxring'[u]) <= RxCap
    <3>1. /\ txring' = [txring EXCEPT ![v] = <<>>] /\ rxring' = [rxring EXCEPT ![v] = <<>>]
          /\ 0 <= TxCap /\ 0 <= RxCap /\ TxCap \in Nat /\ RxCap \in Nat
      BY <1>3, SiblingsAssumption DEF NewBackend
    <3>2. \A S : <<>> \in Seq(S) /\ Len(<<>>) = 0
      OBVIOUS
    <3>0. /\ txring \in [VMs -> Seq([dst : VMs, num : 0 .. Numbers - 1])] /\ rxring \in [VMs -> Seq(Packets \cup {Host})]
          /\ \A u \in VMs : Len(txring[u]) <= TxCap /\ Len(rxring[u]) <= RxCap
      OBVIOUS
    <3> HIDE DEF TypeOK
    <3>3. /\ txring' \in [VMs -> Seq([dst : VMs, num : 0 .. Numbers - 1])]
          /\ \A u \in VMs : Len(txring'[u]) <= TxCap
      BY <3>0, <3>1, <3>2, RingReplaced
    <3>4. rxring' \in [VMs -> Seq(Packets \cup {Host})] /\ \A u \in VMs : Len(rxring'[u]) <= RxCap
      BY <3>0, <3>1, <3>2, RingReplaced
    <3> QED
      BY <3>3, <3>4
  <2>3. /\ {sent', taken'} \subseteq [VMs -> [VMs -> 0 .. Numbers - 1]]
        /\ got' \in [VMs -> [VMs -> 0 .. Numbers]]
    BY <1>3, NumbersPositive DEF NewBackend, None
  <2> QED
    BY <1>3, <2>1, <2>2, <2>3 DEF NewBackend
<1> QED
  BY <1>1, <1>2, <1>3 DEF Restart

LEMMA TypeByGuest ==
  ASSUME TypeOK, NEW v \in VMs, Guest(v)
  PROVE  TypeOK'
<1> USE DEF TypeOK, Go, threads, life, rings, counts
<1>1. CASE VmmConnect(v)
  BY <1>1 DEF VmmConnect
<1>2. CASE GuestReceive(v)
  <2>1. /\ Head(rxring[v]) \in Packets \cup {Host} /\ Tail(rxring[v]) \in Seq(Packets \cup {Host})
        /\ Len(Tail(rxring[v])) = Len(rxring[v]) - 1 /\ Len(rxring[v]) \in Nat
    BY <1>2 DEF GuestReceive
  <2>2. /\ rxring' \in [VMs -> Seq(Packets \cup {Host})]
        /\ \A u \in VMs : Len(rxring'[u]) <= RxCap
    <3>1. rxring' = [rxring EXCEPT ![v] = Tail(rxring[v])] /\ RxCap \in Nat
      BY <1>2, SiblingsAssumption DEF GuestReceive
    <3>2. Len(rxring[v]) <= RxCap
      OBVIOUS
    <3>3. Len(Tail(rxring[v])) <= RxCap
      BY <2>1, <3>1, <3>2
    <3> QED
      BY <2>1, <3>1, <3>3, RingReplaced
  <2>3. got' \in [VMs -> [VMs -> 0 .. Numbers]]
    <3>1. CASE Head(rxring[v]) = Host
      BY <1>2, <3>1 DEF GuestReceive
    <3>2. CASE Head(rxring[v]) # Host
      <4>1. Head(rxring[v]).src \in VMs /\ Head(rxring[v]).num \in 0 .. Numbers
        <5> HIDE DEF TypeOK
        <5> QED
          BY <2>1, <3>2, NumbersPositive DEF Packets
      <4> QED
        BY <1>2, <3>2, <4>1 DEF GuestReceive
    <3> QED
      BY <3>1, <3>2
  <2> QED
    BY <1>2, <2>2, <2>3 DEF GuestReceive
<1>3. ASSUME NEW d \in VMs, GuestSend(v, d) PROVE TypeOK'
  <2>1. NextNum(sent[v][d]) \in 0 .. Numbers - 1
    <3>1. sent[v][d] \in 0 .. Numbers - 1
      OBVIOUS
    <3> QED
      BY <3>1, NextIsNumber, Zenon
  <2>2. sent' \in [VMs -> [VMs -> 0 .. Numbers - 1]]
    BY <1>3, <2>1 DEF GuestSend
  <2>3. [dst |-> d, num |-> NextNum(sent[v][d])] \in [dst : VMs, num : 0 .. Numbers - 1]
    BY <2>1
  <2>4. /\ txring' \in [VMs -> Seq([dst : VMs, num : 0 .. Numbers - 1])]
        /\ \A u \in VMs : Len(txring'[u]) <= TxCap
    <3> DEFINE q == Append(txring[v], [dst |-> d, num |-> NextNum(sent[v][d])])
    <3>1. txring' = [txring EXCEPT ![v] = q] /\ TxCap \in Nat
      BY <1>3, SiblingsAssumption DEF GuestSend
    <3>2. /\ Len(txring[v]) \in Nat /\ Len(txring[v]) < TxCap
          /\ txring[v] \in Seq([dst : VMs, num : 0 .. Numbers - 1])
      <4>1. txring[v] \in Seq([dst : VMs, num : 0 .. Numbers - 1])
        OBVIOUS
      <4>2. Len(txring[v]) < TxCap
        BY <1>3 DEF GuestSend
      <4> QED
        BY <4>1, <4>2
    <3>3. q \in Seq(TxPackets) /\ Len(q) <= TxCap
      BY <2>3, <3>1, <3>2 DEF TxPackets
    <3>4. txring \in [VMs -> Seq(TxPackets)] /\ \A u \in VMs : Len(txring[u]) <= TxCap
      BY DEF TxPackets
    <3> HIDE DEF q, TypeOK
    <3>5. txring' \in [VMs -> Seq(TxPackets)] /\ \A u \in VMs : Len(txring'[u]) <= TxCap
      BY <3>1, <3>3, <3>4, RingReplaced
    <3> QED
      BY <3>5 DEF TxPackets
  <2>5. UNCHANGED <<threads, life, rxring, rxkick, taken, got>>
    BY <1>3 DEF GuestSend
  <2> QED
    BY <2>2, <2>4, <2>5
<1> QED
  BY <1>1, <1>2, <1>3 DEF Guest

-----------------------------------------------------------------------------
\* The two ends of what u sends to v, and how a step may change them.
LEMMA EndsTyped ==
  ASSUME TypeOK, NEW u \in VMs, NEW v \in VMs
  PROVE  /\ NumsFrom(u, rxring[v]) \in Seq(Nums) /\ NumsFrom(u, raw_pkts_queue[v]) \in Seq(Nums)
         /\ NumsTo(v, txring[u]) \in Seq(Nums)
         /\ got[v][u] \in Nums /\ <<got[v][u]>> \in Seq(Nums)
         /\ taken[u][v] \in 0 .. Numbers - 1 /\ taken[u][v] \in Nums /\ <<taken[u][v]>> \in Seq(Nums)
         /\ sent[u][v] \in 0 .. Numbers - 1
<1>1. rxring[v] \in Seq(RxPackets) /\ txring[u] \in Seq(TxPackets)
  BY DEF TypeOK, RxPackets, TxPackets
<1>2. raw_pkts_queue[v] \in Seq(RxPackets)
  <2>1. raw_pkts_queue[v] \in Seq(Packets)
    BY DEF TypeOK
  <2> QED
    BY <2>1, SeqMonotonic DEF RxPackets
<1>3. /\ NumsFrom(u, rxring[v]) \in Seq(Nums) /\ NumsFrom(u, raw_pkts_queue[v]) \in Seq(Nums)
      /\ NumsTo(v, txring[u]) \in Seq(Nums)
  BY <1>1, <1>2, NumsFromQueue, NumsToRing
<1>4. got[v][u] \in Nums /\ taken[u][v] \in 0 .. Numbers - 1 /\ sent[u][v] \in 0 .. Numbers - 1
  <2>1. /\ got \in [VMs -> [VMs -> 0 .. Numbers]] /\ taken \in [VMs -> [VMs -> 0 .. Numbers - 1]]
        /\ sent \in [VMs -> [VMs -> 0 .. Numbers - 1]]
    BY DEF TypeOK
  <2> QED
    BY <2>1 DEF Nums
<1>5. taken[u][v] \in Nums
  BY <1>4, NumbersPositive DEF Nums
<1> QED
  BY <1>3, <1>4, <1>5

LEMMA QueueTyped ==
  ASSUME TypeOK, NEW v \in VMs
  PROVE  /\ rxring[v] \in Seq(RxPackets) /\ txring[v] \in Seq(TxPackets)
         /\ raw_pkts_queue[v] \in Seq(RxPackets)
<1>1. raw_pkts_queue[v] \in Seq(Packets)
  BY DEF TypeOK
<1> QED
  BY <1>1, SeqMonotonic DEF RxPackets, TxPackets, TypeOK

\* A step that touches no packet.
LEMMA OrderUntouched ==
  ASSUME OrderIInv, UNCHANGED <<raw_pkts_queue, txring, rxring, counts>>,
         \A v \in VMs : server'[v] = "up" => server[v] = "up"
  PROVE  SiblingsInOrder'
<1>1. \A u, v \in VMs : Departing(u, v)' = Departing(u, v) /\ Arriving(u, v)' = Arriving(u, v)
  BY DEF Departing, Arriving, counts
<1>2. UNCHANGED <<sent, taken>>
  BY DEF counts
<1> QED
  BY <1>1, <1>2 DEF OrderIInv, OrderKept, SiblingsInOrder

\* The device takes a packet of u's ring: it is the next one for its guest.
LEMMA TakenInOrder ==
  ASSUME OrderIInv, NEW u \in VMs, TakePacket(u), NEW v \in VMs
  PROVE  /\ Consecutive(Departing(u, v)', sent'[u][v])
         /\ v # Head(txring[u]).dst => taken'[u][v] = taken[u][v]
         /\ v = Head(txring[u]).dst =>
              Head(txring[u]).num = NextNum(taken[u][v]) /\ taken'[u][v] = NextNum(taken[u][v])
<1> DEFINE pkt == Head(txring[u])
           b == NumsTo(v, Tail(txring[u]))
           p == taken[u][v]
<1>1. TypeOK /\ Consecutive(Departing(u, v), sent[u][v])
  BY DEF OrderIInv, OrderKept, SiblingsInOrder
<1>2. /\ txring[u] # <<>> /\ txring' = [txring EXCEPT ![u] = Tail(txring[u])]
      /\ taken' = [taken EXCEPT ![u][pkt.dst] = pkt.num] /\ sent' = sent
  BY DEF TakePacket
<1>3. /\ txring[u] \in Seq(TxPackets) /\ pkt \in TxPackets /\ Tail(txring[u]) \in Seq(TxPackets)
      /\ txring'[u] = Tail(txring[u])
  <2>1. txring[u] \in Seq(TxPackets)
    BY <1>1, QueueTyped
  <2> QED
    BY <1>1, <1>2, <2>1 DEF TypeOK
<1>4. /\ b \in Seq(Nums) /\ p \in 0 .. Numbers - 1 /\ p \in Nums /\ NumTo(v, pkt) \in Nums
      /\ NumsTo(v, txring[u]) = <<NumTo(v, pkt)>> \o b
  BY <1>1, <1>2, <1>3, EndsTyped, NumsToRing, NumsTyped
<1>5. Consecutive(<<p>> \o (<<NumTo(v, pkt)>> \o b), sent[u][v])
  BY <1>1, <1>4 DEF Departing
<1>6. /\ \A d \in VMs : d # pkt.dst => taken'[u][d] = taken[u][d]
      /\ pkt.dst \in VMs => taken'[u][pkt.dst] = pkt.num
  BY <1>1, <1>2 DEF TypeOK
<1>7. Departing(u, v)' = <<taken'[u][v]>> \o b
  BY <1>3 DEF Departing
<1> HIDE DEF pkt, b, p
<1>8. CASE v # pkt.dst
  <2>1. NumTo(v, pkt) = None
    BY <1>8 DEF NumTo
  <2>2. Consecutive(<<p>> \o b, sent[u][v])
    <3>1. Consecutive(<<p>> \o (<<None>> \o b), sent[u][v])
      BY <1>5, <2>1
    <3>2. <<p>> \in Seq(Nums)
      BY <1>4
    <3> QED
      BY <1>4, <3>1, <3>2, GapTakenOut
  <2> QED
    BY <1>2, <1>6, <1>7, <1>8, <2>2 DEF p, pkt
<1>9. CASE v = pkt.dst
  <2>1. NumTo(v, pkt) = pkt.num /\ pkt.num \in 0 .. Numbers - 1 /\ pkt.num # None
    BY <1>3, <1>9, NumbersPositive DEF NumTo, TxPackets, None
  <2>2. Consecutive(<<pkt.num>> \o b, sent[u][v])
    <3>1. Consecutive(<<p>> \o (<<pkt.num>> \o b), sent[u][v])
      BY <1>5, <2>1
    <3>2. <<pkt.num>> \o b \in Seq(Nums)
      BY <1>4, <2>1
    <3> QED
      BY <1>4, <3>1, <3>2, OldestTaken
  <2>3. pkt.num = NextNum(p)
    <3> DEFINE t == <<p>> \o (<<NumTo(v, pkt)>> \o b)
    <3>1. Len(b) \in Nat /\ Len(t) = Len(b) + 2 /\ t[1] = p /\ t[2] = pkt.num
      BY <1>4, <2>1
    <3>2. p # None
      BY <1>4, NumbersPositive DEF None
    <3> HIDE DEF t
    <3>3. \/ \A k \in 2 .. Len(t) : t[k] = None
          \/ \E j \in 2 .. Len(t) : t[j] = NextNum(p) /\ \A k \in 2 .. j - 1 : t[k] = None
      BY <1>5, <3>1, <3>2 DEF Consecutive, t
    <3> QED
      BY <2>1, <3>1, <3>3
  <2> QED
    BY <1>2, <1>6, <1>7, <1>9, <2>2, <2>3 DEF p, pkt
<1> QED
  BY <1>8, <1>9

\* Two queues put together, and that it does not matter which two first.
Cat(x, y) == x \o y

LEMMA CatAssociative ==
  \A x, y, z \in Seq(Nums) : Cat(x, y) \in Seq(Nums) /\ Cat(Cat(x, y), z) = Cat(x, Cat(y, z))
<1>1. SUFFICES ASSUME NEW x \in Seq(Nums), NEW y \in Seq(Nums), NEW z \in Seq(Nums)
               PROVE  x \o y \in Seq(Nums) /\ (x \o y) \o z = x \o (y \o z)
  BY DEF Cat
<1>2. (x \o y) \o z = x \o (y \o z)
  BY ConcatAssociative
<1> QED
  BY <1>2

LEMMA GapAppended ==
  ASSUME NEW a \in Seq(Nums), NEW last, Consecutive(a, last)
  PROVE  Consecutive(a \o <<None>>, last)
<1>1. a \o <<>> = a /\ <<>> \in Seq(Nums) /\ <<None>> \o <<>> = <<None>>
  BY NumbersPositive DEF None
<1> QED
  BY <1>1, GapPutIn

\* A packet that none can be sent to is taken and dropped.
LEMMA OrderByDropped ==
  ASSUME OrderIInv, NEW w \in VMs, TxDropped(w)
  PROVE  SiblingsInOrder'
<1> SUFFICES ASSUME NEW u \in VMs, NEW v \in VMs
             PROVE  /\ Consecutive(Departing(u, v)', sent'[u][v])
                    /\ server'[v] = "up" /\ Sharing(u, v) => Consecutive(Arriving(u, v)', taken'[u][v])
  BY DEF SiblingsInOrder
<1>1. TakePacket(w) /\ ~Reachable(w, Head(txring[w]).dst) /\ TypeOK
  BY DEF TxDropped, OrderIInv, OrderKept
<1>2. /\ Consecutive(Departing(u, v), sent[u][v])
      /\ server[v] = "up" /\ Sharing(u, v) => Consecutive(Arriving(u, v), taken[u][v])
      /\ server[v] = "up" => v \in cid_map
  BY DEF OrderIInv, OrderKept, SiblingsInOrder, UpIsListed
<1>3. Arriving(u, v)' = Arriving(u, v) /\ UNCHANGED <<server, sent>>
  BY <1>1 DEF TxDropped, TakePacket, Arriving, life
<1>4. CASE u # w
  <2>1. txring'[u] = txring[u] /\ taken'[u] = taken[u]
    BY <1>1, <1>4 DEF TakePacket, TypeOK
  <2> QED
    BY <1>2, <1>3, <2>1 DEF Departing
<1>5. CASE u = w
  <2>1. CASE v = Head(txring[w]).dst
    BY <1>1, <1>2, <1>3, <1>5, <2>1, TakenInOrder DEF Reachable
  <2>2. CASE v # Head(txring[w]).dst
    BY <1>1, <1>2, <1>3, <1>5, <2>2, TakenInOrder
  <2> QED
    BY <2>1, <2>2
<1> QED
  BY <1>4, <1>5

\* One that is passed on is the next one of its sender, and a gap for the others.
LEMMA OrderByPass ==
  ASSUME OrderIInv, NEW w \in VMs, TxPass(w)
  PROVE  SiblingsInOrder'
<1> SUFFICES ASSUME NEW u \in VMs, NEW v \in VMs
             PROVE  /\ Consecutive(Departing(u, v)', sent'[u][v])
                    /\ server'[v] = "up" /\ Sharing(u, v) => Consecutive(Arriving(u, v)', taken'[u][v])
  BY DEF SiblingsInOrder
<1> DEFINE pkt == Head(txring[w])
           raw == [src |-> w, num |-> pkt.num]
           g == <<got[v][u]>>
           R == NumsFrom(u, rxring[v])
           W == NumsFrom(u, raw_pkts_queue[v])
<1>1. TakePacket(w) /\ TypeOK
  BY DEF TxPass, OrderIInv, OrderKept
<1>2. /\ Consecutive(Departing(u, v), sent[u][v])
      /\ server[v] = "up" /\ Sharing(u, v) => Consecutive(Arriving(u, v), taken[u][v])
  BY DEF OrderIInv, OrderKept, SiblingsInOrder
<1>3. /\ UNCHANGED <<server, sent, got, rxring>>
      /\ raw_pkts_queue' = [raw_pkts_queue EXCEPT ![pkt.dst] = Append(@, raw)]
  BY DEF TxPass, TakePacket, life, Enqueue
<1>4. Consecutive(Departing(u, v)', sent'[u][v]) /\ (u # w => taken'[u] = taken[u])
  <2>1. CASE u # w
    <3>1. txring'[u] = txring[u] /\ taken'[u] = taken[u]
      BY <1>1, <2>1 DEF TakePacket, TypeOK
    <3> QED
      BY <1>2, <1>3, <3>1 DEF Departing
  <2>2. CASE u = w
    BY <1>1, <2>2, TakenInOrder
  <2> QED
    BY <2>1, <2>2
<1>5. CASE v # pkt.dst
  <2>1. raw_pkts_queue'[v] = raw_pkts_queue[v] /\ taken'[u][v] = taken[u][v]
    <3>1. raw_pkts_queue'[v] = raw_pkts_queue[v]
      BY <1>1, <1>3, <1>5 DEF TypeOK
    <3> QED
      BY <1>1, <1>4, <1>5, <3>1, TakenInOrder
  <2>2. Arriving(u, v)' = Arriving(u, v)
    BY <1>3, <2>1 DEF Arriving
  <2> QED
    BY <1>2, <1>3, <1>4, <2>1, <2>2
<1>6. CASE v = pkt.dst
  <2>1. /\ raw_pkts_queue[v] \in Seq(RxPackets) /\ pkt \in TxPackets
        /\ g \in Seq(Nums) /\ R \in Seq(Nums) /\ W \in Seq(Nums) /\ taken[u][v] \in 0 .. Numbers - 1
    BY <1>1, QueueTyped, EndsTyped, TakenTyped
  <2>2. pkt.num \in 0 .. Numbers - 1 /\ pkt.num # None /\ raw \in Packets
    <3>1. pkt.num \in 0 .. Numbers - 1
      BY <2>1 DEF TxPackets
    <3> QED
      BY <3>1, NumbersPositive DEF Packets, None
  <2>3. raw \in RxPackets /\ raw # Host
    BY <2>2 DEF RxPackets, Host
  <2>4. raw_pkts_queue'[v] = Append(raw_pkts_queue[v], raw)
    BY <1>1, <1>3, <1>6 DEF TypeOK
  <2>5. NumsFrom(u, raw_pkts_queue'[v]) = W \o <<NumFrom(u, raw)>> /\ NumFrom(u, raw) \in Nums
    BY <2>1, <2>3, <2>4, NumsFromQueue, NumsTyped
  <2>6. Arriving(u, v)' = g \o (R \o (W \o <<NumFrom(u, raw)>>))
    BY <1>3, <2>5 DEF Arriving
  <2>7. Arriving(u, v) = g \o (R \o W)
    BY DEF Arriving
  <2> HIDE DEF raw, g, R, W
  <2>8. /\ Arriving(u, v)' = Arriving(u, v) \o <<NumFrom(u, raw)>>
        /\ Arriving(u, v) \in Seq(Nums)
    <3> DEFINE y == <<NumFrom(u, raw)>>
    <3>1. y \in Seq(Nums)
      BY <2>5
    <3>2. Arriving(u, v)' = Cat(g, Cat(R, Cat(W, y))) /\ Arriving(u, v) = Cat(g, Cat(R, W))
      BY <2>6, <2>7, Zenon DEF Cat
    <3> HIDE DEF y
    <3>3. Arriving(u, v)' = Cat(Arriving(u, v), y) /\ Arriving(u, v) \in Seq(Nums)
      BY <2>1, <3>1, <3>2, CatAssociative
    <3> QED
      BY <3>3, Zenon DEF Cat, y
  <2>9. CASE u = w
    <3>1. NumFrom(u, raw) = pkt.num
      BY <2>3, <2>9 DEF NumFrom, raw
    <3>2. pkt.num = NextNum(taken[u][v]) /\ taken'[u][v] = NextNum(taken[u][v])
      BY <1>1, <1>6, <2>9, TakenInOrder
    <3> QED
      BY <1>2, <1>3, <1>4, <2>1, <2>8, <3>1, <3>2, NextAppended
  <2>10. CASE u # w
    <3>1. NumFrom(u, raw) = None
      BY <2>3, <2>10 DEF NumFrom, raw
    <3> QED
      BY <1>2, <1>3, <1>4, <2>8, <2>10, <3>1, GapAppended
  <2> QED
    BY <2>9, <2>10
<1> QED
  BY <1>5, <1>6

\* A packet goes from the queue of its receiver to the ring.
LEMMA OrderByRaw ==
  ASSUME OrderIInv, NEW w \in VMs, RawPacket(w)
  PROVE  SiblingsInOrder'
<1> SUFFICES ASSUME NEW u \in VMs, NEW v \in VMs
             PROVE  /\ Departing(u, v)' = Departing(u, v) /\ Arriving(u, v)' = Arriving(u, v)
                    /\ UNCHANGED <<sent, taken, server>>
  BY DEF OrderIInv, OrderKept, SiblingsInOrder
<1>1. /\ TypeOK /\ UNCHANGED <<sent, taken, server, txring, got>>
      /\ raw_pkts_queue[w] # <<>>
      /\ rxring' = [rxring EXCEPT ![w] = Append(@, Head(raw_pkts_queue[w]))]
      /\ raw_pkts_queue' = [raw_pkts_queue EXCEPT ![w] = Tail(@)]
  BY DEF OrderIInv, OrderKept, RawPacket, counts, life, PendingRaw
<1>2. Departing(u, v)' = Departing(u, v)
  BY <1>1 DEF Departing
<1>3. CASE v # w
  <2>1. rxring'[v] = rxring[v] /\ raw_pkts_queue'[v] = raw_pkts_queue[v]
    BY <1>1, <1>3 DEF TypeOK
  <2> QED
    BY <1>1, <1>2, <2>1 DEF Arriving
<1>4. CASE v = w
  <2> DEFINE pkt == Head(raw_pkts_queue[v])
             x == NumFrom(u, pkt)
             g == <<got[v][u]>>
             R == NumsFrom(u, rxring[v])
             b == NumsFrom(u, Tail(raw_pkts_queue[v]))
  <2>1. /\ rxring[v] \in Seq(RxPackets) /\ raw_pkts_queue[v] \in Seq(RxPackets)
        /\ g \in Seq(Nums) /\ R \in Seq(Nums)
    BY <1>1, QueueTyped, EndsTyped
  <2>2. pkt \in RxPackets /\ Tail(raw_pkts_queue[v]) \in Seq(RxPackets)
    BY <1>1, <1>4, <2>1
  <2>3. rxring'[v] = Append(rxring[v], pkt) /\ raw_pkts_queue'[v] = Tail(raw_pkts_queue[v])
    BY <1>1, <1>4 DEF TypeOK
  <2>4. /\ NumsFrom(u, rxring'[v]) = R \o <<x>> /\ NumsFrom(u, raw_pkts_queue'[v]) = b
        /\ NumsFrom(u, raw_pkts_queue[v]) = <<x>> \o b
        /\ b \in Seq(Nums) /\ x \in Nums
    <3>1. raw_pkts_queue[v] # <<>>
      BY <1>1, <1>4
    <3>2. NumsFrom(u, Append(rxring[v], pkt)) = R \o <<x>>
      BY <2>1, <2>2, NumsFromQueue
    <3>3. NumsFrom(u, raw_pkts_queue[v]) = <<x>> \o b /\ b \in Seq(Nums)
      BY <2>1, <2>2, <3>1, NumsFromQueue
    <3> QED
      BY <2>2, <2>3, <3>2, <3>3, NumsTyped
  <2>5. Arriving(u, v)' = g \o ((R \o <<x>>) \o b) /\ Arriving(u, v) = g \o (R \o (<<x>> \o b))
    BY <1>1, <2>4 DEF Arriving
  <2> HIDE DEF x, g, R, b
  <2>6. Arriving(u, v)' = Arriving(u, v)
    <3> DEFINE y == <<x>>
    <3>1. y \in Seq(Nums)
      BY <2>4
    <3>2. Arriving(u, v)' = Cat(g, Cat(Cat(R, y), b)) /\ Arriving(u, v) = Cat(g, Cat(R, Cat(y, b)))
      BY <2>5, Zenon DEF Cat
    <3> HIDE DEF y
    <3> QED
      BY <2>1, <2>4, <3>1, <3>2, CatAssociative
  <2> QED
    BY <1>1, <1>2, <2>6
<1> QED
  BY <1>3, <1>4

\* A packet of the host is a gap for all guests.
LEMMA OrderByStd ==
  ASSUME OrderIInv, NEW w \in VMs, StdPacket(w)
  PROVE  SiblingsInOrder'
<1> SUFFICES ASSUME NEW u \in VMs, NEW v \in VMs
             PROVE  /\ Departing(u, v)' = Departing(u, v)
                    /\ Consecutive(Arriving(u, v), taken[u][v]) =>
                         Consecutive(Arriving(u, v)', taken[u][v])
                    /\ UNCHANGED <<sent, taken, server>>
  BY DEF OrderIInv, OrderKept, SiblingsInOrder
<1>1. /\ TypeOK /\ UNCHANGED <<sent, taken, server, txring, got, raw_pkts_queue>>
      /\ rxring' = [rxring EXCEPT ![w] = Append(@, Host)]
  BY DEF OrderIInv, OrderKept, StdPacket, counts, life
<1>2. Departing(u, v)' = Departing(u, v)
  BY <1>1 DEF Departing
<1>3. CASE v # w
  <2>1. rxring'[v] = rxring[v]
    BY <1>1, <1>3 DEF TypeOK
  <2>2. Arriving(u, v)' = Arriving(u, v)
    BY <1>1, <2>1 DEF Arriving
  <2> QED
    BY <1>1, <1>2, <2>2
<1>4. CASE v = w
  <2> DEFINE g == <<got[v][u]>>
             R == NumsFrom(u, rxring[v])
             W == NumsFrom(u, raw_pkts_queue[v])
  <2>1. /\ rxring[v] \in Seq(RxPackets)
        /\ g \in Seq(Nums) /\ R \in Seq(Nums) /\ W \in Seq(Nums)
    BY <1>1, QueueTyped, EndsTyped
  <2>2. rxring'[v] = Append(rxring[v], Host) /\ Host \in RxPackets /\ NumFrom(u, Host) = None
    BY <1>1, <1>4 DEF TypeOK, RxPackets, NumFrom
  <2>3. NumsFrom(u, rxring'[v]) = R \o <<None>>
    BY <2>1, <2>2, NumsFromQueue
  <2>4. Arriving(u, v)' = g \o ((R \o <<None>>) \o W) /\ Arriving(u, v) = g \o (R \o W)
    BY <1>1, <2>3 DEF Arriving
  <2> HIDE DEF g, R, W
  <2>5. /\ Arriving(u, v)' = (g \o R) \o (<<None>> \o W)
        /\ Arriving(u, v) = (g \o R) \o W
        /\ g \o R \in Seq(Nums)
    <3> DEFINE y == <<None>>
    <3>1. y \in Seq(Nums)
      BY NumbersPositive DEF None, Nums
    <3>2. Arriving(u, v)' = Cat(g, Cat(Cat(R, y), W)) /\ Arriving(u, v) = Cat(g, Cat(R, W))
      BY <2>4, Zenon DEF Cat
    <3> HIDE DEF y
    <3>3. /\ Arriving(u, v)' = Cat(Cat(g, R), Cat(y, W)) /\ Arriving(u, v) = Cat(Cat(g, R), W)
          /\ Cat(g, R) \in Seq(Nums)
      BY <2>1, <3>1, <3>2, CatAssociative, SMTT(30)
    <3> QED
      BY <3>3, Zenon DEF Cat, y
  <2> QED
    BY <1>1, <1>2, <2>1, <2>5, GapPutIn
<1> QED
  BY <1>3, <1>4

\* A guest takes the oldest of its ring: nothing is missing before it.
LEMMA OrderByReceive ==
  ASSUME OrderIInv, NEW w \in VMs, GuestReceive(w)
  PROVE  SiblingsInOrder'
<1> SUFFICES ASSUME NEW u \in VMs, NEW v \in VMs
             PROVE  /\ Departing(u, v)' = Departing(u, v)
                    /\ Consecutive(Arriving(u, v), taken[u][v]) =>
                         Consecutive(Arriving(u, v)', taken[u][v])
                    /\ UNCHANGED <<sent, taken, server>>
  BY DEF OrderIInv, OrderKept, SiblingsInOrder
<1> DEFINE pkt == Head(rxring[w])
<1>1. /\ TypeOK /\ UNCHANGED <<sent, taken, server, txring, raw_pkts_queue>>
      /\ rxring[w] # <<>> /\ rxring' = [rxring EXCEPT ![w] = Tail(@)]
      /\ got' = IF pkt = Host THEN got ELSE [got EXCEPT ![w][pkt.src] = pkt.num]
  BY DEF OrderIInv, OrderKept, GuestReceive, threads, life
<1>2. Departing(u, v)' = Departing(u, v)
  BY <1>1 DEF Departing
<1>3. CASE v # w
  <2>1. rxring'[v] = rxring[v] /\ got'[v] = got[v]
    BY <1>1, <1>3 DEF TypeOK
  <2>2. Arriving(u, v)' = Arriving(u, v)
    BY <1>1, <2>1 DEF Arriving
  <2> QED
    BY <1>1, <1>2, <2>2
<1>4. CASE v = w
  <2> DEFINE x == NumFrom(u, pkt)
             g == <<got[v][u]>>
             R == NumsFrom(u, Tail(rxring[v]))
             W == NumsFrom(u, raw_pkts_queue[v])
  <2>1. /\ rxring[v] \in Seq(RxPackets)
        /\ got[v][u] \in Nums /\ g \in Seq(Nums) /\ W \in Seq(Nums)
    BY <1>1, QueueTyped, EndsTyped
  <2>2. /\ pkt \in RxPackets /\ Tail(rxring[v]) \in Seq(RxPackets)
        /\ rxring'[v] = Tail(rxring[v])
    <3>1. rxring'[v] = Tail(rxring[v])
      BY <1>1, <1>4 DEF TypeOK
    <3> QED
      BY <1>1, <1>4, <2>1, <3>1
  <2>3. /\ NumsFrom(u, rxring[v]) = <<x>> \o R /\ R \in Seq(Nums) /\ x \in Nums
        /\ NumsFrom(u, rxring'[v]) = R
    BY <1>1, <1>4, <2>1, <2>2, NumsFromQueue, NumsTyped
  <2>4. /\ Arriving(u, v) = g \o ((<<x>> \o R) \o W)
        /\ Arriving(u, v)' = <<got'[v][u]>> \o (R \o W)
    BY <1>1, <2>3 DEF Arriving
  <2>5. x # None => got'[v][u] = x
    <3>1. SUFFICES ASSUME x # None PROVE got'[v][u] = x
      OBVIOUS
    <3>2. pkt # Host /\ pkt.src = u /\ pkt.num = x
      BY <3>1 DEF NumFrom
    <3> QED
      BY <1>1, <1>4, <3>2 DEF TypeOK
  <2>6. x = None => got'[v][u] = got[v][u]
    <3>1. SUFFICES ASSUME x = None, pkt # Host PROVE got'[v][u] = got[v][u]
      BY <1>1
    <3>2. pkt \in Packets /\ pkt.num # None
      <4>1. pkt \in Packets
        BY <2>2, <3>1 DEF RxPackets
      <4>2. pkt.num \in 0 .. Numbers - 1
        BY <4>1 DEF Packets
      <4> QED
        BY <4>1, <4>2, NumbersPositive DEF None
    <3>3. pkt.src # u
      BY <3>1, <3>2 DEF NumFrom
    <3> QED
      BY <1>1, <1>4, <3>1, <3>3 DEF TypeOK
  <2> HIDE DEF x, g, R, W
  <2>7. <<x>> \in Seq(Nums) /\ R \o W \in Seq(Nums)
    BY <2>1, <2>3
  <2>8. Arriving(u, v) = g \o (<<x>> \o (R \o W)) /\ <<x>> \o (R \o W) \in Seq(Nums)
    <3> DEFINE y == <<x>>
    <3>1. Arriving(u, v) = Cat(g, Cat(Cat(y, R), W)) /\ y \in Seq(Nums)
      BY <2>4, <2>7, Zenon DEF Cat
    <3> HIDE DEF y
    <3>2. Arriving(u, v) = Cat(g, Cat(y, Cat(R, W))) /\ Cat(y, Cat(R, W)) \in Seq(Nums)
      BY <2>1, <2>3, <3>1, CatAssociative
    <3> QED
      BY <3>2, Zenon DEF Cat, y
  <2>9. CASE x = None
    <3>1. Arriving(u, v) = g \o (<<None>> \o (R \o W)) /\ Arriving(u, v)' = g \o (R \o W)
      <4>1. <<got'[v][u]>> = g
        BY <2>6, <2>9 DEF g
      <4>2. <<x>> = <<None>>
        BY <2>9
      <4> QED
        BY <2>4, <2>8, <4>1, <4>2, Zenon
    <3> DEFINE b == R \o W
    <3>2. g \in Seq(Nums) /\ b \in Seq(Nums)
      BY <2>1, <2>7
    <3> HIDE DEF b
    <3>3. Consecutive(g \o (<<None>> \o b), taken[u][v]) => Consecutive(g \o b, taken[u][v])
      BY <3>2, GapTakenOut
    <3>4. Consecutive(Arriving(u, v), taken[u][v]) => Consecutive(Arriving(u, v)', taken[u][v])
      BY <3>1, <3>3, Zenon DEF b
    <3> QED
      BY <1>1, <1>2, <3>4
  <2>10. CASE x # None
    <3>1. Arriving(u, v)' = <<x>> \o (R \o W)
      BY <2>4, <2>5, <2>10, Zenon
    <3>2. Arriving(u, v) = <<got[v][u]>> \o (<<x>> \o (R \o W))
      BY <2>8, Zenon DEF g
    <3> QED
      BY <1>1, <1>2, <2>1, <2>8, <3>1, <3>2, OldestTaken
  <2> QED
    BY <2>9, <2>10
<1> QED
  BY <1>3, <1>4

\* A guest sends the next one, which is a gap for the others it sends to.
LEMMA OrderBySend ==
  ASSUME OrderIInv, NEW w \in VMs, NEW d \in VMs, GuestSend(w, d)
  PROVE  SiblingsInOrder'
<1> SUFFICES ASSUME NEW u \in VMs, NEW v \in VMs
             PROVE  /\ Consecutive(Departing(u, v)', sent'[u][v])
                    /\ Arriving(u, v)' = Arriving(u, v) /\ UNCHANGED <<taken, server>>
  BY DEF OrderIInv, OrderKept, SiblingsInOrder
<1> DEFINE n == NextNum(sent[w][d])
           pkt == [dst |-> d, num |-> n]
<1>1. /\ TypeOK /\ UNCHANGED <<taken, server, rxring, raw_pkts_queue, got>>
      /\ sent' = [sent EXCEPT ![w][d] = n]
      /\ txring' = [txring EXCEPT ![w] = Append(@, pkt)]
  BY DEF OrderIInv, OrderKept, GuestSend, threads, life
<1>2. Consecutive(Departing(u, v), sent[u][v])
  BY DEF OrderIInv, OrderKept, SiblingsInOrder
<1>3. Arriving(u, v)' = Arriving(u, v)
  BY <1>1 DEF Arriving
<1>4. CASE u # w
  <2>1. txring'[u] = txring[u] /\ sent'[u] = sent[u]
    BY <1>1, <1>4 DEF TypeOK
  <2>2. Departing(u, v)' = Departing(u, v)
    BY <1>1, <2>1 DEF Departing
  <2> QED
    BY <1>1, <1>2, <1>3, <2>1, <2>2
<1>5. CASE u = w
  <2> DEFINE t == <<taken[u][v]>>
             T == NumsTo(v, txring[u])
             x == NumTo(v, pkt)
  <2>1. /\ txring[u] \in Seq(TxPackets) /\ t \in Seq(Nums) /\ T \in Seq(Nums)
        /\ sent[u][v] \in 0 .. Numbers - 1
    BY <1>1, QueueTyped, EndsTyped
  <2>2. n \in 0 .. Numbers - 1
    BY <1>1, NextIsNumber, SMTT(30) DEF TypeOK
  <2>3. pkt \in TxPackets
    BY <2>2 DEF TxPackets
  <2>4. txring'[u] = Append(txring[u], pkt)
    BY <1>1, <1>5 DEF TypeOK
  <2>5. NumsTo(v, txring'[u]) = T \o <<x>> /\ x \in Nums
    BY <2>1, <2>3, <2>4, NumsToRing, NumsTyped
  <2>6. Departing(u, v)' = t \o (T \o <<x>>) /\ Departing(u, v) = t \o T
    BY <1>1, <2>5 DEF Departing
  <2>7. v = d => x = NextNum(sent[u][v]) /\ sent'[u][v] = NextNum(sent[u][v])
    BY <1>1, <1>5 DEF NumTo, TypeOK
  <2>8. v # d => x = None /\ sent'[u][v] = sent[u][v]
    BY <1>1, <1>5 DEF NumTo, TypeOK
  <2> HIDE DEF t, T, x
  <2>9. Departing(u, v)' = Departing(u, v) \o <<x>> /\ Departing(u, v) \in Seq(Nums)
    <3> DEFINE y == <<x>>
    <3>1. y \in Seq(Nums) /\ t \o T \in Seq(Nums)
      BY <2>1, <2>5
    <3>2. Departing(u, v)' = Cat(t, Cat(T, y)) /\ Departing(u, v) = Cat(t, T)
      BY <2>6, Zenon DEF Cat
    <3> HIDE DEF y
    <3>3. Departing(u, v)' = Cat(Departing(u, v), y)
      BY <2>1, <3>1, <3>2, CatAssociative
    <3> QED
      BY <2>6, <3>1, <3>3, Zenon DEF Cat, y
  <2>10. CASE v = d
    BY <1>1, <1>2, <1>3, <2>1, <2>7, <2>9, <2>10, NextAppended
  <2>11. CASE v # d
    BY <1>1, <1>2, <1>3, <2>8, <2>9, <2>11, GapAppended
  <2> QED
    BY <2>10, <2>11
<1> QED
  BY <1>4, <1>5

\* A new guest has got nothing, and begins after what was taken of the old one.
LEMMA OrderByNew ==
  ASSUME OrderIInv, NEW w \in VMs, NewBackend(w)
  PROVE  SiblingsInOrder'
<1> SUFFICES ASSUME NEW u \in VMs, NEW v \in VMs
             PROVE  /\ Consecutive(Departing(u, v)', sent'[u][v])
                    /\ server'[v] = "up" /\ Sharing(u, v) => Consecutive(Arriving(u, v)', taken'[u][v])
  BY DEF SiblingsInOrder
<1>1. /\ TypeOK /\ UNCHANGED taken
      /\ server' = [server EXCEPT ![w] = "up"]
      /\ raw_pkts_queue' = [raw_pkts_queue EXCEPT ![w] = <<>>]
      /\ txring' = [txring EXCEPT ![w] = <<>>]
      /\ rxring' = [rxring EXCEPT ![w] = <<>>]
      /\ sent' = [sent EXCEPT ![w] = taken[w]]
      /\ got' = [got EXCEPT ![w] = [d \in VMs |-> None]]
  BY DEF OrderIInv, OrderKept, NewBackend
<1>2. /\ Consecutive(Departing(u, v), sent[u][v])
      /\ server[v] = "up" /\ Sharing(u, v) => Consecutive(Arriving(u, v), taken[u][v])
  BY DEF OrderIInv, OrderKept, SiblingsInOrder
<1>3. \A x, last : (x = None \/ x = last) => Consecutive(<<x>>, last)
  BY DEF Consecutive
<1>4. NumsTo(v, <<>>) = <<>> /\ NumsFrom(u, <<>>) = <<>>
  BY NumsToRing, NumsFromQueue, EmptySeq
<1>5. Consecutive(Departing(u, v)', sent'[u][v])
  <2>1. CASE u = w
    <3>1. txring'[u] = <<>> /\ sent'[u][v] = taken[u][v]
      BY <1>1, <2>1 DEF TypeOK
    <3>2. Departing(u, v)' = <<taken[u][v]>> \o <<>>
      BY <1>1, <1>4, <3>1 DEF Departing
    <3>3. Departing(u, v)' = <<taken[u][v]>>
      BY <3>2
    <3> QED
      BY <1>3, <3>1, <3>3
  <2>2. CASE u # w
    <3>1. txring'[u] = txring[u] /\ sent'[u] = sent[u]
      BY <1>1, <2>2 DEF TypeOK
    <3>2. Departing(u, v)' = Departing(u, v)
      BY <1>1, <3>1 DEF Departing
    <3> QED
      BY <1>2, <3>1, <3>2
  <2> QED
    BY <2>1, <2>2
<1>6. server'[v] = "up" /\ Sharing(u, v) => Consecutive(Arriving(u, v)', taken'[u][v])
  <2>1. CASE v = w
    <3>1. rxring'[v] = <<>> /\ raw_pkts_queue'[v] = <<>> /\ got'[v][u] = None
      BY <1>1, <2>1 DEF TypeOK
    <3>2. Arriving(u, v)' = <<None>> \o (<<>> \o <<>>)
      BY <1>4, <3>1 DEF Arriving
    <3>3. Arriving(u, v)' = <<None>>
      BY <3>2
    <3> QED
      BY <1>3, <3>3
  <2>2. CASE v # w
    <3>1. /\ rxring'[v] = rxring[v] /\ raw_pkts_queue'[v] = raw_pkts_queue[v] /\ got'[v] = got[v]
          /\ server'[v] = server[v]
      BY <1>1, <2>2 DEF TypeOK
    <3>2. Arriving(u, v)' = Arriving(u, v)
      BY <3>1 DEF Arriving
    <3> QED
      BY <1>1, <1>2, <3>1, <3>2
  <2> QED
    BY <2>1, <2>2
<1> QED
  BY <1>5, <1>6

\* A guest that can be sent to is in cid_map until its server is dropped.
LEMMA ListedStep ==
  ASSUME OrderIInv, [Next]_vars
  PROVE  UpIsListed'
<1> USE DEF OrderIInv, OrderKept, UpIsListed
<1> SUFFICES ASSUME NEW v \in VMs, server'[v] = "up" PROVE v \in cid_map'
  OBVIOUS
<1>1. CASE UNCHANGED <<server, cid_map>>
  BY <1>1
<1>2. ASSUME NEW w \in VMs, Wake(w) \/ Tx(w) \/ Rx(w) PROVE UNCHANGED <<server, cid_map>>
  <2> USE DEF life
  <2>1. CASE Wake(w)
    BY <2>1 DEF Wake, WakeTx, WakeRx, WakeBackend, WakeSibling
  <2>2. CASE Tx(w)
    BY <2>2 DEF Tx, TxDone, TxDropped, TxPass, TxNotify, TakePacket
  <2>3. CASE Rx(w)
    BY <2>3 DEF Rx, RxStart, RawPacket, RawDone, StdPacket, StdDone
  <2> QED
    BY <1>2, <2>1, <2>2, <2>3
<1>3. ASSUME NEW w \in VMs, Restart(w) PROVE v \in cid_map'
  <2>0. server \in [VMs -> {"up", "stopping", "down"}]
    BY DEF TypeOK
  <2>1. CASE Disconnect(w)
    <3>1. cid_map' = cid_map /\ server' = [server EXCEPT ![w] = "stopping"]
      BY <2>1 DEF Disconnect, threads
    <3> QED
      BY <2>0, <3>1
  <2>2. CASE DropBackend(w)
    <3>1. cid_map' = cid_map \ {w} /\ server' = [server EXCEPT ![w] = "down"]
      BY <2>2 DEF DropBackend
    <3> QED
      BY <2>0, <3>1
  <2>3. CASE NewBackend(w)
    <3>1. cid_map' = cid_map \cup {w} /\ server' = [server EXCEPT ![w] = "up"]
      BY <2>3 DEF NewBackend
    <3> QED
      BY <2>0, <3>1
  <2> QED
    BY <1>3, <2>1, <2>2, <2>3 DEF Restart
<1>4. ASSUME NEW w \in VMs, Guest(w) PROVE UNCHANGED <<server, cid_map>>
  BY <1>4 DEF Guest, VmmConnect, GuestReceive, GuestSend, threads, life
<1>5. CASE UNCHANGED vars
  BY <1>1, <1>5 DEF vars, threads, life
<1> QED
  BY <1>1, <1>2, <1>3, <1>4, <1>5 DEF Next

\* What one guest sends another arrives in the order it was sent, without a
\* gap or a repetition, for any guests, groups and rings and through every
\* restart (send_pkt(), recv_raw_pkt(), start_backend_server()).
THEOREM OrderStaysKept == Spec => []OrderKept
<1>1. OrderIInv /\ [Next]_vars => OrderIInv'
  <2> SUFFICES ASSUME OrderIInv, [Next]_vars PROVE OrderIInv'
    OBVIOUS
  <2>0. TypeOK
    BY DEF OrderIInv, OrderKept
  <2>1. UpIsListed'
    BY ListedStep
  <2>2. TypeOK'
    <3>1. CASE Next
      BY <2>0, <3>1, TypeByWake, TypeByTx, TypeByRx, TypeByRestart, TypeByGuest DEF Next
    <3>2. CASE UNCHANGED vars
      BY <2>0, <3>2 DEF TypeOK, vars, threads, life, rings, counts
    <3> QED
      BY <3>1, <3>2
  <2>3. SiblingsInOrder'
    <3> USE DEF rings, life, threads, counts
    <3>1. ASSUME NEW v \in VMs, Wake(v) PROVE SiblingsInOrder'
      BY <3>1, OrderUntouched DEF Wake, WakeTx, WakeRx, WakeBackend, WakeSibling
    <3>2. ASSUME NEW v \in VMs, Tx(v) PROVE SiblingsInOrder'
      <4>1. CASE TxDone(v) \/ TxNotify(v)
        BY <4>1, OrderUntouched DEF TxDone, TxNotify
      <4> QED
        BY <3>2, <4>1, OrderByDropped, OrderByPass DEF Tx
    <3>3. ASSUME NEW v \in VMs, Rx(v) PROVE SiblingsInOrder'
      <4>1. CASE RxStart(v) \/ RawDone(v) \/ StdDone(v)
        BY <4>1, OrderUntouched DEF RxStart, RawDone, StdDone
      <4> QED
        BY <3>3, <4>1, OrderByRaw, OrderByStd DEF Rx
    <3>4. ASSUME NEW v \in VMs, Restart(v) PROVE SiblingsInOrder'
      <4>1. CASE Disconnect(v) \/ DropBackend(v)
        BY <2>0, <4>1, OrderUntouched DEF Disconnect, DropBackend, TypeOK
      <4> QED
        BY <3>4, <4>1, OrderByNew DEF Restart
    <3>5. ASSUME NEW v \in VMs, Guest(v) PROVE SiblingsInOrder'
      <4>1. CASE VmmConnect(v)
        BY <4>1, OrderUntouched DEF VmmConnect
      <4> QED
        BY <3>5, <4>1, OrderByReceive, OrderBySend DEF Guest
    <3>6. CASE UNCHANGED vars
      BY <3>6, OrderUntouched DEF vars
    <3> QED
      BY <3>1, <3>2, <3>3, <3>4, <3>5, <3>6 DEF Next
  <2> QED
    BY <2>1, <2>2, <2>3 DEF OrderIInv, OrderKept
<1>2. OrderIInv => OrderKept
  BY DEF OrderIInv
<1> QED
  BY <1>1, <1>2, OrderStart, PTL DEF Spec

-----------------------------------------------------------------------------
(***************************************************************************)
(* The tx buffer of a connection.  Its counters wrap and its places are    *)
(* their remainders, so that the argument is one about division: a place   *)
(* is also the remainder of a counter that has wrapped, as long as the     *)
(* size of the buffer divides the range of the counters, and two bytes     *)
(* that are less than a buffer apart never have the same place.            *)
(***************************************************************************)

\* Division with a remainder, and that there is one only
LEMMA ModOnly ==
  ASSUME NEW a \in Int, NEW b \in Nat \ {0}, NEW q \in Int, NEW r \in 0 .. b - 1, a = q * b + r
  PROVE  a % b = r
OBVIOUS

LEMMA ModIs ==
  ASSUME NEW a \in Int, NEW b \in Nat \ {0}
  PROVE  \E q \in Int, r \in 0 .. b - 1 : a = q * b + r /\ a % b = r
<1>. DEFINE q == a \div b
            r == a % b
<1>1. q \in Int /\ r \in 0 .. b - 1 /\ a = q * b + r
  OBVIOUS
<1>2. a % b = r
  OBVIOUS
<1>. HIDE DEF q, r
<1>. QED
  BY <1>1, <1>2

LEMMA ModAdd ==
  ASSUME NEW a \in Int, NEW m \in Int, NEW b \in Nat \ {0}
  PROVE  (a + m * b) % b = a % b
<1>1. PICK q \in Int, r \in 0 .. b - 1 : a = q * b + r /\ a % b = r
  BY ModIs
<1>. DEFINE c == a + m * b
<1>2. m * b \in Int
  OBVIOUS
<1>3. c = (q + m) * b + r
  <2>1. (q + m) * b = q * b + m * b
    OBVIOUS
  <2>. QED
    BY <1>1, <1>2, <2>1
<1>4. c \in Int /\ q + m \in Int
  BY <1>2
<1>. HIDE DEF c
<1>5. c % b = r
  BY <1>3, <1>4, ModOnly
<1>. QED
  BY <1>1, <1>5 DEF c

LEMMA ModDistinct ==
  ASSUME NEW a \in Int, NEW c \in Int, NEW b \in Nat \ {0}, a % b = c % b, a <= c, c < a + b
  PROVE  a = c
<1>1. PICK q \in Int, r \in 0 .. b - 1 : a = q * b + r /\ a % b = r
  BY ModIs
<1>2. PICK p \in Int, s \in 0 .. b - 1 : c = p * b + s /\ c % b = s
  BY ModIs
<1>3. r = s
  BY <1>1, <1>2
<1>4. (p - q) * b = c - a
  BY <1>1, <1>2, <1>3
<1>5. p - q \in Int /\ c - a \in 0 .. b - 1
  OBVIOUS
<1>6. p - q = 0
  <2>. DEFINE d == p - q
  <2>1. d * b \in 0 .. b - 1 /\ d \in Int
    BY <1>4, <1>5
  <2>. HIDE DEF d
  <2>2. CASE d >= 1
    <3>1. d * b >= b
      BY <2>1, <2>2
    <3>. QED
      BY <2>1, <3>1
  <2>3. CASE d <= -1
    <3>1. d * b <= -b
      BY <2>1, <2>3
    <3>. QED
      BY <2>1, <3>1
  <2>4. d = 0
    BY <2>1, <2>2, <2>3
  <2>. QED
    BY <2>4 DEF d
<1>7. p = q
  BY <1>6
<1>. QED
  BY <1>1, <1>2, <1>3, <1>7

-----------------------------------------------------------------------------
TxBufCounters == 0 .. TxBufRange - 1

\* The bytes from a counter on, one at a time
TxBufFrom(h, n) == [k \in 1 .. n |-> txbuf[(h + k - 1) % TxBufSize]]

TxBufDivides == TxBufRange % TxBufSize = 0

TxBufRun(h, n) == [i \in 1 .. n |-> txbuf[TxBufIndex(h) + i - 1]]

LEMMA TxBufSizes == TxBufSize \in Nat \ {0} /\ TxBufRange \in Nat \ {0} /\ TxBufSize < TxBufRange
BY TxBufAssumption

LEMMA TxBufIndexIs ==
  ASSUME NEW h \in Nat, NEW m \in Nat, TxBufIndex(h) + m < TxBufSize
  PROVE  (h + m) % TxBufSize = TxBufIndex(h) + m
<1>1. PICK q \in Int, r \in 0 .. TxBufSize - 1 : h = q * TxBufSize + r /\ h % TxBufSize = r
  BY TxBufSizes, ModIs
<1>2. q * TxBufSize \in Int
  BY TxBufSizes
<1>3. h + m = q * TxBufSize + (r + m) /\ r + m \in 0 .. TxBufSize - 1
  BY <1>1, <1>2, TxBufSizes DEF TxBufIndex
<1>. DEFINE s == r + m
            x == h + m
<1>4. x \in Int /\ s \in 0 .. TxBufSize - 1 /\ x = q * TxBufSize + s
  BY <1>3
<1>. HIDE DEF s, x
<1>5. x % TxBufSize = s
  BY <1>4, TxBufSizes, ModOnly
<1>. QED
  BY <1>1, <1>5 DEF TxBufIndex, s, x

\* Indices go round with the counters, if the size of the buffer divides them.
LEMMA TxBufLaps ==
  ASSUME TxBufDivides, NEW x \in Int, NEW i \in Int
  PROVE  ((x % TxBufRange) + i) % TxBufSize = (x + i) % TxBufSize
<1>. DEFINE b == TxBufSize  c == TxBufRange
<1>0. b \in Nat \ {0} /\ c \in Nat \ {0} /\ c % b = 0
  BY TxBufSizes DEF TxBufDivides
<1>. HIDE DEF b, c
<1>1. PICK q \in Int, r \in 0 .. c - 1 : x = q * c + r /\ x % c = r
  BY <1>0, ModIs
<1>2. PICK k \in Int, s \in 0 .. b - 1 : c = k * b + s /\ c % b = s
  BY <1>0, ModIs
<1>3. q * c = (q * k) * b
  <2>1. c = k * b
    BY <1>0, <1>2
  <2>2. q * (k * b) = (q * k) * b
    BY <1>0
  <2>. QED
    BY <2>1, <2>2
<1>. DEFINE j == q * k
            y == r + i
<1>4. j \in Int /\ y \in Int /\ q * c \in Int
  BY <1>0
<1>5. x + i = y + j * b
  BY <1>1, <1>3, <1>4
<1>. HIDE DEF j, y
<1>6. (y + j * b) % b = y % b
  BY <1>0, <1>4, ModAdd
<1>7. (x % c) + i = y
  BY <1>1 DEF y
<1>. QED
  BY <1>5, <1>6, <1>7 DEF b, c

LEMMA TxBufRuns ==
  ASSUME TxBufDivides, NEW h \in TxBufCounters, NEW left \in Nat \ {0},
         NEW n \in Nat, n <= left, TxBufIndex(h) + n <= TxBufSize
  PROVE  TxBufFrom(h, left) = TxBufRun(h, n) \o TxBufFrom(TxBufAdvance(h, n), left - n)
<1>. DEFINE a == TxBufRun(h, n)
            b == TxBufFrom(TxBufAdvance(h, n), left - n)
            all == TxBufFrom(h, left)
<1>1. h \in Nat /\ TxBufIndex(h) \in 0 .. TxBufSize - 1
  BY TxBufSizes, ModIs DEF TxBufCounters, TxBufIndex
<1>2. Len(a) = n /\ Len(b) = left - n /\ Len(a \o b) = left /\ DOMAIN (a \o b) = 1 .. left
  BY DEF TxBufRun, TxBufFrom
<1>3. ASSUME NEW k \in 1 .. left PROVE all[k] = (a \o b)[k]
  <2>1. CASE k <= n
    <3>1. (h + k - 1) % TxBufSize = TxBufIndex(h) + k - 1
      <4>1. k - 1 \in Nat /\ TxBufIndex(h) + (k - 1) < TxBufSize
        BY <1>1, <2>1, TxBufSizes
      <4>2. (h + (k - 1)) % TxBufSize = TxBufIndex(h) + (k - 1)
        BY <1>1, <4>1, TxBufIndexIs
      <4>3. h + (k - 1) = h + k - 1 /\ TxBufIndex(h) + (k - 1) = TxBufIndex(h) + k - 1
        BY <1>1
      <4>. QED
        BY <4>2, <4>3
    <3>2. (a \o b)[k] = a[k]
      BY <1>2, <2>1
    <3>. QED
      BY <2>1, <3>1, <3>2 DEF TxBufRun, TxBufFrom
  <2>2. CASE k > n
    <3>. DEFINE i == k - n - 1
                x == h + n
                y == x % TxBufRange
    <3>1. (a \o b)[k] = b[k - n] /\ k - n \in 1 .. left - n
      BY <1>2, <2>2
    <3>2. i \in Int /\ x \in Int /\ y \in Int
      BY <1>1, TxBufSizes
    <3>3. (y + i) % TxBufSize = (x + i) % TxBufSize
      <4>. HIDE DEF i, x
      <4>. QED
        BY <3>2, TxBufLaps, Zenon
    <3>4. x + i = h + k - 1
      BY <1>1
    <3>5. b[k - n] = txbuf[(y + (k - n) - 1) % TxBufSize]
      BY <3>1 DEF TxBufFrom, TxBufAdvance
    <3>. HIDE DEF y
    <3>6. y + (k - n) - 1 = y + i
      BY <3>2
    <3>. QED
      BY <3>1, <3>3, <3>4, <3>5, <3>6 DEF TxBufFrom
  <2>3. k <= n \/ k > n
    OBVIOUS
  <2>. QED
    BY <2>1, <2>2, <2>3, Zenon
<1>4. all = [k \in 1 .. left |-> all[k]]
  BY DEF TxBufFrom
<1>5. (a \o b) = [k \in 1 .. left |-> (a \o b)[k]]
  BY <1>2
<1>. HIDE DEF a, b, all
<1>6. all = a \o b
  BY <1>3, <1>4, <1>5
<1>. QED
  BY <1>6 DEF a, b, all

\* What is left between two counters
LEMMA TxBufLengthIs ==
  ASSUME NEW h \in TxBufCounters, NEW t \in TxBufCounters
  PROVE  TxBufLength(h, t) = IF t >= h THEN t - h ELSE t - h + TxBufRange
<1>. DEFINE d == t - h
<1>1. d \in Int /\ -TxBufRange < d /\ d < TxBufRange
  BY TxBufSizes DEF TxBufCounters
<1>2. d = 0 * TxBufRange + d /\ d = (-1) * TxBufRange + (d + TxBufRange)
  BY <1>1, TxBufSizes
<1>. HIDE DEF d
<1>3. CASE d >= 0
  <2>1. d % TxBufRange = d
    BY <1>1, <1>2, <1>3, TxBufSizes, ModOnly
  <2>. QED
    BY <1>3, <2>1 DEF d, TxBufLength, TxBufCounters
<1>4. CASE d < 0
  <2>1. d + TxBufRange \in 0 .. TxBufRange - 1 /\ -1 \in Int
    BY <1>1, <1>4, TxBufSizes
  <2>2. d % TxBufRange = d + TxBufRange
    BY <1>1, <1>2, <2>1, TxBufSizes, ModOnly
  <2>. QED
    BY <1>4, <2>2 DEF d, TxBufLength, TxBufCounters
<1>. QED
  BY <1>1, <1>3, <1>4

LEMMA TxBufAdvanceIs ==
  ASSUME NEW h \in TxBufCounters, NEW n \in TxBufCounters
  PROVE  /\ TxBufAdvance(h, n) = IF h + n < TxBufRange THEN h + n ELSE h + n - TxBufRange
         /\ TxBufAdvance(h, n) \in TxBufCounters
<1>. DEFINE d == h + n
<1>1. d \in Nat /\ d < 2 * TxBufRange
  BY TxBufSizes DEF TxBufCounters
<1>2. d = 0 * TxBufRange + d /\ d = 1 * TxBufRange + (d - TxBufRange)
  BY <1>1, TxBufSizes
<1>. HIDE DEF d
<1>3. CASE d < TxBufRange
  <2>1. d % TxBufRange = d
    BY <1>1, <1>2, <1>3, TxBufSizes, ModOnly
  <2>. QED
    BY <1>1, <1>3, <2>1, TxBufSizes DEF d, TxBufAdvance, TxBufCounters
<1>4. CASE d >= TxBufRange
  <2>1. d - TxBufRange \in 0 .. TxBufRange - 1
    BY <1>1, <1>4, TxBufSizes
  <2>2. d % TxBufRange = d - TxBufRange
    BY <1>1, <1>2, <2>1, TxBufSizes, ModOnly
  <2>. QED
    BY <1>1, <1>4, <2>1, <2>2, TxBufSizes DEF d, TxBufAdvance, TxBufCounters
<1>. QED
  BY <1>1, <1>3, <1>4, TxBufSizes

LEMMA TxBufShorter ==
  ASSUME NEW h \in TxBufCounters, NEW t \in TxBufCounters, NEW n \in Nat, n <= TxBufLength(h, t)
  PROVE  /\ TxBufAdvance(h, n) \in TxBufCounters
         /\ TxBufLength(TxBufAdvance(h, n), t) = TxBufLength(h, t) - n
<1>1. n \in TxBufCounters
  BY TxBufLengthIs, TxBufSizes DEF TxBufCounters
<1>. DEFINE u == TxBufAdvance(h, n)
<1>2. u \in TxBufCounters /\ u = IF h + n < TxBufRange THEN h + n ELSE h + n - TxBufRange
  BY <1>1, TxBufAdvanceIs
<1>. HIDE DEF u
<1>3. TxBufLength(u, t) = IF t >= u THEN t - u ELSE t - u + TxBufRange
  BY <1>2, TxBufLengthIs
<1>4. TxBufLength(h, t) = IF t >= h THEN t - h ELSE t - h + TxBufRange
  BY TxBufLengthIs
<1>5. TxBufLength(u, t) = TxBufLength(h, t) - n
  BY <1>2, <1>3, <1>4, TxBufSizes DEF TxBufCounters
<1>. QED
  BY <1>2, <1>5 DEF u

LEMMA TxBufLonger ==
  ASSUME NEW h \in TxBufCounters, NEW t \in TxBufCounters, NEW n \in Nat, TxBufLength(h, t) + n < TxBufRange
  PROVE  /\ TxBufAdvance(t, n) \in TxBufCounters
         /\ TxBufLength(h, TxBufAdvance(t, n)) = TxBufLength(h, t) + n
<1>1. n \in TxBufCounters
  BY TxBufLengthIs, TxBufSizes DEF TxBufCounters
<1>. DEFINE u == TxBufAdvance(t, n)
<1>2. u \in TxBufCounters /\ u = IF t + n < TxBufRange THEN t + n ELSE t + n - TxBufRange
  BY <1>1, TxBufAdvanceIs
<1>. HIDE DEF u
<1>3. TxBufLength(h, u) = IF u >= h THEN u - h ELSE u - h + TxBufRange
  BY <1>2, TxBufLengthIs
<1>4. TxBufLength(h, t) = IF t >= h THEN t - h ELSE t - h + TxBufRange
  BY TxBufLengthIs
<1>5. TxBufLength(h, u) = TxBufLength(h, t) + n
  BY <1>2, <1>3, <1>4, TxBufSizes DEF TxBufCounters
<1>. QED
  BY <1>2, <1>5 DEF u

\* What flush_to() hands on is the bytes from the head to the tail.
LEMMA TxBufOrderIs ==
  ASSUME TxBufDivides, txbuf_head \in TxBufCounters, txbuf_tail \in TxBufCounters,
         TxBufLength(txbuf_head, txbuf_tail) <= TxBufSize
  PROVE  TxBufOrder = TxBufFrom(txbuf_head, TxBufLength(txbuf_head, txbuf_tail))
<1>. DEFINE Rest(h) == TxBufLength(h, txbuf_tail)
            First(h) == TxBufMin(TxBufSize - TxBufIndex(h), Rest(h))
            Def(f) == [h \in TxBufCounters |->
                         IF Rest(h) = 0 THEN <<>> ELSE TxBufRun(h, First(h)) \o f[TxBufAdvance(h, First(h))]]
            g == [h \in TxBufCounters |-> TxBufFrom(h, Rest(h))]
            f == CHOOSE x : x = Def(x)
<1>1. TxBufOrder = f[txbuf_head]
  BY DEF TxBufOrder, TxBufRun, TxBufCounters
<1>. HIDE DEF Def, g
<1>2. \A h \in TxBufCounters : Rest(h) \in Nat /\ TxBufIndex(h) \in 0 .. TxBufSize - 1
  <2>. SUFFICES ASSUME NEW h \in TxBufCounters PROVE Rest(h) \in Nat /\ TxBufIndex(h) \in 0 .. TxBufSize - 1
    OBVIOUS
  <2>1. Rest(h) \in Nat
    BY TxBufLengthIs, TxBufSizes DEF TxBufCounters
  <2>2. h \in Int
    BY DEF TxBufCounters
  <2>3. h % TxBufSize \in 0 .. TxBufSize - 1
    BY <2>2, TxBufSizes, ModIs
  <2>. QED
    BY <2>1, <2>3 DEF TxBufIndex
<1>3. ASSUME NEW h \in TxBufCounters, Rest(h) # 0
      PROVE  /\ First(h) \in Nat \ {0} /\ First(h) <= Rest(h) /\ TxBufIndex(h) + First(h) <= TxBufSize
             /\ TxBufAdvance(h, First(h)) \in TxBufCounters
             /\ Rest(TxBufAdvance(h, First(h))) = Rest(h) - First(h)
             /\ First(h) = Rest(h) \/ TxBufIndex(h) + First(h) = TxBufSize
  <2>. DEFINE n == First(h)  rest == Rest(h)  index == TxBufIndex(h)
  <2>1. rest \in Nat \ {0} /\ index \in 0 .. TxBufSize - 1
    BY <1>2, <1>3
  <2>2. n \in Nat \ {0} /\ n <= rest /\ index + n <= TxBufSize /\ (n = rest \/ index + n = TxBufSize)
    <3>1. n = IF TxBufSize - index <= rest THEN TxBufSize - index ELSE rest
      BY DEF TxBufMin
    <3>. HIDE DEF n, rest, index
    <3>. QED
      BY <2>1, <3>1, TxBufSizes
  <2>. HIDE DEF n
  <2>3. TxBufAdvance(h, n) \in TxBufCounters /\ Rest(TxBufAdvance(h, n)) = rest - n
    BY <2>2, TxBufShorter
  <2>. QED
    BY <2>2, <2>3 DEF n
<1>4. g = Def(g)
  <2>. SUFFICES ASSUME NEW h \in TxBufCounters PROVE g[h] = Def(g)[h]
    BY DEF g, Def
  <2>1. CASE Rest(h) = 0
    BY <2>1 DEF g, Def, TxBufFrom
  <2>2. CASE Rest(h) # 0
    <3>. DEFINE n == First(h)  u == TxBufAdvance(h, n)
    <3>1. /\ Rest(h) \in Nat \ {0} /\ n \in Nat /\ n <= Rest(h) /\ TxBufIndex(h) + n <= TxBufSize
          /\ u \in TxBufCounters /\ Rest(u) = Rest(h) - n
      BY <1>2, <1>3, <2>2
    <3>. HIDE DEF n
    <3>2. TxBufFrom(h, Rest(h)) = TxBufRun(h, n) \o TxBufFrom(u, Rest(h) - n)
      BY <3>1, TxBufRuns
    <3>3. Def(g)[h] = TxBufRun(h, n) \o g[u]
      BY <2>2 DEF Def, n
    <3>4. g[h] = TxBufFrom(h, Rest(h)) /\ g[u] = TxBufFrom(u, Rest(u))
      BY <3>1 DEF g
    <3>. QED
      BY <3>1, <3>2, <3>3, <3>4
  <2>. QED
    BY <2>1, <2>2
<1>5. f = Def(f)
  BY <1>4
<1>. HIDE DEF f
<1>6. \A h \in TxBufCounters : f[h] = IF Rest(h) = 0 THEN <<>> ELSE TxBufRun(h, First(h)) \o f[TxBufAdvance(h, First(h))]
  <2>1. \A h \in TxBufCounters : Def(f)[h] = IF Rest(h) = 0 THEN <<>> ELSE TxBufRun(h, First(h)) \o f[TxBufAdvance(h, First(h))]
    BY DEF Def
  <2>. QED
    BY <1>5, <2>1
<1>. DEFINE Good(h) == f[h] = TxBufFrom(h, Rest(h))
<1>7. \A h \in TxBufCounters : Rest(h) = 0 => Good(h)
  BY <1>6 DEF TxBufFrom
<1>8. ASSUME NEW h \in TxBufCounters, Rest(h) # 0, Good(TxBufAdvance(h, First(h))) PROVE Good(h)
  <2>. DEFINE n == First(h)  u == TxBufAdvance(h, n)
  <2>1. /\ Rest(h) \in Nat \ {0} /\ n \in Nat /\ n <= Rest(h) /\ TxBufIndex(h) + n <= TxBufSize
        /\ u \in TxBufCounters /\ Rest(u) = Rest(h) - n
    BY <1>2, <1>3, <1>8
  <2>2. f[h] = TxBufRun(h, n) \o f[u]
    BY <1>6, <1>8
  <2>3. f[u] = TxBufFrom(u, Rest(u))
    BY <1>8
  <2>. HIDE DEF n
  <2>4. TxBufFrom(h, Rest(h)) = TxBufRun(h, n) \o TxBufFrom(u, Rest(h) - n)
    BY <2>1, TxBufRuns
  <2>. QED
    BY <2>1, <2>2, <2>3, <2>4
<1>. HIDE DEF Good
<1>9. ASSUME NEW h \in TxBufCounters, Rest(h) <= TxBufSize - TxBufIndex(h) PROVE Good(h)
  <2>1. CASE Rest(h) = 0
    BY <1>7, <2>1
  <2>2. CASE Rest(h) # 0
    <3>. DEFINE n == First(h)  u == TxBufAdvance(h, n)
    <3>1. n \in Nat \ {0} /\ n <= Rest(h) /\ TxBufIndex(h) + n <= TxBufSize /\ u \in TxBufCounters /\ Rest(u) = Rest(h) - n
          /\ (n = Rest(h) \/ TxBufIndex(h) + n = TxBufSize)
      BY <1>3, <2>2
    <3>2. Rest(h) \in Nat /\ TxBufIndex(h) \in 0 .. TxBufSize - 1
      BY <1>2
    <3>. HIDE DEF n, u, Rest
    <3>3. Rest(u) = 0
      BY <1>9, <3>1, <3>2, TxBufSizes
    <3>4. Good(u)
      BY <1>7, <3>1, <3>3
    <3>. QED
      BY <1>8, <2>2, <3>4 DEF n, u
  <2>. QED
    BY <2>1, <2>2
<1>10. Good(txbuf_head)
  <2>. DEFINE h == txbuf_head
  <2>1. CASE Rest(h) = 0
    BY <1>7, <2>1
  <2>2. CASE Rest(h) # 0
    <3>. DEFINE n == First(h)  u == TxBufAdvance(h, n)
    <3>1. n \in Nat \ {0} /\ n <= Rest(h) /\ TxBufIndex(h) + n <= TxBufSize /\ u \in TxBufCounters /\ Rest(u) = Rest(h) - n
          /\ (n = Rest(h) \/ TxBufIndex(h) + n = TxBufSize)
      BY <1>3, <2>2
    <3>2. Rest(h) \in Nat /\ TxBufIndex(h) \in 0 .. TxBufSize - 1 /\ h \in Nat /\ Rest(h) <= TxBufSize
      BY <1>2 DEF TxBufCounters
    <3>3. u = (h + n) % TxBufRange
      BY DEF TxBufAdvance
    <3>. HIDE DEF n, u, Rest, h
    <3>4. ASSUME n = Rest(h) PROVE Good(u)
      <4>1. Rest(u) = 0
        BY <3>1, <3>2, <3>4
      <4>. QED
        BY <1>7, <3>1, <4>1
    <3>5. ASSUME TxBufIndex(h) + n = TxBufSize PROVE Good(u)
      <4>. DEFINE x == h + n
      <4>1. PICK q \in Int, r \in 0 .. TxBufSize - 1 : h = q * TxBufSize + r /\ h % TxBufSize = r
        BY <3>2, TxBufSizes, ModIs
      <4>2. x = (q + 1) * TxBufSize + 0 /\ x \in Int
        <5>1. r = TxBufSize - n
          BY <3>1, <3>5, <4>1, TxBufSizes DEF TxBufIndex
        <5>2. (q + 1) * TxBufSize = q * TxBufSize + TxBufSize /\ q * TxBufSize \in Int
          BY TxBufSizes
        <5>. QED
          BY <3>1, <3>2, <4>1, <5>1, <5>2, TxBufSizes
      <4>. HIDE DEF x
      <4>3. x % TxBufSize = 0
        <5>1. q + 1 \in Int /\ 0 \in 0 .. TxBufSize - 1
          BY TxBufSizes
        <5>. QED
          BY <4>2, <5>1, TxBufSizes, ModOnly
      <4>4. ((x % TxBufRange) + 0) % TxBufSize = (x + 0) % TxBufSize
        <5>1. x \in Int /\ 0 \in Int
          BY <4>2
        <5>. QED
          BY <5>1, TxBufLaps, Zenon
      <4>5. u \in Int
        BY <3>1 DEF TxBufCounters
      <4>6. u % TxBufSize = 0
        BY <3>3, <4>2, <4>3, <4>4, <4>5 DEF x
      <4>7. TxBufIndex(u) = 0
        BY <4>6 DEF TxBufIndex
      <4>8. Rest(u) <= TxBufSize - TxBufIndex(u)
        BY <3>1, <3>2, <4>7, TxBufSizes
      <4>. QED
        BY <1>9, <3>1, <4>8
    <3>6. n = Rest(h) \/ TxBufIndex(h) + n = TxBufSize
      BY <3>1
    <3>7. Good(u)
      BY <3>4, <3>5, <3>6, Zenon
    <3>. QED
      BY <1>8, <2>2, <3>7 DEF n, u, h
  <2>. QED
    BY <2>1, <2>2
<1>. QED
  BY <1>1, <1>10 DEF Good

-----------------------------------------------------------------------------
TxBufHeld == TxBufLength(txbuf_head, txbuf_tail)

\* The invariant: no more than fits is between head and tail.
TxBufIInv == TxBufTypeOK /\ TxBufHeld <= TxBufSize

\* The bytes between head and tail, the oldest one first
TxBufContents == TxBufFrom(txbuf_head, TxBufHeld)

LEMMA TxBufTyped ==
  ASSUME TxBufIInv
  PROVE  /\ txbuf_head \in TxBufCounters /\ txbuf_tail \in TxBufCounters
         /\ TxBufHeld \in Nat /\ TxBufHeld <= TxBufSize /\ TxBufHeld \in TxBufCounters
         /\ TxBufAdvance(txbuf_head, TxBufHeld) = txbuf_tail
<1>1. txbuf_head \in TxBufCounters /\ txbuf_tail \in TxBufCounters /\ TxBufHeld <= TxBufSize
  BY DEF TxBufIInv, TxBufTypeOK, TxBufCounters
<1>2. TxBufHeld = IF txbuf_tail >= txbuf_head THEN txbuf_tail - txbuf_head ELSE txbuf_tail - txbuf_head + TxBufRange
  BY <1>1, TxBufLengthIs DEF TxBufHeld
<1>3. TxBufHeld \in TxBufCounters
  BY <1>1, <1>2, TxBufSizes DEF TxBufCounters
<1>. DEFINE h == txbuf_head  n == TxBufHeld  t == txbuf_tail
<1>4. TxBufAdvance(h, n) = IF h + n < TxBufRange THEN h + n ELSE h + n - TxBufRange
  BY <1>1, <1>3, TxBufAdvanceIs
<1>5. TxBufAdvance(h, n) = t
  BY <1>1, <1>2, <1>4, TxBufSizes DEF TxBufCounters
<1>. QED
  BY <1>1, <1>3, <1>5 DEF TxBufCounters

\* Where the j-th byte after a counter is
LEMMA TxBufPlaceIs ==
  ASSUME NEW t \in TxBufCounters, NEW j \in 0 .. TxBufSize - 1
  PROVE  /\ TxBufIndex(t) \in 0 .. TxBufSize - 1
         /\ (t + j) % TxBufSize = IF TxBufIndex(t) + j < TxBufSize THEN TxBufIndex(t) + j
                                  ELSE TxBufIndex(t) + j - TxBufSize
<1>1. PICK q \in Int, r \in 0 .. TxBufSize - 1 : t = q * TxBufSize + r /\ t % TxBufSize = r
  BY TxBufSizes, ModIs DEF TxBufCounters
<1>. DEFINE x == t + j
            p == q * TxBufSize
<1>2. p \in Int /\ (q + 1) * TxBufSize = p + TxBufSize /\ q + 1 \in Int
  BY TxBufSizes
<1>3. x \in Int /\ x = p + (r + j)
  BY <1>1, <1>2 DEF TxBufCounters
<1>4. TxBufIndex(t) = r
  BY <1>1 DEF TxBufIndex
<1>5. CASE r + j < TxBufSize
  <2>1. r + j \in 0 .. TxBufSize - 1 /\ x = q * TxBufSize + (r + j)
    BY <1>3, <1>5, TxBufSizes
  <2>. HIDE DEF x
  <2>2. x % TxBufSize = r + j
    <3>. DEFINE s == r + j
    <3>1. s \in 0 .. TxBufSize - 1 /\ x = q * TxBufSize + s
      BY <2>1
    <3>. HIDE DEF s
    <3>2. x % TxBufSize = s
      BY <1>3, <3>1, TxBufSizes, ModOnly
    <3>. QED
      BY <3>2 DEF s
  <2>. QED
    BY <1>4, <1>5, <2>2 DEF x
<1>6. CASE ~(r + j < TxBufSize)
  <2>. DEFINE s == r + j - TxBufSize
              m == q + 1
  <2>1. s \in 0 .. TxBufSize - 1 /\ x = m * TxBufSize + s /\ m \in Int
    <3>1. s \in 0 .. TxBufSize - 1
      BY <1>6, TxBufSizes
    <3>2. x = p + TxBufSize + s
      BY <1>2, <1>3, TxBufSizes
    <3>. QED
      BY <1>2, <3>1, <3>2
  <2>. HIDE DEF s, m, x
  <2>2. x % TxBufSize = s
    BY <1>3, <2>1, TxBufSizes, ModOnly
  <2>. QED
    BY <1>4, <1>6, <2>2 DEF x, s
<1>. QED
  BY <1>4, <1>5, <1>6

\* The bytes counted from the head are those counted from a later counter.
LEMMA TxBufFurther ==
  ASSUME TxBufDivides, NEW h \in TxBufCounters, NEW n \in Nat, NEW j \in Nat
  PROVE  (TxBufAdvance(h, n) + j) % TxBufSize = (h + n + j) % TxBufSize
<1>. DEFINE x == h + n
<1>1. x \in Int /\ j \in Int
  BY DEF TxBufCounters
<1>. HIDE DEF x
<1>2. ((x % TxBufRange) + j) % TxBufSize = (x + j) % TxBufSize
  BY <1>1, TxBufLaps, Zenon
<1>. QED
  BY <1>2 DEF x, TxBufAdvance

\* Only places are overwritten whose bytes are not between head and tail.
LEMMA TxBufPlaced ==
  ASSUME TxBufDivides, TxBufIInv, NEW data \in TxBufPackets, TxBufPush(data),
         NEW k \in 1 .. TxBufHeld + Len(data)
  PROVE  txbuf'[(txbuf_head + k - 1) % TxBufSize] =
           IF k <= TxBufHeld THEN txbuf[(txbuf_head + k - 1) % TxBufSize] ELSE data[k - TxBufHeld]
<1>. DEFINE h == txbuf_head  t == txbuf_tail  held == TxBufHeld  n == Len(data)
            index == TxBufIndex(t)
            first == TxBufMin(TxBufSize - index, n)
            Place(j) == (t + j) % TxBufSize
<1>1. /\ h \in TxBufCounters /\ t \in TxBufCounters /\ held \in Nat /\ held <= TxBufSize
      /\ TxBufAdvance(h, held) = t
  BY TxBufTyped
<1>2. n \in Nat \ {0} /\ n <= TxBufSize
  BY TxBufSizes DEF TxBufPackets
<1>3. held + n <= TxBufSize
  <2>1. TxBufSize - held >= n
    BY DEF TxBufPush, TxBufHeld
  <2>. QED
    BY <1>1, <1>2, <2>1, TxBufSizes
<1>4. index \in 0 .. TxBufSize - 1
  BY <1>1, TxBufPlaceIs, TxBufSizes
<1>5. first = IF TxBufSize - index <= n THEN TxBufSize - index ELSE n
  BY DEF TxBufMin
<1>6. \A j \in 0 .. n - 1 : Place(j) = IF index + j < TxBufSize THEN index + j ELSE index + j - TxBufSize
  <2>. SUFFICES ASSUME NEW j \in 0 .. n - 1
                PROVE  Place(j) = IF index + j < TxBufSize THEN index + j ELSE index + j - TxBufSize
    OBVIOUS
  <2>1. j \in 0 .. TxBufSize - 1
    BY <1>2, TxBufSizes
  <2>. QED
    BY <1>1, <2>1, TxBufPlaceIs
<1>7. \A i \in 0 .. TxBufSize - 1 :
        txbuf'[i] = IF i \in index .. index + first - 1 THEN data[i - index + 1]
                    ELSE IF i < n - first THEN data[first + i + 1] ELSE txbuf[i]
  BY DEF TxBufPush
<1>8. \A j \in Nat : Place(j) = (h + held + j) % TxBufSize
  BY <1>1, TxBufFurther
<1>. HIDE DEF Place, h, t, held, n, index, first
<1>9. ASSUME NEW j \in 0 .. n - 1 PROVE txbuf'[Place(j)] = data[j + 1]
  <2>1. CASE index + j < TxBufSize
    <3>1. Place(j) = index + j /\ Place(j) \in 0 .. TxBufSize - 1
      BY <1>2, <1>4, <1>6, <2>1, TxBufSizes
    <3>2. index + j \in index .. index + first - 1
      BY <1>2, <1>4, <1>5, <2>1, TxBufSizes
    <3>3. (index + j) - index + 1 = j + 1
      BY <1>4
    <3>. QED
      BY <1>7, <3>1, <3>2, <3>3
  <2>2. CASE ~(index + j < TxBufSize)
    <3>. DEFINE i == index + j - TxBufSize
    <3>1. Place(j) = i /\ i \in 0 .. TxBufSize - 1
      BY <1>2, <1>4, <1>6, <2>2, TxBufSizes
    <3>2. first = TxBufSize - index /\ i < index /\ i < n - first /\ first + i + 1 = j + 1
      BY <1>2, <1>4, <1>5, <2>2, TxBufSizes
    <3>. HIDE DEF i
    <3>3. ~(i \in index .. index + first - 1)
      BY <1>4, <3>1, <3>2
    <3>. QED
      BY <1>7, <3>1, <3>2, <3>3
  <2>. QED
    BY <2>1, <2>2
<1>10. ASSUME NEW i \in 0 .. TxBufSize - 1, \A j \in 0 .. n - 1 : Place(j) # i PROVE txbuf'[i] = txbuf[i]
  <2>1. ~(i \in index .. index + first - 1)
    <3>. SUFFICES ASSUME i \in index .. index + first - 1 PROVE FALSE
      OBVIOUS
    <3>. DEFINE j == i - index
    <3>1. j \in 0 .. n - 1 /\ index + j < TxBufSize /\ index + j = i
      BY <1>2, <1>4, <1>5, TxBufSizes
    <3>. HIDE DEF j
    <3>2. Place(j) = i
      BY <1>6, <3>1
    <3>. QED
      BY <1>10, <3>1, <3>2
  <2>2. ~(i < n - first)
    <3>. SUFFICES ASSUME i < n - first PROVE FALSE
      OBVIOUS
    <3>. DEFINE j == first + i
    <3>1. j \in 0 .. n - 1 /\ ~(index + j < TxBufSize) /\ index + j - TxBufSize = i
      BY <1>2, <1>4, <1>5, TxBufSizes
    <3>. HIDE DEF j
    <3>2. Place(j) = i
      BY <1>6, <3>1
    <3>. QED
      BY <1>10, <3>1, <3>2
  <2>. QED
    BY <1>7, <2>1, <2>2
<1>. DEFINE p == (h + k - 1) % TxBufSize
<1>11. k \in 1 .. held + n /\ h \in Nat
  BY <1>1 DEF held, n, TxBufCounters
<1>12. CASE k <= held
  <2>. DEFINE a == h + k - 1
  <2>1. a \in Int /\ p = a % TxBufSize /\ p \in 0 .. TxBufSize - 1
    <3>1. a \in Int
      BY <1>11
    <3>. HIDE DEF a
    <3>2. a % TxBufSize \in 0 .. TxBufSize - 1
      BY <3>1, ModIs, TxBufSizes
    <3>. QED
      BY <3>1, <3>2 DEF a
  <2>2. ASSUME NEW j \in 0 .. n - 1 PROVE Place(j) # p
    <3>. DEFINE c == h + held + j
    <3>1. c \in Int /\ a <= c /\ c < a + TxBufSize /\ a # c
      BY <1>1, <1>2, <1>3, <1>11, <1>12, TxBufSizes
    <3>2. Place(j) = c % TxBufSize
      BY <1>2, <1>8
    <3>. HIDE DEF a, c, p
    <3>3. a % TxBufSize # c % TxBufSize
      BY <2>1, <3>1, TxBufSizes, ModDistinct
    <3>. QED
      BY <2>1, <3>2, <3>3
  <2>. HIDE DEF a, p
  <2>3. txbuf'[p] = txbuf[p]
    BY <1>10, <2>1, <2>2
  <2>. QED
    BY <1>12, <2>3 DEF p, h, held
<1>13. CASE k > held
  <2>. DEFINE j == k - held - 1
  <2>1. j \in 0 .. n - 1 /\ j \in Nat /\ h + held + j = h + k - 1 /\ j + 1 = k - held
    BY <1>1, <1>2, <1>11, <1>13
  <2>. HIDE DEF j
  <2>2. Place(j) = p
    BY <1>8, <2>1
  <2>3. txbuf'[p] = data[k - held]
    BY <1>9, <2>1, <2>2
  <2>. QED
    BY <1>1, <1>11, <1>13, <2>3 DEF p, h, held
<1>. QED
  BY <1>1, <1>11, <1>12, <1>13

LEMMA TxBufContentsTyped ==
  ASSUME TxBufIInv
  PROVE  TxBufContents \in Seq(TxBufBytes) /\ Len(TxBufContents) = TxBufHeld
<1>1. TxBufHeld \in Nat /\ txbuf_head \in TxBufCounters
  BY TxBufTyped
<1>2. \A k \in 1 .. TxBufHeld : txbuf[(txbuf_head + k - 1) % TxBufSize] \in TxBufBytes
  <2>. SUFFICES ASSUME NEW k \in 1 .. TxBufHeld PROVE txbuf[(txbuf_head + k - 1) % TxBufSize] \in TxBufBytes
    OBVIOUS
  <2>. DEFINE a == txbuf_head + k - 1
  <2>1. a \in Int
    BY <1>1 DEF TxBufCounters
  <2>. HIDE DEF a
  <2>2. a % TxBufSize \in 0 .. TxBufSize - 1
    BY <2>1, ModIs, TxBufSizes
  <2>3. txbuf[a % TxBufSize] \in TxBufBytes
    BY <2>2 DEF TxBufIInv, TxBufTypeOK
  <2>. QED
    BY <2>3 DEF a
<1>3. TxBufContents = [k \in 1 .. TxBufHeld |-> txbuf[(txbuf_head + k - 1) % TxBufSize]]
  BY DEF TxBufContents, TxBufFrom
<1>. HIDE DEF TxBufHeld, TxBufContents
<1>4. TxBufContents \in [1 .. TxBufHeld -> TxBufBytes]
  BY <1>2, <1>3
<1>. QED
  BY <1>1, <1>4

LEMMA TxBufPushes ==
  ASSUME TxBufDivides, TxBufIInv, NEW data \in TxBufPackets, TxBufPush(data)
  PROVE  /\ TxBufIInv'
         /\ Len(data) \in Nat \ {0} /\ TxBufHeld' = TxBufHeld + Len(data)
         /\ \A k \in 1 .. TxBufHeld' :
              TxBufContents'[k] = IF k <= TxBufHeld THEN TxBufContents[k] ELSE data[k - TxBufHeld]
<1>. DEFINE n == Len(data)
<1>1. /\ txbuf_head \in TxBufCounters /\ txbuf_tail \in TxBufCounters
      /\ TxBufHeld \in Nat /\ TxBufHeld <= TxBufSize
  BY TxBufTyped
<1>2. n \in Nat \ {0} /\ n <= TxBufSize /\ \A i \in 1 .. n : data[i] \in TxBufBytes
  BY TxBufSizes DEF TxBufPackets
<1>3. TxBufHeld + n <= TxBufSize
  <2>1. TxBufSize - TxBufHeld >= n
    BY DEF TxBufPush, TxBufHeld
  <2>. QED
    BY <1>1, <1>2, <2>1, TxBufSizes
<1>4. txbuf_head' = txbuf_head /\ txbuf_out' = txbuf_out /\ txbuf_tail' = TxBufAdvance(txbuf_tail, n)
  BY DEF TxBufPush
<1>5. txbuf_tail' \in TxBufCounters /\ TxBufHeld' = TxBufHeld + n
  <2>1. TxBufLength(txbuf_head, txbuf_tail) + n < TxBufRange
    BY <1>1, <1>2, <1>3, TxBufSizes DEF TxBufHeld
  <2>2. /\ TxBufAdvance(txbuf_tail, n) \in TxBufCounters
        /\ TxBufLength(txbuf_head, TxBufAdvance(txbuf_tail, n)) = TxBufHeld + n
    BY <1>1, <1>2, <2>1, TxBufLonger DEF TxBufHeld
  <2>3. TxBufHeld' = TxBufLength(txbuf_head, TxBufAdvance(txbuf_tail, n))
    BY <1>4 DEF TxBufHeld
  <2>. QED
    BY <1>4, <2>2, <2>3
<1>6. txbuf' \in [0 .. TxBufSize - 1 -> TxBufBytes]
  <2>. DEFINE index == TxBufIndex(txbuf_tail)
              first == TxBufMin(TxBufSize - index, n)
  <2>1. txbuf' = [i \in 0 .. TxBufSize - 1 |->
                    IF i \in index .. index + first - 1 THEN data[i - index + 1]
                    ELSE IF i < n - first THEN data[first + i + 1] ELSE txbuf[i]]
    BY DEF TxBufPush
  <2>2. index \in 0 .. TxBufSize - 1
    BY <1>1, TxBufSizes, TxBufPlaceIs
  <2>3. first \in Nat /\ first <= n
    <3>1. first = IF TxBufSize - index <= n THEN TxBufSize - index ELSE n
      BY DEF TxBufMin
    <3>. HIDE DEF index, first, n
    <3>. QED
      BY <1>2, <2>2, <3>1, TxBufSizes
  <2>4. \A i \in 0 .. TxBufSize - 1 : txbuf[i] \in TxBufBytes
    BY DEF TxBufIInv, TxBufTypeOK
  <2>. HIDE DEF index, first, n
  <2>. QED
    BY <1>2, <2>1, <2>2, <2>3, <2>4
<1>7. TxBufIInv'
  BY <1>1, <1>3, <1>4, <1>5, <1>6 DEF TxBufIInv, TxBufTypeOK, TxBufCounters
<1>8. ASSUME NEW k \in 1 .. TxBufHeld'
      PROVE  TxBufContents'[k] = IF k <= TxBufHeld THEN TxBufContents[k] ELSE data[k - TxBufHeld]
  <2>1. TxBufContents' = [j \in 1 .. TxBufHeld' |-> txbuf'[(txbuf_head + j - 1) % TxBufSize]]
    BY <1>4 DEF TxBufContents, TxBufFrom
  <2>2. TxBufContents = [j \in 1 .. TxBufHeld |-> txbuf[(txbuf_head + j - 1) % TxBufSize]]
    BY DEF TxBufContents, TxBufFrom
  <2>3. k \in 1 .. TxBufHeld + Len(data)
    BY <1>5
  <2>4. txbuf'[(txbuf_head + k - 1) % TxBufSize] =
           IF k <= TxBufHeld THEN txbuf[(txbuf_head + k - 1) % TxBufSize] ELSE data[k - TxBufHeld]
    BY <2>3, TxBufPlaced
  <2>5. TxBufContents'[k] = txbuf'[(txbuf_head + k - 1) % TxBufSize]
    <3>. HIDE DEF TxBufHeld, TxBufContents
    <3>. QED
      BY <2>1
  <2>6. k <= TxBufHeld => TxBufContents[k] = txbuf[(txbuf_head + k - 1) % TxBufSize]
    <3>1. k <= TxBufHeld => k \in 1 .. TxBufHeld
      BY <1>1, <2>3
    <3>. HIDE DEF TxBufHeld, TxBufContents
    <3>. QED
      BY <2>2, <3>1
  <2>. HIDE DEF TxBufHeld, TxBufContents
  <2>. QED
    BY <2>4, <2>5, <2>6
<1>. QED
  BY <1>2, <1>5, <1>7, <1>8

LEMMA TxBufFlushes ==
  ASSUME TxBufDivides, TxBufIInv, TxBufOrder = TxBufContents, NEW n \in 1 .. TxBufSize, TxBufFlushTo(n)
  PROVE  /\ TxBufIInv'
         /\ n \in 1 .. TxBufHeld
         /\ txbuf_out' = SubSeq(TxBufContents, 1, n)
         /\ TxBufContents' = SubSeq(TxBufContents, n + 1, TxBufHeld)
<1>1. /\ txbuf_head \in TxBufCounters /\ txbuf_tail \in TxBufCounters
      /\ TxBufHeld \in Nat /\ TxBufHeld <= TxBufSize
  BY TxBufTyped
<1>2. TxBufContents \in Seq(TxBufBytes) /\ Len(TxBufContents) = TxBufHeld
  BY TxBufContentsTyped
<1>3. /\ n \in 1 .. TxBufHeld /\ txbuf_out' = SubSeq(TxBufContents, 1, n)
      /\ txbuf_head' = TxBufAdvance(txbuf_head, n) /\ txbuf' = txbuf /\ txbuf_tail' = txbuf_tail
  BY DEF TxBufFlushTo, TxBufHeld
<1>4. txbuf_head' \in TxBufCounters /\ TxBufHeld' = TxBufHeld - n
  <2>1. n \in Nat /\ n <= TxBufLength(txbuf_head, txbuf_tail)
    BY <1>1, <1>3 DEF TxBufHeld
  <2>2. /\ TxBufAdvance(txbuf_head, n) \in TxBufCounters
        /\ TxBufLength(TxBufAdvance(txbuf_head, n), txbuf_tail) = TxBufHeld - n
    BY <1>1, <2>1, TxBufShorter DEF TxBufHeld
  <2>3. TxBufHeld' = TxBufLength(TxBufAdvance(txbuf_head, n), txbuf_tail)
    BY <1>3 DEF TxBufHeld
  <2>. QED
    BY <1>3, <2>2, <2>3
<1>5. txbuf_out' \in Seq(TxBufBytes)
  <2>. HIDE DEF TxBufContents, TxBufHeld
  <2>1. \A k \in 1 .. n : TxBufContents[k] \in TxBufBytes
    BY <1>1, <1>2, <1>3
  <2>2. SubSeq(TxBufContents, 1, n) = [k \in 1 .. n |-> TxBufContents[k]]
    BY <1>1, <1>2, <1>3
  <2>. QED
    BY <1>3, <2>1, <2>2
<1>6. TxBufIInv'
  <2>1. TxBufHeld' <= TxBufSize
    BY <1>1, <1>3, <1>4, TxBufSizes
  <2>2. TxBufTypeOK'
    BY <1>1, <1>3, <1>4, <1>5 DEF TxBufIInv, TxBufTypeOK, TxBufCounters
  <2>. QED
    BY <2>1, <2>2 DEF TxBufIInv
<1>7. TxBufContents' = [k \in 1 .. TxBufHeld - n |-> TxBufContents[n + k]]
  <2>1. TxBufContents' = [k \in 1 .. TxBufHeld - n |-> txbuf[(TxBufAdvance(txbuf_head, n) + k - 1) % TxBufSize]]
    BY <1>3, <1>4 DEF TxBufContents, TxBufFrom
  <2>2. TxBufContents = [k \in 1 .. TxBufHeld |-> txbuf[(txbuf_head + k - 1) % TxBufSize]]
    BY DEF TxBufContents, TxBufFrom
  <2>3. ASSUME NEW k \in 1 .. TxBufHeld - n
        PROVE  txbuf[(TxBufAdvance(txbuf_head, n) + k - 1) % TxBufSize] = TxBufContents[n + k]
    <3>. DEFINE j == k - 1
                c == TxBufAdvance(txbuf_head, n)
    <3>1. j \in Nat /\ n \in Nat /\ n + k \in 1 .. TxBufHeld
      BY <1>1, <1>3
    <3>2. c \in Nat
      BY <1>3, <1>4 DEF TxBufCounters
    <3>3. c + k - 1 = c + j
      <4>. HIDE DEF c
      <4>. QED
        BY <3>2
    <3>4. txbuf_head + n + j = txbuf_head + (n + k) - 1
      BY <1>1, <3>1 DEF TxBufCounters
    <3>5. (c + j) % TxBufSize = (txbuf_head + n + j) % TxBufSize
      <4>. HIDE DEF j
      <4>. QED
        BY <1>1, <3>1, TxBufFurther
    <3>6. TxBufContents[n + k] = txbuf[(txbuf_head + (n + k) - 1) % TxBufSize]
      <4>. HIDE DEF TxBufContents, TxBufHeld
      <4>. QED
        BY <2>2, <3>1
    <3>. HIDE DEF j, c, TxBufContents
    <3>7. txbuf[(c + k - 1) % TxBufSize] = TxBufContents[n + k]
      BY <3>3, <3>4, <3>5, <3>6
    <3>. QED
      BY <3>7 DEF c
  <2>. HIDE DEF TxBufContents, TxBufHeld
  <2>. QED
    BY <2>1, <2>3
<1>8. SubSeq(TxBufContents, n + 1, TxBufHeld) = [k \in 1 .. TxBufHeld - n |-> TxBufContents[n + k]]
  <2>. DEFINE s == TxBufContents  held == TxBufHeld
  <2>1. s \in Seq(TxBufBytes) /\ Len(s) = held /\ held \in Nat /\ n \in 1 .. held
    BY <1>1, <1>2, <1>3
  <2>. HIDE DEF s, held
  <2>2. SubSeq(s, n + 1, held) = [k \in 1 .. held - n |-> s[n + k]]
    BY <2>1
  <2>. QED
    BY <2>2 DEF s, held
<1>. QED
  BY <1>3, <1>6, <1>7, <1>8

\* What every behaviour of the buffer keeps
THEOREM TxBufHolds ==
  ASSUME TxBufDivides
  PROVE  TxBufSpec => []TxBufIInv
<1>1. TxBufInit => TxBufIInv
  <2>. SUFFICES ASSUME TxBufInit PROVE TxBufIInv
    OBVIOUS
  <2>1. TxBufTypeOK
    BY TxBufSizes DEF TxBufInit, TxBufTypeOK
  <2>2. TxBufHeld = 0
    <3>1. 0 \in TxBufCounters /\ txbuf_head = 0 /\ txbuf_tail = 0
      BY TxBufSizes DEF TxBufInit, TxBufCounters
    <3>. QED
      BY <3>1, TxBufLengthIs DEF TxBufHeld
  <2>. QED
    BY <2>1, <2>2, TxBufSizes DEF TxBufIInv
<1>2. TxBufIInv => TxBufOrder = TxBufContents
  BY TxBufTyped, TxBufOrderIs DEF TxBufHeld, TxBufContents
<1>3. TxBufIInv /\ [TxBufNext]_TxBufVars => TxBufIInv'
  <2>. SUFFICES ASSUME TxBufIInv, [TxBufNext]_TxBufVars PROVE TxBufIInv'
    OBVIOUS
  <2>1. ASSUME NEW data \in TxBufPackets, TxBufPush(data) PROVE TxBufIInv'
    BY <2>1, TxBufPushes
  <2>2. ASSUME NEW n \in 1 .. TxBufSize, TxBufFlushTo(n) PROVE TxBufIInv'
    BY <1>2, <2>2, TxBufFlushes
  <2>3. ASSUME UNCHANGED TxBufVars PROVE TxBufIInv'
    BY <2>3 DEF TxBufVars, TxBufIInv, TxBufTypeOK, TxBufHeld
  <2>. QED
    BY <2>1, <2>2, <2>3 DEF TxBufNext, TxBufPushFull
<1>. QED
  BY <1>1, <1>3, PTL DEF TxBufSpec

\* The ring of LocalTxBuf is the bounded first-in first-out queue a connection
\* relies on, through every wrap of its counters, if its size divides 2^32.
THEOREM TxBufIsQueue ==
  ASSUME TxBufDivides
  PROVE  TxBufSpec => TxBufImplementsQueue
<1>. DEFINE Ordered == TxBufIInv => TxBufOrder = TxBufContents
<1>1. Ordered
  BY TxBufTyped, TxBufOrderIs DEF TxBufHeld, TxBufContents
<1>2. TxBufInit /\ TxBufIInv /\ Ordered => TxBufQueue!Init
  <2>. SUFFICES ASSUME TxBufInit, TxBufIInv, TxBufOrder = TxBufContents PROVE TxBufQueue!Init
    OBVIOUS
  <2>1. TxBufHeld = 0
    <3>1. 0 \in TxBufCounters /\ txbuf_head = 0 /\ txbuf_tail = 0
      BY TxBufSizes DEF TxBufInit, TxBufCounters
    <3>. QED
      BY <3>1, TxBufLengthIs DEF TxBufHeld
  <2>2. TxBufContents = <<>>
    BY TxBufContentsTyped, <2>1
  <2>. QED
    BY <2>2 DEF TxBufInit, TxBufQueue!Init
<1>3. /\ TxBufIInv /\ Ordered /\ TxBufIInv' /\ Ordered'
      /\ [TxBufNext]_TxBufVars
      => [TxBufQueue!Next]_TxBufQueue!vars
  <2>. SUFFICES ASSUME TxBufIInv, TxBufIInv', TxBufOrder = TxBufContents, TxBufOrder' = TxBufContents',
                       [TxBufNext]_TxBufVars
                PROVE  [TxBufQueue!Next]_TxBufQueue!vars
    OBVIOUS
  <2>1. TxBufContents \in Seq(TxBufBytes) /\ Len(TxBufContents) = TxBufHeld /\ TxBufHeld \in Nat
    BY TxBufContentsTyped, TxBufTyped
  <2>2. ASSUME NEW data \in TxBufPackets, TxBufPush(data) PROVE TxBufQueue!Accept
    <3>. DEFINE n == Len(data)  s == TxBufContents  r == TxBufContents'
                held == TxBufHeld
    <3>1. /\ n \in Nat \ {0} /\ TxBufHeld' = held + n
          /\ \A k \in 1 .. TxBufHeld' : r[k] = IF k <= held THEN s[k] ELSE data[k - held]
      BY <2>2, TxBufPushes
    <3>2. DOMAIN r = 1 .. held + n /\ Len(r) = held + n /\ held + n <= TxBufSize
      <4>1. r = [k \in 1 .. TxBufHeld' |-> r[k]]
        BY DEF TxBufContents, TxBufFrom
      <4>2. TxBufHeld' <= TxBufSize
        BY DEF TxBufIInv
      <4>. HIDE DEF n, s, r, held
      <4>. QED
        BY <2>1, <3>1, <4>1, <4>2 DEF held
    <3>3. \A i \in 1 .. n : data[i] \in TxBufBytes
      BY DEF TxBufPackets
    <3>4. s \in Seq(TxBufBytes) /\ Len(s) = held /\ held \in Nat
      BY <2>1
    <3>5. UNCHANGED txbuf_out
      BY <2>2 DEF TxBufPush
    <3>6. r = [k \in 1 .. held + n |-> r[k]]
      BY <3>1 DEF TxBufContents, TxBufFrom
    <3>. HIDE DEF n, s, r, held
    <3>7. SubSeq(r, 1, held) = s
      <4>1. \A k \in 1 .. held : r[k] = s[k]
        BY <3>1, <3>4
      <4>2. r \in Seq({r[k] : k \in 1 .. held + n})
        <5>. DEFINE S == {r[k] : k \in 1 .. held + n}
        <5>1. \A k \in 1 .. held + n : r[k] \in S
          OBVIOUS
        <5>. HIDE DEF S
        <5>2. r \in [1 .. held + n -> S]
          BY <3>6, <5>1
        <5>3. held + n \in Nat
          BY <3>1, <3>4
        <5>. QED
          BY <5>2, <5>3 DEF S
      <4>3. SubSeq(r, 1, held) = [k \in 1 .. held |-> r[k]]
        BY <3>1, <3>2, <3>4, <4>2
      <4>4. s = [k \in 1 .. held |-> s[k]]
        BY <3>4
      <4>. QED
        BY <4>1, <4>3, <4>4
    <3>8. \A k \in held + 1 .. held + n : r[k] \in TxBufBytes
      <4>. SUFFICES ASSUME NEW k \in held + 1 .. held + n PROVE r[k] \in TxBufBytes
        OBVIOUS
      <4>1. k \in 1 .. held + n /\ ~(k <= held) /\ k - held \in 1 .. n
        BY <3>1, <3>4
      <4>2. r[k] = data[k - held]
        BY <3>1, <4>1
      <4>. QED
        BY <3>3, <4>1, <4>2
    <3>9. Len(r) \in Len(s) + 1 .. TxBufSize
      BY <3>1, <3>2, <3>4, TxBufSizes
    <3>10. TxBufOrder = s /\ TxBufOrder' = r
      BY DEF s, r
    <3>11. Len(s) + 1 .. Len(r) = held + 1 .. held + n
      BY <3>2, <3>4
    <3>. QED
      BY <3>4, <3>5, <3>7, <3>8, <3>9, <3>10, <3>11 DEF TxBufQueue!Accept
  <2>3. ASSUME NEW n \in 1 .. TxBufSize, TxBufFlushTo(n) PROVE \E m \in 1 .. Len(TxBufOrder) : TxBufQueue!Deliver(m)
    <3>1. /\ n \in 1 .. TxBufHeld
          /\ txbuf_out' = SubSeq(TxBufContents, 1, n)
          /\ TxBufContents' = SubSeq(TxBufContents, n + 1, TxBufHeld)
      BY <2>3, TxBufFlushes
    <3>2. TxBufQueue!Deliver(n)
      BY <2>1, <3>1 DEF TxBufQueue!Deliver
    <3>. QED
      BY <2>1, <3>1, <3>2
  <2>4. ASSUME UNCHANGED TxBufVars PROVE UNCHANGED TxBufQueue!vars
    <3>1. TxBufContents' = TxBufContents
      BY <2>4 DEF TxBufVars, TxBufContents, TxBufFrom, TxBufHeld
    <3>. QED
      BY <2>4, <3>1 DEF TxBufVars, TxBufQueue!vars
  <2>. QED
    BY <2>2, <2>3, <2>4 DEF TxBufNext, TxBufPushFull, TxBufQueue!Next
<1>4. TxBufIInv => TxBufTypeOK
  BY DEF TxBufIInv
<1>5. TxBufSpec => []TxBufIInv
  BY TxBufHolds
<1>. HIDE DEF Ordered
<1>. QED
  BY <1>1, <1>2, <1>3, <1>4, <1>5, PTL DEF TxBufSpec, TxBufImplementsQueue, TxBufQueue!Spec
=============================================================================
