------------------------------ MODULE StreamProofs -------------------------------
(***************************************************************************)
(* The devices that pass on what comes from a thread of the host as it     *)
(* comes: the CAN controller, the sound card and the video decoder.        *)
(***************************************************************************)
EXTENDS Can, Sound, Video, SequenceTheorems, TLAPS

(***************************************************************************)
(* The CAN controller, for any frames of the bus and of the guest, and any *)
(* number of buffers, frames and requests.  CanInv is not inductive.  What *)
(* has to be known besides: where the frames stand to each other that the  *)
(* guest has, that wait, and that the reader holds (CanRanked); that the   *)
(* reader holds a frame only where it pushes one, and that a stop forgets  *)
(* the late ones (CanLateCounted); that kicks and events are also kept     *)
(* while the device is stopped (CanWoken); and that nothing is left of a   *)
(* run when its reader has been joined (CanFresh).                         *)
(***************************************************************************)
Numbered == [n : 1 .. CanBusLimit, frame : CanBusFrames]

CanShapes ==
  /\ CanTypeOK
  /\ can_got \in Seq(Numbered) /\ can_fifo \in Seq(Numbered)
  /\ can_reader \in [at : {"none", "reading", "failed", "push", "event"}, frame : Seq(Numbered)]
  /\ can_rx \in [avail : Nat, kick : BOOLEAN]
  /\ can_rx.avail + can_lost <= CanBuffers
  /\ IF can_reader.at = "push" THEN Len(can_reader.frame) = 1 ELSE can_reader.frame = <<>>

Rising(s)   == \A i, j \in DOMAIN s : i < j => s[i].n < s[j].n
Below(s, t) == \A i \in DOMAIN s, j \in DOMAIN t : s[i].n < t[j].n
UpTo(s, n)  == \A i \in DOMAIN s : s[i].n <= n

CanRanked ==
  /\ Rising(can_got) /\ Rising(can_fifo)
  /\ Below(can_got, can_fifo) /\ Below(can_got, can_reader.frame) /\ Below(can_fifo, can_reader.frame)
  /\ UpTo(can_got, can_bus) /\ UpTo(can_fifo, can_bus) /\ UpTo(can_reader.frame, can_bus)

CanLateCounted ==
  can_late <= (IF ~can_started /\ can_reader.at = "push" THEN 0 ELSE 1)

CanWoken ==
  (can_run.up /\ can_worker = "idle" /\ can_fifo # <<>> /\ can_rx.avail > 0) =>
    can_event \/ can_rx.kick \/ can_reader.at = "event" \/ can_missed

CanFresh ==
  /\ can_reader.at = "none" =>
       ~can_run.up /\ can_worker = "idle" /\ ~can_started /\ can_fifo = <<>> /\ can_late = 0
  /\ can_worker \in {"process", "enable"} => can_run.up /\ can_started

CanIInv ==
  CanShapes /\ CanRanked /\ CanLateCounted /\ CanWoken /\ CanFresh /\ CanBusOffStops /\ CanAckedSent

-----------------------------------------------------------------------------
\* The frames of a guest that pass on one device pass on the other: neither
\* side takes what the other cannot be given.
LEMMA SameFrames == CanRoundTrip
<1> SUFFICES ASSUME NEW features \in {{"CLASSIC"}, {"FD"}, {"CLASSIC", "FD"}}, NEW f \in CanFrames,
                    CanCheckTx(features, f)
             PROVE  CanCheckRx(features, CanOut(f)) /\ CanIn(CanOut(f)) = f
  BY DEF CanRoundTrip
<1>1. /\ f = [type |-> "TX", flags |-> f.flags, id |-> f.id, len |-> f.len]
      /\ f.flags \subseteq {"EXTENDED", "FD"}
  BY DEF CanFrames, CanCheckTx
<1>2. CanCheckRx(features, CanOut(f))
  BY <1>1 DEF CanCheckTx, CanCheckRx, CanOut
<1>3. {g \in {"EXTENDED", "RTR", "FD"} :
         CASE g = "EXTENDED" -> "EXTENDED" \in f.flags [] g = "RTR" -> {"EXTENDED", "RTR"} \subseteq f.flags
           [] g = "FD" -> "FD" \in f.flags} = f.flags
  BY <1>1
<1>4. CanIn(CanOut(f)) = f
  BY <1>1, <1>3 DEF CanIn, CanOut
<1> QED
  BY <1>2, <1>4

-----------------------------------------------------------------------------
\* The guest gets the first g of the frames that wait, of which n go.
LEMMA TakenStayRanked ==
  ASSUME NEW a \in Nat, NEW b \in Nat, NEW n \in 0 .. b, NEW g \in 0 .. n,
         DOMAIN can_got = 1 .. a, DOMAIN can_fifo = 1 .. b,
         DOMAIN can_got' = 1 .. a + g, DOMAIN can_fifo' = 1 .. b - n,
         \A i \in 1 .. a : can_got'[i] = can_got[i],
         \A i \in a + 1 .. a + g : can_got'[i] = can_fifo[i - a],
         \A i \in 1 .. b - n : can_fifo'[i] = can_fifo[n + i],
         can_reader' = can_reader, can_bus' = can_bus, CanRanked
  PROVE  CanRanked'
<1> USE DEF CanRanked
<1>1. ASSUME NEW i \in 1 .. a + g
      PROVE  \/ i \in 1 .. a /\ can_got'[i] = can_got[i]
             \/ i > a /\ i - a \in 1 .. g /\ i - a \in 1 .. b /\ can_got'[i] = can_fifo[i - a]
  OBVIOUS
<1>2. ASSUME NEW i \in 1 .. b - n
      PROVE  n + i \in 1 .. b /\ n + i > g /\ can_fifo'[i] = can_fifo[n + i]
  OBVIOUS
<1>3. Rising(can_got')
  <2> SUFFICES ASSUME NEW i \in 1 .. a + g, NEW j \in 1 .. a + g, i < j
               PROVE  can_got'[i].n < can_got'[j].n
    BY DEF Rising
  <2>1. CASE i \in 1 .. a /\ j \in 1 .. a
    BY <1>1, <2>1 DEF Rising
  <2>2. CASE i \in 1 .. a /\ j > a
    <3>1. can_got'[i] = can_got[i] /\ j - a \in 1 .. b /\ can_got'[j] = can_fifo[j - a]
      BY <1>1, <2>2
    <3> QED
      BY <2>2, <3>1 DEF Below
  <2>3. CASE i > a /\ j > a
    <3>1. /\ i - a \in 1 .. b /\ j - a \in 1 .. b /\ i - a < j - a
          /\ can_got'[i] = can_fifo[i - a] /\ can_got'[j] = can_fifo[j - a]
      BY <1>1, <2>3
    <3> QED
      BY <3>1 DEF Rising
  <2>4. \/ i \in 1 .. a /\ j \in 1 .. a
        \/ i \in 1 .. a /\ j > a
        \/ i > a /\ j > a
    OBVIOUS
  <2> QED
    BY <2>1, <2>2, <2>3, <2>4, Zenon
<1>4. Rising(can_fifo')
  <2> SUFFICES ASSUME NEW i \in 1 .. b - n, NEW j \in 1 .. b - n, i < j
               PROVE  can_fifo'[i].n < can_fifo'[j].n
    BY DEF Rising
  <2>1. /\ n + i \in 1 .. b /\ n + j \in 1 .. b /\ n + i < n + j
        /\ can_fifo'[i] = can_fifo[n + i] /\ can_fifo'[j] = can_fifo[n + j]
    BY <1>2
  <2> QED
    BY <2>1 DEF Rising
<1>5. Below(can_got', can_fifo')
  <2> SUFFICES ASSUME NEW i \in 1 .. a + g, NEW j \in 1 .. b - n PROVE can_got'[i].n < can_fifo'[j].n
    BY DEF Below
  <2>1. n + j \in 1 .. b /\ n + j > g /\ can_fifo'[j] = can_fifo[n + j]
    BY <1>2
  <2>2. CASE i \in 1 .. a
    BY <1>1, <2>1, <2>2 DEF Below
  <2>3. CASE i > a
    <3>1. i - a \in 1 .. b /\ i - a < n + j /\ can_got'[i] = can_fifo[i - a]
      BY <1>1, <2>1, <2>3
    <3> QED
      BY <2>1, <3>1 DEF Rising
  <2> QED
    BY <2>2, <2>3
<1>6. Below(can_got', can_reader.frame) /\ UpTo(can_got', can_bus)
  <2>1. ASSUME NEW i \in 1 .. a + g, NEW j \in DOMAIN can_reader.frame
        PROVE  can_got'[i].n < can_reader.frame[j].n
    BY <1>1 DEF Below
  <2>2. ASSUME NEW i \in 1 .. a + g PROVE can_got'[i].n <= can_bus
    BY <1>1 DEF UpTo
  <2> QED
    BY <2>1, <2>2 DEF Below, UpTo
<1>7. Below(can_fifo', can_reader.frame) /\ UpTo(can_fifo', can_bus)
  <2>1. ASSUME NEW i \in 1 .. b - n, NEW j \in DOMAIN can_reader.frame
        PROVE  can_fifo'[i].n < can_reader.frame[j].n
    BY <1>2 DEF Below
  <2>2. ASSUME NEW i \in 1 .. b - n PROVE can_fifo'[i].n <= can_bus
    BY <1>2 DEF UpTo
  <2> QED
    BY <2>1, <2>2 DEF Below, UpTo
<1> QED
  BY <1>3, <1>4, <1>5, <1>6, <1>7

LEMMA CanStartsWell == CanInit => CanIInv
<1> SUFFICES ASSUME CanInit PROVE CanIInv
  OBVIOUS
<1>1. /\ ~can_started /\ ~can_busoff /\ ~can_event /\ ~can_missed
      /\ {can_started, can_busoff, can_event, can_missed} \subseteq BOOLEAN
  BY Zenon DEF CanInit
<1>2. ~can_run.up /\ can_run.up \in BOOLEAN /\ can_run.features = {}
  BY DEF CanInit, NoRun
<1>3. /\ can_worker = "idle" /\ can_reader = [at |-> "none", frame |-> <<>>]
      /\ can_fifo = <<>> /\ can_got = <<>> /\ can_rx = [avail |-> 0, kick |-> FALSE]
      /\ can_lost = 0 /\ can_requests = 0 /\ can_bus = 0 /\ can_late = 0 /\ can_acked = can_sent
  BY DEF CanInit
<1> QED
  BY <1>1, <1>2, <1>3, CanAssumption
     DEF CanIInv, CanShapes, CanTypeOK, CanRanked, Rising, Below, UpTo, CanLateCounted, CanWoken,
         CanFresh, CanBusOffStops, CanAckedSent

-----------------------------------------------------------------------------
\* Frames that were read have a number.
LEMMA NumbersAreNumbers ==
  ASSUME NEW s \in Seq(Numbered)
  PROVE  /\ Len(s) \in Nat /\ DOMAIN s = 1 .. Len(s)
         /\ \A i \in DOMAIN s : s[i] \in Numbered /\ s[i].n \in Nat
<1>1. Len(s) \in Nat /\ DOMAIN s = 1 .. Len(s)
  BY LenProperties
<1>2. \A i \in 1 .. Len(s) : s[i] \in Numbered
  BY ElementOfSeq
<1>3. \A x \in Numbered : x.n \in Nat
  BY CanAssumption DEF Numbered
<1> QED
  BY <1>1, <1>2, <1>3

\* The reader.
LEMMA CanReadStep ==
  ASSUME CanIInv, NEW h \in CanBusFrames, CanRead(h)
  PROVE  CanIInv'
<1> USE CanAssumption
<1> DEFINE new == [n |-> can_bus + 1, frame |-> h]
<1>1. /\ can_reader.at = "reading" /\ can_reader.frame = <<>> /\ can_bus \in 0 .. CanBusLimit
      /\ can_bus' = can_bus + 1 /\ can_bus' \in 0 .. CanBusLimit /\ new \in Numbered
  BY DEF CanRead, CanIInv, CanShapes, CanTypeOK, Numbered
<1>2. CASE can_started
  <2>1. can_reader' = [at |-> "push", frame |-> <<new>>]
    BY <1>2 DEF CanRead
  <2>2. <<new>> \in Seq(Numbered) /\ Len(<<new>>) = 1 /\ DOMAIN <<new>> = {1} /\ <<new>>[1].n = can_bus + 1
    BY <1>1
  <2>3. CanShapes'
    BY <1>1, <2>1, <2>2 DEF CanRead, CanIInv, CanShapes, CanTypeOK, canBack, canCtrl
  <2>4. CanRanked'
    <3>1. /\ can_got' = can_got /\ can_fifo' = can_fifo
          /\ \A i \in DOMAIN can_got : can_got[i].n \in Int
          /\ \A i \in DOMAIN can_fifo : can_fifo[i].n \in Int
      BY NumbersAreNumbers DEF CanRead, CanIInv, CanShapes
    <3> HIDE DEF new
    <3> QED
      BY <1>1, <2>1, <2>2, <3>1 DEF CanIInv, CanRanked, Rising, Below, UpTo
  <2> QED
    BY <1>1, <1>2, <2>1, <2>3, <2>4
       DEF CanRead, CanIInv, CanLateCounted, CanWoken, CanFresh, CanBusOffStops, CanAckedSent,
           canBack, canCtrl
<1>3. CASE ~can_started
  <2>1. can_reader' = can_reader
    BY <1>3 DEF CanRead
  <2>2. CanRanked'
    <3>1. /\ can_got' = can_got /\ can_fifo' = can_fifo
          /\ \A i \in DOMAIN can_got : can_got[i].n \in Int
          /\ \A i \in DOMAIN can_fifo : can_fifo[i].n \in Int
      BY NumbersAreNumbers DEF CanRead, CanIInv, CanShapes
    <3> QED
      BY <1>1, <2>1, <3>1 DEF CanIInv, CanRanked, Rising, Below, UpTo
  <2> QED
    BY <1>1, <1>3, <2>1, <2>2
       DEF CanRead, CanIInv, CanShapes, CanTypeOK, CanLateCounted, CanWoken, CanFresh,
           CanBusOffStops, CanAckedSent, canBack, canCtrl
<1> QED
  BY <1>2, <1>3

LEMMA CanPushStep ==
  ASSUME CanIInv, CanPush
  PROVE  CanIInv'
<1> USE CanAssumption
<1>1. /\ can_fifo \in Seq(Numbered) /\ can_reader.frame \in Seq(Numbered)
      /\ can_got \in Seq(Numbered) /\ can_got' = can_got /\ can_bus' = can_bus
      /\ can_reader.at = "push" /\ Len(can_reader.frame) = 1
      /\ can_fifo' = can_fifo \o can_reader.frame
      /\ can_reader' = [at |-> "event", frame |-> <<>>]
  BY DEF CanPush, CanIInv, CanShapes
<1>2. /\ can_fifo' \in Seq(Numbered) /\ Len(can_fifo') = Len(can_fifo) + 1 /\ Len(can_fifo) \in Nat
      /\ \A i \in 1 .. Len(can_fifo) : can_fifo'[i] = can_fifo[i]
      /\ can_fifo'[Len(can_fifo) + 1] = can_reader.frame[1]
  <2> DEFINE held == can_reader.frame
  <2>1. can_fifo \in Seq(Numbered) /\ held \in Seq(Numbered) /\ Len(held) = 1 /\ Len(can_fifo) \in Nat
    BY <1>1, NumbersAreNumbers
  <2> HIDE DEF held
  <2>2. /\ can_fifo \o held \in Seq(Numbered)
        /\ Len(can_fifo \o held) = Len(can_fifo) + Len(held)
        /\ \A i \in 1 .. Len(can_fifo) + Len(held) :
             (can_fifo \o held)[i] = IF i <= Len(can_fifo) THEN can_fifo[i] ELSE held[i - Len(can_fifo)]
    BY <2>1, ConcatProperties
  <2>3. can_fifo' = can_fifo \o held
    BY <1>1 DEF held
  <2>4. /\ \A i \in 1 .. Len(can_fifo) : (can_fifo \o held)[i] = can_fifo[i]
        /\ (can_fifo \o held)[Len(can_fifo) + 1] = held[1]
    BY <2>1, <2>2
  <2> QED
    BY <2>1, <2>2, <2>3, <2>4 DEF held
<1>3. /\ DOMAIN can_fifo' = 1 .. Len(can_fifo) + 1 /\ DOMAIN can_fifo = 1 .. Len(can_fifo)
      /\ DOMAIN can_reader.frame = {1}
  BY <1>1, <1>2, LenProperties
<1>4. CanShapes'
  BY <1>1, <1>2 DEF CanPush, CanIInv, CanShapes, CanTypeOK, canBack, canCtrl
<1>5. CanRanked'
  <2>1. can_reader'.frame = <<>> /\ DOMAIN can_reader'.frame = {}
    BY <1>1
  <2>2. \A i \in 1 .. Len(can_fifo) + 1 : i \in 1 .. Len(can_fifo) \/ i = Len(can_fifo) + 1
    BY <1>2
  <2> QED
    BY <1>1, <1>2, <1>3, <2>1, <2>2 DEF CanIInv, CanRanked, Rising, Below, UpTo
<1> QED
  BY <1>1, <1>4, <1>5 DEF CanPush, CanIInv, CanShapes, CanTypeOK, CanLateCounted, CanWoken, CanFresh,
     CanBusOffStops, CanAckedSent, canBack, canCtrl

LEMMA CanEventStep ==
  ASSUME CanIInv, CanEvent
  PROVE  CanIInv'
<1>1. can_event' /\ can_event' \in BOOLEAN
  BY Zenon DEF CanEvent
<1> QED
  BY <1>1 DEF CanEvent, CanIInv, CanShapes, CanTypeOK, CanRanked, CanLateCounted, CanWoken, CanFresh,
     CanBusOffStops, CanAckedSent, canBack, canCtrl

-----------------------------------------------------------------------------
\* The vring thread.
LEMMA CanHandleStep ==
  ASSUME CanIInv, NEW on \in {"kick", "event"}, CanHandle(on)
  PROVE  CanIInv'
<1>1. /\ can_run.up /\ can_worker = "idle" /\ can_run' = can_run
      /\ can_rx'.avail = can_rx.avail /\ can_rx' \in [avail : Nat, kick : BOOLEAN]
      /\ can_rx'.kick => can_rx.kick
      /\ can_worker' = IF can_started /\ (on = "event" \/ can_fifo # <<>>) THEN "process" ELSE "idle"
  BY DEF CanHandle, CanIdle, CanIInv, CanShapes, canBack
<1>2. {can_event', can_missed'} \subseteq BOOLEAN /\ (can_missed' <=> can_missed \/ ~can_started)
  <2>1. {can_event, can_missed, can_started} \subseteq BOOLEAN
    BY DEF CanIInv, CanShapes, CanTypeOK
  <2> QED
    BY <2>1, Zenon DEF CanHandle
<1>3. /\ canBack' = canBack /\ canCtrl' = canCtrl /\ canRead' = canRead
      /\ can_fifo' = can_fifo /\ can_got' = can_got
  BY DEF CanHandle
<1>4. CanShapes'
  BY <1>1, <1>2, <1>3 DEF CanIInv, CanShapes, CanTypeOK, canBack, canCtrl, canRead
<1>5. CanRanked' /\ CanLateCounted' /\ CanBusOffStops' /\ CanAckedSent'
  BY <1>3 DEF CanIInv, CanRanked, CanLateCounted, CanBusOffStops, CanAckedSent, Rising, Below, UpTo,
     canBack, canCtrl, canRead
<1>6. CanWoken'
  BY <1>1, <1>2, <1>3 DEF CanIInv, CanWoken, CanShapes, CanTypeOK, canBack, canCtrl, canRead
<1>7. CanFresh'
  BY <1>1, <1>3 DEF CanIInv, CanFresh, canBack, canCtrl, canRead
<1> QED
  BY <1>4, <1>5, <1>6, <1>7 DEF CanIInv

LEMMA CanProcessStep ==
  ASSUME CanIInv, CanProcess
  PROVE  CanIInv'
<1> USE CanAssumption
<1>1. PICK n \in 0 .. Len(CanServed) :
        /\ CanTakes(n)
        /\ can_fifo' = SubSeq(can_fifo, n + 1, Len(can_fifo))
        /\ can_got' = can_got \o SubSeq(CanServed, 1, IF CanBad = {} THEN n ELSE n - 1)
        /\ can_lost' = can_lost + can_rx.avail - (IF CanBad = {} THEN n ELSE n - 1)
        /\ \/ CanBad # {} /\ can_busoff' = TRUE /\ can_started' = FALSE
           \/ UNCHANGED canCtrl
  BY DEF CanProcess
<1> DEFINE g == IF CanBad = {} THEN n ELSE n - 1
           served == IF Len(can_fifo) < can_rx.avail THEN Len(can_fifo) ELSE can_rx.avail
           a == Len(can_got)
           b == Len(can_fifo)
<1>2. /\ can_worker = "process" /\ can_rx' = [can_rx EXCEPT !.avail = 0]
      /\ can_worker' \in {"dead", "enable", "idle"} /\ (CanBad # {} => can_worker' = "dead")
      /\ can_reader' = can_reader /\ can_bus' = can_bus
      /\ can_run' = can_run /\ can_requests' = can_requests /\ can_request' = can_request
      /\ can_acked' = can_acked /\ can_sent' = can_sent
      /\ can_event' = can_event /\ can_missed' = can_missed
      /\ can_late' = IF can_started' = can_started THEN can_late ELSE 0
  BY DEF CanProcess
<1>3. /\ can_got \in Seq(Numbered) /\ can_fifo \in Seq(Numbered) /\ can_reader.frame \in Seq(Numbered)
      /\ a \in Nat /\ b \in Nat /\ DOMAIN can_got = 1 .. a /\ DOMAIN can_fifo = 1 .. b
      /\ \A i \in 1 .. a : can_got[i] \in Numbered
      /\ \A i \in 1 .. b : can_fifo[i] \in Numbered
      /\ can_rx.avail \in Nat /\ can_lost \in Nat /\ can_rx.avail + can_lost <= CanBuffers
  BY NumbersAreNumbers DEF CanIInv, CanShapes, CanTypeOK
<1>4. /\ served \in 0 .. b /\ served <= can_rx.avail
      /\ CanServed \in Seq(Numbered) /\ Len(CanServed) = served
      /\ \A i \in 1 .. served : CanServed[i] = can_fifo[i]
  <2>1. served \in 0 .. b /\ served <= can_rx.avail
    BY <1>3
  <2>2. CanServed = SubSeq(can_fifo, 1, served)
    BY DEF CanServed
  <2> HIDE DEF served, a, b
  <2>3. \A i \in 1 .. served : can_fifo[i] \in Numbered
    BY <1>3, <2>1
  <2> QED
    BY <2>1, <2>2, <2>3, SubSeqProperties
<1>5. n \in 0 .. served /\ g \in 0 .. n
  <2>1. CanBad # {} => n >= 1
    BY <1>1, <1>4 DEF CanTakes, CanBad
  <2> QED
    BY <1>1, <1>4, <2>1
<1> HIDE DEF served, a, b, g
<1>6. /\ SubSeq(CanServed, 1, g) \in Seq(Numbered) /\ Len(SubSeq(CanServed, 1, g)) = g
      /\ \A i \in 1 .. g : SubSeq(CanServed, 1, g)[i] = can_fifo[i]
  <2>1. \A i \in 1 .. g : i \in 1 .. served /\ i \in 1 .. b
    BY <1>3, <1>4, <1>5
  <2>2. \A i \in 1 .. g : CanServed[i] \in Numbered /\ CanServed[i] = can_fifo[i]
    BY <1>3, <1>4, <2>1
  <2> QED
    BY <1>5, <2>2, SubSeqProperties
<1>7. /\ can_fifo' \in Seq(Numbered) /\ Len(can_fifo') = b - n
      /\ \A i \in 1 .. b - n : can_fifo'[i] = can_fifo[n + i]
  <2>1. can_fifo' = SubSeq(can_fifo, n + 1, b)
    BY <1>1 DEF b
  <2>2. n + 1 \in Int /\ b \in Int /\ \A i \in n + 1 .. b : can_fifo[i] \in Numbered
    BY <1>3, <1>4, <1>5
  <2> QED
    BY <1>3, <1>4, <1>5, <2>1, <2>2, SubSeqProperties
<1>8. /\ can_got' \in Seq(Numbered) /\ Len(can_got') = a + g
      /\ \A i \in 1 .. a : can_got'[i] = can_got[i]
      /\ \A i \in a + 1 .. a + g : can_got'[i] = can_fifo[i - a]
  <2>1. PICK s \in Seq(Numbered) : s = SubSeq(CanServed, 1, g)
    BY <1>6
  <2>2. can_got' = can_got \o s
    BY <1>1, <2>1 DEF g
  <2>3. /\ can_got \o s \in Seq(Numbered) /\ Len(can_got \o s) = a + Len(s)
        /\ \A i \in 1 .. a + Len(s) : (can_got \o s)[i] = IF i <= a THEN can_got[i] ELSE s[i - a]
    BY <1>3, <2>1, ConcatProperties DEF a
  <2>4. Len(s) = g /\ \A i \in 1 .. g : s[i] = can_fifo[i]
    BY <1>6, <2>1
  <2>5. \A i \in 1 .. a : (can_got \o s)[i] = can_got[i]
    BY <1>3, <1>5, <2>3, <2>4
  <2>6. ASSUME NEW i \in a + 1 .. a + g PROVE (can_got \o s)[i] = can_fifo[i - a]
    <3>1. i \in 1 .. a + Len(s) /\ ~(i <= a) /\ i - a \in 1 .. g
      BY <1>3, <1>5, <2>4
    <3> QED
      BY <2>3, <2>4, <3>1
  <2> QED
    BY <2>2, <2>3, <2>4, <2>5, <2>6
<1>9. CanRanked'
  <2>1. DOMAIN can_got' = 1 .. a + g /\ DOMAIN can_fifo' = 1 .. b - n /\ can_bus \in Nat
    BY <1>7, <1>8, NumbersAreNumbers DEF CanIInv, CanShapes, CanTypeOK
  <2> QED
    <3>1. n \in 0 .. b /\ g \in 0 .. n
      BY <1>3, <1>4, <1>5
    <3> QED
      BY <1>2, <1>3, <1>7, <1>8, <2>1, <3>1, TakenStayRanked DEF CanIInv
<1>10. CanBusOffStops' /\ (can_started' => can_started) /\ {can_busoff', can_started'} \subseteq BOOLEAN
  <2>1. {can_busoff, can_started} \subseteq BOOLEAN /\ CanBusOffStops
    BY DEF CanIInv, CanShapes, CanTypeOK
  <2>2. (can_busoff' = TRUE /\ can_started' = FALSE) \/ (can_busoff' = can_busoff /\ can_started' = can_started)
    BY <1>1 DEF canCtrl
  <2>3. CASE can_busoff' = TRUE /\ can_started' = FALSE
    <3>1. can_busoff' /\ ~can_started' /\ can_busoff' \in BOOLEAN /\ can_started' \in BOOLEAN
      BY <2>3, Zenon
    <3> QED
      BY <3>1 DEF CanBusOffStops
  <2>4. CASE can_busoff' = can_busoff /\ can_started' = can_started
    BY <2>1, <2>4 DEF CanBusOffStops
  <2> QED
    BY <2>2, <2>3, <2>4
<1>11. CanShapes'
  <2>1. can_lost' \in 0 .. CanBuffers /\ can_rx' \in [avail : Nat, kick : BOOLEAN] /\ can_rx'.avail = 0
    <3>1. can_lost' = can_lost + can_rx.avail - g
      BY <1>1 DEF g
    <3>2. g \in Nat /\ g <= can_rx.avail /\ CanBuffers \in Nat
      BY <1>3, <1>4, <1>5
    <3>3. can_lost' \in 0 .. CanBuffers
      BY <1>3, <3>1, <3>2, SMTT(30)
    <3>4. can_rx' \in [avail : Nat, kick : BOOLEAN] /\ can_rx'.avail = 0
      BY <1>2 DEF CanIInv, CanShapes
    <3> QED
      BY <3>3, <3>4
  <2>2. can_late' \in Nat
    BY <1>2 DEF CanIInv, CanShapes, CanTypeOK
  <2>3. can_started' \in BOOLEAN /\ can_busoff' \in BOOLEAN
    BY <1>10
  <2>4. CanTypeOK'
    BY <1>2, <2>1, <2>2, <2>3, SMTT(30) DEF CanIInv, CanShapes, CanTypeOK
  <2> QED
    BY <1>2, <1>3, <1>7, <1>8, <2>1, <2>4 DEF CanIInv, CanShapes
<1>12. CanLateCounted'
  <2>1. CASE can_started' = can_started
    BY <1>2, <2>1 DEF CanIInv, CanLateCounted
  <2>2. CASE can_started' # can_started
    BY <1>2, <2>2 DEF CanLateCounted
  <2> QED
    BY <2>1, <2>2
<1>13. CanFresh' /\ CanWoken' /\ CanAckedSent'
  <2>1. can_rx'.avail = 0 /\ can_run.up /\ can_started /\ can_reader.at # "none"
    BY <1>2 DEF CanIInv, CanShapes, CanFresh
  <2>2. can_worker' = "enable" => can_started' = can_started
    BY <1>1, <1>2 DEF canCtrl
  <2>3. CanFresh'
    BY <1>2, <2>1, <2>2 DEF CanFresh
  <2>4. CanWoken'
    BY <2>1 DEF CanWoken
  <2>5. CanAckedSent'
    BY <1>2 DEF CanIInv, CanAckedSent
  <2> QED
    BY <2>3, <2>4, <2>5
<1> QED
  BY <1>9, <1>10, <1>11, <1>12, <1>13 DEF CanIInv

LEMMA CanEnableStep ==
  ASSUME CanIInv, CanEnable
  PROVE  CanIInv'
BY DEF CanEnable, CanIInv, CanShapes, CanTypeOK, CanRanked, Rising, Below, UpTo, CanLateCounted,
   CanWoken, CanFresh, CanBusOffStops, CanAckedSent, canBack, canCtrl, canRead

\* The requests of the guest, which start and stop the controller, move no
\* frame and change no buffer.
LEMMA CanRequestStep ==
  ASSUME CanIInv, CanControl \/ CanSend
  PROVE  CanIInv'
<1>1. /\ can_run.up /\ can_worker = "idle"
      /\ can_worker' = can_worker /\ can_run' = can_run /\ can_lost' = can_lost
      /\ can_requests' = can_requests /\ can_reader' = can_reader /\ can_bus' = can_bus
      /\ can_fifo' = can_fifo /\ can_event' = can_event /\ can_rx' = can_rx
      /\ can_got' = can_got /\ can_missed' = can_missed
  BY DEF CanControl, CanSend, CanIdle, canCtrl
<1>2. /\ {can_started, can_busoff} \subseteq BOOLEAN /\ CanBusOffStops /\ can_late \in Nat
      /\ CanAckedSent
  BY DEF CanIInv, CanShapes, CanTypeOK
<1>3. /\ {can_started', can_busoff'} \subseteq BOOLEAN /\ CanBusOffStops' /\ can_late' \in Nat
      /\ CanAckedSent' /\ CanLateCounted'
  <2>1. CASE CanControl
    <3> DEFINE ok == can_request[2] = (IF can_started THEN "STOP" ELSE "START")
    <3>1. /\ can_started' = (can_started # ok) /\ can_busoff' = (can_busoff /\ ~ok)
          /\ can_late' = IF ok /\ can_started THEN 0 ELSE can_late
          /\ can_acked' = can_acked /\ can_sent' = can_sent
      BY <2>1 DEF CanControl
    <3>4. ok \in BOOLEAN
      OBVIOUS
    <3> HIDE DEF ok
    <3>2. CASE ok
      <4>1. /\ {can_started', can_busoff'} \subseteq BOOLEAN
            /\ ~can_busoff' /\ (can_started' <=> ~can_started)
        BY <1>2, <3>1, <3>2, Zenon
      <4>2. /\ can_started => can_late' = 0
            /\ ~can_started => can_late' = can_late
        BY <3>1, <3>2
      <4> QED
        BY <1>1, <1>2, <3>1, <4>1, <4>2 DEF CanIInv, CanLateCounted, CanBusOffStops, CanAckedSent
    <3>3. CASE ~ok
      <4>1. /\ {can_started', can_busoff'} \subseteq BOOLEAN
            /\ (can_busoff' <=> can_busoff) /\ (can_started' <=> can_started)
        <5>1. can_started' = (can_started # FALSE) /\ can_busoff' = (can_busoff /\ TRUE)
          <6>1. ok = FALSE
            BY <3>3, <3>4
          <6> QED
            BY <3>1, <6>1
        <5>2. can_started \in BOOLEAN /\ can_busoff \in BOOLEAN
          BY <1>2
        <5>3. CASE can_started
          BY <5>1, <5>2, <5>3
        <5>4. CASE ~can_started
          BY <5>1, <5>2, <5>4
        <5> QED
          BY <5>3, <5>4
      <4>2. can_late' = can_late
        BY <3>1, <3>3
      <4> QED
        BY <1>1, <1>2, <3>1, <4>1, <4>2 DEF CanIInv, CanLateCounted, CanBusOffStops, CanAckedSent
    <3> QED
      BY <3>2, <3>3
  <2>2. CASE CanSend
    <3>1. \/ /\ can_started' = can_started /\ can_busoff' = can_busoff /\ can_late' = can_late
             /\ \/ can_acked' = can_acked /\ can_sent' = can_sent
                \/ /\ can_acked' = Append(can_acked, can_requests)
                   /\ can_sent' = Append(can_sent, can_requests)
          \/ /\ can_started' = FALSE /\ can_busoff' = TRUE /\ can_late' = 0
             /\ can_acked' = can_acked /\ can_sent' = can_sent
      BY <2>2 DEF CanSend, canCtrl
    <3>2. CASE can_started' = FALSE /\ can_busoff' = TRUE /\ can_late' = 0
               /\ can_acked' = can_acked /\ can_sent' = can_sent
      <4>1. ~can_started' /\ {can_started', can_busoff'} \subseteq BOOLEAN
        BY <3>2, Zenon
      <4> QED
        BY <1>2, <3>2, <4>1 DEF CanLateCounted, CanBusOffStops, CanAckedSent
    <3>3. CASE can_started' = can_started /\ can_busoff' = can_busoff /\ can_late' = can_late
      BY <1>1, <1>2, <3>1, <3>3 DEF CanIInv, CanLateCounted, CanBusOffStops, CanAckedSent
    <3> QED
      BY <3>1, <3>2, <3>3
  <2> QED
    BY <2>1, <2>2
<1>4. CanShapes'
  BY <1>1, <1>3 DEF CanIInv, CanShapes, CanTypeOK
<1>5. CanRanked' /\ CanWoken' /\ CanFresh'
  BY <1>1 DEF CanIInv, CanRanked, Rising, Below, UpTo, CanWoken, CanFresh
<1> QED
  BY <1>3, <1>4, <1>5 DEF CanIInv

-----------------------------------------------------------------------------
\* The guest, and the life of the daemon.
LEMMA CanLifeStep ==
  ASSUME CanIInv, CanStart \/ CanStop \/ CanJoin \/ CanGuestBuffer
  PROVE  CanIInv'
<1> USE CanAssumption
<1>1. CASE CanStart
  <2>1. can_run'.up = TRUE /\ can_run'.features \subseteq {"CLASSIC", "FD"}
    BY <1>1 DEF CanStart
  <2>2. can_run'.up \in BOOLEAN
    BY <2>1, Zenon
  <2>3. PICK at \in {"reading", "failed"} : can_reader' = [can_reader EXCEPT !.at = at]
    BY <1>1 DEF CanStart
  <2>4. /\ can_reader'.at = at /\ can_reader'.frame = can_reader.frame /\ can_reader.frame = <<>>
        /\ can_reader' \in [at : {"none", "reading", "failed", "push", "event"}, frame : Seq(Numbered)]
    BY <1>1, <2>3 DEF CanStart, CanIInv, CanShapes
  <2> QED
    BY <1>1, <2>1, <2>2, <2>4 DEF CanStart, CanIInv, CanShapes, CanTypeOK, CanRanked, Rising, Below, UpTo,
       CanLateCounted, CanWoken, CanFresh, CanBusOffStops, CanAckedSent, canCtrl
<1>2. CASE CanStop
  <2>1. can_run'.up = FALSE /\ can_run'.features = {}
    BY <1>2 DEF CanStop, NoRun
  <2>2. can_run'.up \in BOOLEAN /\ ~can_run'.up
    BY <2>1, Zenon
  <2> QED
    BY <1>2, <2>1, <2>2 DEF CanStop, CanIInv, CanShapes, CanTypeOK, CanRanked, Rising, Below, UpTo,
       CanLateCounted, CanWoken, CanFresh, CanBusOffStops, CanAckedSent, canCtrl, canRead
<1>3. CASE CanJoin
  <2>1. /\ ~can_started' /\ ~can_busoff' /\ ~can_event' /\ ~can_missed'
        /\ {can_started', can_busoff', can_event', can_missed'} \subseteq BOOLEAN
    BY <1>3, Zenon DEF CanJoin
  <2>2. /\ can_worker' = "idle" /\ can_fifo' = <<>> /\ can_got' = <<>> /\ can_late' = 0
        /\ can_rx' = [avail |-> 0, kick |-> FALSE] /\ can_lost' = 0 /\ can_acked' = can_sent'
        /\ can_run' = can_run /\ ~can_run.up /\ can_requests' = can_requests /\ can_bus' = can_bus
        /\ can_reader' = [can_reader EXCEPT !.at = "none"] /\ can_reader.at # "push"
    BY <1>3 DEF CanJoin
  <2>3. /\ can_reader'.at = "none" /\ can_reader'.frame = <<>>
        /\ can_reader' \in [at : {"none", "reading", "failed", "push", "event"}, frame : Seq(Numbered)]
    BY <2>2 DEF CanIInv, CanShapes
  <2>4. can_rx' \in [avail : Nat, kick : BOOLEAN] /\ can_rx'.avail = 0
    BY <2>2
  <2>5. CanShapes'
    BY <2>1, <2>2, <2>3, <2>4 DEF CanIInv, CanShapes, CanTypeOK
  <2>6. CanRanked'
    BY <2>2, <2>3 DEF CanRanked, Rising, Below, UpTo
  <2> QED
    BY <2>1, <2>2, <2>3, <2>5, <2>6 DEF CanIInv, CanLateCounted, CanWoken, CanFresh, CanBusOffStops,
       CanAckedSent
<1>4. CASE CanGuestBuffer
  <2>1. can_rx'.kick = TRUE /\ can_rx'.avail = can_rx.avail + 1
    BY <1>4 DEF CanGuestBuffer
  <2>2. can_rx'.kick
    BY <2>1, Zenon
  <2>3. can_rx' \in [avail : Nat, kick : BOOLEAN]
    BY <1>4 DEF CanGuestBuffer, CanIInv, CanShapes
  <2>4. /\ canBack' = canBack /\ canCtrl' = canCtrl /\ canRead' = canRead /\ can_worker' = can_worker
        /\ can_fifo' = can_fifo /\ can_event' = can_event /\ can_got' = can_got /\ can_missed' = can_missed
        /\ can_rx.avail + can_lost < CanBuffers
    BY <1>4 DEF CanGuestBuffer
  <2>5. CanShapes'
    <3>1. can_rx.avail \in Nat /\ can_lost \in Nat /\ can_rx'.avail + can_lost <= CanBuffers
      BY <2>1, <2>4 DEF CanIInv, CanShapes, CanTypeOK
    <3>2. can_rx'.avail \in 0 .. CanBuffers /\ can_lost' = can_lost
      BY <2>1, <2>4, <3>1 DEF canBack
    <3> QED
      BY <2>3, <2>4, <3>1, <3>2 DEF CanIInv, CanShapes, CanTypeOK, canBack, canCtrl, canRead
  <2>6. CanRanked' /\ CanLateCounted' /\ CanFresh' /\ CanBusOffStops' /\ CanAckedSent'
    BY <2>4 DEF CanIInv, CanRanked, Rising, Below, UpTo, CanLateCounted, CanFresh, CanBusOffStops,
       CanAckedSent, canBack, canCtrl, canRead
  <2>7. CanWoken'
    BY <2>2 DEF CanWoken
  <2> QED
    BY <2>5, <2>6, <2>7 DEF CanIInv
<1> QED
  BY <1>1, <1>2, <1>3, <1>4

LEMMA CanAskStep ==
  ASSUME CanIInv, (\E kind, r : CanGuestRequest(kind, r)) \/ UNCHANGED CanVars
  PROVE  CanIInv'
<1>1. /\ can_requests' \in 0 .. CanRequests
      /\ can_run' = can_run /\ can_lost' = can_lost /\ can_acked' = can_acked /\ can_sent' = can_sent
      /\ canCtrl' = canCtrl /\ canRead' = canRead /\ can_worker' = can_worker /\ can_fifo' = can_fifo
      /\ can_event' = can_event /\ can_rx' = can_rx /\ can_got' = can_got /\ can_missed' = can_missed
  BY CanAssumption DEF CanGuestRequest, CanVars, CanIInv, CanShapes, CanTypeOK, canBack
<1> QED
  BY <1>1 DEF CanIInv, CanShapes, CanTypeOK, CanRanked, Rising, Below, UpTo, CanLateCounted,
     CanWoken, CanFresh, CanBusOffStops, CanAckedSent, canCtrl, canRead

-----------------------------------------------------------------------------
\* Order on the way, from where the frames stand to each other.
LEMMA RankedInOrder == CanIInv => CanInOrder
<1> SUFFICES ASSUME CanIInv PROVE CanInOrder
  OBVIOUS
<1> DEFINE got == can_got
           fifo == can_fifo
           held == can_reader.frame
           all == (got \o fifo) \o held
<1>1. /\ got \in Seq(Numbered) /\ fifo \in Seq(Numbered) /\ held \in Seq(Numbered)
      /\ Rising(got) /\ Rising(fifo) /\ Below(got, fifo) /\ Below(got, held) /\ Below(fifo, held)
      /\ Len(held) \in {0, 1}
  BY EmptySeq DEF CanIInv, CanShapes, CanRanked
<1> HIDE DEF got, fifo, held
<1>2. /\ DOMAIN got = 1 .. Len(got) /\ DOMAIN fifo = 1 .. Len(fifo) /\ DOMAIN held = 1 .. Len(held)
      /\ Len(got) \in Nat /\ Len(fifo) \in Nat
  BY <1>1, NumbersAreNumbers
<1>3. PICK s \in Seq(Numbered) : s = got \o fifo
  BY <1>1, ConcatProperties
<1>4. /\ Len(s) = Len(got) + Len(fifo)
      /\ \A i \in 1 .. Len(got) + Len(fifo) : s[i] = IF i <= Len(got) THEN got[i] ELSE fifo[i - Len(got)]
  BY <1>1, <1>3, ConcatProperties
<1>5. PICK t \in Seq(Numbered) : t = s \o held
  BY <1>1, ConcatProperties
<1>6. /\ Len(t) = Len(s) + Len(held)
      /\ \A i \in 1 .. Len(s) + Len(held) : t[i] = IF i <= Len(s) THEN s[i] ELSE held[i - Len(s)]
  BY <1>1, <1>5, ConcatProperties
<1>7. ASSUME NEW i \in 1 .. Len(t) - 1 PROVE t[i].n < t[i + 1].n
  <2>0. /\ Len(s) \in Nat /\ Len(held) \in {0, 1} /\ Len(t) = Len(s) + Len(held)
        /\ i \in Nat /\ i >= 1 /\ i + 1 <= Len(t)
    BY <1>1, <1>2, <1>4, <1>6
  <2>1. i \in Nat /\ i + 1 \in 1 .. Len(t) /\ i \in 1 .. Len(s) /\ t[i] = s[i]
    <3>1. i \in 1 .. Len(s) + Len(held) /\ i <= Len(s)
      <4>1. CASE Len(held) = 0
        BY <2>0, <4>1
      <4>2. CASE Len(held) = 1
        BY <2>0, <4>2
      <4> QED
        BY <2>0, <4>1, <4>2
    <3>2. t[i] = s[i]
      BY <1>6, <3>1
    <3> QED
      BY <2>0, <3>1, <3>2
  <2>2. CASE i + 1 <= Len(got)
    <3>1. t[i] = got[i] /\ t[i + 1] = got[i + 1] /\ i \in DOMAIN got /\ i + 1 \in DOMAIN got
      BY <1>2, <1>4, <1>6, <2>1, <2>2
    <3> QED
      BY <2>1, <3>1, <1>1 DEF Rising
  <2>3. CASE i = Len(got) /\ i + 1 <= Len(s)
    <3>1. t[i] = got[i] /\ t[i + 1] = fifo[1] /\ i \in DOMAIN got /\ 1 \in DOMAIN fifo
      BY <1>2, <1>4, <1>6, <2>1, <2>3
    <3> QED
      BY <3>1, <1>1 DEF Below
  <2>4. CASE i > Len(got) /\ i + 1 <= Len(s)
    <3>1. /\ t[i] = fifo[i - Len(got)] /\ t[i + 1] = fifo[i + 1 - Len(got)]
          /\ i - Len(got) \in DOMAIN fifo /\ i + 1 - Len(got) \in DOMAIN fifo
          /\ i - Len(got) < i + 1 - Len(got)
      BY <1>2, <1>4, <1>6, <2>1, <2>4
    <3> QED
      BY <3>1, <1>1 DEF Rising
  <2>5. CASE i = Len(s)
    <3>1. t[i + 1] = held[1] /\ 1 \in DOMAIN held
      <4>1. Len(held) = 1 /\ i + 1 \in 1 .. Len(s) + Len(held) /\ ~(i + 1 <= Len(s)) /\ (i + 1) - Len(s) = 1
        BY <2>0, <2>5
      <4>2. t[i + 1] = held[(i + 1) - Len(s)]
        BY <1>6, <4>1
      <4> QED
        BY <1>2, <4>1, <4>2
    <3>2. CASE i <= Len(got)
      <4>1. t[i] = got[i] /\ i \in DOMAIN got
        BY <1>2, <1>4, <2>0, <2>1, <3>2
      <4> QED
        BY <1>1, <3>1, <4>1 DEF Below
    <3>3. CASE i > Len(got)
      <4>1. t[i] = fifo[i - Len(got)] /\ i - Len(got) \in DOMAIN fifo
        BY <1>2, <1>4, <2>1, <3>3
      <4> QED
        BY <1>1, <3>1, <4>1 DEF Below
    <3> QED
      BY <1>2, <2>1, <3>2, <3>3
  <2>6. \/ i + 1 <= Len(got)
        \/ i = Len(got) /\ i + 1 <= Len(s)
        \/ i > Len(got) /\ i + 1 <= Len(s)
        \/ i = Len(s)
    <3>1. Len(got) \in Nat /\ Len(s) \in Nat /\ i \in Nat /\ i <= Len(s) /\ Len(got) <= Len(s)
      BY <1>2, <1>4, <2>0, <2>1
    <3> QED
      BY <3>1
  <2> QED
    BY <2>2, <2>3, <2>4, <2>5, <2>6
<1> QED
  BY <1>3, <1>5, <1>7 DEF CanInOrder, got, fifo, held

\* Order, stops, wake-ups and the same frame on both sides, for any frames,
\* buffers and requests (can.rs, vhu_can.rs).
THEOREM CanHolds == CanSpec => []CanInv
<1>1. CanIInv /\ [CanNext]_CanVars => CanIInv'
  BY CanReadStep, CanPushStep, CanEventStep, CanHandleStep, CanProcessStep, CanEnableStep,
     CanRequestStep, CanLifeStep, CanAskStep DEF CanNext
<1>2. CanIInv => CanInv
  <2>1. CanIInv => CanOneLate
    BY DEF CanIInv, CanLateCounted, CanOneLate, CanShapes, CanTypeOK
  <2>2. CanIInv => CanComesBack
    BY DEF CanIInv, CanWoken, CanComesBack
  <2> QED
    BY <2>1, <2>2, RankedInOrder, SameFrames DEF CanInv, CanIInv, CanShapes
<1> QED
  BY <1>1, <1>2, CanStartsWell, PTL DEF CanSpec

-----------------------------------------------------------------------------
(***************************************************************************)
(* For any number of messages and buffers of the guest, and every backend, *)
(* sound keeps its promises.  SndInv is not inductive.  What is added says *)
(* where each buffer is: numbered in the order of their arrival, those     *)
(* given back, those of the stream and those of the queue follow one       *)
(* another, so that a buffer is lost, doubled or overtaken by no step.     *)
(* What any control message may do is stated once (SndEffect), and that    *)
(* the null backend and the absent one never move a stream follows from it *)
(* (SndUntouched).                                                         *)
(***************************************************************************)
\* Where each buffer of the guest is, by its number: those given back, those
\* of the stream and those of the queue, one after the other.
SndBuffer == [id : Nat, empty : BOOLEAN]

SndPlaced ==
  /\ snd_used \in Seq(SndBuffer) /\ snd_queue \in Seq(SndBuffer) /\ snd_avail \in Seq(SndBuffer)
  /\ snd_count \in [controls : Nat, transfers : Nat]
  /\ Len(snd_used) + Len(snd_queue) + Len(snd_avail) = snd_count.transfers
  /\ \A i \in 1 .. Len(snd_used) : snd_used[i].id = i
  /\ \A i \in 1 .. Len(snd_queue) : snd_queue[i].id = Len(snd_used) + i
  /\ \A i \in 1 .. Len(snd_avail) : snd_avail[i].id = Len(snd_used) + Len(snd_queue) + i

\* Without a backend that keeps it, the state of a stream never changes, and
\* before the daemon is started there is no stream of the host.
SndUntouched ==
  /\ snd_mode.backend \in {"none", "null"} => snd_state = "SetParameters"
  /\ snd_mode = NoSound => snd_host = "none" /\ snd_state = "SetParameters"

SndIInv ==
  /\ SndTypeOK /\ SndPlaced /\ SndUntouched
  /\ SndReleased /\ SndWorkerTold /\ SndHostThere

-----------------------------------------------------------------------------
LEMMA PlacedInOrder == SndPlaced => SndInOrder
<1> SUFFICES ASSUME SndPlaced PROVE SndInOrder
  OBVIOUS
<1> DEFINE uq == snd_used \o snd_queue
           all == uq \o snd_avail
<1>1. /\ uq \in Seq(SndBuffer) /\ Len(uq) = Len(snd_used) + Len(snd_queue)
      /\ \A i \in 1 .. Len(uq) : uq[i].id = i
  <2>1. uq \in Seq(SndBuffer) /\ Len(uq) = Len(snd_used) + Len(snd_queue)
    BY DEF SndPlaced
  <2>2. ASSUME NEW i \in 1 .. Len(uq) PROVE uq[i].id = i
    <3>1. CASE i <= Len(snd_used)
      <4>1. uq[i] = snd_used[i] /\ i \in 1 .. Len(snd_used)
        BY <3>1 DEF SndPlaced
      <4> QED
        BY <4>1 DEF SndPlaced
    <3>2. CASE i > Len(snd_used)
      <4> DEFINE k == i - Len(snd_used)
      <4>1. uq[i] = snd_queue[k] /\ k \in 1 .. Len(snd_queue) /\ Len(snd_used) + k = i
        BY <2>1, <3>2 DEF SndPlaced
      <4> HIDE DEF k, uq
      <4> QED
        BY <4>1 DEF SndPlaced
    <3> QED
      BY <2>1, <3>1, <3>2 DEF SndPlaced
  <2> QED
    BY <2>1, <2>2
<1> HIDE DEF uq
<1>2. all \in Seq(SndBuffer) /\ Len(all) = Len(uq) + Len(snd_avail)
  <2>1. uq \in Seq(SndBuffer) /\ snd_avail \in Seq(SndBuffer)
    BY <1>1 DEF SndPlaced
  <2> QED
    BY <2>1
<1>3. ASSUME NEW i \in 1 .. Len(all) PROVE all[i].id = i
  <2>1. CASE i <= Len(uq)
    <3>1. all[i] = uq[i] /\ i \in 1 .. Len(uq)
      BY <1>1, <2>1 DEF SndPlaced
    <3> QED
      BY <1>1, <3>1
  <2>2. CASE i > Len(uq)
    <3> DEFINE k == i - Len(uq)
    <3>1. all[i] = snd_avail[k] /\ k \in 1 .. Len(snd_avail) /\ Len(uq) + k = i
      BY <1>1, <1>2, <2>2 DEF SndPlaced
    <3> HIDE DEF k, all
    <3> QED
      BY <1>1, <3>1 DEF SndPlaced
  <2> QED
    BY <1>1, <1>2, <2>1, <2>2
<1>4. all = snd_used \o snd_queue \o snd_avail
  BY DEF uq
<1> HIDE DEF all
<1>5. DOMAIN all = 1 .. Len(all) /\ Len(all) = snd_count.transfers
  BY <1>1, <1>2 DEF SndPlaced
<1> QED
  BY <1>3, <1>4, <1>5 DEF SndInOrder

LEMMA PlacedByDrop ==
  ASSUME SndPlaced, SndDropAll, UNCHANGED <<snd_avail, snd_count>>
  PROVE  SndPlaced'
<1>1. /\ snd_used' \in Seq(SndBuffer) /\ Len(snd_used') = Len(snd_used) + Len(snd_queue)
      /\ snd_queue' = <<>>
  BY DEF SndDropAll, SndPlaced
<1>2. ASSUME NEW i \in 1 .. Len(snd_used') PROVE snd_used'[i].id = i
  <2>1. CASE i <= Len(snd_used)
    <3>1. snd_used'[i] = snd_used[i] /\ i \in 1 .. Len(snd_used)
      BY <2>1 DEF SndDropAll, SndPlaced
    <3> QED
      BY <3>1 DEF SndPlaced
  <2>2. CASE i > Len(snd_used)
    <3> DEFINE k == i - Len(snd_used)
    <3>1. snd_used'[i] = snd_queue[k] /\ k \in 1 .. Len(snd_queue) /\ Len(snd_used) + k = i
      BY <1>1, <2>2 DEF SndDropAll, SndPlaced
    <3> HIDE DEF k
    <3> QED
      BY <3>1 DEF SndPlaced
  <2> QED
    BY <1>1, <2>1, <2>2 DEF SndPlaced
<1> QED
  BY <1>1, <1>2 DEF SndPlaced

LEMMA PlacedByDone ==
  ASSUME SndPlaced, SndDone, UNCHANGED <<snd_avail, snd_count>>
  PROVE  SndPlaced'
<1>1. /\ snd_used' \in Seq(SndBuffer) /\ Len(snd_used') = Len(snd_used) + 1
      /\ \A i \in 1 .. Len(snd_used) : snd_used'[i] = snd_used[i]
      /\ snd_used'[Len(snd_used) + 1] = snd_queue[1]
      /\ snd_queue' \in Seq(SndBuffer) /\ Len(snd_queue') = Len(snd_queue) - 1
      /\ \A i \in 1 .. Len(snd_queue') : snd_queue'[i] = snd_queue[i + 1]
      /\ 1 \in 1 .. Len(snd_queue) /\ Len(snd_used) \in Nat /\ Len(snd_queue) \in Nat
  BY DEF SndDone, SndPlaced
<1>2. ASSUME NEW i \in 1 .. Len(snd_used') PROVE snd_used'[i].id = i
  <2>1. i \in 1 .. Len(snd_used) \/ i = Len(snd_used) + 1
    BY <1>1
  <2>2. snd_queue[1].id = Len(snd_used) + 1
    BY <1>1 DEF SndPlaced
  <2>3. \A k \in 1 .. Len(snd_used) : snd_used[k].id = k
    BY DEF SndPlaced
  <2> QED
    BY <1>1, <2>1, <2>2, <2>3
<1>3. ASSUME NEW i \in 1 .. Len(snd_queue') PROVE snd_queue'[i].id = Len(snd_used') + i
  <2>1. i + 1 \in 1 .. Len(snd_queue)
    BY <1>1
  <2>2. snd_queue[i + 1].id = Len(snd_used) + (i + 1)
    BY <2>1 DEF SndPlaced
  <2> QED
    BY <1>1, <2>1, <2>2, SMTT(30)
<1>4. \A i \in 1 .. Len(snd_avail') : snd_avail'[i].id = Len(snd_used') + Len(snd_queue') + i
  BY <1>1 DEF SndPlaced
<1>5. Len(snd_used') + Len(snd_queue') + Len(snd_avail') = snd_count'.transfers
  BY <1>1 DEF SndPlaced
<1> QED
  BY <1>1, <1>2, <1>3, <1>4, <1>5 DEF SndPlaced

LEMMA PlacedByPush == SndPlaced /\ SndPush => SndPlaced'
<1> SUFFICES ASSUME SndPlaced, SndPush PROVE SndPlaced'
  OBVIOUS
<1>1. /\ snd_queue' \in Seq(SndBuffer) /\ Len(snd_queue') = Len(snd_queue) + 1
      /\ \A i \in 1 .. Len(snd_queue) : snd_queue'[i] = snd_queue[i]
      /\ snd_queue'[Len(snd_queue) + 1] = snd_avail[1]
      /\ snd_avail' \in Seq(SndBuffer) /\ Len(snd_avail') = Len(snd_avail) - 1
      /\ \A i \in 1 .. Len(snd_avail') : snd_avail'[i] = snd_avail[i + 1]
      /\ 1 \in 1 .. Len(snd_avail) /\ Len(snd_avail) \in Nat /\ Len(snd_queue) \in Nat /\ Len(snd_used) \in Nat
      /\ UNCHANGED <<snd_used, snd_count>>
  BY DEF SndPush, SndPlaced
<1>2. ASSUME NEW i \in 1 .. Len(snd_queue') PROVE snd_queue'[i].id = Len(snd_used') + i
  <2>1. i \in 1 .. Len(snd_queue) \/ i = Len(snd_queue) + 1
    BY <1>1
  <2>2. CASE i \in 1 .. Len(snd_queue)
    <3>1. snd_queue'[i] = snd_queue[i] /\ snd_used' = snd_used
      BY <1>1, <2>2
    <3>2. snd_queue[i].id = Len(snd_used) + i
      BY <2>2 DEF SndPlaced
    <3> QED
      BY <3>1, <3>2
  <2>3. CASE i = Len(snd_queue) + 1
    <3>1. snd_queue'[i] = snd_avail[1] /\ snd_used' = snd_used
      BY <1>1, <2>3
    <3>2. snd_avail[1].id = Len(snd_used) + Len(snd_queue) + 1
      BY <1>1 DEF SndPlaced
    <3>3. Len(snd_used) + Len(snd_queue) + 1 = Len(snd_used) + i
      BY <1>1, <2>3
    <3> QED
      BY <3>1, <3>2, <3>3
  <2> QED
    BY <2>1, <2>2, <2>3
<1>3. ASSUME NEW i \in 1 .. Len(snd_avail')
      PROVE  snd_avail'[i].id = Len(snd_used') + Len(snd_queue') + i
  <2>1. i + 1 \in 1 .. Len(snd_avail)
    BY <1>1
  <2>2. snd_avail[i + 1].id = Len(snd_used) + Len(snd_queue) + (i + 1)
    BY <2>1 DEF SndPlaced
  <2> QED
    BY <1>1, <2>1, <2>2
<1>4. Len(snd_used') + Len(snd_queue') + Len(snd_avail') = snd_count'.transfers
  BY <1>1 DEF SndPlaced
<1> QED
  BY <1>1, <1>2, <1>3, <1>4 DEF SndPlaced

LEMMA PlacedByTransfer ==
  ASSUME SndPlaced, NEW empty \in BOOLEAN, SndGuestTransfer(empty)
  PROVE  SndPlaced'
<1> DEFINE n == snd_count.transfers + 1
           b == [id |-> n, empty |-> empty]
<1>1. n \in Nat /\ b \in SndBuffer /\ b.id = n
  BY DEF SndBuffer, SndPlaced
<1>2. snd_avail' = Append(snd_avail, b) /\ UNCHANGED <<snd_used, snd_queue>>
  BY DEF SndGuestTransfer
<1>3. snd_count' \in [controls : Nat, transfers : Nat] /\ snd_count'.transfers = n
  <2>1. snd_count \in [controls : Nat, transfers : Nat]
    BY DEF SndPlaced
  <2>2. snd_count' = [snd_count EXCEPT !.transfers = n]
    BY DEF SndGuestTransfer
  <2> HIDE DEF n
  <2> QED
    BY <1>1, <2>1, <2>2
<1> HIDE DEF b
<1>4. /\ snd_avail' \in Seq(SndBuffer) /\ Len(snd_avail') = Len(snd_avail) + 1
      /\ \A i \in 1 .. Len(snd_avail) : snd_avail'[i] = snd_avail[i]
      /\ snd_avail'[Len(snd_avail) + 1] = b
      /\ Len(snd_avail) \in Nat /\ Len(snd_queue) \in Nat /\ Len(snd_used) \in Nat
  BY <1>1, <1>2 DEF SndPlaced
<1>5. ASSUME NEW i \in 1 .. Len(snd_avail')
      PROVE  snd_avail'[i].id = Len(snd_used') + Len(snd_queue') + i
  <2>1. i \in 1 .. Len(snd_avail) \/ i = Len(snd_avail) + 1
    BY <1>4
  <2>2. n = Len(snd_used) + Len(snd_queue) + (Len(snd_avail) + 1)
    BY <1>4 DEF SndPlaced
  <2>3. \A k \in 1 .. Len(snd_avail) : snd_avail[k].id = Len(snd_used) + Len(snd_queue) + k
    BY DEF SndPlaced
  <2> HIDE DEF n
  <2> QED
    BY <1>1, <1>2, <1>4, <2>1, <2>2, <2>3
<1>6. snd_count'.transfers = Len(snd_used') + Len(snd_queue') + Len(snd_avail')
  BY <1>2, <1>3, <1>4 DEF SndPlaced
<1>7. /\ \A i \in 1 .. Len(snd_used') : snd_used'[i].id = i
      /\ \A i \in 1 .. Len(snd_queue') : snd_queue'[i].id = Len(snd_used') + i
      /\ snd_used' \in Seq(SndBuffer) /\ snd_queue' \in Seq(SndBuffer)
  BY <1>2 DEF SndPlaced
<1> HIDE DEF n
<1> QED
  BY <1>3, <1>4, <1>5, <1>6, <1>7 DEF SndPlaced
-----------------------------------------------------------------------------
(***************************************************************************)
(* What a message of the guest may do, whatever the backend: the buffers   *)
(* stay or are all given back, and only what is said here happens to the   *)
(* stream, the threads and the worker's messages.                          *)
(***************************************************************************)
SndEffect ==
  /\ UNCHANGED <<snd_mode, snd_avail, snd_count, snd_io, snd_worker>>
  /\ UNCHANGED <<snd_queue, snd_used>> \/ SndDropAll
  /\ snd_dead' \in {snd_dead, snd_dead \cup SndThread("control")}
  /\ snd_channel' \in {snd_channel, Append(snd_channel, TRUE), Append(snd_channel, FALSE)}
  /\ snd_error => snd_error'
  /\ snd_state' \in DOMAIN SndFrom /\ snd_host' \in {"none", "paused", "active"}
  /\ snd_state' = "Release" => snd_state = "Release" \/ snd_queue' = <<>> \/ snd_error'
  /\ snd_mode.backend = "alsa" /\ snd_state' = "Start" =>
       snd_state = "Start" \/ snd_channel' = Append(snd_channel, TRUE) \/ snd_dead' # {}
  /\ snd_mode.backend \in {"none", "null"} => snd_state' = snd_state
  /\ snd_mode # NoSound
  /\ SndHostThere'

LEMMA EffectOfAlsa ==
  ASSUME SndIInv, SndMayRun("control"), snd_mode.backend = "alsa", NEW c, SndAlsa(c),
         UNCHANGED <<snd_mode, snd_avail, snd_count, snd_io, snd_worker>>
  PROVE  SndEffect
<1> USE DEF SndIInv, SndTypeOK, SndEffect, SndFrom, SndMay, SndMoves, SndPanic, SndSame, SndIdleWorker,
            SndTell, SndThread, SndRefused, SndHosted, SndHostThere, SndMayRun
<1>1. CASE SndAlsaSetParams
  BY <1>1 DEF SndAlsaSetParams, sndLife
<1>2. CASE SndAlsaPrepare
  BY <1>2 DEF SndAlsaPrepare, sndLife
<1>3. CASE SndAlsaStart
  BY <1>3 DEF SndAlsaStart, sndLife
<1>4. CASE SndAlsaStop
  BY <1>4 DEF SndAlsaStop, sndLife
<1>5. CASE SndAlsaRelease
  BY <1>5 DEF SndAlsaRelease, SndDropAll, sndLife
<1> QED
  BY <1>1, <1>2, <1>3, <1>4, <1>5 DEF SndAlsa

LEMMA EffectOfPipewire ==
  ASSUME SndIInv, SndMayRun("control"), snd_mode.backend = "pipewire", NEW c, SndPipewire(c),
         UNCHANGED <<snd_mode, snd_avail, snd_count, snd_io, snd_worker>>
  PROVE  SndEffect
<1> USE DEF SndIInv, SndTypeOK, SndEffect, SndFrom, SndMay, SndMoves, SndPanic, SndSame, SndIdleWorker,
            SndTell, SndThread, SndRefused, SndHosted, SndHostThere, SndMayRun
<1>1. ASSUME NEW bad, SndPwSetParams(bad) PROVE SndEffect
  BY <1>1 DEF SndPwSetParams, sndLife
<1>2. CASE SndPwPrepare
  BY <1>2 DEF SndPwPrepare, sndLife
<1>3. CASE SndPwStart
  BY <1>3 DEF SndPwStart, sndLife
<1>4. CASE SndPwStop
  BY <1>4 DEF SndPwStop, sndLife
<1>5. CASE SndPwRelease
  BY <1>5 DEF SndPwRelease, SndDropAll, sndLife
<1> QED
  BY <1>1, <1>2, <1>3, <1>4, <1>5 DEF SndPipewire

LEMMA EffectOfGStreamer ==
  ASSUME SndIInv, SndMayRun("control"), snd_mode.backend = "gstreamer", NEW c, SndGStreamer(c),
         UNCHANGED <<snd_mode, snd_avail, snd_count, snd_io, snd_worker>>
  PROVE  SndEffect
<1> USE DEF SndIInv, SndTypeOK, SndEffect, SndFrom, SndMay, SndMoves, SndPanic, SndSame, SndIdleWorker,
            SndTell, SndThread, SndRefused, SndHosted, SndHostThere, SndMayRun
<1>1. ASSUME NEW bad, SndGstSetParams(bad) PROVE SndEffect
  BY <1>1 DEF SndGstSetParams, SndPwSetParams, sndLife
<1>2. CASE SndGstPrepare
  BY <1>2 DEF SndGstPrepare, sndLife
<1>3. CASE SndGstStart
  BY <1>3 DEF SndGstStart, sndLife
<1>4. CASE SndGstStop
  BY <1>4 DEF SndGstStop, sndLife
<1>5. CASE SndGstRelease
  BY <1>5 DEF SndGstRelease, SndDropAll, sndLife
<1> QED
  BY <1>1, <1>2, <1>3, <1>4, <1>5 DEF SndGStreamer

LEMMA EffectOfControl ==
  ASSUME SndIInv, SndControl
  PROVE  SndEffect
<1>1. /\ UNCHANGED <<snd_mode, snd_avail, snd_count, snd_io, snd_worker>>
      /\ SndMayRun("control")
  BY DEF SndControl
<1>2. CASE UNCHANGED <<sndStream, snd_queue, snd_used>> /\ SndIdleWorker
             /\ snd_dead' \in {snd_dead, snd_dead \cup SndThread("control")}
  <2> USE <1>1, <1>2 DEF sndStream, SndIdleWorker
  <2>1. SndHostThere'
    BY DEF SndHostThere, SndIInv, SndHosted
  <2>2. snd_mode # NoSound
    BY DEF SndMayRun
  <2> QED
    BY <2>1, <2>2 DEF SndEffect, SndIInv, SndTypeOK
<1>3. CASE snd_mode.backend = "alsa" /\ SndAlsa(snd_control)
  BY <1>1, <1>3, EffectOfAlsa
<1>4. CASE snd_mode.backend = "pipewire" /\ SndPipewire(snd_control)
  BY <1>1, <1>4, EffectOfPipewire
<1>5. CASE snd_mode.backend = "gstreamer" /\ SndGStreamer(snd_control)
  BY <1>1, <1>5, EffectOfGStreamer
<1> QED
  BY <1>2, <1>3, <1>4, <1>5 DEF SndControl, SndInfo, SndNull, sndLife

\* Messages in a channel, whatever they are.
Messages(s) == {s[i] : i \in DOMAIN s}

LEMMA MessageSent ==
  ASSUME NEW S, NEW s \in Seq(S), NEW x \in S
  PROVE  /\ Append(s, x) \in Seq(S) /\ x \in Messages(Append(s, x))
         /\ Messages(s) \subseteq Messages(Append(s, x))
<1>1. /\ Append(s, x) \in Seq(S) /\ DOMAIN Append(s, x) = 1 .. Len(s) + 1
      /\ \A i \in DOMAIN s : i \in 1 .. Len(s) + 1 /\ Append(s, x)[i] = s[i]
      /\ Append(s, x)[Len(s) + 1] = x /\ Len(s) \in Nat
  OBVIOUS
<1>2. ASSUME NEW i \in DOMAIN s PROVE \E j \in DOMAIN Append(s, x) : Append(s, x)[j] = s[i]
  BY <1>1
<1>3. \E j \in DOMAIN Append(s, x) : Append(s, x)[j] = x
  BY <1>1
<1> QED
  BY <1>1, <1>2, <1>3, Zenon DEF Messages

LEMMA WordSent ==
  \A s \in Seq(BOOLEAN) : \A x \in BOOLEAN :
    /\ Append(s, x) \in Seq(BOOLEAN) /\ x \in Messages(Append(s, x))
    /\ Messages(s) \subseteq Messages(Append(s, x))
BY MessageSent, Zenon

LEMMA MessageTaken ==
  ASSUME NEW S, NEW s \in Seq(S), s # <<>>
  PROVE  /\ Tail(s) \in Seq(S)
         /\ \A x \in Messages(s) : x = Head(s) \/ x \in Messages(Tail(s))
<1>1. Tail(s) \in Seq(S)
  OBVIOUS
<1>2. ASSUME NEW i \in DOMAIN s
      PROVE  s[i] = Head(s) \/ \E j \in DOMAIN Tail(s) : Tail(s)[j] = s[i]
  <2>1. CASE i = 1
    BY <2>1
  <2>2. CASE i # 1
    <3>1. i - 1 \in DOMAIN Tail(s) /\ Tail(s)[i - 1] = s[i]
      BY <2>2
    <3> QED
      BY <3>1
  <2> QED
    BY <2>1, <2>2
<1> QED
  BY <1>1, <1>2, Zenon DEF Messages

LEMMA FlagsByControl ==
  ASSUME SndTypeOK, SndControl
  PROVE  snd_params' \in BOOLEAN /\ snd_poison' \in BOOLEAN /\ snd_error' \in BOOLEAN
<1> USE DEF SndPanic, SndSame, SndIdleWorker, SndRefused, sndLife, sndStream
<1>1. /\ snd_params \in BOOLEAN /\ snd_poison \in BOOLEAN /\ snd_error \in BOOLEAN
  BY DEF SndTypeOK
<1>2. ASSUME NEW c, SndAlsa(c)
      PROVE  snd_params' \in BOOLEAN /\ snd_poison' \in BOOLEAN /\ snd_error' \in BOOLEAN
  BY <1>1, <1>2, Zenon DEF SndAlsa, SndAlsaSetParams, SndAlsaPrepare, SndAlsaStart, SndAlsaStop, SndAlsaRelease
<1>3. ASSUME NEW bad, SndPwSetParams(bad)
      PROVE  snd_params' \in BOOLEAN /\ snd_poison' \in BOOLEAN /\ snd_error' \in BOOLEAN
  <2>1. snd_params' = snd_params \/ snd_params' = FALSE \/ snd_params' = TRUE
    BY <1>3 DEF SndPwSetParams
  <2>2. UNCHANGED <<snd_poison, snd_error>>
    BY <1>3 DEF SndPwSetParams
  <2> QED
    BY <1>1, <2>1, <2>2, Zenon
<1>4. ASSUME NEW c, SndPipewire(c)
      PROVE  snd_params' \in BOOLEAN /\ snd_poison' \in BOOLEAN /\ snd_error' \in BOOLEAN
  BY <1>1, <1>3, <1>4, Zenon DEF SndPipewire, SndPwPrepare, SndPwStart, SndPwStop, SndPwRelease
<1>5. ASSUME NEW c, SndGStreamer(c)
      PROVE  snd_params' \in BOOLEAN /\ snd_poison' \in BOOLEAN /\ snd_error' \in BOOLEAN
  BY <1>1, <1>3, <1>5, Zenon DEF SndGStreamer, SndGstSetParams, SndGstPrepare, SndGstStart, SndGstStop, SndGstRelease
<1> QED
  BY <1>1, <1>2, <1>4, <1>5, Zenon DEF SndControl, SndInfo, SndNull

LEMMA ByControl == SndIInv /\ SndControl => SndIInv'
<1> SUFFICES ASSUME SndIInv, SndControl PROVE SndIInv'
  OBVIOUS
<1>1. SndEffect
  BY EffectOfControl
<1>2. SndPlaced'
  <2>1. CASE UNCHANGED <<snd_queue, snd_used>>
    BY <1>1, <2>1 DEF SndEffect, SndIInv, SndPlaced
  <2>2. CASE SndDropAll
    BY <1>1, <2>2, PlacedByDrop DEF SndEffect, SndIInv
  <2> QED
    BY <1>1, <2>1, <2>2 DEF SndEffect
<1>3. snd_dead \subseteq snd_dead' /\ snd_dead' \subseteq {"control", "io"}
  BY <1>1 DEF SndEffect, SndThread, SndIInv, SndTypeOK
<1>4. snd_queue' = snd_queue \/ snd_queue' = <<>>
  BY <1>1 DEF SndEffect, SndDropAll
<1>5. SndReleased'
  BY <1>1, <1>3, <1>4 DEF SndEffect, SndIInv, SndReleased
<1>6. SndWorkerTold'
  <2> SUFFICES ASSUME snd_mode.backend = "alsa", snd_state' = "Start", snd_queue' # <<>>,
                      snd_worker = "recv", TRUE \notin {snd_channel'[i] : i \in DOMAIN snd_channel'},
                      snd_io = "idle"
               PROVE  snd_error' \/ snd_dead' # {}
    BY <1>1 DEF SndEffect, SndWorkerTold
  <2>1. snd_channel \in Seq(BOOLEAN)
    BY DEF SndIInv, SndTypeOK
  <2>2. TRUE \notin Messages(snd_channel')
    BY Zenon DEF Messages
  <2>3. snd_channel' # Append(snd_channel, TRUE)
    <3>1. TRUE \in Messages(Append(snd_channel, TRUE))
      BY <2>1, WordSent, Zenon
    <3> QED
      BY <2>2, <3>1, Zenon
  <2>4. Messages(snd_channel) \subseteq Messages(snd_channel')
    <3>1. /\ Messages(snd_channel) \subseteq Messages(Append(snd_channel, TRUE))
          /\ Messages(snd_channel) \subseteq Messages(Append(snd_channel, FALSE))
      BY <2>1, WordSent, Zenon
    <3>2. snd_channel' = snd_channel \/ snd_channel' = Append(snd_channel, TRUE)
            \/ snd_channel' = Append(snd_channel, FALSE)
      BY <1>1, Zenon DEF SndEffect
    <3> QED
      BY <3>1, <3>2, Zenon
  <2>5. TRUE \notin {snd_channel[i] : i \in DOMAIN snd_channel}
    BY <2>2, <2>4, Zenon DEF Messages
  <2> QED
    BY <1>1, <1>3, <1>4, <2>3, <2>5 DEF SndEffect, SndIInv, SndWorkerTold
<1>7. SndTypeOK'
  <2>1. snd_channel' \in Seq(BOOLEAN)
    <3>1. snd_channel \in Seq(BOOLEAN)
      BY DEF SndIInv, SndTypeOK
    <3> QED
      BY <1>1, <3>1, WordSent, Zenon DEF SndEffect
  <2>2. snd_params' \in BOOLEAN /\ snd_poison' \in BOOLEAN /\ snd_error' \in BOOLEAN
    BY FlagsByControl DEF SndIInv
  <2>3. snd_control' = "none"
    BY DEF SndControl
  <2>4. /\ snd_mode'.backend \in SndBackends \union {"none"} /\ snd_mode'.multi \in BOOLEAN
        /\ snd_state' \in DOMAIN SndFrom /\ snd_host' \in {"none", "paused", "active"}
        /\ snd_io' \in {"idle", "push", "write"} /\ snd_worker' \in {"recv", "look", "play"}
    BY <1>1 DEF SndEffect, SndIInv, SndTypeOK
  <2> QED
    BY <1>3, <2>1, <2>2, <2>3, <2>4, Zenon DEF SndTypeOK
<1>8. SndUntouched'
  BY <1>1 DEF SndEffect, SndIInv, SndUntouched
<1> QED
  BY <1>1, <1>2, <1>5, <1>6, <1>7, <1>8 DEF SndIInv, SndEffect

\* A step that leaves the stream as it is, and ends no thread but that of the
\* transfer queue.
LEMMA ByWork ==
  ASSUME SndIInv, UNCHANGED <<snd_mode, sndStream, snd_poison>>, snd_dead \subseteq snd_dead'
  PROVE  SndUntouched' /\ SndHostThere'
BY DEF SndIInv, SndUntouched, SndHostThere, SndHosted, sndStream

LEMMA ByPush == SndIInv /\ SndPush => SndIInv'
<1> SUFFICES ASSUME SndIInv, SndPush PROVE SndIInv'
  OBVIOUS
<1>1. /\ UNCHANGED <<snd_mode, sndStream, snd_control, sndLife, sndWork>>
      /\ snd_io' \in {"push", "write"}
  BY DEF SndPush
<1>2. SndPlaced'
  BY PlacedByPush DEF SndIInv
<1>3. SndReleased' /\ SndWorkerTold'
  BY <1>1 DEF SndReleased, SndWorkerTold
<1>4. SndTypeOK'
  BY <1>1, Zenon DEF SndIInv, SndTypeOK, sndStream, sndLife, sndWork
<1> QED
  BY <1>1, <1>2, <1>3, <1>4, ByWork DEF SndIInv, sndLife

LEMMA ByAsk == SndIInv /\ SndAsk => SndIInv'
<1> SUFFICES ASSUME SndIInv, SndAsk PROVE SndIInv'
  OBVIOUS
<1>1. /\ UNCHANGED <<snd_mode, sndStream, snd_avail, snd_control, snd_count, snd_poison, snd_worker, snd_error>>
      /\ snd_io' = "idle"
  BY DEF SndAsk
<1>2. SndPlaced' /\ (snd_queue' = snd_queue \/ snd_queue' = <<>>)
  <2>1. CASE UNCHANGED <<snd_queue, snd_used>>
    BY <1>1, <2>1 DEF SndIInv, SndPlaced
  <2>2. CASE SndDropAll
    BY <1>1, <2>2, PlacedByDrop DEF SndIInv, SndDropAll
  <2> QED
    BY <2>1, <2>2 DEF SndAsk, SndDropAll
<1>3. CASE snd_poison \/ (snd_mode.backend # "null" /\ snd_state \notin {"Start", "Prepare"})
  <2>1. snd_dead' = snd_dead \cup SndThread("io") /\ UNCHANGED snd_channel
    BY <1>3 DEF SndAsk
  <2>2. snd_dead \subseteq snd_dead' /\ "io" \in snd_dead' /\ snd_dead' \subseteq {"control", "io"}
    BY <2>1 DEF SndThread, SndIInv, SndTypeOK
  <2>3. SndReleased' /\ SndWorkerTold'
    BY <2>2 DEF SndReleased, SndWorkerTold
  <2>4. SndTypeOK'
    BY <1>1, <2>1, <2>2, Zenon DEF SndIInv, SndTypeOK, sndStream
  <2> QED
    BY <1>1, <1>2, <2>2, <2>3, <2>4, ByWork DEF SndIInv
<1>4. CASE ~(snd_poison \/ (snd_mode.backend # "null" /\ snd_state \notin {"Start", "Prepare"}))
  <2>1. /\ snd_dead' = snd_dead
        /\ snd_channel' = IF snd_mode.backend = "alsa" THEN Append(snd_channel, TRUE) ELSE snd_channel
    BY <1>4 DEF SndAsk
  <2>2. snd_channel \in Seq(BOOLEAN)
    BY DEF SndIInv, SndTypeOK
  <2>3. /\ snd_channel' \in Seq(BOOLEAN)
        /\ snd_mode.backend = "alsa" => TRUE \in Messages(snd_channel')
    <3>1. Append(snd_channel, TRUE) \in Seq(BOOLEAN) /\ TRUE \in Messages(Append(snd_channel, TRUE))
      BY <2>2, WordSent, Zenon
    <3> QED
      BY <2>1, <2>2, <3>1, Zenon
  <2>4. snd_mode.backend = "alsa" => TRUE \in {snd_channel'[i] : i \in DOMAIN snd_channel'}
    BY <2>3, Zenon DEF Messages
  <2>5. snd_state # "Release"
    BY <1>4 DEF SndIInv, SndUntouched
  <2>6. SndReleased' /\ SndWorkerTold'
    BY <1>1, <2>4, <2>5 DEF SndReleased, SndWorkerTold, sndStream
  <2>7. SndTypeOK'
    BY <1>1, <2>1, <2>3, Zenon DEF SndIInv, SndTypeOK, sndStream
  <2> QED
    BY <1>1, <1>2, <2>1, <2>6, <2>7, ByWork DEF SndIInv
<1> QED
  BY <1>3, <1>4

LEMMA ByReceive == SndIInv /\ SndReceive => SndIInv'
<1> SUFFICES ASSUME SndIInv, SndReceive PROVE SndIInv'
  OBVIOUS
<1>1. /\ SndHost /\ UNCHANGED <<snd_queue, snd_used, snd_error>>
      /\ snd_channel # <<>> /\ snd_channel' = Tail(snd_channel)
      /\ snd_worker = "recv" /\ snd_worker' \in {"look", "recv"}
      /\ snd_worker' = "recv" => ~Head(snd_channel)
  BY DEF SndReceive
<1>2. snd_channel \in Seq(BOOLEAN)
  BY DEF SndIInv, SndTypeOK
<1>3. /\ snd_channel' \in Seq(BOOLEAN)
      /\ \A x \in Messages(snd_channel) : x = Head(snd_channel) \/ x \in Messages(snd_channel')
  BY <1>1, <1>2, MessageTaken, Zenon
<1>4. SndPlaced' /\ SndReleased'
  BY <1>1 DEF SndHost, SndIInv, SndPlaced, SndReleased, sndStream, sndLife
<1>5. SndWorkerTold'
  <2> SUFFICES ASSUME snd_worker' = "recv", TRUE \notin {snd_channel'[i] : i \in DOMAIN snd_channel'}
               PROVE  TRUE \notin {snd_channel[i] : i \in DOMAIN snd_channel}
    BY <1>1 DEF SndHost, SndIInv, SndWorkerTold, sndStream, sndLife
  <2> QED
    BY <1>1, <1>3, Zenon DEF Messages
<1>6. SndTypeOK'
  BY <1>1, <1>3, Zenon DEF SndHost, SndIInv, SndTypeOK, sndStream, sndLife
<1> QED
  BY <1>1, <1>4, <1>5, <1>6, ByWork DEF SndIInv, SndHost, sndLife

LEMMA ByLook == SndIInv /\ SndLook => SndIInv'
<1> SUFFICES ASSUME SndIInv, SndLook PROVE SndIInv'
  OBVIOUS
<1>1. /\ SndHost /\ UNCHANGED <<snd_queue, snd_used, snd_channel, snd_error>>
      /\ snd_worker' = IF snd_queue # <<>> /\ snd_state = "Start" THEN "play" ELSE "recv"
  BY DEF SndLook
<1>2. SndPlaced' /\ SndReleased'
  BY <1>1 DEF SndHost, SndIInv, SndPlaced, SndReleased, sndStream, sndLife
<1>3. SndWorkerTold'
  BY <1>1 DEF SndHost, SndWorkerTold, sndStream
<1>4. SndTypeOK'
  <2>1. snd_worker' \in {"recv", "look", "play"}
    BY <1>1
  <2> QED
    BY <1>1, <2>1, Zenon DEF SndHost, SndIInv, SndTypeOK, sndStream, sndLife
<1> QED
  BY <1>1, <1>2, <1>3, <1>4, ByWork DEF SndIInv, SndHost, sndLife

\* A buffer is given back, or none, by the worker or by a callback.
LEMMA ByDone ==
  ASSUME SndIInv, SndHost, SndDone \/ UNCHANGED <<snd_queue, snd_used>>, UNCHANGED snd_channel,
         \/ snd_worker' = "look" /\ UNCHANGED snd_error
         \/ snd_worker' = "recv" /\ snd_error' = TRUE
         \/ UNCHANGED <<snd_worker, snd_error>>
  PROVE  SndIInv'
<1>1. SndPlaced'
  <2>1. CASE SndDone
    BY <2>1, PlacedByDone DEF SndIInv, SndHost
  <2>2. CASE UNCHANGED <<snd_queue, snd_used>>
    BY <2>2 DEF SndHost, SndIInv, SndPlaced
  <2> QED
    BY <2>1, <2>2
<1>2. snd_queue' # <<>> => snd_queue # <<>>
  BY DEF SndDone
<1>3. snd_error => snd_error'
  BY Zenon
<1>4. SndReleased'
  BY <1>2, <1>3 DEF SndHost, SndIInv, SndReleased, sndStream, sndLife
<1>5. SndWorkerTold'
  BY <1>2 DEF SndHost, SndIInv, SndWorkerTold, sndStream, sndLife
<1>6. SndTypeOK'
  <2>1. snd_worker' \in {"recv", "look", "play"}
    BY DEF SndIInv, SndTypeOK
  <2>2. snd_error' \in BOOLEAN
    BY Zenon DEF SndIInv, SndTypeOK
  <2> QED
    BY <2>1, <2>2, Zenon DEF SndHost, SndIInv, SndTypeOK, sndStream, sndLife
<1> QED
  BY <1>1, <1>4, <1>5, <1>6, ByWork DEF SndIInv, SndHost, sndLife

LEMMA ByGuest ==
  ASSUME SndIInv,
         \/ \E c \in SndCommands : SndGuestControl(c)
         \/ \E empty \in BOOLEAN : SndGuestTransfer(empty)
  PROVE  SndIInv'
<1>1. /\ UNCHANGED <<snd_mode, sndStream, snd_queue, snd_used, snd_io, sndLife, sndWork>>
      /\ snd_control' = snd_control \/ snd_control' \in SndCommands
  BY DEF SndGuestControl, SndGuestTransfer
<1>2. SndPlaced'
  <2>1. ASSUME NEW c \in SndCommands, SndGuestControl(c) PROVE SndPlaced'
    <3>1. /\ snd_count' = [snd_count EXCEPT !.controls = @ + 1]
          /\ UNCHANGED <<snd_avail, snd_queue, snd_used>>
      BY <2>1 DEF SndGuestControl
    <3>2. snd_count \in [controls : Nat, transfers : Nat]
      BY DEF SndIInv, SndPlaced
    <3>3. snd_count' \in [controls : Nat, transfers : Nat] /\ snd_count'.transfers = snd_count.transfers
      BY <3>1, <3>2
    <3> QED
      BY <3>1, <3>3 DEF SndIInv, SndPlaced
  <2> QED
    BY <2>1, PlacedByTransfer DEF SndIInv
<1>3. SndReleased' /\ SndWorkerTold'
  BY <1>1 DEF SndIInv, SndReleased, SndWorkerTold, sndStream, sndLife, sndWork
<1>4. SndTypeOK'
  BY <1>1, ZenonT(40) DEF SndIInv, SndTypeOK, sndStream, sndLife, sndWork
<1> QED
  BY <1>1, <1>2, <1>3, <1>4, ByWork DEF SndIInv, sndLife

LEMMA ByStart ==
  ASSUME SndIInv, NEW b \in SndBackends, NEW m \in BOOLEAN, NEW d \in {"input", "output"},
         SndStartBackend(b, m, d)
  PROVE  SndIInv'
<1>1. /\ snd_mode = NoSound /\ snd_mode' = [backend |-> b, multi |-> m, direction |-> d]
      /\ UNCHANGED <<sndStream, snd_avail, snd_queue, snd_used, snd_control, snd_count, snd_io, sndLife, sndWork>>
  BY DEF SndStartBackend
<1>2. snd_host = "none" /\ snd_state = "SetParameters"
  BY <1>1 DEF SndIInv, SndUntouched
<1>3. SndPlaced' /\ SndReleased' /\ SndWorkerTold' /\ SndHostThere' /\ SndUntouched'
  BY <1>1, <1>2 DEF SndIInv, SndPlaced, SndReleased, SndWorkerTold, SndHostThere, SndUntouched, sndStream
<1>4. snd_mode'.backend \in SndBackends \union {"none"} /\ snd_mode'.multi \in BOOLEAN
  BY <1>1
<1>5. SndTypeOK'
  BY <1>1, <1>4, Zenon DEF SndIInv, SndTypeOK, sndStream, sndLife, sndWork
<1> QED
  BY <1>3, <1>5 DEF SndIInv

-----------------------------------------------------------------------------
\* The guest's buffers come back in order and from a released stream, the
\* worker is told of them and the look-ups of the host's stream never panic,
\* for any number of buffers and messages and every backend (device.rs,
\* stream.rs, audio_backends/).
THEOREM SoundHolds == SndSpec => []SndInv
<1>1. SndInit => SndIInv
  <2> SUFFICES ASSUME SndInit PROVE SndIInv
    OBVIOUS
  <2>1. SndPlaced /\ SndUntouched /\ SndReleased /\ SndWorkerTold /\ SndHostThere
    BY DEF SndInit, SndPlaced, SndUntouched, SndReleased, SndWorkerTold, SndHostThere, SndHosted, NoSound
  <2>2. SndTypeOK
    <3>1. /\ snd_mode.backend \in SndBackends \union {"none"} /\ snd_mode.multi \in BOOLEAN
          /\ snd_state \in DOMAIN SndFrom /\ snd_dead \subseteq {"control", "io"}
      BY DEF SndInit, NoSound, SndFrom
    <3>2. snd_params \in BOOLEAN /\ snd_poison \in BOOLEAN /\ snd_error \in BOOLEAN
      BY Zenon DEF SndInit
    <3>3. /\ snd_host \in {"none", "paused", "active"} /\ snd_control \in SndCommands \union {"none"}
          /\ snd_io \in {"idle", "push", "write"} /\ snd_worker \in {"recv", "look", "play"}
      BY DEF SndInit
    <3>4. snd_channel \in Seq(BOOLEAN)
      <4>1. \A S : <<>> \in Seq(S)
        OBVIOUS
      <4> QED
        BY <4>1, Zenon DEF SndInit
    <3> QED
      BY <3>1, <3>2, <3>3, <3>4, Zenon DEF SndTypeOK
  <2> QED
    BY <2>1, <2>2 DEF SndIInv
<1>2. SndIInv /\ [SndNext]_SndVars => SndIInv'
  <2> SUFFICES ASSUME SndIInv, [SndNext]_SndVars PROVE SndIInv'
    OBVIOUS
  <2>1. CASE SndPlay
    BY <2>1, ByDone DEF SndPlay, SndWriteDirect, SndWriteIo, SndReadDirect, SndReadIo
  <2>2. CASE SndCallback
    BY <2>2, ByDone DEF SndCallback, SndPwProcess, SndGstSample, SndGstNeedData, sndWork
  <2>3. CASE UNCHANGED SndVars
    <3>1. SndTypeOK' /\ SndPlaced'
      BY <2>3, ZenonT(40) DEF SndIInv, SndTypeOK, SndPlaced, SndVars, sndStream, sndLife, sndWork
    <3>2. SndReleased' /\ SndWorkerTold'
      BY <2>3 DEF SndIInv, SndReleased, SndWorkerTold, SndVars, sndStream, sndLife, sndWork
    <3> QED
      BY <2>3, <3>1, <3>2, ByWork DEF SndIInv, SndVars, sndLife
  <2> QED
    BY <2>1, <2>2, <2>3, ByControl, ByPush, ByAsk, ByReceive, ByLook, ByGuest, ByStart DEF SndNext
<1>3. SndIInv => SndInv
  BY PlacedInOrder DEF SndIInv, SndInv
<1> QED
  BY <1>1, <1>2, <1>3, PTL DEF SndSpec

-----------------------------------------------------------------------------
(***************************************************************************)
(* One stream of the decoder, for any resources, any batches of commands   *)
(* and any number of event buffers, whichever ioctl() fails.  VideoInv is  *)
(* not inductive.  What has to be known besides: that no two resources of  *)
(* a queue have the same number (VideoDistinct); that the device is done   *)
(* with a buffer once, and not while it holds it (VideoDoneOnce), so that  *)
(* what the worker takes is gone from the device; that the worker finds    *)
(* what the poller told it of (VideoTakes); and that a resource has one    *)
(* future at most, and none when the guest queues it (VideoAsksOnce),      *)
(* which is what lets the future that answers leave nobody waiting.  A     *)
(* command is judged by its outcome alone (VideoEffect).                   *)
(***************************************************************************)
VideoResources == [id : VideoIds, state : VideoResourceStates]
VideoRequests  == UNION {ToSet(b) : b \in VideoBatches}
VideoPhases    == {"new", "woken", "checked", "waiting", "last", "stranded"}
VideoTasks     == [q : VideoQueues, id : VideoIds, phase : VideoPhases]

VideoRings == [avail : Seq(VideoRequests), batch : Seq(VideoRequests), used : Nat]
VideoStreams == [state : VideoStates, on : [VideoQueues -> BOOLEAN], res : [VideoQueues -> Seq(VideoResources)]]
VideoDevices ==
  [VideoQueues -> [count : Nat, on : BOOLEAN, held : SUBSET Nat, done : Seq([index : Nat, eos : BOOLEAN])]]

\* No two resources of a queue have the same number.
VideoDistinct(s) ==
  \A q \in VideoQueues : \A i, j \in DOMAIN s.res[q] : s.res[q][i].id = s.res[q][j].id => i = j

\* The device is done with a buffer once.
VideoDoneOnce(h) ==
  \A q \in VideoQueues :
    /\ \A i \in DOMAIN h[q].done : h[q].done[i].index \notin h[q].held
    /\ \A i, j \in DOMAIN h[q].done : h[q].done[i].index = h[q].done[j].index => i = j

VideoQueued(s, q) == {i \in DOMAIN s.res[q] : s.res[q][i].state = "Queued"}
VideoKeeps(h, q)  == h[q].held \cup {h[q].done[i].index : i \in DOMAIN h[q].done}

\* The buffers that the device has are those of the Queued resources.
VideoMatch(s, h, clearing) ==
  \A q \in VideoQueues :
    IF q = clearing THEN VideoQueued(s, q) = {} /\ VideoKeeps(h, q) \subseteq DOMAIN s.res[q]
    ELSE VideoKeeps(h, q) = VideoQueued(s, q)

VideoTyped ==
  /\ video_worker \in {"run", "dead"} /\ video_backend \in VideoBackends \cup {"none"}
  /\ video_clearing \in VideoQueues \cup {"none"} /\ video_silent \in Nat
  /\ video_ring \in VideoRings
  /\ video_stream \in VideoStreams /\ video_host \in VideoDevices
  /\ video_tasks \subseteq VideoTasks
  /\ video_todo \subseteq VideoTold

\* A resource that is queued in a request has no future yet, and none has two.
VideoHasNot(r, t) == r.cmd = "ResourceQueue" => ~(t.q = r.q /\ t.id = r.id)

VideoNoneAsked(ring, tasks) ==
  \A t \in tasks :
    /\ \A i \in DOMAIN ring.avail : VideoHasNot(ring.avail[i], t)
    /\ \A i \in DOMAIN ring.batch : VideoHasNot(ring.batch[i], t)

VideoOneEach(tasks) == \A t, u \in tasks : t.q = u.q /\ t.id = u.id => t = u

VideoAsksOnce == VideoOneEach(video_tasks) /\ VideoNoneAsked(video_ring, video_tasks)

\* What the worker is about to take is there, and it takes nothing while it
\* clears a queue for the request in its hand.
VideoTakes ==
  /\ video_worker = "run" => \A q \in VideoQueues : q \in video_todo => video_host[q].done # <<>>
  /\ video_clearing # "none" => video_todo = {} /\ video_ring.batch # <<>>

VideoFollowed(s, tasks) ==
  \A q \in VideoQueues : \A i \in DOMAIN s.res[q] :
    s.res[q][i].state = "Queued" => \E t \in tasks : VideoWaits(t, q, s.res[q][i].id)

VideoIInv ==
  /\ VideoTyped /\ VideoAsksOnce /\ VideoTakes
  /\ VideoDistinct(video_stream) /\ VideoDoneOnce(video_host)
  /\ ~video_refused => VideoMatch(video_stream, video_host, video_clearing)
  /\ video_worker = "run" => VideoFollowed(video_stream, video_tasks)

-----------------------------------------------------------------------------
\* A resource that is found has the number, and none has it if none is found.
LEMMA VideoFound ==
  ASSUME NEW resources \in Seq(VideoResources), NEW id,
         \A i, j \in DOMAIN resources : resources[i].id = resources[j].id => i = j
  PROVE  LET k == VideoFind(resources, id)
         IN  /\ k = 0 => \A i \in DOMAIN resources : resources[i].id # id
             /\ k # 0 => k \in DOMAIN resources /\ resources[k].id = id
<1> DEFINE I == {k \in 1 .. Len(resources) : resources[k].id = id}
           k == VideoFind(resources, id)
<1>1. k = IF I # {} THEN Min(I) ELSE 0
  BY DEF VideoFind, SelectInSeq
<1>2. DOMAIN resources = 1 .. Len(resources) /\ I \subseteq Nat
  OBVIOUS
<1>3. CASE I = {}
  BY <1>1, <1>2, <1>3
<1>4. CASE I # {}
  <2>1. PICK n \in I : TRUE
    BY <1>4
  <2>2. \A m \in I : m = n
    BY <1>2, <2>1
  <2>3. Min(I) = n
    <3>1. n <= n
      BY <1>2, <2>1
    <3> HIDE DEF I
    <3> QED
      BY <2>1, <2>2, <3>1 DEF Min
  <2>4. k = n /\ n # 0
    BY <1>1, <1>4, <2>1, <2>3
  <2> QED
    BY <1>2, <2>1, <2>4
<1> QED
  BY <1>3, <1>4

-----------------------------------------------------------------------------
(* What a command leaves behind.                                           *)

\* The stream and the device between two commands.
VideoSound ==
  /\ video_stream \in VideoStreams /\ video_host \in VideoDevices
  /\ VideoDistinct(video_stream) /\ VideoDoneOnce(video_host)
  /\ ~video_refused => VideoMatch(video_stream, video_host, "none")

VideoWasQueued(q, id) ==
  \E i \in DOMAIN video_stream.res[q] : video_stream.res[q][i].id = id /\ video_stream.res[q][i].state = "Queued"

VideoAnswers == {"ok", "error", "async", "dead", "clearing"}

VideoQueuedFor(s, r, answer) ==
  \A q \in VideoQueues : \A i \in DOMAIN s.res[q] : s.res[q][i].state = "Queued" =>
    VideoWasQueued(q, s.res[q][i].id) \/ (answer = "async" /\ q = r.q /\ s.res[q][i].id = r.id)

\* Each outcome is as sound, and a resource that is Queued has been, or is
\* the one of the request, which is then answered by a future.
VideoEffect(r, o) ==
  /\ o.stream \in VideoStreams /\ o.host \in VideoDevices
  /\ VideoDistinct(o.stream) /\ VideoDoneOnce(o.host)
  /\ ~video_refused /\ ~o.refused => VideoMatch(o.stream, o.host, IF o.answer = "clearing" THEN r.q ELSE "none")
  /\ VideoQueuedFor(o.stream, r, o.answer)
  /\ o.answer \in VideoAnswers /\ (o.answer = "async" => r.cmd = "ResourceQueue") /\ o.refused \in BOOLEAN

\* A command that changes neither the stream nor the device
LEMMA VideoSame ==
  ASSUME VideoSound, NEW r, NEW o, o.stream = video_stream, o.host = video_host,
         o.answer \in {"ok", "error", "dead"}, o.refused \in BOOLEAN
  PROVE  VideoEffect(r, o)
<1>1. VideoQueuedFor(o.stream, r, o.answer)
  BY DEF VideoQueuedFor, VideoWasQueued
<1> QED
  BY <1>1 DEF VideoEffect, VideoSound, VideoAnswers

\* A command that only has an answer
LEMMA VideoOuts ==
  ASSUME VideoSound, NEW r, NEW answer \in {"ok", "error", "dead"}
  PROVE  VideoEffect(r, VideoOut(answer)) /\ VideoEffect(r, VideoFailed(VideoOut(answer), answer))
<1> DEFINE o == VideoOut(answer)
           f == VideoFailed(o, answer)
<1>1. o.stream = video_stream /\ o.host = video_host /\ o.answer = answer /\ o.refused = FALSE
  BY DEF VideoOut
<1>2. f.stream = video_stream /\ f.host = video_host /\ f.answer = answer /\ f.refused = TRUE
  BY DEF VideoOut, VideoFailed
<1> HIDE DEF o, f
<1>3. VideoEffect(r, o) /\ VideoEffect(r, f)
  BY <1>1, <1>2, VideoSame
<1> QED
  BY <1>3 DEF o, f

\* A new stream and a device as it is opened
LEMMA VideoEmpty ==
  ASSUME NEW state \in VideoStates
  PROVE  /\ VideoNewStream(state) \in VideoStreams /\ VideoClosed \in VideoDevices
         /\ VideoDistinct(VideoNewStream(state)) /\ VideoDoneOnce(VideoClosed)
         /\ VideoMatch(VideoNewStream(state), VideoClosed, "none")
         /\ \A q \in VideoQueues : VideoNewStream(state).res[q] = <<>>
<1> DEFINE s == VideoNewStream(state)
<1>1. s.res = [q \in VideoQueues |-> <<>>] /\ s.state = state /\ s.on = [q \in VideoQueues |-> FALSE]
      /\ s = [state |-> s.state, on |-> s.on, res |-> s.res]
  BY DEF VideoNewStream
<1>2. <<>> \in Seq(VideoResources) /\ DOMAIN <<>> = {}
  OBVIOUS
<1>3. s \in VideoStreams
  BY <1>1, <1>2 DEF VideoStreams
<1> HIDE DEF s
<1>4. \A q \in VideoQueues : s.res[q] = <<>>
  BY <1>1
<1>5. VideoDistinct(s)
  BY <1>2, <1>4 DEF VideoDistinct
<1>6. \A q \in VideoQueues : VideoClosed[q] = [count |-> 0, on |-> FALSE, held |-> {}, done |-> <<>>]
  BY DEF VideoClosed
<1>7. VideoClosed \in VideoDevices
  <2>1. <<>> \in Seq([index : Nat, eos : BOOLEAN])
    OBVIOUS
  <2> QED
    BY <2>1 DEF VideoClosed, VideoDevices
<1>8. \A q \in VideoQueues : VideoClosed[q].held = {} /\ VideoClosed[q].done = <<>>
  BY <1>6
<1>9. VideoDoneOnce(VideoClosed)
  BY <1>2, <1>8 DEF VideoDoneOnce
<1>10. \A q \in VideoQueues : VideoKeeps(VideoClosed, q) = {} /\ VideoQueued(s, q) = {}
  BY <1>2, <1>4, <1>8 DEF VideoKeeps, VideoQueued
<1>11. VideoMatch(s, VideoClosed, "none")
  <2>1. \A q \in VideoQueues : q # "none"
    BY DEF VideoQueues
  <2> QED
    BY <1>10, <2>1 DEF VideoMatch
<1> QED
  BY <1>3, <1>4, <1>5, <1>7, <1>9, <1>11 DEF s

\* STREAM_CREATE and STREAM_DESTROY
LEMMA VideoRenews ==
  ASSUME VideoSound, NEW r, NEW o \in VideoCreate \cup VideoDestroy
  PROVE  VideoEffect(r, o)
<1>1. CASE o = VideoOut("dead")
  BY <1>1, VideoOuts
<1>2. CASE o # VideoOut("dead")
  <2>1. PICK state \in {"Stopped", "none"} :
          o = [VideoOut("ok") EXCEPT !.stream = VideoNewStream(state), !.host = VideoClosed, !.stop = FALSE, !.polled = FALSE]
    BY <1>2 DEF VideoCreate, VideoDestroy
  <2>2. o.stream = VideoNewStream(state) /\ o.host = VideoClosed /\ o.answer = "ok" /\ o.refused = FALSE
    BY <2>1 DEF VideoOut
  <2>3. state \in VideoStates
    BY DEF VideoStates
  <2>4. VideoQueuedFor(o.stream, r, "ok")
    <3>1. DOMAIN <<>> = {}
      OBVIOUS
    <3> QED
      BY <2>2, <2>3, <3>1, VideoEmpty DEF VideoQueuedFor
  <2> QED
    BY <2>2, <2>3, <2>4, VideoEmpty DEF VideoEffect, VideoAnswers
<1> QED
  BY <1>1, <1>2

\* A resource takes another state.
LEMMA VideoMarked ==
  ASSUME NEW s \in VideoStreams, NEW q \in VideoQueues, NEW i \in DOMAIN s.res[q], NEW state \in VideoResourceStates
  PROVE  LET m == VideoMark(s, q, i, state)
         IN  /\ m \in VideoStreams /\ m.state = s.state /\ m.on = s.on
             /\ \A p \in VideoQueues : DOMAIN m.res[p] = DOMAIN s.res[p]
             /\ \A p \in VideoQueues : \A k \in DOMAIN s.res[p] :
                  /\ m.res[p][k].id = s.res[p][k].id
                  /\ m.res[p][k].state = IF p = q /\ k = i THEN state ELSE s.res[p][k].state
             /\ VideoDistinct(s) => VideoDistinct(m)
<1> DEFINE e == [s.res[q][i] EXCEPT !.state = state]
           one == [s.res[q] EXCEPT ![i] = e]
           all == [s.res EXCEPT ![q] = one]
           m == [s EXCEPT !.res = all]
<1>1. VideoMark(s, q, i, state) = m
  BY DEF VideoMark
<1>2. s = [state |-> s.state, on |-> s.on, res |-> s.res] /\ s.state \in VideoStates /\ s.on \in [VideoQueues -> BOOLEAN]
      /\ s.res \in [VideoQueues -> Seq(VideoResources)]
  BY DEF VideoStreams
<1>3. s.res[q] \in Seq(VideoResources) /\ s.res[q][i] \in VideoResources
  BY <1>2
<1>4. e \in VideoResources /\ e.id = s.res[q][i].id /\ e.state = state
  BY <1>3 DEF VideoResources
<1> HIDE DEF e
<1>5. one \in Seq(VideoResources) /\ DOMAIN one = DOMAIN s.res[q]
      /\ \A k \in DOMAIN s.res[q] : one[k] = IF k = i THEN e ELSE s.res[q][k]
  BY <1>3, <1>4
<1> HIDE DEF one
<1>6. all \in [VideoQueues -> Seq(VideoResources)] /\ \A p \in VideoQueues : all[p] = IF p = q THEN one ELSE s.res[p]
  BY <1>2, <1>5
<1> HIDE DEF all
<1>7. m = [state |-> s.state, on |-> s.on, res |-> all]
  BY <1>2
<1>8. m \in VideoStreams /\ m.state = s.state /\ m.on = s.on /\ m.res = all
  BY <1>2, <1>6, <1>7 DEF VideoStreams
<1> HIDE DEF m
<1>9. \A p \in VideoQueues : DOMAIN m.res[p] = DOMAIN s.res[p]
  BY <1>5, <1>6, <1>8
<1>10. \A p \in VideoQueues : \A k \in DOMAIN s.res[p] :
         /\ m.res[p][k].id = s.res[p][k].id
         /\ m.res[p][k].state = IF p = q /\ k = i THEN state ELSE s.res[p][k].state
  BY <1>4, <1>5, <1>6, <1>8
<1>11. VideoDistinct(s) => VideoDistinct(m)
  BY <1>9, <1>10 DEF VideoDistinct
<1> QED
  BY <1>1, <1>8, <1>9, <1>10, <1>11

\* The state of the stream, and which of its queues is on, is of no account.
LEMMA VideoAlike ==
  ASSUME NEW s, NEW m, m.res = s.res
  PROVE  /\ VideoDistinct(s) => VideoDistinct(m)
         /\ \A q : VideoQueued(m, q) = VideoQueued(s, q)
         /\ \A r, answer : VideoQueuedFor(s, r, answer) => VideoQueuedFor(m, r, answer)
  BY DEF VideoDistinct, VideoQueued, VideoQueuedFor

\* RESOURCE_CREATE
LEMMA VideoCreates ==
  ASSUME VideoSound, NEW r, r.q \in VideoQueues, r.id \in VideoIds, NEW o \in VideoCreateResource(r)
  PROVE  VideoEffect(r, o)
<1> DEFINE q == r.q
           old == video_stream.res[q]
           new == [id |-> r.id, state |-> "Created"]
<1>0. video_stream = [state |-> video_stream.state, on |-> video_stream.on, res |-> video_stream.res]
      /\ video_stream.state \in VideoStates /\ video_stream.on \in [VideoQueues -> BOOLEAN]
      /\ video_stream.res \in [VideoQueues -> Seq(VideoResources)]
  BY DEF VideoSound, VideoStreams
<1>1. CASE o = VideoOut("error") \/ o = VideoOut("dead")
  BY <1>1, VideoOuts
<1>2. CASE o # VideoOut("error") /\ o # VideoOut("dead")
  <2> DEFINE one == Append(old, new)
             all == [video_stream.res EXCEPT ![q] = one]
             s == [video_stream EXCEPT !.res = all]
  <2>1. VideoFind(old, r.id) = 0 /\ o = [VideoOut("ok") EXCEPT !.stream = s]
    <3>1. VideoFind(old, r.id) = 0
      BY <1>2 DEF VideoCreateResource
    <3>2. o = [VideoOut("ok") EXCEPT !.stream.res[r.q] = Append(@, [id |-> r.id, state |-> "Created"])]
      BY <1>2, <3>1 DEF VideoCreateResource
    <3> QED
      BY <3>1, <3>2 DEF VideoOut
  <2>2. old \in Seq(VideoResources) /\ \A i \in DOMAIN old : old[i].id # r.id
    <3>1. old \in Seq(VideoResources) /\ \A i, j \in DOMAIN old : old[i].id = old[j].id => i = j
      BY <1>0 DEF VideoSound, VideoDistinct
    <3> HIDE DEF old
    <3> QED
      BY <2>1, <3>1, VideoFound
  <2>3. new \in VideoResources /\ new.id = r.id /\ new.state = "Created"
    BY DEF VideoResources, VideoResourceStates
  <2>4. o.stream = s /\ o.host = video_host /\ o.answer = "ok" /\ o.refused = FALSE
    <3> HIDE DEF s
    <3> QED
      BY <2>1 DEF VideoOut
  <2> HIDE DEF new
  <2>5. /\ one \in Seq(VideoResources) /\ DOMAIN one = DOMAIN old \cup {Len(old) + 1}
        /\ \A i \in DOMAIN old : one[i] = old[i] /\ i # Len(old) + 1
        /\ one[Len(old) + 1] = new
    <3> HIDE DEF old
    <3> QED
      BY <2>2, <2>3
  <2>6. all \in [VideoQueues -> Seq(VideoResources)] /\ \A p \in VideoQueues : all[p] = IF p = q THEN one ELSE video_stream.res[p]
    <3> HIDE DEF one
    <3> QED
      BY <1>0, <2>5
  <2> HIDE DEF one, all
  <2>7. s = [state |-> video_stream.state, on |-> video_stream.on, res |-> all]
    BY <1>0
  <2>8. s \in VideoStreams /\ s.res = all
    BY <1>0, <2>6, <2>7 DEF VideoStreams
  <2> HIDE DEF s
  <2>9. VideoDistinct(s)
    <3> SUFFICES ASSUME NEW p \in VideoQueues, NEW i \in DOMAIN s.res[p], NEW j \in DOMAIN s.res[p],
                        s.res[p][i].id = s.res[p][j].id
                 PROVE  i = j
      BY DEF VideoDistinct
    <3>1. CASE p # q
      BY <2>6, <2>8, <3>1 DEF VideoSound, VideoDistinct
    <3>2. CASE p = q
      <4>1. s.res[p] = one
        BY <2>6, <2>8, <3>2
      <4>2. \A k, l \in DOMAIN old : old[k].id = old[l].id => k = l
        BY DEF VideoSound, VideoDistinct
      <4> HIDE DEF old
      <4> QED
        BY <2>2, <2>3, <2>5, <4>1, <4>2
    <3> QED
      BY <3>1, <3>2
  <2>10. \A p \in VideoQueues : VideoQueued(s, p) = VideoQueued(video_stream, p)
         /\ \A i \in VideoQueued(s, p) : s.res[p][i] = video_stream.res[p][i]
    <3> SUFFICES ASSUME NEW p \in VideoQueues
                 PROVE  VideoQueued(s, p) = VideoQueued(video_stream, p)
                        /\ \A i \in VideoQueued(s, p) : s.res[p][i] = video_stream.res[p][i]
      OBVIOUS
    <3>1. CASE p # q
      BY <2>6, <2>8, <3>1 DEF VideoQueued
    <3>2. CASE p = q
      BY <2>3, <2>5, <2>6, <2>8, <3>2 DEF VideoQueued
    <3> QED
      BY <3>1, <3>2
  <2>11. ~video_refused => VideoMatch(s, video_host, "none")
    BY <2>10 DEF VideoSound, VideoMatch, VideoQueues
  <2>12. VideoQueuedFor(s, r, "ok")
    BY <2>10 DEF VideoQueuedFor, VideoWasQueued, VideoQueued
  <2> QED
    BY <2>4, <2>8, <2>9, <2>11, <2>12 DEF VideoEffect, VideoAnswers, VideoSound
<1> QED
  BY <1>1, <1>2

VideoSameBuffers(g, h) == \A q \in VideoQueues : g[q].held = h[q].held /\ g[q].done = h[q].done

\* What a device counts and whether it streams is of no account.
LEMMA VideoDevicesAlike ==
  ASSUME NEW g, NEW h, VideoSameBuffers(g, h)
  PROVE  /\ VideoDoneOnce(h) => VideoDoneOnce(g)
         /\ \A q \in VideoQueues : VideoKeeps(g, q) = VideoKeeps(h, q)
  BY DEF VideoSameBuffers, VideoDoneOnce, VideoKeeps

VideoIsOut(o) ==
  o = [stream |-> o.stream, host |-> o.host, stop |-> o.stop, polled |-> o.polled,
       ready |-> o.ready, answer |-> o.answer, refused |-> o.refused]

\* An outcome has its fields.
LEMMA VideoOutFields ==
  ASSUME NEW a1, NEW a2, NEW a3, NEW a4, NEW a5, NEW a6, NEW a7
  PROVE  LET o == [stream |-> a1, host |-> a2, stop |-> a3, polled |-> a4, ready |-> a5, answer |-> a6, refused |-> a7]
         IN  VideoIsOut(o) /\ o.stream = a1 /\ o.host = a2 /\ o.answer = a6 /\ o.refused = a7
  BY DEF VideoIsOut

\* An outcome of which no ioctl() has failed so far
VideoBears(o, s, h, answer) ==
  VideoIsOut(o) /\ o.stream = s /\ o.host = h /\ o.answer = answer /\ o.refused = FALSE

\* An outcome to begin with
LEMMA VideoOutIs ==
  ASSUME NEW answer
  PROVE  VideoBears(VideoOut(answer), video_stream, video_host, answer)
  BY VideoOutFields DEF VideoOut, VideoBears

\* An outcome with another stream, another device, or another poller
LEMMA VideoOutExcept ==
  ASSUME NEW o, NEW s, NEW h, NEW answer, VideoBears(o, s, h, answer), NEW v
  PROVE  /\ VideoBears([o EXCEPT !.stream = v], v, h, answer)
         /\ VideoBears([o EXCEPT !.host = v], s, v, answer)
         /\ VideoBears([o EXCEPT !.polled = v], s, h, answer)
<1> DEFINE st == [o EXCEPT !.stream = v]
           ho == [o EXCEPT !.host = v]
           po == [o EXCEPT !.polled = v]
<1>1. st = [stream |-> v, host |-> o.host, stop |-> o.stop, polled |-> o.polled,
            ready |-> o.ready, answer |-> o.answer, refused |-> o.refused]
  BY DEF VideoIsOut, VideoBears
<1>2. ho = [stream |-> o.stream, host |-> v, stop |-> o.stop, polled |-> o.polled,
            ready |-> o.ready, answer |-> o.answer, refused |-> o.refused]
  BY DEF VideoIsOut, VideoBears
<1>3. po = [stream |-> o.stream, host |-> o.host, stop |-> o.stop, polled |-> v,
            ready |-> o.ready, answer |-> o.answer, refused |-> o.refused]
  BY DEF VideoIsOut, VideoBears
<1> HIDE DEF st, ho, po
<1>4. VideoBears(st, v, h, answer)
  BY <1>1, VideoOutFields DEF VideoBears
<1>5. VideoBears(ho, s, v, answer)
  BY <1>2, VideoOutFields DEF VideoBears
<1>6. VideoBears(po, s, h, answer)
  BY <1>3, VideoOutFields DEF VideoBears
<1> QED
  BY <1>4, <1>5, <1>6 DEF st, ho, po

\* The device of a queue with another number of buffers, or switched on.
LEMMA VideoSwitched ==
  ASSUME NEW h \in VideoDevices, NEW q \in VideoQueues, NEW n \in Nat
  PROVE  LET counted == [h EXCEPT ![q].count = n]
             on == [h EXCEPT ![q].on = TRUE]
         IN  /\ counted \in VideoDevices /\ VideoSameBuffers(counted, h)
             /\ on \in VideoDevices /\ VideoSameBuffers(on, h)
<1> DEFINE d == h[q]
           c == [d EXCEPT !.count = n]
           e == [d EXCEPT !.on = TRUE]
<1>1. d \in [count : Nat, on : BOOLEAN, held : SUBSET Nat, done : Seq([index : Nat, eos : BOOLEAN])]
  BY DEF VideoDevices
<1> HIDE DEF d
<1>2. /\ c \in [count : Nat, on : BOOLEAN, held : SUBSET Nat, done : Seq([index : Nat, eos : BOOLEAN])]
      /\ e \in [count : Nat, on : BOOLEAN, held : SUBSET Nat, done : Seq([index : Nat, eos : BOOLEAN])]
      /\ c.held = d.held /\ c.done = d.done /\ e.held = d.held /\ e.done = d.done
  BY <1>1
<1>3. [h EXCEPT ![q].count = n] = [h EXCEPT ![q] = c] /\ [h EXCEPT ![q].on = TRUE] = [h EXCEPT ![q] = e]
  BY DEF VideoDevices, d
<1> HIDE DEF c, e
<1>4. [h EXCEPT ![q] = c] \in VideoDevices /\ [h EXCEPT ![q] = e] \in VideoDevices
  BY <1>2 DEF VideoDevices
<1>5. /\ \A p \in VideoQueues : [h EXCEPT ![q] = c][p] = IF p = q THEN c ELSE h[p]
      /\ \A p \in VideoQueues : [h EXCEPT ![q] = e][p] = IF p = q THEN e ELSE h[p]
  BY DEF VideoDevices
<1>6. VideoSameBuffers([h EXCEPT ![q] = c], h) /\ VideoSameBuffers([h EXCEPT ![q] = e], h)
  BY <1>2, <1>5 DEF VideoSameBuffers, d
<1> QED
  BY <1>3, <1>4, <1>6

\* streamon(), when a buffer has been queued
LEMMA VideoTurnedOn ==
  ASSUME NEW o, VideoIsOut(o), o.stream \in VideoStreams, o.host \in VideoDevices, NEW q \in VideoQueues,
         o.answer = "async", o.refused = FALSE, NEW x \in VideoStreamOn(o, q)
  PROVE  /\ x.stream \in VideoStreams /\ x.stream.res = o.stream.res
         /\ x.host \in VideoDevices /\ VideoSameBuffers(x.host, o.host)
         /\ x.answer = "async" /\ x.refused \in BOOLEAN
<1>1. CASE x = o
  BY <1>1 DEF VideoSameBuffers
<1>2. CASE x # o
  <2> DEFINE ons == [o.stream.on EXCEPT ![q] = TRUE]
             s1 == [o.stream EXCEPT !.on = ons]
             s == [s1 EXCEPT !.state = "Streaming"]
             h == [o.host EXCEPT ![q].on = TRUE]
             on == [o EXCEPT !.stream = s]
  <2>1. [o EXCEPT !.stream.on[q] = TRUE, !.stream.state = "Streaming"] = on
    BY DEF VideoIsOut, VideoStreams
  <2>2. x \in {[on EXCEPT !.host[q].on = TRUE], VideoFailed(on, "async")}
    BY <1>2, <2>1 DEF VideoStreamOn
  <2>3. ons \in [VideoQueues -> BOOLEAN]
    BY DEF VideoStreams
  <2> HIDE DEF ons
  <2>4. s \in VideoStreams /\ s.res = o.stream.res
    <3>1. o.stream = [state |-> o.stream.state, on |-> o.stream.on, res |-> o.stream.res]
          /\ o.stream.res \in [VideoQueues -> Seq(VideoResources)]
      BY DEF VideoStreams
    <3>3. s1 = [state |-> o.stream.state, on |-> ons, res |-> o.stream.res]
      BY <3>1
    <3> HIDE DEF s1
    <3>2. s = [state |-> "Streaming", on |-> ons, res |-> o.stream.res]
      BY <3>3
    <3> HIDE DEF s
    <3> QED
      BY <2>3, <3>1, <3>2 DEF VideoStreams, VideoStates
  <2> HIDE DEF s
  <2>5. on.stream = s /\ on.host = o.host /\ on.answer = "async" /\ on.refused = FALSE /\ VideoIsOut(on)
    <3>1. on = [stream |-> s, host |-> o.host, stop |-> o.stop, polled |-> o.polled,
                ready |-> o.ready, answer |-> o.answer, refused |-> o.refused]
      BY DEF VideoIsOut
    <3> HIDE DEF on
    <3> QED
      BY <3>1 DEF VideoIsOut
  <2> HIDE DEF on
  <2>6. h \in VideoDevices /\ VideoSameBuffers(h, o.host)
    BY VideoSwitched
  <2>7. CASE x = VideoFailed(on, "async")
    <3>1. x.stream = s /\ x.host = o.host /\ x.answer = "async" /\ x.refused = TRUE
      BY <2>5, <2>7 DEF VideoFailed, VideoIsOut
    <3> QED
      BY <2>4, <3>1 DEF VideoSameBuffers
  <2>8. CASE x = [on EXCEPT !.host[q].on = TRUE]
    <3>1. x = [on EXCEPT !.host = h]
      BY <2>5, <2>8 DEF VideoIsOut
    <3> HIDE DEF h
    <3>2. x.stream = s /\ x.host = h /\ x.answer = "async" /\ x.refused = FALSE
      BY <2>5, <3>1 DEF VideoIsOut
    <3> QED
      BY <2>4, <2>6, <3>2
  <2> QED
    BY <2>2, <2>7, <2>8
<1> QED
  BY <1>1, <1>2

\* RESOURCE_QUEUE, when the buffers have been requested: as before, but for
\* states that are not Queued and the number of buffers.
VideoPrepared(o) ==
  /\ VideoIsOut(o) /\ o.stream \in VideoStreams /\ VideoDistinct(o.stream)
  /\ o.host \in VideoDevices /\ VideoSameBuffers(o.host, video_host)
  /\ \A q \in VideoQueues : DOMAIN o.stream.res[q] = DOMAIN video_stream.res[q]
  /\ \A q \in VideoQueues : \A k \in DOMAIN o.stream.res[q] : o.stream.res[q][k].id = video_stream.res[q][k].id
  /\ \A q \in VideoQueues : VideoQueued(o.stream, q) = VideoQueued(video_stream, q)
  /\ o.answer = "async" /\ o.refused = FALSE

\* queue_resource() fails, before the device has the buffer.
LEMMA VideoGivesUp ==
  ASSUME VideoSound, NEW r, NEW o, VideoPrepared(o),
         NEW x \in {[o EXCEPT !.answer = "error"], VideoFailed(o, "error")}
  PROVE  VideoEffect(r, x)
<1>1. x.stream = o.stream /\ x.host = o.host /\ x.answer = "error" /\ x.refused \in BOOLEAN
  BY DEF VideoPrepared, VideoIsOut, VideoFailed
<1>2. VideoDoneOnce(x.host) /\ \A q \in VideoQueues : VideoKeeps(x.host, q) = VideoKeeps(video_host, q)
  BY <1>1, VideoDevicesAlike DEF VideoPrepared, VideoSound
<1>3. ~video_refused => VideoMatch(x.stream, x.host, "none")
  BY <1>1, <1>2 DEF VideoPrepared, VideoSound, VideoMatch, VideoQueues
<1>4. VideoQueuedFor(x.stream, r, "error")
  BY <1>1 DEF VideoPrepared, VideoQueued, VideoQueuedFor, VideoWasQueued
<1> QED
  BY <1>1, <1>2, <1>3, <1>4 DEF VideoEffect, VideoPrepared, VideoAnswers

\* qbuf(): the device gets the buffer of the resource that becomes Queued.
LEMMA VideoQueuesBuffer ==
  ASSUME VideoSound, NEW r, r.q \in VideoQueues, r.cmd = "ResourceQueue", NEW o, VideoPrepared(o),
         NEW i \in DOMAIN o.stream.res[r.q], o.stream.res[r.q][i].id = r.id,
         NEW x \in VideoQueueBuffer(o, r, i)
  PROVE  VideoEffect(r, x)
<1> DEFINE q == r.q
           held == o.host[q].held \cup {i}
           d == [o.host[q] EXCEPT !.held = held]
           h == [o.host EXCEPT ![q] = d]
           m == VideoMark(o.stream, q, i, "Queued")
           st == IF m.state = "Stopped" THEN "Subscribed" ELSE m.state
           s == [m EXCEPT !.state = st]
           n1 == [o EXCEPT !.host = h]
           n == [n1 EXCEPT !.stream = s]
<1>1. CASE x \in {[o EXCEPT !.answer = "error"], VideoFailed(o, "error")}
  BY <1>1, VideoGivesUp
<1>2. CASE x \notin {[o EXCEPT !.answer = "error"], VideoFailed(o, "error")}
  <2>1. i \notin VideoHeld(q)
    BY <1>2 DEF VideoQueueBuffer
  <2>2. x \in VideoStreamOn([o EXCEPT !.host[r.q].held = @ \cup {i},
         !.stream = [VideoMark(o.stream, r.q, i, "Queued") EXCEPT !.state = IF @ = "Stopped" THEN "Subscribed" ELSE @]], r.q)
    BY <1>2 DEF VideoQueueBuffer
  <2>3. x \in VideoStreamOn(n, q)
    BY <2>2 DEF VideoPrepared, VideoIsOut, VideoDevices
  <2>4. /\ i \in Nat /\ o.stream \in VideoStreams /\ o.host \in VideoDevices /\ VideoIsOut(o)
        /\ o.host[q] \in [count : Nat, on : BOOLEAN, held : SUBSET Nat, done : Seq([index : Nat, eos : BOOLEAN])]
    <3>1. o.stream.res[q] \in Seq(VideoResources)
      BY DEF VideoPrepared, VideoStreams
    <3> QED
      BY <3>1 DEF VideoPrepared, VideoDevices
  <2>5. /\ d \in [count : Nat, on : BOOLEAN, held : SUBSET Nat, done : Seq([index : Nat, eos : BOOLEAN])]
        /\ d.held = held /\ d.done = o.host[q].done
    BY <2>4
  <2> HIDE DEF d
  <2>6. h \in VideoDevices /\ \A p \in VideoQueues : h[p] = IF p = q THEN d ELSE o.host[p]
    BY <2>4, <2>5 DEF VideoDevices
  <2> HIDE DEF h
  <2>7. /\ m \in VideoStreams
        /\ \A p \in VideoQueues : DOMAIN m.res[p] = DOMAIN o.stream.res[p]
        /\ \A p \in VideoQueues : \A k \in DOMAIN o.stream.res[p] :
             /\ m.res[p][k].id = o.stream.res[p][k].id
             /\ m.res[p][k].state = IF p = q /\ k = i THEN "Queued" ELSE o.stream.res[p][k].state
        /\ VideoDistinct(m)
    <3>1. "Queued" \in VideoResourceStates
      BY DEF VideoResourceStates
    <3>2. VideoDistinct(o.stream) /\ o.stream \in VideoStreams /\ q \in VideoQueues /\ i \in DOMAIN o.stream.res[q]
      BY <2>4 DEF VideoPrepared
    <3> HIDE DEF q
    <3> QED
      BY <3>1, <3>2, VideoMarked
  <2> HIDE DEF m
  <2>8. s \in VideoStreams /\ s.res = m.res
    <3>1. m = [state |-> m.state, on |-> m.on, res |-> m.res] /\ m.state \in VideoStates
          /\ m.on \in [VideoQueues -> BOOLEAN] /\ m.res \in [VideoQueues -> Seq(VideoResources)]
      BY <2>7 DEF VideoStreams
    <3>2. st \in VideoStates
      BY <3>1 DEF VideoStates
    <3> HIDE DEF st
    <3>3. s = [state |-> st, on |-> m.on, res |-> m.res]
      BY <3>1
    <3> HIDE DEF s
    <3> QED
      BY <3>1, <3>2, <3>3 DEF VideoStreams
  <2> HIDE DEF s
  <2>9. n.stream = s /\ n.host = h /\ n.answer = "async" /\ n.refused = FALSE /\ VideoIsOut(n)
    <3>1. n1 = [stream |-> o.stream, host |-> h, stop |-> o.stop, polled |-> o.polled,
                ready |-> o.ready, answer |-> o.answer, refused |-> o.refused]
      BY <2>4 DEF VideoIsOut
    <3> HIDE DEF n1
    <3>2. n = [stream |-> s, host |-> h, stop |-> o.stop, polled |-> o.polled,
               ready |-> o.ready, answer |-> o.answer, refused |-> o.refused]
      BY <3>1
    <3> HIDE DEF n
    <3> QED
      BY <3>2 DEF VideoIsOut, VideoPrepared
  <2> HIDE DEF n
  <2>10. /\ x.stream \in VideoStreams /\ x.stream.res = m.res
         /\ x.host \in VideoDevices /\ VideoSameBuffers(x.host, h)
         /\ x.answer = "async" /\ x.refused \in BOOLEAN
    BY <2>3, <2>6, <2>8, <2>9, VideoTurnedOn
  <2>11. VideoDistinct(x.stream) /\ \A p \in VideoQueues : VideoQueued(x.stream, p) = VideoQueued(m, p)
    BY <2>7, <2>10, VideoAlike
  <2>12. /\ \A p \in VideoQueues : p # q => VideoQueued(m, p) = VideoQueued(video_stream, p)
         /\ VideoQueued(m, q) = VideoQueued(video_stream, q) \cup {i}
    <3>1. \A p \in VideoQueues : p # q => VideoQueued(m, p) = VideoQueued(o.stream, p)
      BY <2>7 DEF VideoQueued
    <3>2. VideoQueued(m, q) = VideoQueued(o.stream, q) \cup {i}
      BY <2>7 DEF VideoQueued
    <3> QED
      BY <3>1, <3>2 DEF VideoPrepared
  <2>13. i \notin VideoKeeps(video_host, q)
    <3>1. VideoHeld(q) = VideoKeeps(video_host, q)
      BY DEF VideoHeld, VideoKeeps, ToSet
    <3> QED
      BY <2>1, <3>1
  <2>14. /\ \A p \in VideoQueues : p # q => h[p].held = video_host[p].held /\ h[p].done = video_host[p].done
         /\ h[q].held = video_host[q].held \cup {i} /\ h[q].done = video_host[q].done
    BY <2>5, <2>6 DEF VideoPrepared, VideoSameBuffers
  <2>15. VideoDoneOnce(h)
    BY <2>13, <2>14 DEF VideoSound, VideoDoneOnce, VideoKeeps
  <2>16. /\ \A p \in VideoQueues : p # q => VideoKeeps(h, p) = VideoKeeps(video_host, p)
         /\ VideoKeeps(h, q) = VideoKeeps(video_host, q) \cup {i}
    BY <2>14 DEF VideoKeeps
  <2>17. VideoDoneOnce(x.host) /\ \A p \in VideoQueues : VideoKeeps(x.host, p) = VideoKeeps(h, p)
    BY <2>10, <2>15, VideoDevicesAlike
  <2>18. ~video_refused => VideoMatch(x.stream, x.host, "none")
    <3>1. \A p \in VideoQueues : p # "none"
      BY DEF VideoQueues
    <3> QED
      BY <2>11, <2>12, <2>16, <2>17, <3>1 DEF VideoSound, VideoMatch
  <2>19. VideoQueuedFor(x.stream, r, "async")
    <3> SUFFICES ASSUME NEW p \in VideoQueues, NEW k \in DOMAIN x.stream.res[p], x.stream.res[p][k].state = "Queued"
                 PROVE  VideoWasQueued(p, x.stream.res[p][k].id) \/ (p = r.q /\ x.stream.res[p][k].id = r.id)
      BY DEF VideoQueuedFor
    <3>1. k \in DOMAIN o.stream.res[p] /\ x.stream.res[p][k].id = o.stream.res[p][k].id /\ k \in VideoQueued(m, p)
      BY <2>7, <2>10 DEF VideoQueued
    <3>2. CASE p = q /\ k = i
      BY <3>1, <3>2
    <3>3. CASE ~(p = q /\ k = i)
      <4>1. k \in VideoQueued(video_stream, p)
        BY <2>12, <3>1, <3>3
      <4>2. o.stream.res[p][k].id = video_stream.res[p][k].id
        BY <3>1 DEF VideoPrepared
      <4> QED
        BY <3>1, <4>1, <4>2 DEF VideoQueued, VideoWasQueued
    <3> QED
      BY <3>2, <3>3
  <2> QED
    BY <2>10, <2>11, <2>17, <2>18, <2>19 DEF VideoEffect, VideoAnswers
<1> QED
  BY <1>1, <1>2

\* RESOURCE_QUEUE
LEMMA VideoQueuesIt ==
  ASSUME VideoSound, NEW r, r.q \in VideoQueues, r.cmd = "ResourceQueue", NEW x \in VideoQueueResource(r)
  PROVE  VideoEffect(r, x)
<1> DEFINE q == r.q
           i == VideoFind(video_stream.res[q], r.id)
           o == [VideoOut("async") EXCEPT !.polled = VideoPolls]
           all == video_stream.res[q]
           h == VideoRequestBuffers(video_host, q, Len(all))
           m == VideoMark(video_stream, q, i, "Queried")
           n1 == [o EXCEPT !.host = h]
           n == [n1 EXCEPT !.stream = m]
<1>1. o.stream = video_stream /\ o.host = video_host /\ o.answer = "async" /\ o.refused = FALSE /\ VideoIsOut(o)
  <2> DEFINE polls == VideoPolls
             out == VideoOut("async")
  <2>1. VideoBears(out, video_stream, video_host, "async")
    BY VideoOutIs
  <2>2. o = [out EXCEPT !.polled = polls]
    OBVIOUS
  <2> HIDE DEF o, polls, out
  <2>3. VideoBears(o, video_stream, video_host, "async")
    BY <2>1, <2>2, VideoOutExcept
  <2> QED
    BY <2>3 DEF VideoBears
<1>2. VideoPrepared(o)
  BY <1>1 DEF VideoPrepared, VideoSound, VideoSameBuffers
<1>3. CASE i = 0
  <2>1. x = [o EXCEPT !.answer = "error"]
    BY <1>3 DEF VideoQueueResource
  <2> HIDE DEF o
  <2> QED
    BY <1>2, <2>1, VideoGivesUp
<1>4. CASE i # 0
  <2>1. all \in Seq(VideoResources) /\ i \in DOMAIN all /\ all[i].id = r.id
    <3>1. all \in Seq(VideoResources) /\ \A k, l \in DOMAIN all : all[k].id = all[l].id => k = l
      BY DEF VideoSound, VideoDistinct, VideoStreams
    <3> HIDE DEF all
    <3>2. VideoFind(all, r.id) # 0
      BY <1>4 DEF all
    <3> QED
      BY <3>1, <3>2, VideoFound DEF all
  <2>2. CASE ~(\A k \in DOMAIN all : all[k].state = "Created")
    <3>1. x \in VideoQueueBuffer(o, r, i)
      BY <1>4, <2>2 DEF VideoQueueResource
    <3>2. i \in DOMAIN o.stream.res[r.q] /\ o.stream.res[r.q][i].id = r.id
      BY <1>1, <2>1
    <3> HIDE DEF o, i
    <3> QED
      BY <1>2, <3>1, <3>2, VideoQueuesBuffer
  <2>3. CASE \A k \in DOMAIN all : all[k].state = "Created"
    <3>1. x = VideoFailed(o, "error") \/ x \in VideoQueueBuffer(n, r, i)
      <4>1. x \in {VideoFailed(o, "error")} \cup
              VideoQueueBuffer([o EXCEPT !.host = VideoRequestBuffers(o.host, r.q, Len(all)),
                                         !.stream = VideoMark(o.stream, r.q, i, "Queried")], r, i)
        BY <1>4, <2>3 DEF VideoQueueResource
      <4> HIDE DEF o
      <4>2. x \in {VideoFailed(o, "error")} \cup
              VideoQueueBuffer([o EXCEPT !.host = VideoRequestBuffers(video_host, r.q, Len(all)),
                                         !.stream = VideoMark(video_stream, r.q, i, "Queried")], r, i)
        BY <1>1, <4>1
      <4> QED
        BY <4>2
    <3>2. CASE x = VideoFailed(o, "error")
      <4> HIDE DEF o
      <4> QED
        BY <1>2, <3>2, VideoGivesUp
    <3>3. CASE x \in VideoQueueBuffer(n, r, i)
      <4>1. Len(all) \in Nat \ {0}
        BY <2>1
      <4>2. h = [video_host EXCEPT ![q].count = Len(all)]
        BY <4>1 DEF VideoRequestBuffers
      <4>3. h \in VideoDevices /\ VideoSameBuffers(h, video_host)
        <5> DEFINE k == Len(all)
        <5>1. video_host \in VideoDevices /\ q \in VideoQueues /\ k \in Nat
          BY <4>1 DEF VideoSound
        <5> HIDE DEF q, h, k
        <5>2. [video_host EXCEPT ![q].count = k] \in VideoDevices /\ VideoSameBuffers([video_host EXCEPT ![q].count = k], video_host)
          BY <5>1, VideoSwitched
        <5>3. h = [video_host EXCEPT ![q].count = k]
          BY <4>2 DEF k
        <5> QED
          BY <5>2, <5>3
      <4> HIDE DEF h
      <4>4. /\ m \in VideoStreams
            /\ \A p \in VideoQueues : DOMAIN m.res[p] = DOMAIN video_stream.res[p]
            /\ \A p \in VideoQueues : \A k \in DOMAIN video_stream.res[p] :
                 /\ m.res[p][k].id = video_stream.res[p][k].id
                 /\ m.res[p][k].state = IF p = q /\ k = i THEN "Queried" ELSE video_stream.res[p][k].state
            /\ VideoDistinct(m)
        <5>1. "Queried" \in VideoResourceStates
          BY DEF VideoResourceStates
        <5>2. VideoDistinct(video_stream) /\ video_stream \in VideoStreams /\ q \in VideoQueues /\ i \in DOMAIN video_stream.res[q]
          BY <2>1 DEF VideoSound
        <5> HIDE DEF q, i
        <5> QED
          BY <5>1, <5>2, VideoMarked
      <4> HIDE DEF m
      <4>5. n.stream = m /\ n.host = h /\ n.answer = "async" /\ n.refused = FALSE /\ VideoIsOut(n)
        <5> HIDE DEF o
        <5>1. VideoBears(o, video_stream, video_host, "async")
          BY <1>1 DEF VideoBears
        <5>2. VideoBears(n1, video_stream, h, "async")
          BY <5>1, VideoOutExcept
        <5> HIDE DEF n1
        <5>3. VideoBears(n, m, h, "async")
          BY <5>2, VideoOutExcept
        <5> HIDE DEF n
        <5> QED
          BY <5>3 DEF VideoBears
      <4> HIDE DEF n
      <4>6. \A p \in VideoQueues : VideoQueued(m, p) = VideoQueued(video_stream, p)
        <5> SUFFICES ASSUME NEW p \in VideoQueues PROVE VideoQueued(m, p) = VideoQueued(video_stream, p)
          OBVIOUS
        <5>1. CASE p # q
          BY <4>4, <5>1 DEF VideoQueued
        <5>2. CASE p = q
          <6>1. \A k \in DOMAIN video_stream.res[p] : video_stream.res[p][k].state = "Created"
            BY <2>3, <5>2
          <6>2. \A k \in DOMAIN video_stream.res[p] : m.res[p][k].state # "Queued"
            BY <4>4, <6>1
          <6> QED
            BY <4>4, <6>1, <6>2 DEF VideoQueued
        <5> QED
          BY <5>1, <5>2
      <4>7. VideoPrepared(n)
        BY <4>3, <4>4, <4>5, <4>6 DEF VideoPrepared
      <4>8. i \in DOMAIN n.stream.res[r.q] /\ n.stream.res[r.q][i].id = r.id
        BY <2>1, <4>4, <4>5
      <4> HIDE DEF i
      <4> QED
        BY <3>3, <4>7, <4>8, VideoQueuesBuffer
    <3> QED
      BY <3>1, <3>2, <3>3
  <2> QED
    BY <2>2, <2>3
<1> QED
  BY <1>3, <1>4

\* QUEUE_CLEAR begins
LEMMA VideoClears ==
  ASSUME VideoSound, NEW r, r.q \in VideoQueues, NEW o \in VideoClearQueue(r)
  PROVE  VideoEffect(r, o)
<1> DEFINE q == r.q
           old == video_stream.res[q]
           one == VideoReadied(q)
           all == [video_stream.res EXCEPT ![q] = one]
           s == [video_stream EXCEPT !.res = all]
<1>0. video_stream = [state |-> video_stream.state, on |-> video_stream.on, res |-> video_stream.res]
      /\ video_stream.state \in VideoStates /\ video_stream.on \in [VideoQueues -> BOOLEAN]
      /\ video_stream.res \in [VideoQueues -> Seq(VideoResources)]
  BY DEF VideoSound, VideoStreams
<1>1. o.stream = s /\ o.host = video_host /\ o.answer = "clearing" /\ o.refused = FALSE
  <2> DEFINE ready == {<<r.q, e.id>> : e \in {x \in ToSet(video_stream.res[r.q]) : x.state = "Queued"}}
  <2>1. o = [VideoOut("clearing") EXCEPT !.stream.res[r.q] = VideoReadied(r.q), !.ready = ready]
    BY DEF VideoClearQueue
  <2> HIDE DEF ready
  <2>2. o = [VideoOut("clearing") EXCEPT !.stream = s, !.ready = ready]
    BY <2>1 DEF VideoOut
  <2> HIDE DEF s
  <2> QED
    BY <2>2 DEF VideoOut
<1>2. old \in Seq(VideoResources)
  BY <1>0
<1>3. /\ one \in Seq(VideoResources) /\ DOMAIN one = DOMAIN old
      /\ \A k \in DOMAIN old : one[k].id = old[k].id /\ one[k].state # "Queued"
  <2>1. one = [k \in DOMAIN old |-> IF old[k].state = "Queued" THEN [old[k] EXCEPT !.state = "Ready"] ELSE old[k]]
    BY DEF VideoReadied
  <2>2. ASSUME NEW k \in DOMAIN old
        PROVE  one[k] \in VideoResources /\ one[k].id = old[k].id /\ one[k].state # "Queued"
    <3> DEFINE e == old[k]
    <3>1. e \in VideoResources
      BY <1>2
    <3>2. one[k] = IF e.state = "Queued" THEN [e EXCEPT !.state = "Ready"] ELSE e
      BY <2>1
    <3> HIDE DEF e, one, old
    <3>3. CASE e.state = "Queued"
      <4>1. one[k] \in VideoResources /\ one[k].id = e.id /\ one[k].state = "Ready"
        BY <3>1, <3>2, <3>3 DEF VideoResources, VideoResourceStates
      <4> QED
        BY <4>1 DEF e
    <3>4. CASE e.state # "Queued"
      BY <3>1, <3>2, <3>4 DEF e
    <3> QED
      BY <3>3, <3>4
  <2> HIDE DEF one, old
  <2>3. one = [k \in 1 .. Len(old) |-> one[k]] /\ DOMAIN old = 1 .. Len(old) /\ Len(old) \in Nat
    BY <1>2, <2>1
  <2>4. one \in Seq(VideoResources)
    BY <2>2, <2>3, SeqDef
  <2> QED
    BY <2>1, <2>2, <2>4
<1> HIDE DEF one
<1>4. all \in [VideoQueues -> Seq(VideoResources)] /\ \A p \in VideoQueues : all[p] = IF p = q THEN one ELSE video_stream.res[p]
  BY <1>0, <1>3
<1> HIDE DEF all
<1>5. s = [state |-> video_stream.state, on |-> video_stream.on, res |-> all]
  BY <1>0
<1>6. s \in VideoStreams /\ s.res = all
  BY <1>0, <1>4, <1>5 DEF VideoStreams
<1> HIDE DEF s
<1>7. VideoDistinct(s)
  BY <1>3, <1>4, <1>6 DEF VideoDistinct, VideoSound
<1>8. \A p \in VideoQueues : VideoQueued(s, p) = IF p = q THEN {} ELSE VideoQueued(video_stream, p)
  BY <1>3, <1>4, <1>6 DEF VideoQueued
<1>9. ~video_refused => VideoMatch(s, video_host, q)
  <2> SUFFICES ASSUME ~video_refused, NEW p \in VideoQueues
               PROVE IF p = q THEN VideoQueued(s, p) = {} /\ VideoKeeps(video_host, p) \subseteq DOMAIN s.res[p]
                     ELSE VideoKeeps(video_host, p) = VideoQueued(s, p)
    BY DEF VideoMatch
  <2>1. VideoKeeps(video_host, p) = VideoQueued(video_stream, p)
    BY DEF VideoSound, VideoMatch, VideoQueues
  <2>2. VideoQueued(video_stream, p) \subseteq DOMAIN video_stream.res[p]
    BY DEF VideoQueued
  <2> QED
    BY <1>3, <1>4, <1>6, <1>8, <2>1, <2>2
<1>10. VideoQueuedFor(s, r, "clearing")
  <2> SUFFICES ASSUME NEW p \in VideoQueues, NEW k \in DOMAIN s.res[p], s.res[p][k].state = "Queued"
               PROVE  VideoWasQueued(p, s.res[p][k].id)
    BY DEF VideoQueuedFor
  <2>1. p # q
    BY <1>3, <1>4, <1>6
  <2>2. s.res[p] = video_stream.res[p]
    BY <1>4, <1>6, <2>1
  <2> QED
    BY <2>2 DEF VideoWasQueued
<1> QED
  BY <1>1, <1>6, <1>7, <1>9, <1>10 DEF VideoEffect, VideoAnswers, VideoSound

\* RESOURCE_DESTROY_ALL
LEMMA VideoDestroysAll ==
  ASSUME VideoSound, NEW r, r.q \in VideoQueues, NEW o \in VideoDestroyResources(r)
  PROVE  VideoEffect(r, o)
<1> DEFINE q == r.q
           all == [video_stream.res EXCEPT ![q] = <<>>]
           s == [video_stream EXCEPT !.res = all]
           h == [video_host EXCEPT ![q] = VideoClosed[q]]
           out == [VideoOut("ok") EXCEPT !.stream = s]
<1>0. video_stream = [state |-> video_stream.state, on |-> video_stream.on, res |-> video_stream.res]
      /\ video_stream.state \in VideoStates /\ video_stream.on \in [VideoQueues -> BOOLEAN]
      /\ video_stream.res \in [VideoQueues -> Seq(VideoResources)]
  BY DEF VideoSound, VideoStreams
<1>1. [VideoOut("ok") EXCEPT !.stream.res[r.q] = <<>>] = out
  BY DEF VideoOut
<1>2. o \in {[out EXCEPT !.host = VideoRequestBuffers(video_host, q, 0)], VideoFailed(out, "ok")}
  BY <1>1 DEF VideoDestroyResources, VideoOut
<1>3. VideoRequestBuffers(video_host, q, 0) = h
  BY DEF VideoRequestBuffers
<1>4. all \in [VideoQueues -> Seq(VideoResources)] /\ \A p \in VideoQueues : all[p] = IF p = q THEN <<>> ELSE video_stream.res[p]
  BY <1>0
<1> HIDE DEF all
<1>5. s = [state |-> video_stream.state, on |-> video_stream.on, res |-> all]
  BY <1>0
<1>6. s \in VideoStreams /\ s.res = all
  BY <1>0, <1>4, <1>5 DEF VideoStreams
<1> HIDE DEF s
<1>7. DOMAIN <<>> = {}
  OBVIOUS
<1>8. VideoDistinct(s)
  BY <1>4, <1>6, <1>7 DEF VideoDistinct, VideoSound
<1>9. VideoQueuedFor(s, r, "ok")
  BY <1>4, <1>6, <1>7 DEF VideoQueuedFor, VideoWasQueued
<1>10. h \in VideoDevices /\ \A p \in VideoQueues : h[p] = IF p = q THEN VideoClosed[p] ELSE video_host[p]
  <2>1. VideoClosed[q] \in [count : Nat, on : BOOLEAN, held : SUBSET Nat, done : Seq([index : Nat, eos : BOOLEAN])]
    <3>1. "none" \in VideoStates
      BY DEF VideoStates
    <3> QED
      BY <3>1, VideoEmpty DEF VideoDevices
  <2> QED
    BY <2>1 DEF VideoSound, VideoDevices
<1> HIDE DEF h
<1>11. VideoClosed[q].held = {} /\ VideoClosed[q].done = <<>>
  BY DEF VideoClosed
<1>12. VideoDoneOnce(h)
  BY <1>7, <1>10, <1>11 DEF VideoDoneOnce, VideoSound
<1>13. ~video_refused => VideoMatch(s, h, "none")
  <2> SUFFICES ASSUME ~video_refused, NEW p \in VideoQueues PROVE VideoKeeps(h, p) = VideoQueued(s, p)
    BY DEF VideoMatch, VideoQueues
  <2>1. CASE p = q
    BY <1>4, <1>6, <1>7, <1>10, <1>11, <2>1 DEF VideoKeeps, VideoQueued
  <2>2. CASE p # q
    <3>1. VideoKeeps(video_host, p) = VideoQueued(video_stream, p)
      BY DEF VideoSound, VideoMatch, VideoQueues
    <3> QED
      <4>1. h[p] = video_host[p] /\ s.res[p] = video_stream.res[p]
        BY <1>4, <1>6, <1>10, <2>2
      <4> QED
        BY <3>1, <4>1 DEF VideoKeeps, VideoQueued
  <2> QED
    BY <2>1, <2>2
<1>14. VideoBears(out, s, video_host, "ok")
  <2> DEFINE ok == VideoOut("ok")
  <2>1. VideoBears(ok, video_stream, video_host, "ok")
    BY VideoOutIs
  <2> HIDE DEF ok
  <2>2. out = [ok EXCEPT !.stream = s]
    BY DEF ok
  <2> HIDE DEF out
  <2> QED
    BY <2>1, <2>2, VideoOutExcept
<1> HIDE DEF out
<1>15. CASE o = VideoFailed(out, "ok")
  <2>1. o.stream = s /\ o.host = video_host /\ o.answer = "ok" /\ o.refused = TRUE
    BY <1>14, <1>15 DEF VideoFailed, VideoIsOut, VideoBears
  <2> QED
    BY <1>6, <1>8, <1>9, <2>1 DEF VideoEffect, VideoAnswers, VideoSound
<1>16. CASE o = [out EXCEPT !.host = VideoRequestBuffers(video_host, q, 0)]
  <2>1. o.stream = s /\ o.host = h /\ o.answer = "ok" /\ o.refused = FALSE
    <3>1. VideoBears(o, s, h, "ok")
      BY <1>3, <1>14, <1>16, VideoOutExcept
    <3> QED
      BY <3>1 DEF VideoBears
  <2> QED
    BY <1>6, <1>8, <1>9, <1>10, <1>12, <1>13, <2>1 DEF VideoEffect, VideoAnswers
<1> QED
  BY <1>2, <1>15, <1>16

\* STREAM_DRAIN, and the commands that ask the device
LEMMA VideoAsks ==
  ASSUME VideoSound, NEW r, NEW o \in VideoDrain \cup VideoParams(r)
  PROVE  VideoEffect(r, o)
<1> DEFINE s == [video_stream EXCEPT !.state = "Draining"]
           d == [VideoOut("ok") EXCEPT !.stop = TRUE, !.stream.state = "Draining"]
<1>1. CASE o = VideoOut("ok") \/ o = VideoFailed(VideoOut("error"), "error")
  BY <1>1, VideoOuts
<1>2. CASE o = d
  <2>1. d.stream = s /\ d.host = video_host /\ d.answer = "ok" /\ d.refused = FALSE
    <3>1. d = [VideoOut("ok") EXCEPT !.stop = TRUE, !.stream = s]
      BY DEF VideoOut
    <3> HIDE DEF s, d
    <3> QED
      BY <3>1 DEF VideoOut
  <2> HIDE DEF d
  <2>2. video_stream = [state |-> video_stream.state, on |-> video_stream.on, res |-> video_stream.res]
        /\ video_stream.on \in [VideoQueues -> BOOLEAN] /\ video_stream.res \in [VideoQueues -> Seq(VideoResources)]
    BY DEF VideoSound, VideoStreams
  <2>3. s = [state |-> "Draining", on |-> video_stream.on, res |-> video_stream.res]
    BY <2>2
  <2>4. s \in VideoStreams /\ s.res = video_stream.res
    BY <2>2, <2>3 DEF VideoStreams, VideoStates
  <2> HIDE DEF s
  <2>5. VideoDistinct(s) /\ \A q : VideoQueued(s, q) = VideoQueued(video_stream, q)
    BY <2>4, VideoAlike DEF VideoSound
  <2>6. VideoQueuedFor(s, r, "ok")
    BY <2>4 DEF VideoQueuedFor, VideoWasQueued
  <2>7. ~video_refused => VideoMatch(s, video_host, "none")
    BY <2>5 DEF VideoSound, VideoMatch, VideoQueues
  <2> QED
    BY <1>2, <2>1, <2>4, <2>5, <2>6, <2>7 DEF VideoEffect, VideoAnswers, VideoSound
<1> QED
  BY <1>1, <1>2 DEF VideoDrain, VideoParams

VideoOutcomes(r) ==
  IF ~VideoReadable(r) THEN VideoMalformed(r)
  ELSE IF video_backend = "null" THEN VideoNull(r) ELSE VideoDecoder(r)

\* Every command, whatever is odd about it
LEMMA VideoServes ==
  ASSUME VideoSound, NEW r \in VideoRequests, NEW o \in VideoOutcomes(r)
  PROVE  VideoEffect(r, o)
<1>1. r.cmd \in DOMAIN VideoBodyBytes /\ r.q \in VideoQueues /\ r.id \in VideoIds
  BY VideoAssumption DEF VideoRequests
<1>2. CASE o \in {VideoOut("ok"), VideoOut("error"), VideoOut("dead")}
  BY <1>2, VideoOuts
<1>3. CASE VideoReadable(r) /\ video_backend # "null" /\ o \in VideoDecoder(r) /\ o # VideoOut("error")
  <2>1. ~(r.cmd \in VideoStreamCommands /\ video_stream.state = "none")
    BY <1>3 DEF VideoDecoder
  <2>2. \/ r.cmd = "StreamCreate" /\ o \in VideoCreate
        \/ r.cmd = "StreamDestroy" /\ o \in VideoDestroy
        \/ r.cmd = "StreamDrain" /\ o \in VideoDrain
        \/ r.cmd = "ResourceCreate" /\ o \in VideoCreateResource(r)
        \/ r.cmd = "ResourceQueue" /\ o \in VideoQueueResource(r)
        \/ r.cmd = "ResourceDestroyAll" /\ o \in VideoDestroyResources(r)
        \/ r.cmd = "QueueClear" /\ o \in VideoClearQueue(r)
        \/ r.cmd \in {"GetParams", "SetParams", "QueryCapability", "QueryControl"} /\ o \in VideoParams(r)
    BY <1>1, <1>3, <2>1 DEF VideoDecoder, VideoBodyBytes
  <2> QED
    BY <1>1, <2>2, VideoRenews, VideoAsks, VideoCreates, VideoQueuesIt, VideoDestroysAll, VideoClears
<1>4. \/ o \in {VideoOut("ok"), VideoOut("error"), VideoOut("dead")}
      \/ VideoReadable(r) /\ video_backend # "null" /\ o \in VideoDecoder(r) /\ o # VideoOut("error")
  <2>1. CASE ~VideoReadable(r)
    BY <2>1 DEF VideoOutcomes, VideoMalformed
  <2>2. CASE VideoReadable(r) /\ video_backend = "null"
    BY <2>2 DEF VideoOutcomes, VideoNull
  <2>3. CASE VideoReadable(r) /\ video_backend # "null"
    BY <2>3 DEF VideoOutcomes
  <2> QED
    BY <2>1, <2>2, <2>3
<1> QED
  BY <1>2, <1>3, <1>4

-----------------------------------------------------------------------------
(* The futures and the requests.                                           *)

VideoWaking == {"new", "woken", "checked", "waiting"}

\* What becomes of a future
VideoMoved(s, ready, t) ==
  LET now == VideoResource(s, t)
      was == VideoResource(video_stream, t)
  IN  IF now = 0 THEN VideoOrphan(t, was # 0 /\ video_stream.res[t.q][was].state = "Ready")
      ELSE IF <<t.q, t.id>> \in ready /\ t.phase = "waiting" THEN [t EXCEPT !.phase = "woken"] ELSE t

\* A future keeps its resource, and waits on while the resource is there.
LEMMA VideoMoves ==
  ASSUME NEW s, NEW ready, NEW t \in VideoTasks
  PROVE  LET u == VideoMoved(s, ready, t)
         IN  /\ u \in VideoTasks /\ u.q = t.q /\ u.id = t.id
             /\ VideoResource(s, t) # 0 /\ t.phase \in VideoWaking => u.phase \in VideoWaking
<1> DEFINE u == VideoMoved(s, ready, t)
<1>1. t = [q |-> t.q, id |-> t.id, phase |-> t.phase] /\ t.q \in VideoQueues /\ t.id \in VideoIds /\ t.phase \in VideoPhases
  BY DEF VideoTasks
<1>2. PICK p : p \in VideoPhases /\ u \in {t, [t EXCEPT !.phase = p]}
               /\ (VideoResource(s, t) # 0 => p = "woken")
  <2>1. CASE VideoResource(s, t) = 0
    <3>1. PICK b : u = VideoOrphan(t, b)
      BY <2>1 DEF VideoMoved
    <3>2. u = [t EXCEPT !.phase = t.phase] \/ u = [t EXCEPT !.phase = "last"] \/ u = [t EXCEPT !.phase = "stranded"]
      BY <3>1 DEF VideoOrphan
    <3> HIDE DEF u
    <3> QED
      BY <1>1, <2>1, <3>2 DEF VideoPhases
  <2>2. CASE VideoResource(s, t) # 0
    BY <2>2 DEF VideoMoved, VideoPhases
  <2> QED
    BY <2>1, <2>2
<1> HIDE DEF u
<1>3. u = t \/ u = [q |-> t.q, id |-> t.id, phase |-> p]
  BY <1>1, <1>2
<1>4. u \in VideoTasks /\ u.q = t.q /\ u.id = t.id
  BY <1>1, <1>2, <1>3 DEF VideoTasks
<1>5. VideoResource(s, t) # 0 /\ t.phase \in VideoWaking => u.phase \in VideoWaking
  BY <1>2, <1>3 DEF VideoWaking
<1> QED
  BY <1>4, <1>5 DEF u

\* They go on being one for each resource.
LEMMA VideoWokenTasks ==
  ASSUME video_tasks \subseteq VideoTasks, VideoOneEach(video_tasks), NEW s, NEW ready
  PROVE  LET after == VideoWoken(s, ready)
         IN  /\ after \subseteq VideoTasks /\ VideoOneEach(after)
             /\ \A u \in after : \E t \in video_tasks : t.q = u.q /\ t.id = u.id
             /\ \A t \in video_tasks : \E u \in after :
                  /\ u.q = t.q /\ u.id = t.id
                  /\ VideoResource(s, t) # 0 /\ t.phase \in VideoWaking => u.phase \in VideoWaking
<1> DEFINE after == VideoWoken(s, ready)
<1>1. after = {VideoMoved(s, ready, t) : t \in video_tasks}
  BY DEF VideoWoken, VideoMoved
<1> HIDE DEF after
<1>2. \A u \in after : \E t \in video_tasks : u = VideoMoved(s, ready, t) /\ u \in VideoTasks /\ t.q = u.q /\ t.id = u.id
  BY <1>1, VideoMoves
<1>3. VideoOneEach(after)
  BY <1>2 DEF VideoOneEach
<1>4. \A t \in video_tasks : \E u \in after :
        /\ u.q = t.q /\ u.id = t.id
        /\ VideoResource(s, t) # 0 /\ t.phase \in VideoWaking => u.phase \in VideoWaking
  BY <1>1, VideoMoves
<1> QED
  BY <1>2, <1>3, <1>4 DEF after

\* A resource that stays Queued is still waited for.
LEMMA VideoGoesOn ==
  ASSUME video_tasks \subseteq VideoTasks, VideoFollowed(video_stream, video_tasks),
         NEW s \in VideoStreams, VideoDistinct(s), NEW ready,
         NEW q \in VideoQueues, NEW i \in DOMAIN s.res[q], VideoWasQueued(q, s.res[q][i].id)
  PROVE  \E u \in VideoWoken(s, ready) : VideoWaits(u, q, s.res[q][i].id)
<1> DEFINE id == s.res[q][i].id
<1>1. PICK t \in video_tasks : VideoWaits(t, q, id)
  BY DEF VideoWasQueued, VideoFollowed
<1>2. s.res[q] \in Seq(VideoResources) /\ \A k, l \in DOMAIN s.res[q] : s.res[q][k].id = s.res[q][l].id => k = l
  BY DEF VideoStreams, VideoDistinct
<1>3. VideoFind(s.res[q], id) # 0
  <2> DEFINE all == s.res[q]
  <2>1. \E k \in DOMAIN all : all[k].id = id
    OBVIOUS
  <2> HIDE DEF all, id
  <2>2. VideoFind(all, id) # 0
    BY <1>2, <2>1, VideoFound DEF all
  <2> QED
    BY <2>2 DEF all
<1>4. t.q = q /\ t.id = id /\ t.phase \in VideoWaking
  BY <1>1 DEF VideoWaits, VideoWaking
<1>5. VideoResource(s, t) # 0
  BY <1>3, <1>4 DEF VideoResource
<1>6. VideoMoved(s, ready, t) \in VideoWoken(s, ready)
  BY DEF VideoWoken, VideoMoved
<1> DEFINE u == VideoMoved(s, ready, t)
<1>7. u.q = t.q /\ u.id = t.id /\ u.phase \in VideoWaking
  BY <1>4, <1>5, VideoMoves
<1> HIDE DEF u
<1>8. VideoWaits(u, q, id)
  BY <1>4, <1>7 DEF VideoWaits, VideoWaking
<1> QED
  BY <1>6, <1>8 DEF u

\* What becomes of the batch, as each answer has it
LEMMA VideoBatched ==
  ASSUME video_ring \in VideoRings, video_silent \in Nat, Serving(video_ring), NEW answer, VideoBatch(answer)
  PROVE  /\ video_ring' \in VideoRings /\ video_silent' \in Nat
         /\ answer = "async" => video_ring' = EmptyRing
         /\ answer = "clearing" => video_ring' = video_ring
         /\ \A tasks : VideoNoneAsked(video_ring, tasks) => VideoNoneAsked(video_ring', tasks)
<1>0. video_ring.avail \in Seq(VideoRequests) /\ video_ring.batch \in Seq(VideoRequests) /\ video_ring.used \in Nat
      /\ video_ring = [avail |-> video_ring.avail, batch |-> video_ring.batch, used |-> video_ring.used]
  BY DEF VideoRings
<1>1. CASE answer = "async"
  <2>1. video_ring' = EmptyRing /\ video_silent' = video_silent + video_ring.used
    BY <1>1 DEF VideoBatch
  <2>2. EmptyRing \in VideoRings
    BY DEF EmptyRing, VideoRings
  <2>3. DOMAIN <<>> = {}
    OBVIOUS
  <2>4. \A tasks : VideoNoneAsked(EmptyRing, tasks)
    BY <2>3 DEF EmptyRing, VideoNoneAsked
  <2> QED
    BY <1>0, <1>1, <2>1, <2>2, <2>4
<1>2. CASE answer \in {"dead", "clearing"}
  BY <1>2 DEF VideoBatch
<1>3. CASE answer \notin {"async", "dead", "clearing"}
  <2> DEFINE batch == video_ring.batch
             rest == Tail(batch)
  <2>1. video_ring' = AddUsed(video_ring) /\ video_silent' = video_silent
    BY <1>3 DEF VideoBatch
  <2>2. batch \in Seq(VideoRequests) /\ batch # <<>>
    BY <1>0 DEF Serving
  <2>3. rest \in Seq(VideoRequests) /\ \A i \in DOMAIN rest : i + 1 \in DOMAIN batch /\ rest[i] = batch[i + 1]
    <3> HIDE DEF batch
    <3> QED
      BY <2>2, HeadTailProperties
  <2> HIDE DEF rest
  <2>4. video_ring' = [avail |-> video_ring.avail, batch |-> rest, used |-> video_ring.used + 1]
    BY <1>0, <2>1 DEF AddUsed, rest
  <2>5. video_ring' \in VideoRings
    BY <1>0, <2>3, <2>4 DEF VideoRings
  <2>6. \A tasks : VideoNoneAsked(video_ring, tasks) => VideoNoneAsked(video_ring', tasks)
    <3>1. video_ring'.avail = video_ring.avail /\ video_ring'.batch = rest
      BY <2>4
    <3> QED
      BY <2>3, <3>1 DEF VideoNoneAsked
  <2> QED
    BY <1>3, <2>1, <2>5, <2>6
<1> QED
  BY <1>1, <1>2, <1>3

-----------------------------------------------------------------------------
(* The steps of the worker.                                                *)

\* The worker serves a request.
LEMMA VideoCommandStep ==
  ASSUME VideoIInv, VideoCommand
  PROVE  VideoIInv'
<1> DEFINE r == Request(video_ring)
<1>1. /\ video_worker = "run" /\ video_clearing = "none" /\ video_todo = {} /\ video_backend # "none"
      /\ Serving(video_ring) /\ UNCHANGED <<video_backend, video_todo>>
  BY DEF VideoCommand, VideoIdle
<1>2. PICK o \in VideoOutcomes(r) :
        LET answer == VideoChecked(r, o.answer) IN
        /\ VideoBatch(answer)
        /\ video_worker' = IF answer = "dead" THEN "dead" ELSE "run"
        /\ video_clearing' = IF answer = "clearing" THEN r.q ELSE "none"
        /\ video_stream' = o.stream /\ video_host' = o.host
        /\ video_refused' = (video_refused \/ o.refused)
        /\ video_tasks' = VideoWoken(o.stream, o.ready) \cup
             (IF answer = "async" THEN {[q |-> r.q, id |-> r.id, phase |-> "new"]} ELSE {})
  BY DEF VideoCommand, VideoOutcomes
<1> DEFINE answer == VideoChecked(r, o.answer)
           after == VideoWoken(o.stream, o.ready)
           one == [q |-> r.q, id |-> r.id, phase |-> "new"]
<1>3. /\ video_ring \in VideoRings /\ video_silent \in Nat /\ video_tasks \subseteq VideoTasks
      /\ VideoOneEach(video_tasks) /\ VideoNoneAsked(video_ring, video_tasks)
      /\ VideoFollowed(video_stream, video_tasks) /\ VideoSound
  BY <1>1 DEF VideoIInv, VideoTyped, VideoAsksOnce, VideoSound
<1>4. 1 \in DOMAIN video_ring.batch /\ r = video_ring.batch[1] /\ r \in VideoRequests
  <2>1. video_ring.batch \in Seq(VideoRequests) /\ video_ring.batch # <<>>
    BY <1>1, <1>3 DEF VideoRings, Serving
  <2> QED
    BY <2>1 DEF Request
<1>5. r.cmd \in DOMAIN VideoBodyBytes /\ r.q \in VideoQueues /\ r.id \in VideoIds
  BY <1>4, VideoAssumption DEF VideoRequests
<1>6. VideoEffect(r, o)
  BY <1>3, <1>4, VideoServes
<1> HIDE DEF r
<1>7. /\ answer \in VideoAnswers /\ (answer = "clearing") = (o.answer = "clearing")
      /\ answer = "async" => o.answer = "async" /\ r.cmd = "ResourceQueue"
      /\ o.answer = "async" => answer \in {"async", "dead"}
  BY <1>6 DEF VideoChecked, VideoEffect, VideoAnswers
<1> HIDE DEF answer
<1>8. /\ video_ring' \in VideoRings /\ video_silent' \in Nat
      /\ answer = "async" => video_ring' = EmptyRing
      /\ answer = "clearing" => video_ring' = video_ring
      /\ \A tasks : VideoNoneAsked(video_ring, tasks) => VideoNoneAsked(video_ring', tasks)
  BY <1>1, <1>2, <1>3, VideoBatched DEF answer
<1>9. /\ after \subseteq VideoTasks /\ VideoOneEach(after)
      /\ \A u \in after : \E t \in video_tasks : t.q = u.q /\ t.id = u.id
  BY <1>3, VideoWokenTasks
<1>10. one \in VideoTasks /\ one.q = r.q /\ one.id = r.id /\ VideoWaits(one, r.q, r.id)
  BY <1>5 DEF VideoTasks, VideoPhases, VideoWaits
<1>11. answer = "async" => \A u \in after : ~(u.q = r.q /\ u.id = r.id)
  BY <1>3, <1>4, <1>7, <1>9 DEF VideoNoneAsked, VideoHasNot
<1>12. video_tasks' = after \cup (IF answer = "async" THEN {one} ELSE {})
  BY <1>2 DEF answer
<1> HIDE DEF one, after
<1>13. video_tasks' \subseteq VideoTasks /\ VideoOneEach(video_tasks')
  BY <1>9, <1>10, <1>11, <1>12 DEF VideoOneEach
<1>14. VideoNoneAsked(video_ring', video_tasks')
  <2>1. CASE answer = "async"
    <3>1. DOMAIN <<>> = {}
      OBVIOUS
    <3> QED
      BY <1>8, <2>1, <3>1 DEF VideoNoneAsked, EmptyRing
  <2>2. CASE answer # "async"
    <3>1. VideoNoneAsked(video_ring, after)
      BY <1>3, <1>9 DEF VideoNoneAsked, VideoHasNot
    <3> QED
      BY <1>8, <1>12, <2>2, <3>1
  <2> QED
    BY <2>1, <2>2
<1>15. video_stream' = o.stream /\ video_host' = o.host /\ video_refused' = (video_refused \/ o.refused)
       /\ video_clearing' = (IF o.answer = "clearing" THEN r.q ELSE "none")
       /\ video_worker' = IF answer = "dead" THEN "dead" ELSE "run"
  <2>1. (answer = "clearing") <=> (o.answer = "clearing")
    BY <1>7
  <2> QED
    BY <1>2, <2>1 DEF answer
<1>16. VideoTyped'
  <2>1. video_worker' \in {"run", "dead"} /\ video_clearing' \in VideoQueues \cup {"none"}
    BY <1>5, <1>15
  <2>2. video_stream' \in VideoStreams /\ video_host' \in VideoDevices
    BY <1>6, <1>15 DEF VideoEffect
  <2>3. video_backend' \in VideoBackends \cup {"none"} /\ video_todo' \subseteq VideoTold
    BY <1>1 DEF VideoIInv, VideoTyped
  <2> QED
    BY <1>8, <1>13, <2>1, <2>2, <2>3 DEF VideoTyped
<1>17. VideoTakes'
  <2>1. video_todo' = {}
    BY <1>1
  <2>2. video_clearing' # "none" => video_ring'.batch # <<>>
    BY <1>1, <1>7, <1>8, <1>15 DEF Serving
  <2> QED
    BY <2>1, <2>2 DEF VideoTakes
<1>18. VideoDistinct(video_stream') /\ VideoDoneOnce(video_host')
       /\ (~video_refused' => VideoMatch(video_stream', video_host', video_clearing'))
  BY <1>6, <1>15 DEF VideoEffect
<1>19. video_worker' = "run" => VideoFollowed(video_stream', video_tasks')
  <2> SUFFICES ASSUME video_worker' = "run", NEW q \in VideoQueues, NEW i \in DOMAIN o.stream.res[q],
                      o.stream.res[q][i].state = "Queued"
               PROVE  \E t \in video_tasks' : VideoWaits(t, q, o.stream.res[q][i].id)
    BY <1>15 DEF VideoFollowed
  <2>1. answer # "dead"
    BY <1>15
  <2>2. CASE VideoWasQueued(q, o.stream.res[q][i].id)
    <3>1. \E t \in after : VideoWaits(t, q, o.stream.res[q][i].id)
      BY <1>3, <1>6, <2>2, VideoGoesOn DEF after, VideoEffect
    <3> QED
      BY <1>12, <3>1
  <2>3. CASE ~VideoWasQueued(q, o.stream.res[q][i].id)
    <3>1. o.answer = "async" /\ q = r.q /\ o.stream.res[q][i].id = r.id
      BY <1>6, <2>3 DEF VideoEffect, VideoQueuedFor
    <3>2. answer = "async"
      BY <1>7, <2>1, <3>1
    <3> QED
      BY <1>10, <1>12, <3>1, <3>2
  <2> QED
    BY <2>2, <2>3
<1> QED
  BY <1>13, <1>14, <1>16, <1>17, <1>18, <1>19 DEF VideoIInv, VideoAsksOnce

\* Steps that only move requests, events and what is to do
LEMMA VideoStays ==
  ASSUME VideoIInv, VideoTyped', VideoTakes', VideoNoneAsked(video_ring', video_tasks),
         UNCHANGED <<video_stream, video_host, video_refused, video_tasks, video_clearing>>,
         video_worker' = "run" => video_worker = "run"
  PROVE  VideoIInv'
<1>1. VideoAsksOnce'
  BY DEF VideoIInv, VideoAsksOnce
<1>2. VideoDistinct(video_stream') /\ VideoDoneOnce(video_host')
  BY DEF VideoIInv
<1>3. ~video_refused' => VideoMatch(video_stream', video_host', video_clearing')
  BY DEF VideoIInv
<1>4. video_worker' = "run" => VideoFollowed(video_stream', video_tasks')
  BY DEF VideoIInv
<1> QED
  BY <1>1, <1>2, <1>3, <1>4 DEF VideoIInv

\* A ring has its fields.
LEMMA VideoRingFields ==
  ASSUME video_ring \in VideoRings
  PROVE  /\ video_ring.avail \in Seq(VideoRequests) /\ video_ring.batch \in Seq(VideoRequests) /\ video_ring.used \in Nat
         /\ video_ring = [avail |-> video_ring.avail, batch |-> video_ring.batch, used |-> video_ring.used]
  BY DEF VideoRings

\* The worker takes a batch, or tells the guest of one.
LEMMA VideoRingStep ==
  ASSUME VideoIInv, VideoCollect \/ VideoSignal
  PROVE  VideoIInv'
<1>1. /\ UNCHANGED <<video_backend, video_worker, video_clearing, video_stream, video_tasks, video_todo, video_host, video_refused>>
      /\ video_clearing = "none" /\ video_todo = {} /\ video_silent' \in {0, video_silent}
  BY DEF VideoCollect, VideoSignal, VideoIdle, videoPool, videoHost
<1>2. video_ring \in VideoRings /\ video_silent \in Nat /\ VideoNoneAsked(video_ring, video_tasks)
  BY DEF VideoIInv, VideoTyped, VideoAsksOnce
<1>3. \/ video_ring' = [avail |-> <<>>, batch |-> video_ring.avail, used |-> video_ring.used]
      \/ video_ring' = [avail |-> video_ring.avail, batch |-> video_ring.batch, used |-> 0]
  BY <1>2, VideoRingFields DEF VideoCollect, VideoSignal, Collect, SignalUsed
<1>4. video_ring.avail \in Seq(VideoRequests) /\ video_ring.batch \in Seq(VideoRequests) /\ video_ring.used \in Nat
  BY <1>2, VideoRingFields
<1>5. video_ring' \in VideoRings
  <2>1. <<>> \in Seq(VideoRequests)
    OBVIOUS
  <2> QED
    <3> DEFINE a == video_ring.avail
               b == video_ring.batch
               n == video_ring.used
               none == <<>>
               R == Seq(VideoRequests)
    <3>1. a \in R /\ b \in R /\ n \in Nat /\ none \in R
      BY <1>4, <2>1
    <3>2. video_ring' = [avail |-> none, batch |-> a, used |-> n] \/ video_ring' = [avail |-> a, batch |-> b, used |-> 0]
      BY <1>3
    <3>3. VideoRings = [avail : R, batch : R, used : Nat]
      BY DEF VideoRings
    <3> HIDE DEF a, b, n, none, R
    <3> QED
      BY <3>1, <3>2, <3>3
<1>6. VideoNoneAsked(video_ring', video_tasks)
  <2>1. DOMAIN <<>> = {}
    OBVIOUS
  <2> QED
    BY <1>2, <1>3, <2>1 DEF VideoNoneAsked
<1>7. VideoTyped'
  BY <1>1, <1>2, <1>5 DEF VideoIInv, VideoTyped
<1>8. VideoTakes'
  BY <1>1 DEF VideoTakes
<1> QED
  BY <1>1, <1>6, <1>7, <1>8, VideoStays

\* Nothing in the queue of commands, so any batch may follow.
LEMMA VideoGuestStep ==
  ASSUME VideoIInv, NEW b \in VideoBatches, VideoGuest(b)
  PROVE  VideoIInv'
<1>1. /\ UNCHANGED <<video_backend, video_worker, video_clearing, video_silent, video_stream, video_tasks, video_todo, video_host, video_refused>>
      /\ Outstanding(video_ring) = 0 /\ video_ring' = [video_ring EXCEPT !.avail = b]
      /\ \A i \in DOMAIN b : b[i].cmd = "ResourceQueue" => VideoHas(b[i])
  BY DEF VideoGuest, videoPool, videoHost
<1>2. video_ring \in VideoRings /\ VideoNoneAsked(video_ring, video_tasks)
  BY DEF VideoIInv, VideoTyped, VideoAsksOnce
<1>3. video_ring' = [avail |-> b, batch |-> video_ring.batch, used |-> video_ring.used]
  BY <1>1, <1>2, VideoRingFields
<1>4. b \in Seq(VideoRequests)
  <2>1. b \in Seq(ToSet(b)) /\ ToSet(b) \subseteq VideoRequests
    BY VideoAssumption DEF VideoRequests
  <2> QED
    BY <2>1
<1>5. video_ring' \in VideoRings
  BY <1>2, <1>3, <1>4, VideoRingFields DEF VideoRings
<1>6. video_ring.batch = <<>>
  BY <1>1, <1>2, VideoRingFields DEF Outstanding
<1>7. VideoNoneAsked(video_ring', video_tasks)
  <2>1. video_ring'.avail = b /\ video_ring'.batch = video_ring.batch
    BY <1>3
  <2>2. \A i \in DOMAIN b : \A t \in video_tasks : VideoHasNot(b[i], t)
    BY <1>1 DEF VideoHas, VideoHasNot
  <2> QED
    BY <1>2, <2>1, <2>2 DEF VideoNoneAsked
<1>8. VideoTyped'
  BY <1>1, <1>5 DEF VideoIInv, VideoTyped
<1>9. VideoTakes'
  <2>1. video_clearing = "none"
    BY <1>6 DEF VideoIInv, VideoTakes
  <2> QED
    BY <1>1, <2>1 DEF VideoIInv, VideoTakes
<1> QED
  BY <1>1, <1>7, <1>8, <1>9, VideoStays

\* Events, the poller, and the choice of the backend
LEMMA VideoEventStep ==
  ASSUME VideoIInv, VideoProcessEvent \/ VideoGuestEvent \/ VideoWake \/ \E b \in VideoBackends : VideoAlloc(b)
  PROVE  VideoIInv'
<1>1. /\ UNCHANGED <<video_ring, video_clearing, video_silent, video_stream, video_tasks, video_host, video_refused>>
      /\ video_worker' \in {video_worker, "dead"} /\ video_backend' \in VideoBackends \cup {video_backend}
  BY DEF VideoProcessEvent, VideoGuestEvent, VideoWake, VideoAlloc, videoPool, videoHost
<1>2. \/ video_todo' \subseteq video_todo
      \/ /\ video_clearing = "none"
         /\ video_todo' \subseteq VideoTold /\ \A q \in VideoQueues : q \in video_todo' => video_host[q].done # <<>>
  <2>1. CASE VideoWake
    <3>1. PICK event \in {FALSE, video_stream.state # "Stopped"} :
            video_todo' = {x \in VideoTold : IF x = "event" THEN event ELSE video_host[x].done # <<>>}
      BY <2>1 DEF VideoWake
    <3>2. \A q \in VideoQueues : q # "event"
      BY DEF VideoQueues
    <3> QED
      BY <2>1, <3>1, <3>2 DEF VideoWake, VideoIdle
  <2>2. CASE ~VideoWake
    BY <2>2 DEF VideoProcessEvent, VideoGuestEvent, VideoAlloc, VideoHandled
  <2> QED
    BY <2>1, <2>2
<1>3. VideoTyped'
  BY <1>1, <1>2 DEF VideoIInv, VideoTyped
<1>4. VideoTakes'
  BY <1>1, <1>2 DEF VideoIInv, VideoTakes
<1>5. VideoNoneAsked(video_ring', video_tasks)
  BY <1>1 DEF VideoIInv, VideoAsksOnce
<1>6. video_worker' = "run" => video_worker = "run"
  BY <1>1
<1> QED
  BY <1>1, <1>3, <1>4, <1>5, <1>6, VideoStays

\* What streamoff() makes of the device of a queue
LEMMA VideoGivesBack ==
  ASSUME NEW h \in VideoDevices, NEW c \in VideoQueues
  PROVE  [h EXCEPT ![c].on = FALSE, ![c].held = {}, ![c].done = <<>>] =
         [h EXCEPT ![c] = [count |-> h[c].count, on |-> FALSE, held |-> {}, done |-> <<>>]]
<1> DEFINE d1 == [h[c] EXCEPT !.on = FALSE]
           d2 == [d1 EXCEPT !.held = {}]
           d3 == [d2 EXCEPT !.done = <<>>]
           h1 == [h EXCEPT ![c] = d1]
           h2 == [h1 EXCEPT ![c] = d2]
           h3 == [h2 EXCEPT ![c] = d3]
<1>1. h \in [VideoQueues -> [count : Nat, on : BOOLEAN, held : SUBSET Nat, done : Seq([index : Nat, eos : BOOLEAN])]]
  BY DEF VideoDevices
<1>2. h1[c] = d1
  <2> HIDE DEF d1
  <2> QED
    BY <1>1
<1>3. h2 = [h1 EXCEPT ![c] = [h1[c] EXCEPT !.held = {}]]
  <2> HIDE DEF h1, d1
  <2> QED
    BY <1>2
<1>4. h2[c] = d2
  <2> HIDE DEF d1, d2
  <2> QED
    BY <1>1
<1>5. h3 = [h2 EXCEPT ![c] = [h2[c] EXCEPT !.done = <<>>]]
  <2> HIDE DEF h2, d2
  <2> QED
    BY <1>4
<1>6. [h EXCEPT ![c].on = FALSE, ![c].held = {}, ![c].done = <<>>] = h3
  <2>1. h1 = [h EXCEPT ![c] = [h[c] EXCEPT !.on = FALSE]]
    OBVIOUS
  <2> HIDE DEF h3, h2
  <2> QED
    BY <1>3, <1>5
<1>7. h3 = [h EXCEPT ![c] = d3]
  <2> HIDE DEF d1, d2, d3
  <2> QED
    BY <1>1
<1>8. d3 = [count |-> h[c].count, on |-> FALSE, held |-> {}, done |-> <<>>]
  <2> DEFINE n == h[c].count
             b == h[c].on
             held == h[c].held
             done == h[c].done
             none == <<>>
             off == FALSE
  <2>1. h[c] = [count |-> n, on |-> b, held |-> held, done |-> done]
    BY <1>1
  <2> DEFINE d == h[c]
  <2> HIDE DEF n, b, held, done, none, off, d
  <2>2. [d EXCEPT !.on = off] = [count |-> n, on |-> off, held |-> held, done |-> done]
    BY <2>1 DEF d
  <2>3. d1 = [count |-> n, on |-> off, held |-> held, done |-> done]
    BY <2>2 DEF d, off
  <2> HIDE DEF d1
  <2>4. d2 = [count |-> n, on |-> off, held |-> {}, done |-> done]
    BY <2>3
  <2> HIDE DEF d2
  <2>5. [d2 EXCEPT !.done = none] = [count |-> n, on |-> off, held |-> {}, done |-> none]
    BY <2>4
  <2> QED
    BY <2>5 DEF n, none, off
<1> HIDE DEF h3, d3
<1> QED
  BY <1>6, <1>7, <1>8

\* clear_queue() ends: nothing of the queue is Queued, and the device, if it
\* stopped, has nothing of it.
LEMMA VideoStreamOffStep ==
  ASSUME VideoIInv, VideoStreamOff
  PROVE  VideoIInv'
<1> DEFINE c == video_clearing
<1>1. /\ video_worker = "run" /\ c # "none" /\ video_clearing' = "none"
      /\ UNCHANGED <<video_backend, video_stream, video_tasks, video_todo>>
  BY DEF VideoStreamOff, videoPool
<1>2. PICK stops \in BOOLEAN :
       LET answer == VideoChecked(Request(video_ring), IF stops THEN "ok" ELSE "error") IN
       /\ VideoBatch(answer)
       /\ video_worker' = IF answer = "dead" THEN "dead" ELSE "run"
       /\ video_refused' = (video_refused \/ ~stops)
       /\ video_host' = IF stops
            THEN [video_host EXCEPT ![video_clearing].on = FALSE, ![video_clearing].held = {}, ![video_clearing].done = <<>>]
            ELSE video_host
  BY DEF VideoStreamOff
<1>3. video_ring \in VideoRings /\ video_silent \in Nat /\ video_ring.batch # <<>> /\ video_todo = {} /\ c \in VideoQueues
      /\ VideoNoneAsked(video_ring, video_tasks) /\ video_host \in VideoDevices
  BY <1>1 DEF VideoIInv, VideoTyped, VideoTakes, VideoAsksOnce
<1>4. video_ring' \in VideoRings /\ video_silent' \in Nat /\ VideoNoneAsked(video_ring', video_tasks)
  BY <1>2, <1>3, VideoBatched DEF Serving
<1> DEFINE off == [count |-> video_host[c].count, on |-> FALSE, held |-> {}, done |-> <<>>]
<1>5. stops => video_host' = [video_host EXCEPT ![c] = off]
  BY <1>2, <1>3, VideoGivesBack
<1>6. off \in [count : Nat, on : BOOLEAN, held : SUBSET Nat, done : Seq([index : Nat, eos : BOOLEAN])]
      /\ off.held = {} /\ off.done = <<>>
  <2>1. <<>> \in Seq([index : Nat, eos : BOOLEAN]) /\ video_host[c].count \in Nat
    BY <1>3 DEF VideoDevices
  <2> QED
    BY <2>1
<1> HIDE DEF off
<1>7. stops => \A q \in VideoQueues : video_host'[q] = IF q = c THEN off ELSE video_host[q]
  BY <1>3, <1>5 DEF VideoDevices
<1>8. video_host' \in VideoDevices
  BY <1>2, <1>3, <1>5, <1>6 DEF VideoDevices
<1>9. DOMAIN <<>> = {}
  OBVIOUS
<1>10. VideoDoneOnce(video_host')
  <2>1. CASE stops
    BY <1>6, <1>7, <1>9, <2>1 DEF VideoIInv, VideoDoneOnce
  <2>2. CASE ~stops
    BY <1>2, <2>2 DEF VideoIInv
  <2> QED
    BY <2>1, <2>2
<1>11. ~video_refused' => VideoMatch(video_stream', video_host', "none")
  <2> SUFFICES ASSUME ~video_refused' PROVE VideoMatch(video_stream, video_host', "none")
    BY <1>1
  <2>1. stops /\ VideoMatch(video_stream, video_host, c)
    BY <1>2 DEF VideoIInv
  <2>2. \A q \in VideoQueues : q # "none" /\ VideoKeeps(video_host', q) = IF q = c THEN {} ELSE VideoKeeps(video_host, q)
    BY <1>6, <1>7, <1>9, <2>1 DEF VideoKeeps, VideoQueues
  <2> QED
    BY <2>1, <2>2 DEF VideoMatch
<1>12. VideoTyped'
  <2>1. video_worker' \in {"run", "dead"}
    BY <1>2
  <2> QED
    BY <1>1, <1>4, <1>8, <2>1 DEF VideoIInv, VideoTyped
<1>13. VideoTakes'
  BY <1>1, <1>3 DEF VideoTakes
<1>14. VideoAsksOnce'
  BY <1>1, <1>4 DEF VideoIInv, VideoAsksOnce
<1>15. VideoDistinct(video_stream') /\ VideoFollowed(video_stream', video_tasks')
  BY <1>1 DEF VideoIInv
<1> QED
  BY <1>1, <1>10, <1>11, <1>12, <1>13, <1>14, <1>15 DEF VideoIInv

-----------------------------------------------------------------------------
(* The steps of the pool.                                                  *)

\* Steps that only move futures
LEMMA VideoPools ==
  ASSUME VideoIInv, NEW tasks \in SUBSET VideoTasks, video_tasks' = tasks, VideoOneEach(tasks),
         \A u \in tasks : \E t \in video_tasks : t.q = u.q /\ t.id = u.id,
         video_worker = "run" => VideoFollowed(video_stream, tasks),
         UNCHANGED <<video_backend, video_worker, video_clearing, video_ring, video_stream, video_todo, video_host, video_refused>>,
         video_silent' \in Nat
  PROVE  VideoIInv'
<1>1. VideoNoneAsked(video_ring, tasks)
  BY DEF VideoIInv, VideoAsksOnce, VideoNoneAsked, VideoHasNot
<1>2. VideoAsksOnce'
  BY <1>1 DEF VideoAsksOnce
<1>3. VideoTyped'
  BY DEF VideoIInv, VideoTyped
<1>4. VideoTakes'
  BY DEF VideoIInv, VideoTakes
<1>5. VideoDistinct(video_stream') /\ VideoDoneOnce(video_host')
  BY DEF VideoIInv
<1>6. ~video_refused' => VideoMatch(video_stream', video_host', video_clearing')
  BY DEF VideoIInv
<1>7. video_worker' = "run" => VideoFollowed(video_stream', video_tasks')
  OBVIOUS
<1> QED
  BY <1>2, <1>3, <1>4, <1>5, <1>6, <1>7 DEF VideoIInv

\* A future answers when its resource is Ready, so none that is Queued loses
\* the one that waits for it.
LEMMA VideoAnswerStep ==
  ASSUME VideoIInv, VideoAnswer
  PROVE  VideoIInv'
<1>1. PICK t \in video_tasks :
        /\ t.phase = "last" \/ (t.phase \in {"new", "woken"} /\ VideoReady(t))
        /\ video_tasks' = video_tasks \ {t}
  BY DEF VideoAnswer
<1>2. UNCHANGED <<video_backend, video_worker, video_clearing, video_ring, video_stream, video_todo, video_host, video_refused>>
      /\ video_silent' = 0
  BY DEF VideoAnswer, videoHost
<1> DEFINE tasks == video_tasks \ {t}
<1>3. tasks \in SUBSET VideoTasks /\ VideoOneEach(tasks) /\ \A u \in tasks : \E v \in video_tasks : v.q = u.q /\ v.id = u.id
  BY DEF VideoIInv, VideoTyped, VideoAsksOnce, VideoOneEach
<1>4. ASSUME NEW q \in VideoQueues, NEW i \in DOMAIN video_stream.res[q], video_stream.res[q][i].state = "Queued"
      PROVE  ~VideoWaits(t, q, video_stream.res[q][i].id)
  <2>1. CASE t.phase = "last"
    BY <2>1 DEF VideoWaits
  <2>2. CASE VideoReady(t)
    <3> SUFFICES ASSUME VideoWaits(t, q, video_stream.res[q][i].id) PROVE FALSE
      OBVIOUS
    <3> DEFINE all == video_stream.res[q]
               id == t.id
    <3>1. t.q = q /\ id = all[i].id
      BY DEF VideoWaits
    <3>2. all \in Seq(VideoResources) /\ \A k, l \in DOMAIN all : all[k].id = all[l].id => k = l
      BY DEF VideoIInv, VideoTyped, VideoStreams, VideoDistinct
    <3>3. VideoFind(all, id) # 0 /\ all[VideoFind(all, id)].state = "Ready"
      BY <2>2, <3>1 DEF VideoReady, VideoResource
    <3>4. i \in DOMAIN all /\ all[i].state = "Queued"
      BY <1>4
    <3> HIDE DEF all, id
    <3>5. VideoFind(all, id) \in DOMAIN all /\ all[VideoFind(all, id)].id = id
      BY <3>2, <3>3, VideoFound
    <3> QED
      BY <3>1, <3>2, <3>3, <3>4, <3>5
  <2> QED
    BY <1>1, <2>1, <2>2
<1>5. video_worker = "run" => VideoFollowed(video_stream, tasks)
  BY <1>4 DEF VideoIInv, VideoFollowed
<1> HIDE DEF tasks
<1>6. video_tasks' = tasks
  BY <1>1 DEF tasks
<1> QED
  BY <1>2, <1>3, <1>5, <1>6, VideoPools

\* A future that finds its resource not ready waits on.
LEMMA VideoPollStep ==
  ASSUME VideoIInv, VideoPoll
  PROVE  VideoIInv'
<1>1. PICK t \in video_tasks, phase \in {"checked", "waiting"} :
        /\ t.phase \in {"new", "woken", "checked"}
        /\ video_tasks' = (video_tasks \ {t}) \cup {[t EXCEPT !.phase = phase]}
  BY DEF VideoPoll
<1>2. UNCHANGED <<video_backend, video_worker, video_clearing, video_ring, video_silent, video_stream, video_todo, video_host, video_refused>>
  BY DEF VideoPoll, videoHost
<1> DEFINE one == [t EXCEPT !.phase = phase]
           tasks == (video_tasks \ {t}) \cup {one}
<1>3. video_tasks \subseteq VideoTasks /\ VideoOneEach(video_tasks) /\ video_silent \in Nat
  BY DEF VideoIInv, VideoTyped, VideoAsksOnce
<1>4. one \in VideoTasks /\ one.q = t.q /\ one.id = t.id /\ one.phase = phase
  <2>1. t \in VideoTasks
    BY <1>3
  <2> QED
    BY <2>1 DEF VideoTasks, VideoPhases
<1> HIDE DEF one
<1>5. tasks \in SUBSET VideoTasks /\ VideoOneEach(tasks) /\ \A u \in tasks : \E v \in video_tasks : v.q = u.q /\ v.id = u.id
  <2>1. tasks \in SUBSET VideoTasks
    BY <1>3, <1>4
  <2>2. \A u \in tasks : \E v \in video_tasks : v.q = u.q /\ v.id = u.id
    BY <1>4
  <2>3. VideoOneEach(tasks)
    BY <1>3, <1>4 DEF VideoOneEach
  <2> QED
    BY <2>1, <2>2, <2>3
<1>6. video_worker = "run" => VideoFollowed(video_stream, tasks)
  <2> SUFFICES ASSUME video_worker = "run", NEW q \in VideoQueues, NEW i \in DOMAIN video_stream.res[q],
                      video_stream.res[q][i].state = "Queued"
               PROVE  \E u \in tasks : VideoWaits(u, q, video_stream.res[q][i].id)
    BY DEF VideoFollowed
  <2>1. PICK u \in video_tasks : VideoWaits(u, q, video_stream.res[q][i].id)
    BY DEF VideoIInv, VideoFollowed
  <2>2. CASE u = t
    BY <1>4, <2>1, <2>2 DEF VideoWaits
  <2>3. CASE u # t
    BY <2>1, <2>3
  <2> QED
    BY <2>2, <2>3
<1>7. video_tasks' = tasks
  BY <1>1 DEF one
<1> HIDE DEF tasks
<1> QED
  BY <1>2, <1>3, <1>5, <1>6, <1>7, VideoPools

-----------------------------------------------------------------------------
(* The buffers that the device is done with.                               *)

VideoBuffers == [index : Nat, eos : BOOLEAN]

\* The two EXCEPTs of the device, one after the other
LEMMA VideoHands ==
  ASSUME NEW h \in VideoDevices, NEW q \in VideoQueues, NEW held \in SUBSET Nat, NEW done \in Seq(VideoBuffers)
  PROVE  /\ [h EXCEPT ![q].done = done] = [h EXCEPT ![q] = [h[q] EXCEPT !.done = done]]
         /\ [h EXCEPT ![q].held = held, ![q].done = done] = [h EXCEPT ![q] = [[h[q] EXCEPT !.held = held] EXCEPT !.done = done]]
<1> DEFINE d1 == [h[q] EXCEPT !.held = held]
           d2 == [d1 EXCEPT !.done = done]
           h1 == [h EXCEPT ![q] = d1]
           h2 == [h1 EXCEPT ![q] = d2]
<1>1. h1[q] = d1
  <2> HIDE DEF d1
  <2> QED
    BY DEF VideoDevices
<1>2. h2 = [h1 EXCEPT ![q] = [h1[q] EXCEPT !.done = done]]
  <2> HIDE DEF h1, d1
  <2> QED
    BY <1>1
<1>3. [h EXCEPT ![q].held = held, ![q].done = done] = h2
  <2> HIDE DEF h2
  <2> QED
    BY <1>2
<1>4. h2 = [h EXCEPT ![q] = d2]
  <2> HIDE DEF d1, d2
  <2> QED
    BY DEF VideoDevices
<1> HIDE DEF h2, d2
<1>5. [h EXCEPT ![q].held = held, ![q].done = done] = [h EXCEPT ![q] = d2]
  BY <1>3, <1>4
<1>6. [h EXCEPT ![q].done = done] = [h EXCEPT ![q] = [h[q] EXCEPT !.done = done]]
  BY DEF VideoDevices
<1> QED
  BY <1>5, <1>6 DEF d2

VideoDoneBy(h, q, done)       == [h EXCEPT ![q].done = done]
VideoDoneOf(h, q, held, done) == [h EXCEPT ![q].held = held, ![q].done = done]

\* The device is the same but for the buffers of one queue.
VideoBut(g, h, q, held, done) ==
  g \in VideoDevices /\ g[q].held = held /\ g[q].done = done /\ \A p \in VideoQueues : p # q => g[p] = h[p]

\* Only the buffers of the queue are others.
LEMMA VideoHanded ==
  ASSUME NEW h \in VideoDevices, NEW q \in VideoQueues, NEW held \in SUBSET Nat, NEW done \in Seq(VideoBuffers)
  PROVE  VideoBut(VideoDoneBy(h, q, done), h, q, h[q].held, done) /\ VideoBut(VideoDoneOf(h, q, held, done), h, q, held, done)
<1> DEFINE d == h[q]
           e == [d EXCEPT !.held = held]
           b == [d EXCEPT !.done = done]
           c == [e EXCEPT !.done = done]
           D == [count : Nat, on : BOOLEAN, held : SUBSET Nat, done : Seq(VideoBuffers)]
<1>1. d \in D /\ VideoDevices = [VideoQueues -> D]
  BY DEF VideoDevices, VideoBuffers
<1> HIDE DEF d
<1>2. e \in D /\ e.held = held
  BY <1>1
<1> HIDE DEF e
<1>3. b \in D /\ b.held = d.held /\ b.done = done /\ c \in D /\ c.held = held /\ c.done = done
  BY <1>1, <1>2
<1> HIDE DEF b, c, D
<1>4. /\ [h EXCEPT ![q] = b] \in VideoDevices /\ [h EXCEPT ![q] = c] \in VideoDevices
      /\ \A p \in VideoQueues : [h EXCEPT ![q] = b][p] = IF p = q THEN b ELSE h[p]
      /\ \A p \in VideoQueues : [h EXCEPT ![q] = c][p] = IF p = q THEN c ELSE h[p]
  BY <1>1, <1>3
<1>5. [h EXCEPT ![q].done = done] = [h EXCEPT ![q] = b] /\ [h EXCEPT ![q].held = held, ![q].done = done] = [h EXCEPT ![q] = c]
  BY VideoHands DEF b, c, d, e
<1> DEFINE f == VideoDoneBy(h, q, done)
           g == VideoDoneOf(h, q, held, done)
<1>6. f = [h EXCEPT ![q] = b] /\ g = [h EXCEPT ![q] = c]
  BY <1>5 DEF VideoDoneBy, VideoDoneOf
<1> HIDE DEF f, g
<1>7. /\ f \in VideoDevices /\ g \in VideoDevices
      /\ f[q] = b /\ g[q] = c /\ \A p \in VideoQueues : p # q => f[p] = h[p] /\ g[p] = h[p]
  BY <1>4, <1>6
<1> QED
  BY <1>3, <1>7 DEF f, g, d, VideoBut

\* The device is done with a buffer that it has.
LEMMA VideoFinishes ==
  ASSUME NEW h \in VideoDevices, VideoDoneOnce(h), NEW q \in VideoQueues, NEW i \in h[q].held, NEW eos \in BOOLEAN
  PROVE  LET g == VideoDoneOf(h, q, h[q].held \ {i}, Append(h[q].done, [index |-> i, eos |-> eos]))
         IN  /\ g \in VideoDevices /\ VideoDoneOnce(g)
             /\ \A p \in VideoQueues : VideoKeeps(g, p) = VideoKeeps(h, p) /\ (h[p].done # <<>> => g[p].done # <<>>)
<1> DEFINE old == h[q].done
           one == [index |-> i, eos |-> eos]
           done == Append(old, one)
           held == h[q].held \ {i}
           g == VideoDoneOf(h, q, held, done)
<1>1. old \in Seq(VideoBuffers) /\ h[q].held \in SUBSET Nat
  BY DEF VideoDevices, VideoBuffers
<1>2. one \in VideoBuffers /\ one.index = i
  BY <1>1 DEF VideoBuffers
<1> HIDE DEF old, one
<1>3. /\ done \in Seq(VideoBuffers) /\ done # <<>> /\ DOMAIN done = DOMAIN old \cup {Len(old) + 1}
      /\ \A k \in DOMAIN old : done[k] = old[k] /\ k # Len(old) + 1
      /\ done[Len(old) + 1] = one
  BY <1>1, <1>2, AppendProperties
<1> HIDE DEF done
<1>4. held \in SUBSET Nat
  BY <1>1
<1> HIDE DEF held
<1>5. /\ g \in VideoDevices /\ g[q].held = held /\ g[q].done = done
      /\ \A p \in VideoQueues : p # q => g[p] = h[p]
  <2>1. VideoBut(g, h, q, held, done)
    BY <1>3, <1>4, VideoHanded
  <2> HIDE DEF g
  <2> QED
    BY <2>1 DEF VideoBut
<1> HIDE DEF g
<1>6. /\ \A k \in DOMAIN old : old[k].index \notin h[q].held
      /\ \A k, l \in DOMAIN old : old[k].index = old[l].index => k = l
  BY DEF VideoDoneOnce, old
<1>7. /\ \A k \in DOMAIN done : done[k].index \notin held
      /\ \A k, l \in DOMAIN done : done[k].index = done[l].index => k = l
  BY <1>2, <1>3, <1>6 DEF held
<1>8. VideoDoneOnce(g)
  BY <1>5, <1>7 DEF VideoDoneOnce
<1>9. VideoKeeps(g, q) = VideoKeeps(h, q)
  <2>1. VideoKeeps(g, q) = held \cup {done[k].index : k \in DOMAIN done}
    BY <1>5 DEF VideoKeeps
  <2>2. VideoKeeps(h, q) = h[q].held \cup {old[k].index : k \in DOMAIN old}
    BY DEF VideoKeeps, old
  <2>3. {done[k].index : k \in DOMAIN done} = {old[k].index : k \in DOMAIN old} \cup {i}
    BY <1>2, <1>3
  <2>4. h[q].held = held \cup {i}
    BY DEF held
  <2> QED
    BY <2>1, <2>2, <2>3, <2>4
<1>10. \A p \in VideoQueues : VideoKeeps(g, p) = VideoKeeps(h, p) /\ (h[p].done # <<>> => g[p].done # <<>>)
  BY <1>3, <1>5, <1>9 DEF VideoKeeps
<1> QED
  BY <1>5, <1>8, <1>10 DEF g, done, one, old, held

\* The worker takes the first of those.
LEMMA VideoTaken ==
  ASSUME NEW h \in VideoDevices, VideoDoneOnce(h), NEW q \in VideoQueues, h[q].done # <<>>
  PROVE  LET g == VideoDoneBy(h, q, Tail(h[q].done))
             b == Head(h[q].done)
         IN  /\ g \in VideoDevices /\ VideoDoneOnce(g) /\ b.index \in VideoKeeps(h, q)
             /\ VideoKeeps(g, q) = VideoKeeps(h, q) \ {b.index}
             /\ \A p \in VideoQueues : p # q => g[p] = h[p] /\ VideoKeeps(g, p) = VideoKeeps(h, p)
<1> DEFINE old == h[q].done
           done == Tail(old)
           b == Head(old)
           held == h[q].held
           g == VideoDoneBy(h, q, done)
<1>1. old \in Seq(VideoBuffers) /\ old # <<>> /\ held \in SUBSET Nat
  BY DEF VideoDevices, VideoBuffers
<1> HIDE DEF old
<1>2. /\ done \in Seq(VideoBuffers) /\ b = old[1] /\ 1 \in DOMAIN old
      /\ \A k \in DOMAIN done : done[k] = old[k + 1] /\ k + 1 \in DOMAIN old /\ k + 1 # 1 /\ k \in Int
      /\ \A k \in DOMAIN old : k = 1 \/ (k - 1 \in DOMAIN done /\ done[k - 1] = old[k])
  BY <1>1, HeadTailProperties
<1> HIDE DEF done, b
<1>3. /\ g \in VideoDevices /\ g[q].held = held /\ g[q].done = done
      /\ \A p \in VideoQueues : p # q => g[p] = h[p]
  <2>1. VideoBut(g, h, q, h[q].held, done)
    BY <1>1, <1>2, VideoHanded DEF held
  <2> HIDE DEF g
  <2> QED
    BY <2>1 DEF VideoBut
<1> HIDE DEF g
<1>4. /\ \A k \in DOMAIN old : old[k].index \notin held
      /\ \A k, l \in DOMAIN old : old[k].index = old[l].index => k = l
  BY DEF VideoDoneOnce, old
<1> HIDE DEF held
<1>5. /\ \A k \in DOMAIN done : done[k].index \notin held
      /\ \A k, l \in DOMAIN done : done[k].index = done[l].index => k = l
  <2>1. \A k \in DOMAIN done : done[k].index \notin held
    BY <1>2, <1>4
  <2>2. ASSUME NEW k \in DOMAIN done, NEW l \in DOMAIN done, done[k].index = done[l].index
        PROVE  k = l
    <3>1. k + 1 = l + 1
      BY <1>2, <1>4, <2>2
    <3> QED
      BY <1>2, <3>1
  <2> QED
    BY <2>1, <2>2
<1>6. VideoDoneOnce(g)
  BY <1>3, <1>5 DEF VideoDoneOnce
<1>7. VideoKeeps(h, q) = held \cup {old[k].index : k \in DOMAIN old}
  BY DEF VideoKeeps, old, held
<1>8. VideoKeeps(g, q) = held \cup {done[k].index : k \in DOMAIN done}
  BY <1>3 DEF VideoKeeps
<1>9. {old[k].index : k \in DOMAIN old} = {done[k].index : k \in DOMAIN done} \cup {b.index}
  <2>1. {old[k].index : k \in DOMAIN old} \subseteq {done[k].index : k \in DOMAIN done} \cup {b.index}
    BY <1>2
  <2>2. {done[k].index : k \in DOMAIN done} \cup {b.index} \subseteq {old[k].index : k \in DOMAIN old}
    BY <1>2
  <2> QED
    BY <2>1, <2>2
<1>10. b.index \notin held /\ b.index \notin {done[k].index : k \in DOMAIN done}
  BY <1>2, <1>4
<1>11. VideoKeeps(g, q) = VideoKeeps(h, q) \ {b.index} /\ b.index \in VideoKeeps(h, q)
  BY <1>7, <1>8, <1>9, <1>10
<1>12. \A p \in VideoQueues : p # q => g[p] = h[p] /\ VideoKeeps(g, p) = VideoKeeps(h, p)
  BY <1>3 DEF VideoKeeps
<1> QED
  BY <1>3, <1>6, <1>11, <1>12 DEF g, done, b, old

\* The device is done with a buffer, which stays its own until it is taken.
LEMMA VideoDecodeStep ==
  ASSUME VideoIInv, NEW q \in VideoQueues, VideoDecode(q)
  PROVE  VideoIInv'
<1>1. PICK i \in video_host[q].held, eos \in BOOLEAN :
        video_host' = VideoDoneOf(video_host, q, video_host[q].held \ {i}, Append(video_host[q].done, [index |-> i, eos |-> eos]))
  <2>1. PICK i \in video_host[q].held : \E eos \in {FALSE} \cup (IF video_stop /\ q = "output" THEN {TRUE} ELSE {}) :
          video_host' = [video_host EXCEPT ![q].held = @ \ {i}, ![q].done = Append(@, [index |-> i, eos |-> eos])]
    BY DEF VideoDecode
  <2>2. PICK eos \in BOOLEAN :
          video_host' = [video_host EXCEPT ![q].held = @ \ {i}, ![q].done = Append(@, [index |-> i, eos |-> eos])]
    BY <2>1
  <2> DEFINE one == [index |-> i, eos |-> eos]
             held == video_host[q].held \ {i}
             h1 == [video_host EXCEPT ![q].held = held]
  <2>3. video_host' = [h1 EXCEPT ![q].done = Append(@, one)]
    BY <2>2
  <2> HIDE DEF one
  <2>4. h1[q].done = video_host[q].done
    <3> HIDE DEF held
    <3> QED
      BY DEF VideoIInv, VideoTyped, VideoDevices
  <2>5. video_host' = [h1 EXCEPT ![q].done = Append(video_host[q].done, one)]
    <3> HIDE DEF h1
    <3> QED
      BY <2>3, <2>4
  <2>6. video_host' = VideoDoneOf(video_host, q, held, Append(video_host[q].done, one))
    BY <2>5 DEF VideoDoneOf
  <2> QED
    BY <2>6 DEF one
<1>2. UNCHANGED <<video_backend, video_worker, video_clearing, video_ring, video_silent, video_stream, video_tasks, video_todo, video_refused>>
  BY DEF VideoDecode, videoPool
<1>3. video_host \in VideoDevices /\ VideoDoneOnce(video_host)
  BY DEF VideoIInv, VideoTyped
<1>4. /\ video_host' \in VideoDevices /\ VideoDoneOnce(video_host')
      /\ \A p \in VideoQueues : VideoKeeps(video_host', p) = VideoKeeps(video_host, p)
                                /\ (video_host[p].done # <<>> => video_host'[p].done # <<>>)
  BY <1>1, <1>3, VideoFinishes
<1>5. VideoTyped'
  BY <1>2, <1>4 DEF VideoIInv, VideoTyped
<1>6. VideoTakes'
  BY <1>2, <1>4 DEF VideoIInv, VideoTakes
<1>7. VideoAsksOnce'
  BY <1>2 DEF VideoIInv, VideoAsksOnce
<1>8. ~video_refused' => VideoMatch(video_stream', video_host', video_clearing')
  BY <1>2, <1>4 DEF VideoIInv, VideoMatch
<1>9. VideoDistinct(video_stream') /\ (video_worker' = "run" => VideoFollowed(video_stream', video_tasks'))
  BY <1>2 DEF VideoIInv
<1> QED
  BY <1>4, <1>5, <1>6, <1>7, <1>8, <1>9 DEF VideoIInv

\* dqbuf() fails, and nothing is promised of the device from then on.
LEMMA VideoDequeueFailsStep ==
  ASSUME VideoIInv, NEW q \in VideoQueues, VideoDequeueFails(q)
  PROVE  VideoIInv'
<1>1. UNCHANGED <<video_backend, video_worker, video_clearing, video_ring, video_silent, video_stream, video_tasks, video_host>>
      /\ video_todo' \subseteq video_todo /\ video_refused' = TRUE
  BY DEF VideoDequeueFails, VideoHandled, videoPool
<1>2. VideoTyped'
  BY <1>1 DEF VideoIInv, VideoTyped
<1>3. VideoTakes'
  BY <1>1 DEF VideoIInv, VideoTakes
<1>4. VideoAsksOnce'
  BY <1>1 DEF VideoIInv, VideoAsksOnce
<1>5. VideoDistinct(video_stream') /\ VideoDoneOnce(video_host')
      /\ (video_worker' = "run" => VideoFollowed(video_stream', video_tasks'))
  BY <1>1 DEF VideoIInv
<1> QED
  BY <1>1, <1>2, <1>3, <1>4, <1>5 DEF VideoIInv

\* The worker finds the resource of the buffer, if the device has what is
\* Queued, and the future of another resource goes on waiting.
LEMMA VideoSendDqbufStep ==
  ASSUME VideoIInv, NEW q \in VideoQueues, VideoSendDqbuf(q)
  PROVE  VideoIInv'
<1> DEFINE b == Head(video_host[q].done)
           last == b.eos /\ video_stream.state = "Draining"
           s == [video_stream EXCEPT !.state = IF last THEN "Stopped" ELSE @]
           found == b.index \in DOMAIN s.res[q]
<1>1. /\ video_worker = "run" /\ q \in video_todo
      /\ UNCHANGED <<video_backend, video_clearing, video_ring, video_silent, video_refused>>
      /\ video_host' = VideoDoneBy(video_host, q, Tail(video_host[q].done))
  BY DEF VideoSendDqbuf, VideoTurn, VideoDoneBy
<1>2. /\ ~found => video_worker' = "dead" /\ video_stream' = s /\ UNCHANGED <<video_tasks, video_todo>>
      /\ found => /\ video_worker' = "run" /\ video_todo' = video_todo \ {q}
                  /\ video_stream' = VideoMark(s, q, b.index, "Ready")
                  /\ video_tasks' = VideoWoken(video_stream', {<<q, s.res[q][b.index].id>>})
  BY <1>1 DEF VideoSendDqbuf, VideoHandled
<1>3. /\ video_stream \in VideoStreams /\ video_host \in VideoDevices /\ VideoDistinct(video_stream) /\ VideoDoneOnce(video_host)
      /\ video_tasks \subseteq VideoTasks /\ VideoOneEach(video_tasks) /\ VideoNoneAsked(video_ring, video_tasks)
      /\ VideoFollowed(video_stream, video_tasks) /\ video_host[q].done # <<>> /\ video_clearing = "none"
      /\ video_todo \subseteq VideoTold
  BY <1>1 DEF VideoIInv, VideoTyped, VideoAsksOnce, VideoTakes
<1>4. /\ video_host' \in VideoDevices /\ VideoDoneOnce(video_host') /\ b.index \in VideoKeeps(video_host, q)
      /\ VideoKeeps(video_host', q) = VideoKeeps(video_host, q) \ {b.index}
      /\ \A p \in VideoQueues : p # q => video_host'[p] = video_host[p] /\ VideoKeeps(video_host', p) = VideoKeeps(video_host, p)
  BY <1>1, <1>3, VideoTaken
<1>5. s \in VideoStreams /\ s.res = video_stream.res
  <2> DEFINE state == IF last THEN "Stopped" ELSE video_stream.state
  <2>1. state \in VideoStates
    BY <1>3 DEF VideoStates, VideoStreams
  <2>2. s = [video_stream EXCEPT !.state = state]
    OBVIOUS
  <2> HIDE DEF state, s
  <2> QED
    BY <1>3, <2>1, <2>2 DEF VideoStreams
<1>6. VideoDistinct(s) /\ \A p : VideoQueued(s, p) = VideoQueued(video_stream, p)
  BY <1>3, <1>5, VideoAlike
<1> DEFINE n == b.index
<1> HIDE DEF s, n
<1>7. ~video_refused => VideoMatch(video_stream, video_host, "none")
  BY <1>3 DEF VideoIInv
<1>8. ~video_refused => n \in VideoQueued(s, q) /\ found
  <2> SUFFICES ASSUME ~video_refused PROVE n \in VideoQueued(s, q) /\ found
    OBVIOUS
  <2>1. q # "none"
    BY DEF VideoQueues
  <2>2. VideoKeeps(video_host, q) = VideoQueued(video_stream, q)
    BY <1>7, <2>1 DEF VideoMatch
  <2>3. n \in VideoQueued(s, q)
    BY <1>4, <1>6, <2>2 DEF n
  <2> QED
    BY <2>3 DEF VideoQueued, n
<1>9. CASE ~found
  <2>1. video_refused /\ video_worker' = "dead" /\ video_stream' = s /\ UNCHANGED <<video_tasks, video_todo, video_refused>>
    BY <1>1, <1>2, <1>8, <1>9
  <2>2. VideoTyped'
    BY <1>1, <1>4, <1>5, <2>1 DEF VideoIInv, VideoTyped
  <2>3. VideoTakes'
    BY <1>1, <1>3, <2>1 DEF VideoTakes
  <2>4. VideoAsksOnce'
    BY <1>1, <2>1 DEF VideoIInv, VideoAsksOnce
  <2> QED
    BY <1>4, <1>6, <2>1, <2>2, <2>3, <2>4 DEF VideoIInv
<1>10. CASE found
  <2> DEFINE m == VideoMark(s, q, n, "Ready")
             woken == {<<q, s.res[q][n].id>>}
  <2>1. video_worker' = "run" /\ video_todo' = video_todo \ {q} /\ video_stream' = m /\ video_tasks' = VideoWoken(m, woken)
    BY <1>2, <1>10 DEF n
  <2>2. /\ m \in VideoStreams /\ VideoDistinct(m)
        /\ \A p \in VideoQueues : DOMAIN m.res[p] = DOMAIN s.res[p]
        /\ \A p \in VideoQueues : \A k \in DOMAIN s.res[p] :
             /\ m.res[p][k].id = s.res[p][k].id
             /\ m.res[p][k].state = IF p = q /\ k = n THEN "Ready" ELSE s.res[p][k].state
    <3>1. n \in DOMAIN s.res[q] /\ "Ready" \in VideoResourceStates
      BY <1>10 DEF n, VideoResourceStates
    <3> QED
      BY <1>5, <1>6, <3>1, VideoMarked
  <2> HIDE DEF m, woken
  <2>3. /\ video_tasks' \subseteq VideoTasks /\ VideoOneEach(video_tasks')
        /\ \A u \in video_tasks' : \E t \in video_tasks : t.q = u.q /\ t.id = u.id
    BY <1>3, <2>1, VideoWokenTasks
  <2>4. VideoNoneAsked(video_ring, video_tasks')
    BY <1>3, <2>3 DEF VideoNoneAsked, VideoHasNot
  <2>5. VideoAsksOnce'
    BY <1>1, <2>3, <2>4 DEF VideoAsksOnce
  <2>6. VideoTyped'
    BY <1>1, <1>3, <1>4, <2>1, <2>2, <2>3 DEF VideoIInv, VideoTyped
  <2>7. VideoTakes'
    BY <1>1, <1>3, <1>4, <2>1 DEF VideoIInv, VideoTakes
  <2>8. VideoFollowed(m, VideoWoken(m, woken))
    <3> SUFFICES ASSUME NEW p \in VideoQueues, NEW i \in DOMAIN m.res[p], m.res[p][i].state = "Queued"
                 PROVE  \E u \in VideoWoken(m, woken) : VideoWaits(u, p, m.res[p][i].id)
      BY DEF VideoFollowed
    <3>1. i \in DOMAIN s.res[p] /\ s.res[p][i].id = m.res[p][i].id /\ s.res[p][i].state = "Queued"
      BY <2>2
    <3>2. VideoWasQueued(p, m.res[p][i].id)
      BY <1>5, <3>1 DEF VideoWasQueued
    <3> QED
      BY <1>3, <2>2, <3>2, VideoGoesOn
  <2>9. VideoQueued(m, q) = VideoQueued(s, q) \ {n} /\ \A p \in VideoQueues : p # q => VideoQueued(m, p) = VideoQueued(s, p)
    <3>1. VideoQueued(m, q) = VideoQueued(s, q) \ {n}
      BY <2>2 DEF VideoQueued
    <3>2. ASSUME NEW p \in VideoQueues, p # q PROVE VideoQueued(m, p) = VideoQueued(s, p)
      BY <2>2, <3>2 DEF VideoQueued
    <3> QED
      BY <3>1, <3>2
  <2>10. ~video_refused => VideoMatch(m, video_host', "none")
    <3> SUFFICES ASSUME ~video_refused, NEW p \in VideoQueues
                 PROVE  VideoKeeps(video_host', p) = VideoQueued(m, p)
      <4>1. \A p \in VideoQueues : p # "none"
        BY DEF VideoQueues
      <4> QED
        BY <4>1 DEF VideoMatch
    <3>1. VideoKeeps(video_host, p) = VideoQueued(s, p)
      <4>1. p # "none"
        BY DEF VideoQueues
      <4> QED
        BY <1>6, <1>7, <4>1 DEF VideoMatch
    <3>2. CASE p = q
      BY <1>4, <2>9, <3>1, <3>2 DEF n
    <3>3. CASE p # q
      BY <1>4, <2>9, <3>1, <3>3
    <3> QED
      BY <3>2, <3>3
  <2> QED
    BY <1>1, <1>3, <1>4, <2>1, <2>2, <2>5, <2>6, <2>7, <2>8, <2>10 DEF VideoIInv
<1> QED
  BY <1>9, <1>10

-----------------------------------------------------------------------------
\* At first there is no stream.
LEMMA VideoInitHolds ==
  ASSUME VideoInit
  PROVE  VideoIInv
<1>1. DOMAIN <<>> = {} /\ <<>> \in Seq(VideoRequests)
  OBVIOUS
<1>2. "none" \in VideoStates
  BY DEF VideoStates
<1>3. /\ video_stream \in VideoStreams /\ video_host \in VideoDevices
      /\ VideoDistinct(video_stream) /\ VideoDoneOnce(video_host)
      /\ VideoMatch(video_stream, video_host, "none")
      /\ \A q \in VideoQueues : video_stream.res[q] = <<>>
  BY <1>2, VideoEmpty DEF VideoInit
<1>4. video_ring \in VideoRings
  BY <1>1 DEF VideoInit, EmptyRing, VideoRings
<1>5. VideoTyped
  BY <1>3, <1>4 DEF VideoInit, VideoTyped
<1>6. VideoAsksOnce
  BY DEF VideoInit, VideoAsksOnce, VideoOneEach, VideoNoneAsked
<1>7. VideoTakes
  BY DEF VideoInit, VideoTakes
<1>8. VideoFollowed(video_stream, video_tasks)
  BY <1>1, <1>3 DEF VideoFollowed
<1>9. video_clearing = "none"
  BY DEF VideoInit
<1> QED
  BY <1>3, <1>5, <1>6, <1>7, <1>8, <1>9 DEF VideoIInv

\* Every step
LEMMA VideoSteps ==
  ASSUME VideoIInv, [VideoNext]_VideoVars
  PROVE  VideoIInv'
<1>1. CASE VideoCollect \/ VideoSignal
  BY <1>1, VideoRingStep
<1>2. CASE VideoCommand
  BY <1>2, VideoCommandStep
<1>3. CASE VideoStreamOff
  BY <1>3, VideoStreamOffStep
<1>4. CASE VideoProcessEvent \/ VideoGuestEvent \/ VideoWake \/ \E b \in VideoBackends : VideoAlloc(b)
  BY <1>4, VideoEventStep
<1>5. CASE VideoAnswer
  BY <1>5, VideoAnswerStep
<1>6. CASE VideoPoll
  BY <1>6, VideoPollStep
<1>7. CASE \E b \in VideoBatches : VideoGuest(b)
  BY <1>7, VideoGuestStep
<1>8. ASSUME NEW q \in VideoQueues, VideoDequeueFails(q) \/ VideoSendDqbuf(q) \/ VideoDecode(q)
      PROVE  VideoIInv'
  BY <1>8, VideoDequeueFailsStep, VideoSendDqbufStep, VideoDecodeStep
<1>9. CASE UNCHANGED VideoVars
  <2>1. UNCHANGED <<video_ring, video_backend, video_worker, video_silent, video_todo,
                    video_stream, video_host, video_refused, video_tasks, video_clearing>>
    BY <1>9 DEF VideoVars, videoPool, videoHost
  <2>2. VideoTyped' /\ VideoTakes' /\ VideoNoneAsked(video_ring', video_tasks)
    BY <2>1 DEF VideoIInv, VideoTyped, VideoTakes, VideoAsksOnce
  <2> QED
    BY <2>1, <2>2, VideoStays
<1> QED
  BY <1>1, <1>2, <1>3, <1>4, <1>5, <1>6, <1>7, <1>8, <1>9 DEF VideoNext

\* What is promised follows.
LEMMA VideoConcludes ==
  ASSUME VideoIInv
  PROVE  VideoInv
<1>1. video_stream \in VideoStreams /\ video_host \in VideoDevices
  BY DEF VideoIInv, VideoTyped
<1>2. \A q \in VideoQueues : /\ video_stream.res[q] \in Seq(VideoResources)
                             /\ ToSet(video_stream.res[q]) = {video_stream.res[q][i] : i \in DOMAIN video_stream.res[q]}
  BY <1>1 DEF VideoStreams, ToSet
<1>3. VideoTypeOK
  <2>1. \A q \in VideoQueues : \A e \in ToSet(video_stream.res[q]) : e.id \in VideoIds /\ e.state \in VideoResourceStates
    <3> SUFFICES ASSUME NEW q \in VideoQueues, NEW e \in ToSet(video_stream.res[q])
                 PROVE  e.id \in VideoIds /\ e.state \in VideoResourceStates
      OBVIOUS
    <3> DEFINE all == video_stream.res[q]
    <3>1. PICK i \in DOMAIN all : e = all[i]
      BY <1>2
    <3>2. all \in Seq(VideoResources)
      BY <1>2
    <3> HIDE DEF all
    <3>3. e \in VideoResources
      BY <3>1, <3>2
    <3> QED
      BY <3>3 DEF VideoResources
  <2>2. video_stream.state \in VideoStates
    BY <1>1 DEF VideoStreams
  <2> QED
    BY <2>1, <2>2 DEF VideoIInv, VideoTyped, VideoTypeOK
<1>4. VideoOwners
  <2> SUFFICES ASSUME ~video_refused, NEW q \in VideoQueues
               PROVE  IF q = video_clearing THEN VideoQueued(video_stream, q) = {} /\ VideoHeld(q) \subseteq DOMAIN video_stream.res[q]
                      ELSE VideoHeld(q) = VideoQueued(video_stream, q)
    BY DEF VideoOwners, VideoQueued
  <2>1. VideoHeld(q) = VideoKeeps(video_host, q)
    <3>1. {b.index : b \in ToSet(video_host[q].done)} = {video_host[q].done[i].index : i \in DOMAIN video_host[q].done}
      BY DEF ToSet
    <3> QED
      BY <3>1 DEF VideoHeld, VideoKeeps
  <2>2. VideoMatch(video_stream, video_host, video_clearing)
    BY DEF VideoIInv
  <2> QED
    BY <2>1, <2>2 DEF VideoMatch
<1>5. VideoAwaited
  <2> SUFFICES ASSUME video_worker = "run", NEW q \in VideoQueues, NEW e \in ToSet(video_stream.res[q]), e.state = "Queued"
               PROVE  \E t \in video_tasks : {u \in video_tasks : VideoWaits(u, q, e.id)} = {t}
    BY DEF VideoAwaited
  <2>1. PICK i \in DOMAIN video_stream.res[q] : e = video_stream.res[q][i]
    BY <1>2
  <2>2. PICK t \in video_tasks : VideoWaits(t, q, e.id)
    BY <2>1 DEF VideoIInv, VideoFollowed
  <2>3. \A u \in video_tasks : VideoWaits(u, q, e.id) => u = t
    BY <2>2 DEF VideoIInv, VideoAsksOnce, VideoOneEach, VideoWaits
  <2> QED
    BY <2>2, <2>3
<1> QED
  BY <1>3, <1>4, <1>5 DEF VideoInv

\* Every buffer that the device has belongs to a resource that is Queued, and
\* each of those has one future that waits for it, through RESOURCE_QUEUE,
\* QUEUE_CLEAR, RESOURCE_DESTROY_ALL, STREAM_CREATE and the decoded buffers in
\* any order (v4l2_decoder.rs, vhu_video_thread.rs).
THEOREM VideoHolds == VideoSpec => []VideoInv
<1>1. VideoInit => VideoIInv
  BY VideoInitHolds
<1>2. VideoIInv /\ [VideoNext]_VideoVars => VideoIInv'
  BY VideoSteps
<1>3. VideoIInv => VideoInv
  BY VideoConcludes
<1> QED
  BY <1>1, <1>2, <1>3, PTL DEF VideoSpec

=============================================================================
