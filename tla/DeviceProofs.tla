------------------------------ MODULE DeviceProofs ------------------------------
(***************************************************************************)
(* The smaller devices, each on its own, for every value of the constants: *)
(* the template, the clock and its alarm, the I2C adapters, the events of  *)
(* the input device, the console, and the entropy device.                  *)
(***************************************************************************)
EXTENDS Template, Rtc, I2c, Input, Console, Rng, FiniteSetTheorems, SequenceTheorems, TLAPS

\* The smaller of two numbers.
LEMMA MinOfTwo ==
  ASSUME NEW a \in Int, NEW b \in Int
  PROVE  Min({a, b}) = IF a <= b THEN a ELSE b
<1>1. CASE a <= b
  <2>1. a \in {a, b} /\ \A y \in {a, b} : a <= y
    BY <1>1
  <2>2. \A x \in {a, b} : (\A y \in {a, b} : x <= y) => x = a
    BY <1>1
  <2> QED
    BY <1>1, <2>1, <2>2 DEF Min
<1>2. CASE ~(a <= b)
  <2>1. b \in {a, b} /\ \A y \in {a, b} : b <= y
    BY <1>2
  <2>2. \A x \in {a, b} : (\A y \in {a, b} : x <= y) => x = b
    BY <1>2
  <2> QED
    BY <1>2, <2>1, <2>2 DEF Min
<1> QED
  BY <1>1, <1>2

(***************************************************************************)
(* The template, for every size of the queue and any number of requests,   *)
(* leaves no request behind.  FooInv is not inductive: that turning the    *)
(* notifications off is only ever done with EVENT_IDX, and that a guest    *)
(* which has yet to negotiate finds a device at rest, have to be known.    *)
(***************************************************************************)
\* The loop is entered with EVENT_IDX, and before a guest has negotiated
\* nothing is under way.
FooLoopNeedsIdx == foo_worker \in {"disable", "enable", "recheck"} => foo_event_idx
FooFreshIsIdle  ==
  foo_driver = "none" =>
    foo_worker = "idle" /\ foo_notify /\ ~foo_kick /\ foo_avail = 0 /\ foo_added = 0

FooIInv == FooInv /\ FooLoopNeedsIdx /\ FooFreshIsIdle

LEMMA FooStart == FooInit => FooIInv
<1> SUFFICES ASSUME FooInit PROVE FooIInv
  OBVIOUS
<1>1. foo_notify /\ ~foo_kick /\ {foo_notify, foo_kick, foo_event_idx} \subseteq BOOLEAN
  BY Zenon DEF FooInit
<1>2. /\ foo_counter = 0 /\ foo_avail = 0 /\ foo_added = 0
      /\ foo_worker = "idle" /\ foo_driver = "none"
  BY DEF FooInit
<1> QED
  BY <1>1, <1>2, FooAssumption DEF FooIInv, FooInv, FooTypeOK, FooNoneLeft, FooOffWhileBusy,
     FooCounted, FooLoopNeedsIdx, FooFreshIsIdle

\* The steps of the driver: one that adds while the device rests finds the
\* notifications on, by FooOffWhileBusy.
LEMMA FooDriverStep ==
  ASSUME FooIInv, FooNegotiate \/ FooDriverAdds \/ FooDriverNotifies \/ FooReconnect
  PROVE  FooIInv'
<1> USE FooAssumption DEF FooIInv, FooInv, FooTypeOK, FooNoneLeft, FooOffWhileBusy, FooCounted,
      FooLoopNeedsIdx, FooFreshIsIdle
<1>1. CASE FooNegotiate
  BY <1>1 DEF FooNegotiate
<1>2. CASE FooDriverAdds
  BY <1>2 DEF FooDriverAdds
<1>3. CASE FooDriverNotifies
  BY <1>3 DEF FooDriverNotifies
<1>4. CASE FooReconnect
  <2>1. foo_notify' /\ ~foo_kick' /\ {foo_notify', foo_kick', foo_event_idx'} \subseteq BOOLEAN
    BY <1>4, Zenon DEF FooReconnect
  <2>2. /\ foo_counter' = 0 /\ foo_avail' = 0 /\ foo_added' = 0
        /\ foo_worker' = "idle" /\ foo_driver' = "none"
    BY <1>4 DEF FooReconnect
  <2> QED
    BY <2>1, <2>2
<1> QED
  BY <1>1, <1>2, <1>3, <1>4

\* The steps of the device: it goes to rest with an empty queue only, which
\* it has found so after turning the notifications on.
LEMMA FooDeviceStep ==
  ASSUME FooIInv,
         FooHandleEvent \/ FooDisable \/ FooProcess \/ FooFail \/ FooEnable \/ FooRecheck
  PROVE  FooIInv'
<1> USE FooAssumption DEF FooIInv, FooInv, FooTypeOK, FooNoneLeft, FooOffWhileBusy, FooCounted,
      FooLoopNeedsIdx, FooFreshIsIdle
<1>1. CASE FooHandleEvent
  BY <1>1 DEF FooHandleEvent
<1>2. CASE FooDisable
  BY <1>2 DEF FooDisable
<1>3. CASE FooProcess
  BY <1>3 DEF FooProcess
<1>4. CASE FooFail
  BY <1>4 DEF FooFail
<1>5. CASE FooEnable
  BY <1>5 DEF FooEnable
<1>6. CASE FooRecheck
  BY <1>6 DEF FooRecheck
<1> QED
  BY <1>1, <1>2, <1>3, <1>4, <1>5, <1>6

\* No request is left behind, lost or counted twice (the loop over the queue
\* of handle_event(), with EVENT_IDX or without).
THEOREM FooHolds == FooSpec => []FooInv
<1>1. FooIInv /\ [FooNext]_FooVars => FooIInv'
  <2>1. FooIInv /\ UNCHANGED FooVars => FooIInv'
    BY DEF FooVars, FooIInv, FooInv, FooTypeOK, FooNoneLeft, FooOffWhileBusy, FooCounted,
       FooLoopNeedsIdx, FooFreshIsIdle
  <2> QED
    BY <2>1, FooDriverStep, FooDeviceStep DEF FooNext
<1>2. FooIInv => FooInv
  BY DEF FooIInv
<1> QED
  BY <1>1, <1>2, FooStart, PTL DEF FooSpec

-----------------------------------------------------------------------------
(***************************************************************************)
(* The clock, for any number of threads, buffers and clocks, and however   *)
(* far time goes: the alarm has one thread that counts, and no wake-up of  *)
(* it is lost.  Both need to know that the alarm's own thread is one that  *)
(* nobody has cancelled, and that a buffer is in one place.                *)
(***************************************************************************)
RtcThreadStates ==
  [at : {"none", "sleep", "lock", "wait"}, due : RtcTimes, cancelled : BOOLEAN]

\* The alarm's thread, while there is one, is not cancelled and the alarm is
\* enabled; a buffer is in the queue, on its way or in the pool.
RtcOwnCounts ==
  rtc_worker # 0 /\ rtc_thread[rtc_worker].at # "none" =>
    ~rtc_thread[rtc_worker].cancelled /\ rtc_alarm.enabled
RtcBuffersOnce == rtc_avail + rtc_taken + rtc_pool <= RtcBuffers

RtcIInv == RtcInv /\ RtcOwnCounts /\ RtcBuffersOnce

-----------------------------------------------------------------------------
\* What a notify_one(), a wake-up or an end of a thread does to the number of
\* threads on their way to the pool.
LEMMA RtcAtFinite ==
  ASSUME NEW p PROVE IsFiniteSet(RtcAt(p)) /\ Cardinality(RtcAt(p)) \in Nat
<1>1. IsFiniteSet(RtcIds)
  BY RtcAssumption, FS_Interval DEF RtcIds
<1>2. RtcAt(p) \subseteq RtcIds
  BY DEF RtcAt
<1> QED
  BY <1>1, <1>2, FS_Subset, FS_CardinalityType

LEMMA RtcOneMoreLocked ==
  ASSUME RtcTypeOK, NEW w \in RtcIds, rtc_thread[w].at # "lock",
         rtc_thread' = [rtc_thread EXCEPT ![w].at = "lock"]
  PROVE  Cardinality(RtcAt("lock")') = Cardinality(RtcAt("lock")) + 1
<1>1. RtcAt("lock")' = RtcAt("lock") \cup {w}
  BY DEF RtcAt, RtcTypeOK
<1>2. w \notin RtcAt("lock")
  BY DEF RtcAt
<1> QED
  BY <1>1, <1>2, RtcAtFinite, FS_AddElement

LEMMA RtcOneLessLocked ==
  ASSUME RtcTypeOK, NEW w \in RtcIds, rtc_thread[w].at = "lock",
         rtc_thread' = [rtc_thread EXCEPT ![w] = RtcGone]
  PROVE  Cardinality(RtcAt("lock")') = Cardinality(RtcAt("lock")) - 1
<1>1. RtcAt("lock")' = RtcAt("lock") \ {w}
  BY DEF RtcAt, RtcTypeOK, RtcGone
<1>2. w \in RtcAt("lock")
  BY DEF RtcAt
<1> QED
  BY <1>1, <1>2, RtcAtFinite, FS_RemoveElement

-----------------------------------------------------------------------------
LEMMA RtcStart == RtcInit => RtcIInv
<1> SUFFICES ASSUME RtcInit PROVE RtcIInv
  OBVIOUS
<1> USE RtcAssumption DEF RtcInit
<1>1. RtcTypeOK
  BY DEF RtcTypeOK, RtcGone, RtcTimes, RtcIds
<1>2. RtcOneAlarm
  BY DEF RtcOneAlarm, RtcGone
<1>3. RtcEveryBufferWakes /\ RtcOwnCounts
  BY DEF RtcEveryBufferWakes, RtcOwnCounts
<1>4. RtcBuffersOnce
  BY DEF RtcBuffersOnce
<1> QED
  BY <1>1, <1>2, <1>3, <1>4 DEF RtcIInv, RtcInv

\* The guest sets the alarm, or enables or disables it: the thread that the
\* alarm lets go of is cancelled, and a new one sleeps.
LEMMA RtcSetStep ==
  ASSUME RtcIInv, NEW enabled \in BOOLEAN, NEW due \in RtcTimes,
         rtc_alarm' \in [time : RtcTimes, enabled : BOOLEAN], rtc_alarm'.enabled = enabled,
         rtc_reply' = "OK",
         UNCHANGED <<rtc_now, rtc_features, rtcQueue>>,
         IF enabled THEN RtcEnable(due) ELSE RtcDisable
  PROVE  RtcIInv'
<1> USE DEF RtcIInv, RtcInv, RtcThreadStates
<1>1. /\ RtcCancelled \in [RtcIds -> RtcThreadStates]
      /\ \A v \in RtcIds :
           RtcCancelled[v].at # "none" => RtcCancelled[v].cancelled
  <2> SUFFICES ASSUME NEW v \in RtcIds
               PROVE  /\ RtcCancelled[v] \in RtcThreadStates
                      /\ RtcCancelled[v].at # "none" => RtcCancelled[v].cancelled
    BY DEF RtcCancelled
  <2>1. rtc_thread[v] \in RtcThreadStates
    BY DEF RtcTypeOK
  <2>2. CASE v = rtc_worker /\ rtc_thread[v].at # "none"
    <3>1. RtcCancelled[v] = [rtc_thread[v] EXCEPT !.cancelled = TRUE]
      BY <2>2 DEF RtcCancelled
    <3> QED
      BY <2>1, <3>1
  <2>3. CASE ~(v = rtc_worker /\ rtc_thread[v].at # "none")
    <3>1. RtcCancelled[v] = rtc_thread[v]
      BY <2>3 DEF RtcCancelled
    <3> QED
      BY <2>1, <2>3, <3>1 DEF RtcOneAlarm
  <2> QED
    BY <2>2, <2>3
<1>2. CASE ~enabled
  <2>1. rtc_worker' = 0 /\ rtc_thread' = RtcCancelled
    BY <1>2 DEF RtcDisable
  <2>2. RtcTypeOK'
    BY <1>1, <2>1, RtcAssumption DEF RtcTypeOK, rtcQueue
  <2>3. RtcOneAlarm'
    BY <1>1, <2>1 DEF RtcOneAlarm
  <2>4. RtcEveryBufferWakes' /\ RtcOwnCounts' /\ RtcBuffersOnce'
    BY <2>1 DEF RtcEveryBufferWakes, RtcOwnCounts, RtcBuffersOnce, rtcQueue
  <2> QED
    BY <2>2, <2>3, <2>4
<1>3. CASE enabled
  <2>1. PICK w \in RtcIds :
          /\ rtc_worker' = w
          /\ rtc_thread' = [RtcCancelled EXCEPT ![w] = [at |-> "sleep", due |-> due, cancelled |-> FALSE]]
    <3>1. RtcFree # {} => (CHOOSE w \in RtcFree : TRUE) \in RtcFree
      OBVIOUS
    <3> QED
      BY <1>3, <3>1 DEF RtcEnable, RtcFree, RtcAt
  <2>2. RtcTypeOK'
    BY <1>1, <2>1, RtcAssumption DEF RtcTypeOK, rtcQueue, RtcIds
  <2>3. /\ rtc_thread'[w] = [at |-> "sleep", due |-> due, cancelled |-> FALSE]
        /\ \A v \in RtcIds \ {w} : rtc_thread'[v] = RtcCancelled[v]
    BY <1>1, <2>1
  <2>4. RtcOneAlarm'
    BY <1>1, <1>3, <2>1, <2>3 DEF RtcOneAlarm
  <2>5. RtcEveryBufferWakes' /\ RtcOwnCounts'
    BY <1>3, <2>1, <2>3 DEF RtcEveryBufferWakes, RtcOwnCounts, RtcAt
  <2>6. RtcBuffersOnce'
    BY DEF RtcBuffersOnce, rtcQueue
  <2> QED
    BY <2>2, <2>4, <2>5, <2>6
<1> QED
  BY <1>2, <1>3

\* A buffer goes to the pool, and its notify_one() moves one thread.
LEMMA RtcPushStep == ASSUME RtcIInv, RtcPushBuffer PROVE RtcIInv'
<1> USE RtcAssumption DEF RtcIInv, RtcInv, RtcThreadStates, RtcPushBuffer
<1>1. RtcBuffersOnce' /\ rtc_pool' \in 0 .. RtcBuffers /\ rtc_taken' \in 0 .. RtcBuffers
  BY DEF RtcTypeOK, RtcBuffersOnce
<1>2. CASE RtcAt("wait") = {}
  <2>1. UNCHANGED rtc_thread
    BY <1>2 DEF RtcNotifyOne
  <2> QED
    BY <1>1, <1>2, <2>1 DEF RtcTypeOK, RtcOneAlarm, RtcEveryBufferWakes, RtcOwnCounts, RtcAt
<1>3. CASE RtcAt("wait") # {}
  <2>1. PICK w \in RtcAt("wait") : rtc_thread' = [rtc_thread EXCEPT ![w].at = "lock"]
    BY <1>3 DEF RtcNotifyOne
  <2>2. w \in RtcIds /\ rtc_thread[w].at = "wait"
    BY <2>1 DEF RtcAt
  <2>3. RtcTypeOK'
    BY <1>1, <2>1, <2>2 DEF RtcTypeOK
  <2>4. RtcOneAlarm' /\ RtcOwnCounts'
    BY <2>1, <2>2 DEF RtcTypeOK, RtcOneAlarm, RtcOwnCounts, RtcIds
  <2>5. Cardinality(RtcAt("lock")') = Cardinality(RtcAt("lock")) + 1
    BY <2>1, <2>2, RtcOneMoreLocked
  <2>6. rtc_worker' # 0 /\ rtc_worker' \in RtcAt("wait")' => rtc_worker \in RtcAt("wait")
    BY <2>1, <2>2 DEF RtcAt, RtcTypeOK
  <2>7. RtcEveryBufferWakes'
    BY <2>5, <2>6, RtcAtFinite DEF RtcEveryBufferWakes, RtcTypeOK
  <2> QED
    BY <1>1, <2>3, <2>4, <2>7
<1> QED
  BY <1>2, <1>3

\* A thread wakes up, by itself or for no reason: it is one more on its way
\* to the pool, or it was cancelled and ends.
LEMMA RtcWakeStep ==
  ASSUME RtcIInv, NEW w \in RtcIds, RtcWake(w) \/ RtcSpurious(w)
  PROVE  RtcIInv'
<1> USE DEF RtcIInv, RtcInv, RtcThreadStates
<1>0. UNCHANGED <<rtc_now, rtc_features, rtc_alarm, rtc_worker, rtc_reply, rtc_avail, rtc_taken, rtc_pool>>
  BY DEF RtcWake, RtcSpurious, rtcQueue
<1>1. CASE rtc_thread[w].at # "lock" /\ rtc_thread' = [rtc_thread EXCEPT ![w].at = "lock"]
                /\ rtc_thread[w].at # "none"
  <2>1. RtcTypeOK' /\ RtcBuffersOnce'
    BY <1>0, <1>1 DEF RtcTypeOK, RtcBuffersOnce
  <2>2. RtcOneAlarm' /\ RtcOwnCounts'
    BY <1>0, <1>1 DEF RtcTypeOK, RtcOneAlarm, RtcOwnCounts, RtcIds
  <2>3. Cardinality(RtcAt("lock")') = Cardinality(RtcAt("lock")) + 1
    BY <1>1, RtcOneMoreLocked
  <2>4. rtc_worker' # 0 /\ rtc_worker' \in RtcAt("wait")' => rtc_worker \in RtcAt("wait")
    BY <1>0, <1>1 DEF RtcAt, RtcTypeOK
  <2>5. RtcEveryBufferWakes'
    BY <1>0, <2>3, <2>4, RtcAtFinite DEF RtcEveryBufferWakes, RtcTypeOK
  <2> QED
    BY <2>1, <2>2, <2>5
<1>2. CASE rtc_thread[w].at = "sleep" /\ rtc_thread' = [rtc_thread EXCEPT ![w] = RtcGone]
  <2>1. RtcTypeOK' /\ RtcBuffersOnce'
    BY <1>0, <1>2, RtcAssumption DEF RtcTypeOK, RtcBuffersOnce, RtcGone, RtcTimes
  <2>2. RtcOneAlarm' /\ RtcOwnCounts'
    BY <1>0, <1>2 DEF RtcTypeOK, RtcOneAlarm, RtcOwnCounts, RtcIds, RtcGone
  <2>3. RtcAt("lock")' = RtcAt("lock") /\ RtcAt("wait")' = RtcAt("wait")
    BY <1>2 DEF RtcAt, RtcTypeOK, RtcGone
  <2>4. RtcEveryBufferWakes'
    BY <1>0, <2>3 DEF RtcEveryBufferWakes
  <2> QED
    BY <2>1, <2>2, <2>4
<1>3. \/ /\ rtc_thread[w].at \in {"sleep", "wait"}
         /\ rtc_thread' = [rtc_thread EXCEPT ![w].at = "lock"]
      \/ rtc_thread[w].at = "sleep" /\ rtc_thread' = [rtc_thread EXCEPT ![w] = RtcGone]
  BY DEF RtcWake, RtcSpurious, RtcTypeOK
<1> QED
  BY <1>1, <1>2, <1>3

\* With the lock, a thread ends, with a buffer or without, or waits.
LEMMA RtcLockStep ==
  ASSUME RtcIInv, NEW w \in RtcIds, RtcGiveUp(w) \/ RtcNotify(w) \/ RtcWait(w)
  PROVE  RtcIInv'
<1> USE DEF RtcIInv, RtcInv, RtcThreadStates
<1>0. /\ UNCHANGED <<rtc_now, rtc_features, rtc_alarm, rtc_worker, rtc_reply, rtc_avail, rtc_taken>>
      /\ rtc_pool' <= rtc_pool /\ rtc_pool' \in 0 .. RtcBuffers
      /\ rtc_thread[w].at = "lock"
  <2>1. CASE RtcGiveUp(w) \/ RtcWait(w)
    <3>1. rtc_thread[w].at = "lock" /\ UNCHANGED rtcQueue
          /\ UNCHANGED <<rtc_now, rtc_features, rtc_alarm, rtc_worker, rtc_reply>>
      BY <2>1 DEF RtcGiveUp, RtcWait
    <3> QED
      BY <3>1, RtcAssumption DEF rtcQueue, RtcTypeOK
  <2>2. CASE RtcNotify(w)
    BY <2>2, RtcAssumption DEF RtcNotify, RtcTypeOK
  <2> QED
    BY <2>1, <2>2
<1>1. RtcBuffersOnce'
  <2>1. {rtc_avail, rtc_taken, rtc_pool, rtc_pool'} \subseteq Int
    BY <1>0, RtcAssumption DEF RtcTypeOK
  <2>2. rtc_avail' = rtc_avail /\ rtc_taken' = rtc_taken /\ rtc_pool' <= rtc_pool
    BY <1>0
  <2>3. rtc_avail + rtc_taken + rtc_pool <= RtcBuffers
    BY DEF RtcBuffersOnce
  <2> HIDE DEF RtcIInv
  <2> QED
    BY <2>1, <2>2, <2>3, RtcAssumption DEF RtcBuffersOnce
<1>2. CASE RtcGiveUp(w) \/ RtcNotify(w)
  <2>1. rtc_thread' = [rtc_thread EXCEPT ![w] = RtcGone]
    BY <1>2 DEF RtcGiveUp, RtcNotify
  <2>2. RtcTypeOK'
    BY <1>0, <2>1, RtcAssumption DEF RtcTypeOK, RtcGone, RtcTimes
  <2>3. RtcOneAlarm' /\ RtcOwnCounts'
    BY <1>0, <2>1 DEF RtcTypeOK, RtcOneAlarm, RtcOwnCounts, RtcIds, RtcGone
  <2>4. Cardinality(RtcAt("lock")') = Cardinality(RtcAt("lock")) - 1
    BY <1>0, <2>1, RtcOneLessLocked
  <2>5. RtcAt("wait")' = RtcAt("wait")
    BY <1>0, <2>1 DEF RtcAt, RtcTypeOK, RtcGone
  <2>6. rtc_worker # 0 /\ rtc_worker \in RtcAt("wait") => rtc_pool' = rtc_pool - 1
    BY <1>2 DEF RtcGiveUp, RtcNotify, RtcOwnCounts, RtcAt
  <2>7. RtcEveryBufferWakes'
    BY <1>0, <2>4, <2>5, <2>6, RtcAtFinite DEF RtcEveryBufferWakes, RtcTypeOK
  <2> QED
    BY <1>1, <2>2, <2>3, <2>7
<1>3. CASE RtcWait(w)
  <2>1. rtc_pool' = 0 /\ rtc_thread' = [rtc_thread EXCEPT ![w].at = "wait"]
    BY <1>3 DEF RtcWait, rtcQueue
  <2>2. RtcTypeOK'
    BY <1>0, <2>1 DEF RtcTypeOK
  <2>3. RtcOneAlarm' /\ RtcOwnCounts'
    BY <1>0, <2>1 DEF RtcTypeOK, RtcOneAlarm, RtcOwnCounts, RtcIds
  <2>4. Cardinality(RtcAt("lock")') \in Nat
    <3>1. IsFiniteSet(RtcIds) /\ RtcAt("lock")' \subseteq RtcIds
      BY RtcAssumption, FS_Interval DEF RtcIds, RtcAt
    <3> QED
      BY <3>1, FS_Subset, FS_CardinalityType
  <2>5. RtcEveryBufferWakes'
    BY <2>1, <2>4 DEF RtcEveryBufferWakes
  <2> QED
    BY <1>1, <2>2, <2>3, <2>5
<1> QED
  BY <1>2, <1>3

\* Whatever leaves the alarm and its threads alone.
LEMMA RtcOtherStep ==
  ASSUME RtcIInv, UNCHANGED <<rtc_alarm, rtc_worker, rtc_thread, rtc_pool>>,
         rtc_avail' + rtc_taken' + rtc_pool' <= RtcBuffers,
         rtc_avail' \in 0 .. RtcBuffers, rtc_taken' \in 0 .. RtcBuffers,
         rtc_now' \in RtcTimes, rtc_features' \in {"none", "plain", "alarm"},
         rtc_reply' \in {"none", "OK", "EINVAL", "EIO", "EOPNOTSUPP"}
  PROVE  RtcIInv'
  BY DEF RtcIInv, RtcInv, RtcTypeOK, RtcOneAlarm, RtcEveryBufferWakes, RtcOwnCounts, RtcBuffersOnce, RtcAt

\* The requests of the guest.
LEMMA RtcRequestStep ==
  ASSUME RtcIInv, NEW c \in RtcNames,
         \/ \E r \in RtcRequests : RtcReport(r, c)
         \/ \E e \in BOOLEAN :
              RtcSetAlarmEnabled(c, e) \/ \E t \in RtcTimes : RtcSetAlarm(c, t, e)
  PROVE  RtcIInv'
<1>1. CASE \E r \in RtcRequests : RtcReport(r, c)
  <2>1. PICK r \in RtcRequests : RtcReport(r, c)
    BY <1>1
  <2>2. rtc_reply' \in {"none", "OK", "EINVAL", "EIO", "EOPNOTSUPP"}
    BY <2>1 DEF RtcReport, RtcReply, RtcStatuses
  <2> QED
    BY <2>1, <2>2, RtcOtherStep DEF RtcReport, RtcReply, rtcQueue, RtcIInv, RtcInv, RtcTypeOK, RtcBuffersOnce
<1>2. ASSUME NEW e \in BOOLEAN, RtcSetAlarmEnabled(c, e) PROVE RtcIInv'
  <2>1. RtcLater(rtc_alarm.time, rtc_now) \in RtcTimes
    BY DEF RtcLater, RtcIInv, RtcInv, RtcTypeOK
  <2>2. rtc_alarm' \in [time : RtcTimes, enabled : BOOLEAN] /\ rtc_alarm'.enabled = e
    BY <1>2 DEF RtcSetAlarmEnabled, RtcIInv, RtcInv, RtcTypeOK
  <2> QED
    BY <1>2, <2>1, <2>2, RtcSetStep DEF RtcSetAlarmEnabled, RtcReply
<1>3. ASSUME NEW e \in BOOLEAN, NEW t \in RtcTimes, RtcSetAlarm(c, t, e) PROVE RtcIInv'
  <2>1. RtcLater(t, rtc_now) \in RtcTimes
    BY DEF RtcLater, RtcIInv, RtcInv, RtcTypeOK
  <2>2. rtc_alarm' \in [time : RtcTimes, enabled : BOOLEAN] /\ rtc_alarm'.enabled = e
    BY <1>3 DEF RtcSetAlarm
  <2> QED
    BY <1>3, <2>1, <2>2, RtcSetStep DEF RtcSetAlarm, RtcReply
<1> QED
  BY <1>1, <1>2, <1>3

-----------------------------------------------------------------------------
\* One alarm, told by one thread, and no lost wake-up (Alarm::enable() and
\* disable(), the threads of AlarmWorker and the pool of buffers).
THEOREM RtcHolds == RtcSpec => []RtcInv
<1>1. RtcIInv /\ [RtcNext]_RtcVars => RtcIInv'
  <2> SUFFICES ASSUME RtcIInv, [RtcNext]_RtcVars PROVE RtcIInv'
    OBVIOUS
  <2>1. CASE RtcTakeBuffers \/ RtcTick \/ RtcGuestBuffer \/ UNCHANGED RtcVars
               \/ \E f \in {"plain", "alarm"} : RtcAckFeatures(f)
    <3>1. RtcTypeOK /\ RtcBuffersOnce
      BY DEF RtcIInv, RtcInv
    <3>2. UNCHANGED <<rtc_alarm, rtc_worker, rtc_thread, rtc_pool, rtc_reply>>
      BY <2>1 DEF RtcTakeBuffers, RtcTick, RtcGuestBuffer, RtcAckFeatures, RtcVars, rtcQueue
    <3>3. rtc_now' \in RtcTimes /\ rtc_features' \in {"none", "plain", "alarm"}
      BY <2>1, <3>1, RtcAssumption
         DEF RtcTakeBuffers, RtcTick, RtcGuestBuffer, RtcAckFeatures, RtcVars, rtcQueue, RtcTypeOK, RtcTimes
    <3>4. /\ rtc_avail' + rtc_taken' + rtc_pool' <= RtcBuffers
          /\ rtc_avail' \in 0 .. RtcBuffers /\ rtc_taken' \in 0 .. RtcBuffers
      BY <2>1, <3>1, RtcAssumption
         DEF RtcTakeBuffers, RtcTick, RtcGuestBuffer, RtcAckFeatures, RtcVars, rtcQueue, RtcTypeOK, RtcBuffersOnce
    <3> QED
      BY <3>1, <3>2, <3>3, <3>4, RtcOtherStep DEF RtcTypeOK
  <2>2. CASE \E w \in RtcIds : RtcThread(w) \/ RtcSpurious(w)
    BY <2>2, RtcWakeStep, RtcLockStep DEF RtcThread
  <2> QED
    BY <2>1, <2>2, RtcPushStep, RtcRequestStep DEF RtcNext, RtcBackend
<1>2. RtcIInv => RtcInv
  BY DEF RtcIInv
<1> QED
  BY <1>1, <1>2, RtcStart, PTL DEF RtcSpec

-----------------------------------------------------------------------------
(***************************************************************************)
(* The I2C adapters, for any number of guests and adapters and any         *)
(* arguments.  What I2cInv says of a guest about to transfer rests on its  *)
(* client being listed, and the address that is set being one of a client  *)
(* listed for the adapter, whoever set it; what it says of the wire rests  *)
(* on the wire being empty until then.                                     *)
(***************************************************************************)
I2cTyped ==
  /\ DOMAIN i2c_reqs = I2cGuests /\ DOMAIN i2c_wire = I2cGuests
  /\ \A addr \in DOMAIN i2c_map : addr \in 0 .. I2cMaxVdev - 1 /\ i2c_map[addr] \in DOMAIN i2c_devices
  /\ \A i \in DOMAIN i2c_devices : i2c_devices[i] \in DOMAIN I2cKinds
  /\ \A g \in I2cGuests : i2c_pc[g] \in {"route", "transfer", "reply"} => 1 \in DOMAIN i2c_reqs[g]
I2cBeforeRun ==
  i2c_state # "run" => \A g \in I2cGuests : i2c_pc[g] = "idle" /\ i2c_wire[g] = <<>>
I2cRouted ==
  \A g \in I2cGuests :
    /\ i2c_pc[g] \in {"route", "transfer"} => i2c_wire[g] = <<>>
    /\ i2c_pc[g] = "transfer" => /\ I2cClient(g) \in DOMAIN i2c_map
                                 /\ I2cListed(i2c_slave[I2cAdapter(g)], I2cAdapter(g))

I2cIInv == I2cInv /\ I2cTyped /\ I2cBeforeRun /\ I2cRouted

LEMMA I2cBegin == I2cInit => I2cIInv
<1> SUFFICES ASSUME I2cInit PROVE I2cIInv
  OBVIOUS
<1> USE DEF I2cInit
<1>1. I2cTypeOK
  <2>1. Range(i2c_map) = {} /\ i2c_devices \in Seq(DOMAIN I2cKinds)
    BY DEF Range
  <2>2. i2c_moved \in [I2cGuests -> BOOLEAN] /\ i2c_slave \in [DOMAIN I2cKinds -> -1 .. I2cMaxVdev - 1]
    BY DEF I2cMaxVdev
  <2> QED
    BY <2>1, <2>2 DEF I2cTypeOK
<1>2. I2cTyped /\ I2cBeforeRun /\ I2cRouted
  BY DEF I2cTyped, I2cBeforeRun, I2cRouted
<1>3. I2cAddressed /\ I2cNamedReached /\ I2cListedOnly
  BY DEF I2cAddressed, I2cNamedReached, I2cListedOnly
<1> QED
  BY <1>1, <1>2, <1>3 DEF I2cIInv, I2cInv

\* A client's address on an adapter.
LEMMA I2cBelowMax == \A addr \in Nat : addr < I2cMaxVdev => addr \in -1 .. I2cMaxVdev - 1
<1> SUFFICES ASSUME NEW addr \in Nat, addr < I2cMaxVdev PROVE addr \in -1 .. I2cMaxVdev - 1
  OBVIOUS
<1>1. I2cMaxVdev = 128
  BY DEF I2cMaxVdev
<1> QED
  BY <1>1

\* The daemon reads its arguments before any guest is served.
LEMMA I2cStartStep ==
  ASSUME I2cIInv, NEW list \in I2cLists, I2cStart(list)
  PROVE  I2cIInv'
<1> USE DEF I2cIInv, I2cInv
<1>0. /\ \A g \in I2cGuests : i2c_pc[g] = "idle" /\ i2c_wire[g] = <<>>
      /\ UNCHANGED <<i2c_pc, i2c_reqs, i2c_status, i2c_wire, i2c_moved>>
  BY DEF I2cBeforeRun, I2cStart
<1>1. CASE UNCHANGED <<i2c_devices, i2c_map, i2c_slave>> /\ i2c_state' = "exit"
  BY <1>0, <1>1 DEF I2cTypeOK, I2cTyped, I2cBeforeRun, I2cRouted, I2cAddressed, I2cNamedReached,
     I2cListedOnly
<1>2. CASE /\ I2cParses(list)
           /\ \A i \in DOMAIN list : I2cOpens(list[i].adapter)
           /\ \A addr \in I2cAddresses(list) : I2cSlaveTakes(addr)
           /\ i2c_state' = "run"
           /\ i2c_devices' = [i \in DOMAIN list |-> list[i].adapter]
           /\ i2c_map' = [addr \in I2cAddresses(list) |->
                            CHOOSE i \in DOMAIN list : addr \in Range(list[i].addr)]
           /\ i2c_slave' = [a \in DOMAIN I2cKinds |->
                IF \E i \in DOMAIN list : list[i].adapter = a /\ list[i].addr # <<>>
                THEN Last(list[CHOOSE i \in DOMAIN list : list[i].adapter = a].addr)
                ELSE i2c_slave[a]]
  <2>1. list \in Seq(Range(list)) /\ \A i \in DOMAIN list : list[i].addr \in Seq(Nat)
    BY I2cAssumption
  <2>2. \A i \in DOMAIN list : list[i].adapter \in DOMAIN I2cKinds
    BY <1>2 DEF I2cOpens
  <2>3. i2c_devices' \in Seq(DOMAIN I2cKinds) /\ DOMAIN i2c_devices' = DOMAIN list
    BY <1>2, <2>1, <2>2
  <2>4. \A addr \in DOMAIN i2c_map' :
          addr \in 0 .. I2cMaxVdev - 1 /\ i2c_map'[addr] \in DOMAIN i2c_devices'
    <3> SUFFICES ASSUME NEW addr \in I2cAddresses(list)
                 PROVE  /\ addr \in 0 .. I2cMaxVdev - 1
                        /\ (CHOOSE i \in DOMAIN list : addr \in Range(list[i].addr)) \in DOMAIN list
      BY <1>2, <2>3
    <3>1. PICK i \in DOMAIN list : addr \in Range(list[i].addr)
      BY DEF I2cAddresses
    <3>2. addr \in Nat
      BY <2>1, <3>1 DEF Range
    <3>3. addr < I2cMaxVdev
      BY <1>2 DEF I2cSlaveTakes
    <3>4. (CHOOSE j \in DOMAIN list : addr \in Range(list[j].addr)) \in DOMAIN list
      BY <3>1
    <3> QED
      BY <3>2, <3>3, <3>4 DEF I2cMaxVdev
  <2>5. i2c_slave' \in [DOMAIN I2cKinds -> -1 .. I2cMaxVdev - 1]
    <3> SUFFICES ASSUME NEW a \in DOMAIN I2cKinds, NEW i \in DOMAIN list,
                        list[i].adapter = a, list[i].addr # <<>>
                 PROVE  Last(list[CHOOSE j \in DOMAIN list : list[j].adapter = a].addr)
                          \in -1 .. I2cMaxVdev - 1
      BY <1>2 DEF I2cTypeOK
    <3>1. (CHOOSE j \in DOMAIN list : list[j].adapter = a) = i
      BY <1>2 DEF I2cParses
    <3>2. Len(list[i].addr) \in DOMAIN list[i].addr
      BY <2>1
    <3>3. Last(list[i].addr) \in I2cAddresses(list) /\ Last(list[i].addr) \in Nat
      <4>1. Last(list[i].addr) \in Range(list[i].addr)
        BY <3>2 DEF Last, Range
      <4> QED
        BY <2>1, <3>2, <4>1 DEF I2cAddresses, Last
    <3>4. Last(list[i].addr) < I2cMaxVdev
      BY <1>2, <3>3 DEF I2cSlaveTakes
    <3>5. \A addr \in Nat : addr < I2cMaxVdev => addr \in -1 .. I2cMaxVdev - 1
      BY I2cBelowMax
    <3>6. Last(list[i].addr) \in -1 .. I2cMaxVdev - 1
      BY <3>3, <3>4, <3>5, Zenon
    <3> QED
      BY <3>1, <3>6, Zenon
  <2>6. I2cTypeOK'
    <3>1. Range(i2c_map)' \subseteq DOMAIN i2c_devices'
      BY <2>4 DEF Range
    <3>2. \A g \in I2cGuests : i2c_pc'[g] = "idle"
      BY <1>0
    <3> QED
      BY <1>0, <1>2, <2>3, <2>5, <3>1, <3>2 DEF I2cTypeOK
  <2>7. I2cTyped' /\ I2cBeforeRun' /\ I2cRouted'
    BY <1>0, <1>2, <2>2, <2>4 DEF I2cTyped, I2cBeforeRun, I2cRouted
  <2>8. I2cAddressed' /\ I2cNamedReached' /\ I2cListedOnly'
    BY <1>0 DEF I2cAddressed, I2cNamedReached, I2cListedOnly
  <2> QED
    BY <2>6, <2>7, <2>8
<1> QED
  BY <1>1, <1>2 DEF I2cStart

\* A step of one guest's thread that touches neither the adapters nor another
\* guest: what is said of the others stays.
LEMMA I2cOwnStep ==
  ASSUME I2cIInv, NEW g \in I2cGuests,
         I2cCollect(g) \/ I2cRefuse(g) \/ I2cTransfer(g) \/ I2cTransferFails(g) \/ I2cReply(g)
  PROVE  /\ i2c_state = "run"
         /\ UNCHANGED <<i2c_devices, i2c_map, i2c_state, i2c_slave, i2c_moved>>
         /\ \A h \in I2cGuests : h # g =>
              /\ i2c_pc'[h] = i2c_pc[h] /\ i2c_reqs'[h] = i2c_reqs[h]
              /\ i2c_status'[h] = i2c_status[h] /\ i2c_wire'[h] = i2c_wire[h]
<1> USE DEF I2cIInv, I2cInv, I2cTypeOK, I2cTyped, I2cStep, i2cShared, I2cAnswer
<1>1. CASE I2cCollect(g)
  BY <1>1 DEF I2cCollect
<1>2. CASE I2cRefuse(g)
  BY <1>2 DEF I2cRefuse
<1>3. CASE I2cTransfer(g)
  BY <1>3 DEF I2cTransfer
<1>4. CASE I2cTransferFails(g)
  BY <1>4 DEF I2cTransferFails
<1>5. CASE I2cReply(g)
  BY <1>5 DEF I2cReply
<1> QED
  BY <1>1, <1>2, <1>3, <1>4, <1>5

LEMMA I2cOwnKeeps ==
  ASSUME I2cIInv, NEW g \in I2cGuests,
         I2cCollect(g) \/ I2cRefuse(g) \/ I2cTransfer(g) \/ I2cTransferFails(g) \/ I2cReply(g),
         i2c_pc' \in [I2cGuests -> {"idle", "route", "transfer", "reply", "dead"}],
         i2c_status' \in [I2cGuests -> {"OK", "ERR"}],
         DOMAIN i2c_reqs' = I2cGuests, DOMAIN i2c_wire' = I2cGuests,
         i2c_pc'[g] # "transfer",
         i2c_pc'[g] \in {"route", "reply"} => 1 \in DOMAIN i2c_reqs'[g] /\ i2c_reqs'[g] # <<>>,
         i2c_pc'[g] = "route" => i2c_wire'[g] = <<>>,
         \* what the thread now says of its transfer
         i2c_pc'[g] = "reply" /\ i2c_status'[g] = "OK" => I2cAsNamed(g)',
         i2c_pc'[g] \in {"reply", "dead"} => I2cReachesListed(g)'
  PROVE  I2cIInv'
<1>1. /\ i2c_state = "run"
      /\ UNCHANGED <<i2c_devices, i2c_map, i2c_state, i2c_slave, i2c_moved>>
      /\ \A h \in I2cGuests : h # g =>
           /\ i2c_pc'[h] = i2c_pc[h] /\ i2c_reqs'[h] = i2c_reqs[h]
           /\ i2c_status'[h] = i2c_status[h] /\ i2c_wire'[h] = i2c_wire[h]
  BY I2cOwnStep
<1> USE DEF I2cIInv, I2cInv
<1>2. I2cTypeOK'
  <2>1. Range(i2c_map)' = Range(i2c_map)
    BY <1>1
  <2> QED
    BY <1>1, <2>1 DEF I2cTypeOK
<1>3. I2cTyped' /\ I2cBeforeRun' /\ I2cRouted'
  <2>1. I2cTyped' /\ I2cBeforeRun'
    BY <1>1 DEF I2cTyped, I2cBeforeRun, I2cTypeOK
  <2>2. \A h \in I2cGuests : i2c_pc'[h] \in {"route", "transfer"} => i2c_wire'[h] = <<>>
    BY <1>1 DEF I2cRouted
  <2>3. ASSUME NEW h \in I2cGuests, i2c_pc'[h] = "transfer"
        PROVE  I2cClient(h)' \in DOMAIN i2c_map' /\ I2cListed(i2c_slave[I2cAdapter(h)], I2cAdapter(h))'
    <3>1. I2cClient(h) \in DOMAIN i2c_map /\ I2cListed(i2c_slave[I2cAdapter(h)], I2cAdapter(h))
      BY <1>1, <2>3 DEF I2cRouted
    <3>2. I2cClient(h)' = I2cClient(h) /\ I2cAdapter(h)' = I2cAdapter(h)
      BY <1>1, <2>3 DEF I2cClient, I2cAdapter
    <3> QED
      BY <1>1, <3>1, <3>2 DEF I2cListed
  <2> QED
    BY <2>1, <2>2, <2>3 DEF I2cRouted
<1>4. I2cAddressed'
  <2> SUFFICES ASSUME NEW h \in I2cGuests, i2c_pc'[h] = "transfer", ~i2c_moved[h]
               PROVE  i2c_slave[I2cAdapter(h)'] = I2cClient(h)'
    BY <1>1 DEF I2cAddressed
  <2>1. h # g /\ i2c_pc[h] = "transfer"
    BY <1>1
  <2>2. I2cClient(h)' = I2cClient(h) /\ I2cAdapter(h)' = I2cAdapter(h)
    BY <1>1, <2>1 DEF I2cClient, I2cAdapter
  <2> QED
    BY <2>1, <2>2 DEF I2cAddressed
<1>5. I2cNamedReached'
  <2> SUFFICES ASSUME NEW h \in I2cGuests, i2c_pc'[h] = "reply", i2c_status'[h] = "OK"
               PROVE  I2cAsNamed(h)'
    BY DEF I2cNamedReached
  <2>1. CASE h = g
    BY <2>1
  <2>2. CASE h # g
    <3>1. I2cAsNamed(h)
      BY <1>1, <2>2 DEF I2cNamedReached
    <3>2. I2cClient(h)' = I2cClient(h) /\ I2cAdapter(h)' = I2cAdapter(h)
      BY <1>1, <2>2 DEF I2cClient, I2cAdapter
    <3>3. i2c_wire'[h] = i2c_wire[h] /\ i2c_reqs'[h] = i2c_reqs[h] /\ i2c_moved'[h] = i2c_moved[h]
      BY <1>1, <2>2
    <3> QED
      BY <3>1, <3>2, <3>3 DEF I2cAsNamed
  <2> QED
    BY <2>1, <2>2
<1>6. I2cListedOnly'
  <2> SUFFICES ASSUME NEW h \in I2cGuests, i2c_pc'[h] \in {"reply", "dead"} PROVE I2cReachesListed(h)'
    BY DEF I2cListedOnly
  <2>1. CASE h # g
    <3>1. I2cReachesListed(h)
      BY <1>1, <2>1 DEF I2cListedOnly
    <3>2. I2cAdapter(h)' = I2cAdapter(h) /\ i2c_wire'[h] = i2c_wire[h]
      BY <1>1, <2>1 DEF I2cClient, I2cAdapter
    <3> QED
      BY <1>1, <3>1, <3>2 DEF I2cReachesListed, I2cListed
  <2> QED
    BY <2>1
<1> QED
  BY <1>2, <1>3, <1>4, <1>5, <1>6

\* A transfer that is made: the wire shows what was named, or the adapter is
\* one that sends to the address last set.
LEMMA I2cTransferStep ==
  ASSUME I2cIInv, NEW g \in I2cGuests, I2cTransfer(g)
  PROVE  I2cIInv'
<1> DEFINE r == i2c_reqs[g]  a == I2cAdapter(g)
<1>1. /\ i2c_pc[g] = "transfer" /\ i2c_state = "run"
      /\ i2c_pc' = [i2c_pc EXCEPT ![g] = IF I2cPanics(g) THEN "dead" ELSE "reply"]
      /\ i2c_status' = [i2c_status EXCEPT ![g] = "OK"]
      /\ i2c_wire' = [i2c_wire EXCEPT ![g] = I2cReached(g)]
      /\ UNCHANGED <<i2c_reqs, i2c_moved, i2c_devices, i2c_map>>
  BY DEF I2cTransfer, I2cStep, I2cAnswer, i2cShared
<1>2. /\ 1 \in DOMAIN r /\ r # <<>> /\ r[1].addr \in DOMAIN i2c_map
      /\ I2cListed(i2c_slave[a], a) /\ I2cListed(r[1].addr, a)
      /\ ~i2c_moved[g] => i2c_slave[a] = r[1].addr
  BY <1>1 DEF I2cListed, I2cAdapter, I2cIInv, I2cInv, I2cTyped, I2cTypeOK, I2cRouted, I2cAddressed, I2cClient
<1>3. i2c_wire'[g] = I2cReached(g) /\ i2c_reqs'[g] = r
  BY <1>1 DEF I2cIInv, I2cTyped
<1>6. /\ i2c_pc'[g] \in {"reply", "dead"} /\ DOMAIN i2c_reqs' = I2cGuests /\ DOMAIN i2c_wire' = I2cGuests
      /\ i2c_pc' \in [I2cGuests -> {"idle", "route", "transfer", "reply", "dead"}]
      /\ i2c_status' \in [I2cGuests -> {"OK", "ERR"}]
      /\ i2c_pc'[g] = "reply" => 1 \in DOMAIN i2c_reqs'[g] /\ i2c_reqs'[g] # <<>>
  BY <1>1, <1>2, <1>3 DEF I2cIInv, I2cInv, I2cTypeOK, I2cTyped
<1>7. I2cAdapter(g)' = a /\ UNCHANGED <<i2c_devices, i2c_map>>
  BY <1>1, <1>3 DEF I2cAdapter, I2cClient, i2cShared
<1>4. CASE I2cKinds[a] # "smbus"
  <2>1. i2c_wire'[g] = I2cNamed(r)
    BY <1>3, <1>4 DEF I2cReached
  <2>2. I2cReachesListed(g)'
    BY <1>2, <1>4, <1>7, <2>1 DEF I2cNamed, I2cReachesListed, I2cListed
  <2>3. I2cAsNamed(g)'
    BY <1>3, <2>1 DEF I2cAsNamed
  <2> QED
    BY <1>6, <2>2, <2>3, I2cOwnKeeps
<1>5. CASE I2cKinds[a] = "smbus"
  <2>1. i2c_wire'[g] = [i \in DOMAIN r |-> <<i2c_slave[a], r[i].rd>>]
    BY <1>3, <1>5 DEF I2cReached
  <2>2. I2cReachesListed(g)'
    BY <1>2, <1>7, <2>1 DEF I2cReachesListed, I2cListed
  <2>3. I2cAsNamed(g)'
    <3>1. CASE i2c_moved[g] \/ \E i \in DOMAIN r : r[i].addr # r[1].addr
      <4>1. I2cAdapter(g)' = a /\ I2cClient(g)' = r[1].addr /\ i2c_moved'[g] = i2c_moved[g]
        BY <1>1, <1>3 DEF I2cAdapter, I2cClient, i2cShared
      <4> QED
        BY <1>3, <1>5, <3>1, <4>1 DEF I2cAsNamed
    <3>2. CASE ~i2c_moved[g] /\ \A i \in DOMAIN r : r[i].addr = r[1].addr
      <4>1. i2c_wire'[g] = I2cNamed(r)
        BY <1>2, <2>1, <3>2 DEF I2cNamed
      <4> QED
        BY <1>3, <4>1 DEF I2cAsNamed
    <3> QED
      BY <3>1, <3>2
  <2> QED
    BY <1>6, <2>2, <2>3, I2cOwnKeeps
<1> QED
  BY <1>4, <1>5

\* Choosing the adapter sets its address: the others that are about to use it
\* are noted as moved, and those on other adapters find theirs as it was.
LEMMA I2cRouteStep ==
  ASSUME I2cIInv, NEW g \in I2cGuests, I2cRoute(g)
  PROVE  I2cIInv'
<1> USE DEF I2cIInv, I2cInv
<1> DEFINE c == I2cClient(g)  a == I2cAdapter(g)
<1>1. /\ i2c_state = "run" /\ i2c_pc[g] = "route" /\ c \in DOMAIN i2c_map
      /\ i2c_pc' = [i2c_pc EXCEPT ![g] = "transfer"]
      /\ i2c_slave' = [i2c_slave EXCEPT ![a] = c]
      /\ i2c_moved' = [h \in I2cGuests |->
           IF h = g THEN FALSE
           ELSE i2c_moved[h] \/ (i2c_pc[h] = "transfer" /\ I2cAdapter(h) = a)]
      /\ UNCHANGED <<i2c_devices, i2c_map, i2c_state, i2c_reqs, i2c_status, i2c_wire>>
  BY DEF I2cRoute, I2cMove, I2cStep, i2cShared
<1>2. a \in DOMAIN I2cKinds /\ c \in -1 .. I2cMaxVdev - 1 /\ c \in 0 .. I2cMaxVdev - 1
  BY <1>1 DEF I2cTyped, I2cAdapter, I2cMaxVdev
<1>3. /\ i2c_pc'[g] = "transfer" /\ i2c_wire[g] = <<>>
      /\ \A h \in I2cGuests : h # g => i2c_pc'[h] = i2c_pc[h]
  BY <1>1 DEF I2cTypeOK, I2cRouted
<1>4. I2cTypeOK'
  <2>1. i2c_slave' \in [DOMAIN I2cKinds -> -1 .. I2cMaxVdev - 1]
    BY <1>1, <1>2 DEF I2cTypeOK
  <2>2. i2c_moved' \in [I2cGuests -> BOOLEAN]
    BY <1>1 DEF I2cTypeOK
  <2> QED
    BY <1>1, <2>1, <2>2 DEF I2cTypeOK, Range
<1>5. I2cTyped' /\ I2cBeforeRun' /\ I2cRouted'
  <2>1. I2cTyped' /\ I2cBeforeRun'
    BY <1>1, <1>3 DEF I2cTyped, I2cBeforeRun
  <2>2. ASSUME NEW h \in I2cGuests
        PROVE  I2cClient(h)' = I2cClient(h) /\ I2cAdapter(h)' = I2cAdapter(h)
    BY <1>1 DEF I2cClient, I2cAdapter
  <2>3. I2cListed(c, a)
    BY <1>1 DEF I2cListed, I2cAdapter
  <2>4. ASSUME NEW h \in I2cGuests, i2c_pc'[h] = "transfer"
        PROVE  I2cClient(h)' \in DOMAIN i2c_map' /\ I2cListed(i2c_slave[I2cAdapter(h)], I2cAdapter(h))'
    <3>1. I2cClient(h) \in DOMAIN i2c_map
      BY <1>1, <1>3, <2>4 DEF I2cRouted
    <3>2. CASE I2cAdapter(h) = a
      <4>1. i2c_slave'[a] = c
        BY <1>1, <1>2 DEF I2cTypeOK
      <4> QED
        BY <1>1, <2>2, <2>3, <3>1, <3>2, <4>1 DEF I2cListed
    <3>3. CASE I2cAdapter(h) # a
      <4>1. i2c_slave'[I2cAdapter(h)] = i2c_slave[I2cAdapter(h)] /\ h # g
        BY <1>1, <3>3 DEF I2cTypeOK
      <4>2. I2cListed(i2c_slave[I2cAdapter(h)], I2cAdapter(h))
        BY <1>3, <2>4, <4>1 DEF I2cRouted
      <4> QED
        BY <1>1, <2>2, <3>1, <4>1, <4>2 DEF I2cListed
    <3> QED
      BY <3>2, <3>3
  <2>5. \A h \in I2cGuests : i2c_pc'[h] \in {"route", "transfer"} => i2c_wire'[h] = <<>>
    BY <1>1, <1>3 DEF I2cRouted
  <2> QED
    BY <2>1, <2>4, <2>5 DEF I2cRouted
<1>6. I2cAddressed'
  <2> SUFFICES ASSUME NEW h \in I2cGuests, i2c_pc'[h] = "transfer", ~i2c_moved'[h]
               PROVE  i2c_slave'[I2cAdapter(h)] = I2cClient(h)
    BY <1>1 DEF I2cAddressed, I2cAdapter, I2cClient
  <2>1. CASE h = g
    BY <1>1, <1>2, <2>1 DEF I2cTypeOK
  <2>2. CASE h # g
    <3>1. I2cAdapter(h)' = I2cAdapter(h) /\ I2cClient(h)' = I2cClient(h)
      BY <1>1 DEF I2cAdapter, I2cClient
    <3>2. i2c_pc[h] = "transfer" /\ ~i2c_moved[h] /\ I2cAdapter(h) # a
      BY <1>1, <1>3, <2>2
    <3>3. i2c_slave[I2cAdapter(h)] = I2cClient(h)
      BY <3>2 DEF I2cAddressed
    <3> QED
      BY <1>1, <3>2, <3>3 DEF I2cTypeOK
  <2> QED
    BY <2>1, <2>2
<1>7. I2cNamedReached'
  <2> SUFFICES ASSUME NEW h \in I2cGuests, i2c_pc'[h] = "reply", i2c_status'[h] = "OK"
               PROVE  I2cAsNamed(h)'
    BY DEF I2cNamedReached
  <2>1. h # g /\ i2c_pc[h] = "reply" /\ i2c_status[h] = "OK"
    BY <1>1, <1>3
  <2>2. I2cAsNamed(h)
    BY <2>1 DEF I2cNamedReached
  <2>3. I2cClient(h)' = I2cClient(h) /\ I2cAdapter(h)' = I2cAdapter(h)
    BY <1>1 DEF I2cClient, I2cAdapter
  <2>4. i2c_moved'[h] <=> i2c_moved[h]
    BY <1>1, <2>1
  <2> QED
    BY <1>1, <2>2, <2>3, <2>4 DEF I2cAsNamed
<1>8. I2cListedOnly'
  BY <1>1, <1>3 DEF I2cListedOnly, I2cReachesListed, I2cListed, I2cAdapter, I2cClient
<1> QED
  BY <1>4, <1>5, <1>6, <1>7, <1>8

\* A guest that is told OK has reached the clients it named, the first of them
\* and all of an SMBus transaction listed for the adapter that is used
\* (process_requests(), I2cMap::transfer()), for any number of guests, adapters
\* and clients.
THEOREM I2cHolds == I2cSpec => []I2cInv
<1>1. I2cIInv /\ [I2cNext]_I2cVars => I2cIInv'
  <2> SUFFICES ASSUME I2cIInv, [I2cNext]_I2cVars PROVE I2cIInv'
    OBVIOUS
  <2>1. ASSUME NEW list \in I2cLists, I2cStart(list) PROVE I2cIInv'
    BY <2>1, I2cStartStep
  <2>2. ASSUME NEW g \in I2cGuests, I2cThread(g) PROVE I2cIInv'
    <3>0. i2c_wire'[g] = <<>> => I2cReachesListed(g)'
      BY DEF I2cReachesListed
    <3> USE DEF I2cIInv, I2cInv, I2cTypeOK, I2cTyped
    <3>1. CASE I2cCollect(g)
      <4> PICK queue \in I2cQueues :
            /\ \/ /\ I2cStep(g, "idle", "route")
                  /\ i2c_reqs' = [i2c_reqs EXCEPT ![g] = [i \in DOMAIN queue |-> I2cRequest(queue[i])]]
               \/ I2cStep(g, "idle", "dead") /\ UNCHANGED i2c_reqs
            /\ i2c_wire' = [i2c_wire EXCEPT ![g] = <<>>]
            /\ UNCHANGED <<i2c_slave, i2c_status, i2c_moved>>
        BY <3>1 DEF I2cCollect
      <4>1. 1 \in DOMAIN queue
        BY I2cAssumption
      <4>2. i2c_wire'[g] = <<>> /\ i2c_pc'[g] \in {"route", "dead"}
        BY DEF I2cStep
      <4>3. i2c_pc'[g] = "route" => 1 \in DOMAIN i2c_reqs'[g]
        BY <4>1 DEF I2cStep
      <4>4. i2c_pc' \in [I2cGuests -> {"idle", "route", "transfer", "reply", "dead"}]
        BY DEF I2cStep
      <4>5. i2c_status' \in [I2cGuests -> {"OK", "ERR"}]
        OBVIOUS
      <4>6. DOMAIN i2c_reqs' = I2cGuests /\ DOMAIN i2c_wire' = I2cGuests
        OBVIOUS
      <4>7. I2cReachesListed(g)'
        BY <3>0, <4>2
      <4>8. /\ i2c_pc'[g] # "transfer" /\ i2c_pc'[g] # "reply"
            /\ i2c_pc'[g] = "route" => 1 \in DOMAIN i2c_reqs'[g] /\ i2c_reqs'[g] # <<>>
        BY <4>2, <4>3
      <4> HIDE DEF I2cIInv, I2cInv, I2cTypeOK, I2cTyped
      <4> QED
        BY <3>1, <4>2, <4>4, <4>5, <4>6, <4>7, <4>8, I2cOwnKeeps
    <3>2. CASE I2cRoute(g)
      BY <3>2, I2cRouteStep
    <3>3. CASE I2cRefuse(g)
      <4>1. i2c_pc[g] = "route" /\ i2c_wire[g] = <<>>
        BY <3>3 DEF I2cRefuse, I2cStep, I2cRouted
      <4> QED
        BY <3>0, <3>3, <4>1, I2cOwnKeeps DEF I2cRefuse, I2cStep, I2cAnswer
    <3>4. CASE I2cTransfer(g)
      BY <3>4, I2cTransferStep
    <3>5. CASE I2cTransferFails(g)
      <4>1. i2c_pc[g] = "transfer" /\ i2c_wire[g] = <<>>
        BY <3>5 DEF I2cTransferFails, I2cStep, I2cRouted
      <4> QED
        BY <3>0, <3>5, <4>1, I2cOwnKeeps DEF I2cTransferFails, I2cStep, I2cAnswer
    <3>6. CASE I2cReply(g)
      BY <3>6, I2cOwnKeeps DEF I2cReply, I2cStep
    <3> QED
      BY <2>2, <3>1, <3>2, <3>3, <3>4, <3>5, <3>6 DEF I2cThread
  <2>3. CASE UNCHANGED I2cVars
    <3>0. I2cTypeOK' /\ I2cTyped' /\ I2cBeforeRun'
      BY <2>3 DEF I2cVars, I2cIInv, I2cInv, I2cTypeOK, I2cTyped, I2cBeforeRun, Range
    <3>1. I2cRouted'
      BY <2>3, Zenon DEF I2cVars, I2cIInv, I2cRouted, I2cClient, I2cAdapter, I2cListed
    <3>2. I2cAddressed' /\ I2cListedOnly'
      BY <2>3 DEF I2cVars, I2cIInv, I2cInv, I2cAddressed, I2cListedOnly, I2cReachesListed, I2cListed, I2cAdapter,
         I2cClient
    <3>3. I2cNamedReached'
      BY <2>3 DEF I2cVars, I2cIInv, I2cInv, I2cNamedReached, I2cAsNamed, I2cAdapter, I2cClient
    <3> QED
      BY <3>0, <3>1, <3>2, <3>3 DEF I2cIInv, I2cInv
  <2> QED
    BY <2>1, <2>2, <2>3 DEF I2cNext, I2cDone
<1>2. I2cIInv => I2cInv
  BY DEF I2cIInv
<1> QED
  BY <1>1, <1>2, I2cBegin, PTL DEF I2cSpec

(***************************************************************************)
(* For any events of the host's device, and any number of buffers of the   *)
(* guest, the guest gets events in order and in whole packets.  What makes *)
(* InputInv inductive is that the events sent and those kept, one after    *)
(* the other, end where the device goes on, and that nothing of either is  *)
(* there before the guest has negotiated EVENT_IDX.                        *)
(***************************************************************************)
Events == 1 .. InputEvents

\* Events in order, all before the one that the device reports next.
Rising(s, next) ==
  \A i \in 1 .. Len(s) : s[i] < next /\ (i > 1 => s[i - 1] < s[i])

\* None is missing, up to the one that the device reports next.
Unbroken(s, next) ==
  \A i \in 1 .. Len(s) : IF i = Len(s) THEN s[i] = next - 1 ELSE s[i + 1] = s[i] + 1

InputIInv ==
  /\ InputTypeOK
  /\ Rising(input_sent \o input_list, input_next)
  /\ ~input_overrun =>
       /\ Unbroken(input_sent \o input_list, input_next)
       /\ input_sent # <<>> => input_sent[Len(input_sent)] \in InputSyn
  /\ input_idx # "on" => input_sent = <<>> /\ input_list = <<>>

LEMMA RisingPrefix ==
  ASSUME NEW s \in Seq(Events), NEW t \in Seq(Events), NEW n \in Nat, Rising(s \o t, n)
  PROVE  Rising(s, n)
BY ConcatProperties DEF Rising, Events

\* What ends a sequence to which a beginning of another was appended.
LEMMA LastOfAppended ==
  ASSUME NEW T, NEW s \in Seq(T), NEW t \in Seq(T), NEW k \in 1 .. Len(t), NEW u, u = s \o SubSeq(t, 1, k)
  PROVE  u[Len(u)] = t[k]
<1> DEFINE first == SubSeq(t, 1, k)
<1>1. first \in Seq(T) /\ Len(first) = k /\ first[k] = t[k]
  OBVIOUS
<1> HIDE DEF first
<1>2. s \o first \in Seq(T) /\ Len(s \o first) = Len(s) + k
  BY <1>1, ConcatProperties
<1>3. (s \o first)[Len(s) + k] = first[k]
  BY <1>1, <1>2
<1>4. u = s \o first
  BY DEF first
<1> QED
  BY <1>1, <1>2, <1>3, <1>4

\* Numbers that go on from x after the first m of t.
LEMMA NumbersGoOn ==
  ASSUME NEW m \in Nat, NEW n \in Nat, NEW x \in Nat, NEW s, NEW t, Len(s) = m, Len(t) = m + n,
         \A i \in 1 .. m : t[i] = s[i] /\ s[i] \in Int,
         \A i \in m + 1 .. m + n : t[i] = x + (i - m) - 1,
         Rising(s, x), n > 0
  PROVE  /\ Rising(t, x + n)
         /\ Unbroken(s, x) => Unbroken(t, x + n)
<1>1. ASSUME NEW i \in 1 .. m + n PROVE t[i] < x + n
  <2>1. CASE i <= m
    BY <2>1 DEF Rising
  <2>2. CASE i > m
    BY <2>2
  <2> QED
    BY <2>1, <2>2
<1>2. ASSUME NEW i \in 2 .. m + n PROVE t[i - 1] < t[i]
  <2>1. CASE i <= m
    BY <2>1 DEF Rising
  <2>2. CASE i = m + 1
    BY <2>2 DEF Rising
  <2>3. CASE i > m + 1
    BY <2>3
  <2> QED
    BY <2>1, <2>2, <2>3
<1>3. ASSUME Unbroken(s, x), NEW i \in 1 .. m + n
      PROVE  IF i = m + n THEN t[i] = x + n - 1 ELSE t[i + 1] = t[i] + 1
  <2>1. CASE i < m
    BY <2>1, <1>3 DEF Unbroken
  <2>2. CASE i = m
    BY <2>2, <1>3 DEF Unbroken
  <2>3. CASE i > m
    BY <2>3
  <2> QED
    BY <2>1, <2>2, <2>3
<1> QED
  BY <1>1, <1>2, <1>3 DEF Rising, Unbroken

\* What the device reports goes on from what there is.
LEMMA FetchGoesOn ==
  ASSUME input_next \in 1 .. InputEvents + 1, NEW s \in Seq(Events),
         NEW n \in 1 .. InputEvents + 1 - input_next, Rising(s, input_next)
  PROVE  /\ InputFetched(n) \in Seq(Events)
         /\ s \o InputFetched(n) \in Seq(Events)
         /\ Rising(s \o InputFetched(n), input_next + n)
         /\ Unbroken(s, input_next) => Unbroken(s \o InputFetched(n), input_next + n)
<1> USE InputAssumption
<1> DEFINE f == InputFetched(n)
<1>1. \A i \in 1 .. n : input_next + i - 1 \in Events
  BY DEF Events
<1>2. f \in Seq(Events) /\ Len(f) = n /\ \A i \in 1 .. n : f[i] = input_next + i - 1
  BY <1>1 DEF InputFetched
<1> HIDE DEF f
<1>3. /\ s \o f \in Seq(Events) /\ Len(s \o f) = Len(s) + n /\ Len(s) \in Nat
      /\ \A i \in 1 .. Len(s) : (s \o f)[i] = s[i] /\ s[i] \in Int
      /\ \A i \in Len(s) + 1 .. Len(s) + n : (s \o f)[i] = input_next + (i - Len(s)) - 1
  <2>1. Len(s) \in Nat /\ \A i \in 1 .. Len(s) : s[i] \in Events
    BY ElementOfSeq
  <2>2. /\ s \o f \in Seq(Events) /\ Len(s \o f) = Len(s) + n
        /\ \A i \in 1 .. Len(s) + n : (s \o f)[i] = IF i <= Len(s) THEN s[i] ELSE f[i - Len(s)]
    BY <1>2, ConcatProperties
  <2>3. n \in Nat /\ n > 0
    OBVIOUS
  <2>4. \A i \in 1 .. Len(s) : (s \o f)[i] = s[i] /\ s[i] \in Int
    <3>1. SUFFICES ASSUME NEW i \in 1 .. Len(s) PROVE (s \o f)[i] = s[i] /\ s[i] \in Int
      OBVIOUS
    <3>2. i \in 1 .. Len(s) + n /\ i <= Len(s)
      BY <2>1, <2>3
    <3>3. s[i] \in Int
      BY <2>1 DEF Events
    <3> QED
      BY <2>2, <3>2, <3>3
  <2>5. \A i \in Len(s) + 1 .. Len(s) + n : (s \o f)[i] = input_next + (i - Len(s)) - 1
    <3>1. SUFFICES ASSUME NEW i \in Len(s) + 1 .. Len(s) + n
          PROVE (s \o f)[i] = input_next + (i - Len(s)) - 1
      OBVIOUS
    <3>2. i \in 1 .. Len(s) + n /\ ~(i <= Len(s)) /\ i - Len(s) \in 1 .. n
      BY <2>1, <2>3
    <3>3. (s \o f)[i] = f[i - Len(s)]
      BY <2>2, <3>2
    <3> QED
      BY <1>2, <3>2, <3>3
  <2> QED
    BY <2>1, <2>2, <2>4, <2>5
<1>4. input_next \in Nat /\ n \in Nat /\ n > 0
  OBVIOUS
<1>5. PICK t : t = s \o f
  OBVIOUS
<1>6. /\ Rising(t, input_next + n)
      /\ Unbroken(s, input_next) => Unbroken(t, input_next + n)
  BY <1>3, <1>4, <1>5, NumbersGoOn
<1> QED
  BY <1>2, <1>3, <1>5, <1>6 DEF f

\* A list that is split has the same events, in the same order.
LEMMA SplitKeepsAll ==
  ASSUME NEW s \in Seq(Events), NEW list \in Seq(Events), NEW k \in 0 .. Len(list)
  PROVE  /\ SubSeq(list, 1, k) \in Seq(Events)
         /\ SubSeq(list, k + 1, Len(list)) \in Seq(Events)
         /\ s \o SubSeq(list, 1, k) \in Seq(Events)
         /\ (s \o SubSeq(list, 1, k)) \o SubSeq(list, k + 1, Len(list)) = s \o list
         /\ Len(SubSeq(list, 1, k)) = k
         /\ \A i \in 1 .. k : SubSeq(list, 1, k)[i] = list[i]
<1>1. Len(list) \in Nat /\ \A i \in 1 .. Len(list) : list[i] \in Events
  BY ElementOfSeq
<1> DEFINE p == SubSeq(list, 1, k)
           q == SubSeq(list, k + 1, Len(list))
<1>2. p \in Seq(Events) /\ Len(p) = k /\ \A i \in 1 .. k : p[i] = list[i]
  BY <1>1, SubSeqProperties
<1>3. /\ q \in Seq(Events) /\ Len(q) = Len(list) - k
      /\ \A i \in 1 .. Len(list) - k : q[i] = list[k + i]
  BY <1>1, SubSeqProperties
<1> HIDE DEF p, q
<1>4. p \o q = list
  <2>1. /\ p \o q \in Seq(Events) /\ Len(p \o q) = Len(p) + Len(q)
        /\ \A i \in 1 .. Len(p) + Len(q) : (p \o q)[i] = IF i <= Len(p) THEN p[i] ELSE q[i - Len(p)]
    <3>1. p \in Seq(Events) /\ q \in Seq(Events)
      BY <1>2, <1>3
    <3> QED
      BY <3>1, ConcatProperties
  <2>2. Len(p \o q) = Len(list)
    BY <1>1, <1>2, <1>3, <2>1
  <2>3. ASSUME NEW i \in 1 .. Len(list) PROVE (p \o q)[i] = list[i]
    <3>1. CASE i <= k
      <4>1. i \in 1 .. Len(p) + Len(q) /\ i <= Len(p) /\ i \in 1 .. k
        BY <1>1, <1>2, <1>3, <3>1
      <4>2. (p \o q)[i] = p[i]
        BY <2>1, <4>1
      <4> QED
        BY <1>2, <4>1, <4>2
    <3>2. CASE i > k
      <4>1. i - k \in 1 .. Len(list) - k /\ k + (i - k) = i
        BY <1>1, <3>2
      <4>2. q[i - k] = list[i]
        BY <1>3, <4>1
      <4>3. (p \o q)[i] = q[i - k]
        BY <1>1, <1>2, <1>3, <2>1, <3>2
      <4> QED
        BY <4>2, <4>3
    <3>3. i <= k \/ i > k
      BY <1>1
    <3> QED
      BY <3>1, <3>2, <3>3, Zenon
  <2> QED
    BY <2>1, <2>2, <2>3, SeqEqual
<1>5. (s \o p) \o q = s \o (p \o q) /\ s \o p \in Seq(Events)
  BY <1>2, <1>3, ConcatAssociative, ConcatProperties, SMTT(30)
<1> QED
  BY <1>2, <1>3, <1>4, <1>5 DEF p, q

LEMMA InputStart == InputInit => InputIInv
<1> SUFFICES ASSUME InputInit PROVE InputIInv
  OBVIOUS
<1>1. input_overrun = FALSE /\ input_overrun \in BOOLEAN
  BY Zenon DEF InputInit
<1>2. InputTypeOK
  BY <1>1, InputAssumption DEF InputInit, InputTypeOK, InputSelects, InputSubsels
<1>3. input_sent = <<>> /\ input_list = <<>> /\ input_sent \o input_list = <<>>
  BY DEF InputInit
<1> QED
  BY <1>2, <1>3 DEF InputIInv, Rising, Unbroken

LEMMA InputHandleStep ==
  ASSUME InputIInv, InputHandle
  PROVE  InputIInv'
<1> USE InputAssumption
<1>1. PICK n \in 1 .. InputEvents + 1 - input_next :
        \E last \in 0 .. Len(input_list \o InputFetched(n)) :
          /\ input_next' = input_next + n
          /\ InputIsLastSync(input_list \o InputFetched(n), last)
          /\ \/ InputSend(input_list \o InputFetched(n), last)
             \/ InputOverrun(input_list \o InputFetched(n), last)
  BY DEF InputHandle
<1>0. PICK last \in 0 .. Len(input_list \o InputFetched(n)) :
        /\ input_next' = input_next + n
        /\ InputIsLastSync(input_list \o InputFetched(n), last)
        /\ \/ InputSend(input_list \o InputFetched(n), last)
           \/ InputOverrun(input_list \o InputFetched(n), last)
  BY <1>1
<1>2. /\ input_idx = "on" /\ input_idx' = "on" /\ input_select' = input_select
      /\ input_next \in 1 .. InputEvents + 1 /\ input_next' \in 1 .. InputEvents + 1
      /\ input_sent \in Seq(Events) /\ input_list \in Seq(Events)
      /\ input_avail \in 0 .. InputQueueSize
  BY <1>0 DEF InputHandle, InputIInv, InputTypeOK, Events
<1> DEFINE f    == InputFetched(n)
           list == input_list \o f
           all  == input_sent \o list
<1>3. input_sent \o input_list \in Seq(Events)
  BY <1>2, ConcatProperties
<1>4. /\ f \in Seq(Events)
      /\ (input_sent \o input_list) \o f \in Seq(Events)
      /\ Rising((input_sent \o input_list) \o f, input_next')
      /\ ~input_overrun => Unbroken((input_sent \o input_list) \o f, input_next')
  BY <1>0, <1>2, <1>3, FetchGoesOn DEF InputIInv
<1> HIDE DEF f
<1>5. (input_sent \o input_list) \o f = all
  BY <1>2, <1>4, ConcatAssociative, SMTT(30)
<1>6. list \in Seq(Events) /\ Len(list) \in Nat
  BY <1>2, <1>4, ConcatProperties
<1>7. \A k \in 0 .. Len(list) :
        /\ SubSeq(list, 1, k) \in Seq(Events)
        /\ SubSeq(list, k + 1, Len(list)) \in Seq(Events)
        /\ input_sent \o SubSeq(list, 1, k) \in Seq(Events)
        /\ (input_sent \o SubSeq(list, 1, k)) \o SubSeq(list, k + 1, Len(list)) = all
        /\ Len(SubSeq(list, 1, k)) = k
        /\ \A i \in 1 .. k : SubSeq(list, 1, k)[i] = list[i]
  BY <1>2, <1>6, SplitKeepsAll
<1>8. CASE InputSend(list, last)
  <2>1. /\ last \in 0 .. Len(list)
        /\ input_sent' = input_sent \o SubSeq(list, 1, last)
        /\ input_list' = SubSeq(list, last + 1, Len(list))
        /\ input_avail' \in 0 .. InputQueueSize
        /\ input_overrun' = input_overrun
    BY <1>0, <1>2, <1>6, <1>8 DEF InputSend, f
  <2>2. input_sent' \o input_list' = all
    BY <1>7, <2>1
  <2>3. InputTypeOK'
    BY <1>2, <1>7, <2>1 DEF InputIInv, InputTypeOK, Events
  <2>4. ASSUME ~input_overrun, input_sent' # <<>>
        PROVE  input_sent'[Len(input_sent')] \in InputSyn
    <3>1. CASE last = 0
      <4>1. input_sent' = input_sent
        BY <1>2, <2>1, <3>1, SubSeqEmpty, ConcatEmptySeq
      <4> QED
        BY <2>4, <4>1 DEF InputIInv
    <3>2. CASE last # 0
      <4>1. list[last] \in InputSyn
        BY <1>0, <2>1, <3>2 DEF InputIsLastSync, f
      <4>2. last \in 1 .. Len(list)
        BY <2>1, <3>2
      <4>3. input_sent'[Len(input_sent')] = list[last]
        BY <1>2, <1>6, <2>1, <4>2, LastOfAppended
      <4> QED
        BY <4>1, <4>3
    <3> QED
      BY <3>1, <3>2
  <2> QED
    BY <1>2, <1>4, <1>5, <2>1, <2>2, <2>3, <2>4 DEF InputIInv
<1>9. CASE InputOverrun(list, last)
  <2>1. /\ input_avail \in 0 .. Len(list)
        /\ input_sent' = input_sent \o SubSeq(list, 1, input_avail)
        /\ input_list' = <<>> /\ input_avail' = 0
    BY <1>0, <1>2, <1>6, <1>9 DEF InputOverrun, f
  <2>2. input_overrun'
    BY <1>9, Zenon DEF InputOverrun
  <2>3. input_sent' \in Seq(Events) /\ input_sent' \o input_list' = input_sent'
    BY <1>7, <2>1, ConcatEmptySeq
  <2>4. Rising(input_sent', input_next')
    <3> DEFINE q == SubSeq(list, input_avail + 1, Len(list))
    <3>1. q \in Seq(Events) /\ input_sent' \o q = all
      BY <1>7, <2>1
    <3> HIDE DEF q, list, all
    <3>2. Rising(all, input_next')
      BY <1>4, <1>5
    <3>3. Rising(input_sent' \o q, input_next')
      BY <3>1, <3>2
    <3>4. input_next' \in Nat
      BY <1>2
    <3> QED
      BY <2>3, <3>1, <3>3, <3>4, RisingPrefix
  <2>5. input_overrun' \in BOOLEAN
    BY <1>9, Zenon DEF InputOverrun
  <2>6. InputTypeOK'
    BY <1>2, <2>1, <2>3, <2>5 DEF InputIInv, InputTypeOK, Events
  <2> QED
    BY <1>2, <2>2, <2>3, <2>4, <2>6 DEF InputIInv
<1> QED
  BY <1>0, <1>8, <1>9 DEF f

\* The other steps send and keep nothing; one that lets events go by does so
\* before any was kept.
LEMMA InputOtherStep ==
  ASSUME InputIInv,
         \/ InputDiscard \/ InputGuest \/ UNCHANGED InputVars
         \/ \E on \in {"on", "off"} : InputSetEventIdx(on)
         \/ \E s \in InputSelects, b \in InputSubsels : InputSetConfig(s, b)
  PROVE  InputIInv'
<1> USE InputAssumption
<1>1. CASE InputDiscard
  <2>1. /\ input_next' \in 1 .. InputEvents + 1
        /\ input_sent = <<>> /\ input_list = <<>> /\ input_sent' = <<>> /\ input_list' = <<>>
        /\ input_sent' \o input_list' = <<>>
    BY <1>1 DEF InputDiscard, InputIInv, InputTypeOK
  <2>2. InputTypeOK'
    BY <1>1, <2>1 DEF InputDiscard, InputIInv, InputTypeOK
  <2> QED
    BY <1>1, <2>1, <2>2 DEF InputDiscard, InputIInv, Rising, Unbroken
<1>2. CASE InputGuest
  BY <1>2 DEF InputGuest, InputIInv, InputTypeOK
<1>3. ASSUME NEW on \in {"on", "off"}, InputSetEventIdx(on) PROVE InputIInv'
  BY <1>3 DEF InputSetEventIdx, InputIInv, InputTypeOK
<1>4. ASSUME NEW s \in InputSelects, NEW b \in InputSubsels, InputSetConfig(s, b) PROVE InputIInv'
  BY <1>4 DEF InputSetConfig, InputIInv, InputTypeOK
<1>5. CASE UNCHANGED InputVars
  BY <1>5 DEF InputVars, InputIInv, InputTypeOK
<1> QED
  BY <1>1, <1>2, <1>3, <1>4, <1>5

LEMMA InputImplied == InputIInv => InputInv
<1> SUFFICES ASSUME InputIInv PROVE InputInv
  OBVIOUS
<1>1. input_sent \in Seq(Events) /\ input_list \in Seq(Events)
  BY DEF InputIInv, InputTypeOK, Events
<1>2. InputOrdered
  BY <1>1, ConcatProperties DEF InputIInv, InputOrdered, Rising
<1>3. InputWhole
  <2> SUFFICES ASSUME ~input_overrun, input_sent # <<>>
               PROVE  /\ input_sent[Len(input_sent)] \in InputSyn
                      /\ \A i \in 2 .. Len(input_sent) : input_sent[i] = input_sent[i - 1] + 1
    BY DEF InputWhole, Last
  <2> QED
    BY <1>1, ConcatProperties DEF InputIInv, Unbroken
<1> QED
  BY <1>2, <1>3 DEF InputInv, InputIInv

\* The guest gets the events of the host's device in order and in whole
\* packets, whatever the device reports (process_queue(), process_event()).
THEOREM InputHolds == InputSpec => []InputInv
<1>1. InputIInv /\ [InputNext]_InputVars => InputIInv'
  BY InputHandleStep, InputOtherStep DEF InputNext
<1> QED
  BY <1>1, InputStart, InputImplied, PTL DEF InputSpec

-----------------------------------------------------------------------------
(***************************************************************************)
(* The console, for any buffers of the guest, bytes and chunks of output.  *)
(* ConInv is not inductive.  Besides, the bytes for the guest are the last *)
(* ones typed (ConLastTyped), a message about the port comes from a guest  *)
(* that is ready (ConAsked), the chunks that wait for a first client are   *)
(* all that were sent, and those written to it that are out of order are   *)
(* among them (ConEachOnce), and, what keeps a buffer from being           *)
(* forgotten: while the guest is not to kick, the thread is at the queue,  *)
(* has its eventfd set, or has nothing to send (ConNotified).              *)
(***************************************************************************)
\* A queue as the guest sees it: what it has got and what is still to come.
ConAll(q) == con_got[q] \o con_fifo[q]

ConModes ==
  [backend : {"none", "nested", "network", "dead", "ended"}, idx : BOOLEAN,
   scope : [bytes : Nat, chunks : Nat, control : BOOLEAN]]

ConSane ==
  /\ con_mode \in ConModes /\ (con_mode.backend = "none" => con_mode = NotStarted /\ con_at = ConIdle)
  /\ con_at = ConIdle \/ con_at \in [queue : ConQueues, on : {"kick", "event"}, at : {"process", "enable"}]
  /\ con_request \in ConMessages \union {"none"} /\ con_stream \in {"none", "client", "left"}

ConFlags ==
  /\ {con_raw, con_ready, con_write, con_polled} \subseteq BOOLEAN
  /\ con_event \in [ConQueues -> BOOLEAN] /\ con_kick \in [ConQueues -> BOOLEAN]
  /\ con_notify \in [ConQueues -> BOOLEAN]

\* The guest's buffers: those in the queue, lost, and used too often.
ConCounts ==
  con_avail \in [ConQueues -> Nat] /\ con_lost \in [ConQueues -> Nat] /\ con_twice \in Nat

ConStreams ==
  /\ con_fifo = [q \in ConQueues |-> con_fifo[q]] /\ con_got = [q \in ConQueues |-> con_got[q]]
  /\ con_fifo["rx"] \in Seq(Nat) /\ con_got["rx"] \in Seq(Nat)
  /\ con_fifo["ctrl"] \in Seq(ConReplyNames) /\ con_got["ctrl"] \in Seq(ConReplyNames)
  /\ con_replies \in Seq(ConReplyNames)

\* The device is ready before it is asked about the port.
ConAsked == ConHandshake /\ (con_request = "PORT_READY" => con_ready)

\* The last ones of the numbers up to c.
ConLastOf(s, c) == Len(s) <= c /\ \A i \in 1 .. Len(s) : s[i] = c - Len(s) + i

\* The bytes for the guest are the last ones typed, all of them since it is
\* ready.
ConLastTyped ==
  /\ con_typed \in Nat /\ ConLastOf(ConAll("rx"), con_typed)
  /\ ~con_write => ConAll("rx") = <<>>

\* The chunks up to n in the guest's order.
ConChunks(n) == [i \in 1 .. n |-> i]

\* A chunk comes before an earlier one only if it waited.
ConOvertakes(s, w) == \A i, j \in DOMAIN s : i < j /\ s[i] > s[j] => s[i] <= w

\* Chunks that wait for a first client are all that were sent; then each is
\* printed or dropped.
ConEachOnce ==
  /\ con_sent \in Nat /\ con_waited \in 0 .. con_sent
  /\ con_printed \in Seq(1 .. con_sent) /\ IsInjective(con_printed)
  /\ ConOvertakes(con_printed, con_waited)
  /\ con_out \in {<<>>, ConChunks(con_sent)} /\ con_dropped \subseteq 1 .. con_sent
  /\ con_out # <<>> => /\ con_stream = "none" /\ con_printed = <<>>
                       /\ con_mode.backend \notin {"none", "nested"}
  /\ con_out = <<>> => ToSet(con_printed) = (1 .. con_sent) \ con_dropped
  /\ con_stream = "none" => con_dropped = {}
  /\ con_mode.backend \in {"none", "nested"} => con_stream = "none"
  /\ con_mode.backend = "none" => con_sent = 0
  /\ con_mode.backend \in {"none", "network"} /\ con_stream = "none" =>
       con_printed = <<>> /\ con_out = ConChunks(con_sent) /\ con_waited = con_sent

ConWillKick(q) ==
  con_notify[q] = FALSE => con_at.queue = q \/ con_event[q] = TRUE \/ ConNothing(q)
ConWillCome(q) ==
  ~ConNothing(q) /\ con_avail[q] > 0 => con_at.queue = q \/ con_event[q] = TRUE \/ con_kick[q] = TRUE

\* While the guest is not to kick, the thread is at the queue, has its event
\* or has nothing to send; without EVENT_IDX the guest always kicks.
ConNotified ==
  /\ con_mode.backend = "none" => \A q \in ConQueues : con_fifo[q] = <<>>
  /\ con_mode.backend = "none" \/ (ConStarted /\ ~con_mode.idx) => \A q \in ConQueues : con_notify[q] = TRUE
  /\ \A q \in ConQueues : ConStarted => ConWillKick(q) /\ ConWillCome(q)

ConIInv ==
  /\ ConSane /\ ConFlags /\ ConCounts /\ ConStreams
  /\ ConAsked /\ ConLastTyped /\ ConEachOnce /\ ConNotified /\ ConTerminal

-----------------------------------------------------------------------------
\* One sequence after another.
ConThen(x, y) == x \o y

LEMMA ConSplit ==
  ASSUME NEW T, NEW s \in Seq(T), NEW t \in Seq(T), NEW k \in 0 .. Len(t)
  PROVE  LET p == SubSeq(t, 1, k)  r == SubSeq(t, k + 1, Len(t))
         IN  p \in Seq(T) /\ Len(p) = k /\ r \in Seq(T) /\ s \o p \in Seq(T)
             /\ ConThen(ConThen(s, p), r) = ConThen(s, t)
<1> DEFINE p == SubSeq(t, 1, k)
           r == SubSeq(t, k + 1, Len(t))
<1>1. Len(t) \in Nat /\ \A i \in 1 .. Len(t) : t[i] \in T
  BY ElementOfSeq
<1>2. p \in Seq(T) /\ Len(p) = k
  BY <1>1, SubSeqProperties
<1>3. r \in Seq(T)
  BY <1>1, SubSeqProperties
<1>4. SubSeq(t, 1, k) \o SubSeq(t, k + 1, Len(t)) = SubSeq(t, 1, Len(t))
  <2>1. 1 \in 1 .. Len(t) + 1 /\ k \in 1 - 1 .. Len(t) /\ Len(t) \in k .. Len(t)
    BY <1>1
  <2> QED
    BY <2>1, ConcatAdjacentSubSeq, Zenon
<1>5. SubSeq(t, 1, Len(t)) = t
  BY SubSeqFull
<1>8. p \o r = t
  BY <1>4, <1>5
<1> HIDE DEF p, r
<1>6. (s \o p) \o r = s \o (p \o r)
  BY <1>2, <1>3, ConcatAssociative, SMTT(30)
<1>7. s \o p \in Seq(T)
  BY <1>2, ConcatProperties
<1>9. (s \o p) \o r = s \o t
  BY <1>6, <1>8
<1> QED
  BY <1>2, <1>3, <1>7, <1>9, Zenon DEF p, r, ConThen

-----------------------------------------------------------------------------
\* What a round sends is the first of what waits, and takes a buffer for it.
LEMMA ConServedFirst ==
  ASSUME ConIInv, NEW q \in ConQueues
  PROVE  \E k \in 0 .. Len(con_fifo[q]) :
           /\ ConServed(q) = SubSeq(con_fifo[q], 1, k) /\ Len(ConServed(q)) = k
           /\ ConBuffersUsed(q) \in 0 .. con_avail[q]
<1> DEFINE f == con_fifo[q]
           T == IF q = "rx" THEN Nat ELSE ConReplyNames
<1>1. f \in Seq(T) /\ Len(f) \in Nat /\ con_avail[q] \in Nat
  BY DEF ConIInv, ConStreams, ConCounts, ConQueues
<1>2. \A k \in 0 .. Len(f) : Len(SubSeq(f, 1, k)) = k
  BY <1>1, ConSplit
<1> HIDE DEF f, T
<1>3. CASE con_avail[q] = 0
  <2>1. ConServed(q) = <<>> /\ SubSeq(f, 1, 0) = <<>>
    BY <1>3 DEF ConServed
  <2>2. Len(ConServed(q)) = 0
    BY <2>1
  <2>3. ConBuffersUsed(q) = 0
    BY <2>2, MinOfTwo DEF ConBuffersUsed
  <2> QED
    BY <1>1, <1>3, <2>1, <2>2, <2>3 DEF f
<1>4. CASE con_avail[q] # 0 /\ q = "rx"
  <2>1. ConServed(q) = f /\ SubSeq(f, 1, Len(f)) = f
    BY <1>1, <1>4, SubSeqFull DEF ConServed, f
  <2>2. ConBuffersUsed(q) = Min({1, Len(f)})
    BY <1>4, <2>1 DEF ConBuffersUsed
  <2>3. ConBuffersUsed(q) \in 0 .. con_avail[q]
    BY <1>1, <1>4, <2>2, MinOfTwo
  <2> QED
    BY <1>1, <2>1, <2>3 DEF f
<1>5. CASE con_avail[q] # 0 /\ q # "rx"
  <2> DEFINE k == Min({con_avail[q], Len(f)})
  <2>1. k \in 0 .. Len(f) /\ k <= con_avail[q]
    BY <1>1, MinOfTwo
  <2>2. ConServed(q) = SubSeq(f, 1, k)
    BY <1>5 DEF ConServed, f
  <2> HIDE DEF k
  <2>3. Len(ConServed(q)) = k
    BY <1>2, <2>1, <2>2
  <2>4. ConBuffersUsed(q) \in 0 .. con_avail[q]
    BY <1>1, <1>5, <2>1, <2>3 DEF ConBuffersUsed
  <2> QED
    BY <2>1, <2>2, <2>3, <2>4 DEF f
<1> QED
  BY <1>3, <1>4, <1>5

\* A round loses nothing, turns nothing around and takes every buffer.
LEMMA ConRoundMoves ==
  ASSUME ConIInv, ConRound, NEW q, q = con_at.queue
  PROVE  /\ q \in ConQueues /\ con_at.at = "process"
         /\ \A x \in ConQueues : ConAll(x)' = ConAll(x)
         /\ ConStreams' /\ ConCounts'
         /\ con_avail'[q] = 0
         /\ \A x \in ConQueues \ {q} : con_avail'[x] = con_avail[x] /\ con_fifo'[x] = con_fifo[x]
<1> DEFINE f == con_fifo[q]
           g == con_got[q]
           T == IF q = "rx" THEN Nat ELSE ConReplyNames
           out == ConServed(q)
           rest == SubSeq(f, Len(out) + 1, Len(f))
<1>1. q \in ConQueues /\ con_at.at = "process"
  BY DEF ConIInv, ConSane, ConRound, ConIdle
<1>2. f \in Seq(T) /\ g \in Seq(T) /\ Len(f) \in Nat
  BY <1>1 DEF ConIInv, ConStreams, ConQueues
<1>3. /\ con_got' = [con_got EXCEPT ![q] = g \o out]
      /\ con_fifo' = [con_fifo EXCEPT ![q] = rest]
      /\ con_lost' = [con_lost EXCEPT ![q] = con_lost[q] + con_avail[q] - ConBuffersUsed(q)]
      /\ con_avail' = [con_avail EXCEPT ![q] = 0]
      /\ con_twice' = con_twice + IF q = "rx" THEN Len(out) - ConBuffersUsed(q) ELSE 0
      /\ UNCHANGED con_replies
  BY DEF ConRound, ConProcess, ConCollect, conCtl
<1>4. ConBuffersUsed(q) \in 0 .. con_avail[q]
  BY <1>1, ConServedFirst
<1>5. out \in Seq(T) /\ rest \in Seq(T) /\ g \o out \in Seq(T) /\ (g \o out) \o rest = g \o f
  <2>1. PICK k \in 0 .. Len(f) : out = SubSeq(f, 1, k) /\ Len(out) = k
    BY <1>1, ConServedFirst
  <2> HIDE DEF f, g, T, out
  <2>2. /\ SubSeq(f, 1, k) \in Seq(T) /\ SubSeq(f, k + 1, Len(f)) \in Seq(T)
        /\ g \o SubSeq(f, 1, k) \in Seq(T)
    BY <1>2, ConSplit
  <2>3. ConThen(ConThen(g, SubSeq(f, 1, k)), SubSeq(f, k + 1, Len(f))) = ConThen(g, f)
    BY <1>2, ConSplit
  <2> QED
    BY <2>1, <2>2, <2>3 DEF ConThen
<1> HIDE DEF f, g, T, out, rest
<1>6. /\ con_fifo = [x \in ConQueues |-> con_fifo[x]] /\ con_got = [x \in ConQueues |-> con_got[x]]
      /\ con_avail \in [ConQueues -> Nat] /\ con_lost \in [ConQueues -> Nat] /\ con_twice \in Nat
  BY DEF ConIInv, ConStreams, ConCounts
<1>7. /\ con_fifo' = [x \in ConQueues |-> con_fifo'[x]] /\ con_got' = [x \in ConQueues |-> con_got'[x]]
      /\ con_fifo'[q] = rest /\ con_got'[q] = g \o out
      /\ \A x \in ConQueues \ {q} : con_fifo'[x] = con_fifo[x] /\ con_got'[x] = con_got[x]
  BY <1>1, <1>3, <1>6
<1>8. \A x \in ConQueues : ConAll(x)' = ConAll(x)
  <2>1. ConAll(q)' = ConAll(q)
    BY <1>5, <1>7 DEF ConAll, f, g
  <2> QED
    BY <1>7, <2>1 DEF ConAll
<1>9. ConStreams'
  <2>1. con_fifo["rx"] \in Seq(Nat) /\ con_got["rx"] \in Seq(Nat)
        /\ con_fifo["ctrl"] \in Seq(ConReplyNames) /\ con_got["ctrl"] \in Seq(ConReplyNames)
        /\ con_replies \in Seq(ConReplyNames)
    BY DEF ConIInv, ConStreams
  <2>2. CASE q = "rx"
    <3>1. con_fifo'["rx"] \in Seq(Nat) /\ con_got'["rx"] \in Seq(Nat)
      BY <1>5, <1>7, <2>2 DEF T
    <3>2. con_fifo'["ctrl"] = con_fifo["ctrl"] /\ con_got'["ctrl"] = con_got["ctrl"]
      BY <1>7, <2>2 DEF ConQueues
    <3> QED
      BY <1>3, <1>7, <2>1, <3>1, <3>2 DEF ConStreams
  <2>3. CASE q = "ctrl"
    <3>1. con_fifo'["ctrl"] \in Seq(ConReplyNames) /\ con_got'["ctrl"] \in Seq(ConReplyNames)
      BY <1>5, <1>7, <2>3 DEF T
    <3>2. con_fifo'["rx"] = con_fifo["rx"] /\ con_got'["rx"] = con_got["rx"]
      BY <1>7, <2>3 DEF ConQueues
    <3> QED
      BY <1>3, <1>7, <2>1, <3>1, <3>2 DEF ConStreams
  <2> QED
    BY <1>1, <2>2, <2>3 DEF ConQueues
<1>10. ConCounts'
  <2>1. con_lost[q] + con_avail[q] - ConBuffersUsed(q) \in Nat /\ 0 \in Nat
    BY <1>1, <1>4, <1>6
  <2>2. con_avail' \in [ConQueues -> Nat] /\ con_lost' \in [ConQueues -> Nat]
    BY <1>3, <1>6, <2>1
  <2>3. q = "rx" => Len(out) - ConBuffersUsed(q) \in Nat
    <3>1. q = "rx" => ConBuffersUsed(q) = Min({1, Len(out)})
      BY DEF ConBuffersUsed, out
    <3>2. Len(out) \in Nat
      BY <1>5
    <3> QED
      BY <3>1, <3>2, MinOfTwo
  <2>4. con_twice' \in Nat
    BY <1>3, <1>6, <2>3
  <2> QED
    BY <2>2, <2>4 DEF ConCounts
<1> QED
  BY <1>1, <1>3, <1>6, <1>7, <1>8, <1>9, <1>10

-----------------------------------------------------------------------------
\* The steps, one conjunct at a time.
LEMMA ConStepSane ==
  ASSUME ConIInv, ConNext PROVE ConSane'
<1> USE DEF ConSane, ConIInv
<1>1. ASSUME NEW q \in ConQueues, ConGuestBuffer(q) PROVE ConSane'
  BY <1>1 DEF ConGuestBuffer, conCtl, conOut
<1>2. ASSUME NEW q \in ConQueues, NEW on \in {"kick", "event"}, ConHandle(q, on) PROVE ConSane'
  <2>1. con_mode.backend # "none" /\ UNCHANGED <<con_mode, con_request, con_stream>>
    BY <1>2 DEF ConHandle, ConRunning, ConStarted, conCtl, conOut
  <2>2. con_at' \in [queue : ConQueues, on : {"kick", "event"}, at : {"process", "enable"}]
    BY <1>2 DEF ConHandle
  <2> QED
    BY <2>1, <2>2
<1>3. CASE ConBreak \/ ConRound \/ ConEnable
  <2>1. UNCHANGED <<con_mode, con_request, con_stream>>
    BY <1>3 DEF ConBreak, ConRound, ConEnable, conCtl, conOut
  <2>2. con_at.at # "idle" /\ (con_at' = ConIdle \/ con_at' = [con_at EXCEPT !.at = "enable"]
                                 \/ con_at' = [con_at EXCEPT !.at = "process"])
    BY <1>3 DEF ConBreak, ConRound, ConEnable
  <2>3. con_at \in [queue : ConQueues, on : {"kick", "event"}, at : {"process", "enable"}]
    BY <2>2 DEF ConIdle
  <2>4. con_mode.backend # "none"
    BY <2>2 DEF ConIdle
  <2>5. con_at' = ConIdle \/ con_at' \in [queue : ConQueues, on : {"kick", "event"}, at : {"process", "enable"}]
    BY <2>2, <2>3
  <2> QED
    BY <2>1, <2>4, <2>5
<1>4. CASE ConControl
  <2>1. UNCHANGED <<con_at, con_stream>> /\ con_request' = "none"
        /\ con_mode' \in {ConDead, con_mode}
    BY <1>4 DEF ConControl, ConAnswer, conOut
  <2>2. ConDead \in ConModes /\ ConDead.backend = "dead"
    BY DEF ConDead, NotStarted, ConModes
  <2> QED
    BY <2>1, <2>2
<1>5. CASE ConOutput
  BY <1>5 DEF ConOutput, ConPrint, conRx, conCtl
<1>6. CASE ConAccept \/ ConLeave \/ ConEof \/ ConType
  BY <1>6 DEF ConAccept, ConLeave, ConEof, ConType, conRx, conCtl, conOut, conText
<1>7. CASE ConInterrupt \/ ConPrepareExit
  <2>1. UNCHANGED <<con_at, con_request, con_stream>> /\ con_mode' = ConEnded
    BY <1>7 DEF ConInterrupt, ConPrepareExit, conCtl
  <2>2. ConEnded \in ConModes /\ ConEnded.backend = "ended"
    BY DEF ConEnded, NotStarted, ConModes
  <2> QED
    BY <2>1, <2>2
<1>8. ASSUME NEW b \in {"nested", "network"}, NEW i \in BOOLEAN, NEW s \in ConScopes, ConStart(b, i, s)
      PROVE  ConSane'
  <2>1. con_mode' = [backend |-> b, idx |-> i, scope |-> s] /\ UNCHANGED <<con_at, con_request, con_stream>>
    BY <1>8 DEF ConStart, conCtl
  <2>2. [backend |-> b, idx |-> i, scope |-> s] \in ConModes
    BY ConAssumption, Zenon DEF ConModes
  <2> QED
    BY <2>1, <2>2
<1>9. ASSUME NEW m \in ConMessages, ConGuestControl(m) PROVE ConSane'
  BY <1>9 DEF ConGuestControl, conOut
<1> QED
  BY <1>1, <1>2, <1>3, <1>4, <1>5, <1>6, <1>7, <1>8, <1>9 DEF ConNext

LEMMA ConStepFlags ==
  ASSUME ConIInv, ConNext PROVE ConFlags'
<1>0. /\ con_raw \in BOOLEAN /\ con_ready \in BOOLEAN /\ con_write \in BOOLEAN /\ con_polled \in BOOLEAN
      /\ con_event \in [ConQueues -> BOOLEAN] /\ con_kick \in [ConQueues -> BOOLEAN]
      /\ con_notify \in [ConQueues -> BOOLEAN]
  BY Zenon DEF ConIInv, ConFlags
<1>q. \A f \in [ConQueues -> BOOLEAN] : \A q : \A b \in BOOLEAN : [f EXCEPT ![q] = b] \in [ConQueues -> BOOLEAN]
  BY Zenon
<1>s. ASSUME /\ con_raw' \in BOOLEAN /\ con_ready' \in BOOLEAN /\ con_write' \in BOOLEAN /\ con_polled' \in BOOLEAN
             /\ con_event' \in [ConQueues -> BOOLEAN] /\ con_kick' \in [ConQueues -> BOOLEAN]
             /\ con_notify' \in [ConQueues -> BOOLEAN]
      PROVE  ConFlags'
  BY <1>s, Zenon DEF ConFlags
<1> USE DEF conRx, conCtl, conOut, conText
<1>1. ASSUME NEW q \in ConQueues, ConGuestBuffer(q) PROVE ConFlags'
  <2>1. con_kick' = [con_kick EXCEPT ![q] = con_kick[q] \/ con_notify[q]]
        /\ UNCHANGED <<con_raw, con_ready, con_write, con_polled, con_event, con_notify>>
    BY <1>1, Zenon DEF ConGuestBuffer
  <2>2. (con_kick[q] \/ con_notify[q]) \in BOOLEAN
    BY Zenon
  <2> QED
    BY <1>0, <1>q, <1>s, <2>1, <2>2, Zenon
<1>2. ASSUME NEW q \in ConQueues, NEW on \in {"kick", "event"}, ConHandle(q, on) PROVE ConFlags'
  <2>1. con_kick' = (IF on = "kick" THEN [con_kick EXCEPT ![q] = FALSE] ELSE con_kick)
        /\ UNCHANGED <<con_raw, con_ready, con_write, con_polled, con_event, con_notify>>
    BY <1>2, Zenon DEF ConHandle
  <2> QED
    BY <1>0, <1>q, <1>s, <2>1, Zenon
<1>3. CASE ConBreak
  <2>1. con_notify' = [con_notify EXCEPT ![con_at.queue] = FALSE]
        /\ UNCHANGED <<con_raw, con_ready, con_write, con_polled, con_event, con_kick>>
    BY <1>3, Zenon DEF ConBreak
  <2> QED
    BY <1>0, <1>q, <1>s, <2>1, Zenon
<1>4. CASE ConRound
  <2>1. /\ con_event' = (IF con_at.on = "event" THEN [con_event EXCEPT ![con_at.queue] = FALSE] ELSE con_event)
        /\ con_notify' = (IF con_mode.idx THEN [con_notify EXCEPT ![con_at.queue] = FALSE] ELSE con_notify)
        /\ UNCHANGED <<con_raw, con_ready, con_write, con_polled, con_kick>>
    BY <1>4, Zenon DEF ConRound
  <2> QED
    BY <1>0, <1>q, <1>s, <2>1, Zenon
<1>5. CASE ConEnable
  <2>1. con_notify' = [con_notify EXCEPT ![con_at.queue] = TRUE]
        /\ UNCHANGED <<con_raw, con_ready, con_write, con_polled, con_event, con_kick>>
    BY <1>5, Zenon DEF ConEnable
  <2> QED
    BY <1>0, <1>q, <1>s, <2>1, Zenon
<1>6. CASE ConControl
  <2>1. /\ con_ready' = (con_ready \/ con_request = "DEVICE_READY")
        /\ con_event' = [con_event EXCEPT !["ctrl"] = con_request # "unknown"]
        /\ UNCHANGED <<con_raw, con_write, con_polled, con_kick, con_notify>>
    BY <1>6, Zenon DEF ConControl, ConAnswer
  <2>2. (con_ready \/ con_request = "DEVICE_READY") \in BOOLEAN /\ (con_request # "unknown") \in BOOLEAN
    BY Zenon
  <2> QED
    BY <1>0, <1>q, <1>s, <2>1, <2>2, Zenon
<1>7. CASE ConOutput
  <2>1. con_write' = TRUE /\ UNCHANGED <<con_raw, con_ready, con_polled, con_event, con_kick, con_notify>>
    BY <1>7, Zenon DEF ConOutput, ConPrint
  <2> QED
    BY <1>0, <1>s, <2>1, Zenon
<1>8. CASE ConAccept \/ ConLeave \/ ConEof
  <2>1. con_polled' \in {con_polled, TRUE, FALSE}
        /\ UNCHANGED <<con_raw, con_write, con_ready, con_event, con_kick, con_notify>>
    BY <1>8, Zenon DEF ConAccept, ConLeave, ConEof
  <2> QED
    BY <1>0, <1>s, <2>1, Zenon
<1>9. CASE ConType
  <2>1. con_event' = (IF con_write THEN [con_event EXCEPT !["rx"] = TRUE] ELSE con_event)
        /\ UNCHANGED <<con_raw, con_write, con_ready, con_polled, con_kick, con_notify>>
    BY <1>9, Zenon DEF ConType
  <2> QED
    BY <1>0, <1>q, <1>s, <2>1, Zenon
<1>10. CASE ConInterrupt \/ ConPrepareExit
  <2>1. con_raw' = FALSE /\ UNCHANGED <<con_write, con_ready, con_polled, con_event, con_kick, con_notify>>
    BY <1>10, Zenon DEF ConInterrupt, ConPrepareExit
  <2> QED
    BY <1>0, <1>s, <2>1, Zenon
<1>11. ASSUME NEW b, NEW i, NEW s, ConStart(b, i, s) PROVE ConFlags'
  <2>1. con_raw' = (b = "nested") /\ UNCHANGED <<con_write, con_ready, con_polled, con_event, con_kick, con_notify>>
    BY <1>11, Zenon DEF ConStart, ConInputMethod
  <2>2. (b = "nested") \in BOOLEAN
    BY Zenon
  <2> QED
    BY <1>0, <1>s, <2>1, <2>2, Zenon
<1>12. ASSUME NEW m, ConGuestControl(m) PROVE ConFlags'
  <2>1. UNCHANGED <<con_raw, con_write, con_ready, con_polled, con_event, con_kick, con_notify>>
    BY <1>12, Zenon DEF ConGuestControl
  <2> QED
    BY <1>0, <1>s, <2>1, Zenon
<1> QED
  BY <1>1, <1>2, <1>3, <1>4, <1>5, <1>6, <1>7, <1>8, <1>9, <1>10, <1>11, <1>12, Zenon DEF ConNext

\* The replies to a message.
LEMMA ConRepliesTyped ==
  ASSUME NEW m
  PROVE  ConReplies(m) \in Seq(ConReplyNames) /\ (m \notin {"DEVICE_READY", "PORT_READY"} => ConReplies(m) = <<>>)
<1>1. /\ <<"PORT_ADD">> \in Seq(ConReplyNames) /\ <<"CONSOLE_PORT", "PORT_NAME", "OPEN">> \in Seq(ConReplyNames)
      /\ <<>> \in Seq(ConReplyNames)
  <2>1. /\ "PORT_ADD" \in ConReplyNames /\ "CONSOLE_PORT" \in ConReplyNames
        /\ "PORT_NAME" \in ConReplyNames /\ "OPEN" \in ConReplyNames
    BY DEF ConReplyNames
  <2>2. <<"PORT_ADD">> \in Seq(ConReplyNames)
    BY <2>1, SMT
  <2>3. <<"CONSOLE_PORT", "PORT_NAME", "OPEN">> \in Seq(ConReplyNames)
    BY <2>1, SMT
  <2>4. <<>> \in Seq(ConReplyNames)
    OBVIOUS
  <2> QED
    BY <2>2, <2>3, <2>4
<1>2. CASE m = "DEVICE_READY"
  <2>1. ConReplies(m) = <<"PORT_ADD">>
    BY <1>2 DEF ConReplies
  <2> QED
    BY <1>1, <1>2, <2>1
<1>3. CASE m = "PORT_READY"
  <2>1. ConReplies(m) = <<"CONSOLE_PORT", "PORT_NAME", "OPEN">>
    BY <1>3 DEF ConReplies
  <2> QED
    BY <1>1, <1>3, <2>1
<1>4. CASE m \notin {"DEVICE_READY", "PORT_READY"}
  <2>1. ConReplies(m) = <<>>
    BY <1>4 DEF ConReplies
  <2> QED
    BY <1>1, <2>1
<1> QED
  BY <1>2, <1>3, <1>4, Zenon

LEMMA ConStepBuffers ==
  ASSUME ConIInv, ConNext PROVE ConCounts' /\ ConStreams'
<1> USE DEF ConIInv, conRx, conCtl, conOut, conText
<1>1. ASSUME NEW q \in ConQueues, ConGuestBuffer(q) PROVE ConCounts' /\ ConStreams'
  <2>1. /\ con_avail' = [con_avail EXCEPT ![q] = con_avail[q] + 1]
        /\ UNCHANGED <<con_fifo, con_lost, con_twice, con_got, con_replies>>
    BY <1>1 DEF ConGuestBuffer
  <2>2. con_avail[q] + 1 \in Nat
    BY DEF ConCounts
  <2>3. ConCounts'
    BY <2>1, <2>2 DEF ConCounts
  <2> QED
    BY <2>1, <2>3 DEF ConStreams
<1>2. CASE ConRound
  BY <1>2, ConRoundMoves
<1>3. CASE ConControl
  <2>1. /\ con_fifo' = [con_fifo EXCEPT !["ctrl"] = con_fifo["ctrl"] \o ConReplies(con_request)]
        /\ con_replies' = con_replies \o ConReplies(con_request)
        /\ UNCHANGED <<con_avail, con_lost, con_twice, con_got>>
    BY <1>3 DEF ConControl, ConAnswer
  <2>2. ConReplies(con_request) \in Seq(ConReplyNames)
    BY ConRepliesTyped
  <2>3. ConStreams'
    <3> DEFINE more == ConReplies(con_request)
    <3> HIDE DEF more
    <3>1. more \in Seq(ConReplyNames)
      BY <2>2 DEF more
    <3>2. con_fifo["ctrl"] \o more \in Seq(ConReplyNames) /\ con_replies \o more \in Seq(ConReplyNames)
      BY <3>1 DEF ConStreams
    <3>3. con_fifo' = [con_fifo EXCEPT !["ctrl"] = con_fifo["ctrl"] \o more] /\ con_replies' = con_replies \o more
      BY <2>1 DEF more
    <3>4. /\ con_fifo'["ctrl"] = con_fifo["ctrl"] \o more /\ con_fifo'["rx"] = con_fifo["rx"]
          /\ con_fifo' = [q \in ConQueues |-> con_fifo'[q]]
      BY <3>3 DEF ConStreams, ConQueues
    <3> QED
      BY <2>1, <3>2, <3>3, <3>4, Zenon DEF ConStreams
  <2> QED
    BY <2>1, <2>3 DEF ConCounts
<1>4. CASE ConType
  <2>1. PICK n \in Nat :
          /\ con_fifo' = IF con_write
                         THEN [con_fifo EXCEPT !["rx"] = con_fifo["rx"] \o [i \in 1 .. n |-> con_typed + i]]
                         ELSE con_fifo
          /\ UNCHANGED <<con_avail, con_lost, con_twice, con_got, con_replies>>
    <3>1. \A f \in ConWatched : 1 .. ConReadable(f) \subseteq Nat
      BY DEF ConSane, ConModes, ConReadable
    <3> QED
      BY <1>4, <3>1 DEF ConType
  <2>2. [i \in 1 .. n |-> con_typed + i] \in Seq(Nat)
    BY DEF ConLastTyped
  <2>3. ConStreams'
    <3> DEFINE more == [i \in 1 .. n |-> con_typed + i]
    <3> HIDE DEF more
    <3>1. more \in Seq(Nat)
      BY <2>2 DEF more
    <3>2. con_fifo["rx"] \o more \in Seq(Nat)
      BY <3>1 DEF ConStreams
    <3>3. con_fifo' \in {con_fifo, [con_fifo EXCEPT !["rx"] = con_fifo["rx"] \o more]}
      BY <2>1 DEF more
    <3>4. /\ con_fifo'["rx"] \in {con_fifo["rx"], con_fifo["rx"] \o more} /\ con_fifo'["ctrl"] = con_fifo["ctrl"]
          /\ con_fifo' = [q \in ConQueues |-> con_fifo'[q]]
      BY <3>3 DEF ConStreams, ConQueues
    <3>5. con_fifo'["rx"] \in Seq(Nat)
      BY <3>2, <3>4 DEF ConStreams
    <3> QED
      BY <2>1, <3>4, <3>5, Zenon DEF ConStreams
  <2> QED
    BY <2>1, <2>3 DEF ConCounts
<1>5. ASSUME UNCHANGED <<con_avail, con_lost, con_twice, con_fifo, con_got, con_replies>> PROVE ConCounts' /\ ConStreams'
  BY <1>5 DEF ConCounts, ConStreams
<1>6. ASSUME NEW q \in ConQueues, NEW on, ConHandle(q, on) PROVE ConCounts' /\ ConStreams'
  BY <1>5, <1>6 DEF ConHandle
<1>7. CASE ConBreak \/ ConEnable \/ ConOutput \/ ConAccept \/ ConLeave \/ ConEof \/ ConInterrupt \/ ConPrepareExit
  BY <1>5, <1>7, Zenon DEF ConBreak, ConEnable, ConOutput, ConAccept, ConLeave, ConEof, ConInterrupt, ConPrepareExit
<1>8. ASSUME NEW b, NEW i, NEW s, ConStart(b, i, s) PROVE ConCounts' /\ ConStreams'
  BY <1>5, <1>8 DEF ConStart
<1>9. ASSUME NEW m, ConGuestControl(m) PROVE ConCounts' /\ ConStreams'
  BY <1>5, <1>9 DEF ConGuestControl
<1> QED
  BY <1>1, <1>2, <1>3, <1>4, <1>6, <1>7, <1>8, <1>9, Zenon DEF ConNext

\* Sequences joined in one order or the other.
LEMMA ConJoin ==
  ASSUME NEW T, NEW s \in Seq(T), NEW t \in Seq(T), NEW u \in Seq(T)
  PROVE  ConThen(s, t \o u) = ConThen(ConThen(s, t), u)
<1>1. (s \o t) \o u = s \o (t \o u)
  BY ConcatAssociative
<1> QED
  BY <1>1 DEF ConThen

LEMMA ConStepAsked ==
  ASSUME ConIInv, ConNext PROVE ConAsked'
<1> USE DEF ConIInv, conRx, conCtl, conOut, conText
<1>0. con_ready \in BOOLEAN
  BY Zenon DEF ConFlags
<1>1. ASSUME UNCHANGED <<con_replies, con_ready>>, con_request' \in {con_request, "none"},
             con_got'["ctrl"] \o con_fifo'["ctrl"] = con_got["ctrl"] \o con_fifo["ctrl"]
      PROVE  ConAsked'
  BY <1>1 DEF ConAsked, ConHandshake
<1>2. CASE ConRound
  <2>1. ConAll("ctrl")' = ConAll("ctrl")
    BY <1>2, ConRoundMoves DEF ConQueues
  <2>2. UNCHANGED <<con_replies, con_ready, con_request>>
    BY <1>2 DEF ConRound
  <2> QED
    BY <1>1, <2>1, <2>2 DEF ConAll
<1>3. CASE ConControl
  <2> DEFINE more == ConReplies(con_request)
             got  == con_got["ctrl"]
             fifo == con_fifo["ctrl"]
  <2>1. /\ con_fifo'["ctrl"] = fifo \o more /\ con_got'["ctrl"] = got
        /\ con_replies' = con_replies \o more /\ con_request' = "none"
    BY <1>3 DEF ConControl, ConAnswer, ConStreams, ConQueues
  <2>2. /\ more \in Seq(ConReplyNames) /\ got \in Seq(ConReplyNames) /\ fifo \in Seq(ConReplyNames)
        /\ con_replies \in Seq(ConReplyNames)
    BY ConRepliesTyped DEF ConStreams
  <2>3. ConThen(got, fifo \o more) = ConThen(con_replies, more)
    <3> HIDE DEF more, got, fifo
    <3>1. ConThen(got, fifo \o more) = ConThen(ConThen(got, fifo), more)
      BY <2>2, ConJoin
    <3>2. ConThen(got, fifo) = con_replies
      BY DEF ConThen, got, fifo, ConAsked, ConHandshake
    <3> QED
      BY <3>1, <3>2
  <2>4. con_ready' = (con_ready \/ con_request = "DEVICE_READY")
    BY <1>3, Zenon DEF ConControl, ConAnswer
  <2>5. con_replies' # <<>> => con_ready'
    <3>1. CASE con_request \in {"DEVICE_READY", "PORT_READY"}
      BY <2>4, <3>1, Zenon DEF ConAsked
    <3>2. CASE con_request \notin {"DEVICE_READY", "PORT_READY"}
      <4>1. more = <<>>
        BY <3>2, ConRepliesTyped
      <4>2. con_replies \o <<>> = con_replies
        BY <2>2
      <4>3. con_replies' = con_replies
        BY <2>1, <4>1, <4>2
      <4> QED
        BY <2>4, <4>3, Zenon DEF ConAsked, ConHandshake
    <3> QED
      BY <3>1, <3>2
  <2>6. con_got'["ctrl"] \o con_fifo'["ctrl"] = con_replies'
    BY <2>1, <2>3 DEF ConThen
  <2> QED
    BY <2>1, <2>5, <2>6 DEF ConAsked, ConHandshake
<1>4. CASE ConType
  <2>1. con_fifo'["ctrl"] = con_fifo["ctrl"] /\ UNCHANGED <<con_replies, con_ready, con_request, con_got>>
    BY <1>4 DEF ConType, ConStreams, ConQueues
  <2> QED
    BY <1>1, <2>1
<1>5. ASSUME NEW m, ConGuestControl(m) PROVE ConAsked'
  <2>1. UNCHANGED <<con_replies, con_ready, con_got, con_fifo>> /\ con_request' = m
        /\ (m = "PORT_READY" => con_replies = <<"PORT_ADD">>)
    BY <1>5 DEF ConGuestControl, ConReplies
  <2>2. <<"PORT_ADD">> # <<>>
    OBVIOUS
  <2> QED
    BY <2>1, <2>2 DEF ConAsked, ConHandshake
<1>6. ASSUME UNCHANGED <<con_fifo, con_got, conCtl>> PROVE ConAsked'
  BY <1>6 DEF ConAsked, ConHandshake
<1>7. ASSUME NEW q, ConGuestBuffer(q) \/ \E on : ConHandle(q, on) PROVE ConAsked'
  BY <1>6, <1>7, Zenon DEF ConGuestBuffer, ConHandle
<1>8. CASE ConBreak \/ ConEnable \/ ConOutput \/ ConAccept \/ ConLeave \/ ConEof \/ ConInterrupt \/ ConPrepareExit
  BY <1>6, <1>8, Zenon DEF ConBreak, ConEnable, ConOutput, ConAccept, ConLeave, ConEof, ConInterrupt, ConPrepareExit
<1>9. ASSUME NEW b, NEW i, NEW s, ConStart(b, i, s) PROVE ConAsked'
  BY <1>6, <1>9, Zenon DEF ConStart
<1> QED
  BY <1>2, <1>3, <1>4, <1>5, <1>7, <1>8, <1>9, Zenon DEF ConNext

\* The next bytes after the last ones.
LEMMA ConMoreTyped ==
  ASSUME NEW c \in Nat, NEW n \in Nat, NEW s \in Seq(Nat), NEW t \in Seq(Nat),
         ConLastOf(s, c), t = [i \in 1 .. n |-> c + i]
  PROVE  ConLastOf(s \o t, c + n)
<1> DEFINE st == s \o t
<1>1. Len(s) \in Nat /\ Len(t) = n /\ (\A i \in 1 .. n : t[i] = c + i)
  OBVIOUS
<1>5. Len(s) <= c /\ \A i \in 1 .. Len(s) : s[i] = c - Len(s) + i
  BY DEF ConLastOf
<1>4. /\ Len(st) = Len(s) + Len(t)
      /\ \A i \in 1 .. Len(s) + Len(t) : st[i] = IF i <= Len(s) THEN s[i] ELSE t[i - Len(s)]
  BY ConcatProperties, Zenon
<1> HIDE DEF st
<1>2. Len(st) = Len(s) + n
  BY <1>1, <1>4
<1>3. ASSUME NEW i \in 1 .. Len(s) + n PROVE st[i] = c - Len(s) + i
  <2>1. CASE i <= Len(s)
    BY <1>1, <1>4, <1>5, <2>1, SMTT(30)
  <2>2. CASE ~(i <= Len(s))
    <3> DEFINE j == i - Len(s)
    <3>1. j \in 1 .. n /\ Len(s) + j = i /\ st[i] = t[j]
      BY <1>1, <1>4, <2>2, SMTT(30)
    <3> HIDE DEF j
    <3> QED
      BY <1>1, <3>1, SMTT(30)
  <2> QED
    BY <2>1, <2>2
<1> QED
  BY <1>1, <1>2, <1>3, <1>5 DEF ConLastOf, st

LEMMA ConStepTyped ==
  ASSUME ConIInv, ConNext PROVE ConLastTyped'
<1> USE DEF ConIInv, conRx, conCtl, conOut, conText
<1>1. ASSUME UNCHANGED con_typed, con_write' = con_write \/ con_write' = TRUE, ConAll("rx")' = ConAll("rx")
      PROVE  ConLastTyped'
  <2>1. con_typed' \in Nat /\ ConLastOf(ConAll("rx"), con_typed)'
    BY <1>1, Zenon DEF ConLastTyped, ConLastOf
  <2>2. ~con_write' => ConAll("rx")' = <<>>
    BY <1>1, Zenon DEF ConLastTyped
  <2> QED
    BY <2>1, <2>2 DEF ConLastTyped
<1>2. CASE ConRound
  <2>1. ConAll("rx")' = ConAll("rx")
    BY <1>2, ConRoundMoves DEF ConQueues
  <2>2. UNCHANGED <<con_typed, con_write>>
    BY <1>2, Zenon DEF ConRound
  <2> QED
    BY <1>1, <2>1, <2>2, Zenon
<1>3. CASE ConControl
  <2>1. con_fifo'["rx"] = con_fifo["rx"] /\ con_got' = con_got
    BY <1>3 DEF ConControl, ConAnswer, ConStreams, ConQueues
  <2>2. UNCHANGED <<con_typed, con_write>>
    BY <1>3, Zenon DEF ConControl
  <2>3. ConAll("rx")' = ConAll("rx")
    BY <2>1 DEF ConAll
  <2> QED
    BY <1>1, <2>2, <2>3, Zenon
<1>4. CASE ConType
  <2>1. PICK n \in Nat :
          /\ con_typed' = con_typed + n
          /\ con_fifo' = IF con_write
                         THEN [con_fifo EXCEPT !["rx"] = con_fifo["rx"] \o [i \in 1 .. n |-> con_typed + i]]
                         ELSE con_fifo
          /\ UNCHANGED <<con_got, con_write>>
    <3>1. \A f \in ConWatched : 1 .. ConReadable(f) \subseteq Nat
      BY DEF ConSane, ConModes, ConReadable
    <3> QED
      BY <1>4, <3>1, Zenon DEF ConType
  <2> DEFINE new == [i \in 1 .. n |-> con_typed + i]
             got == con_got["rx"]
             fifo == con_fifo["rx"]
  <2>2. CASE con_write
    <3>1. con_fifo'["rx"] = fifo \o new /\ con_got'["rx"] = got
      BY <2>1, <2>2 DEF ConStreams, ConQueues
    <3>2. got \in Seq(Nat) /\ fifo \in Seq(Nat) /\ con_typed \in Nat
      BY DEF ConStreams, ConLastTyped
    <3>3. new \in Seq(Nat) /\ new = [i \in 1 .. n |-> con_typed + i]
      BY <3>2
    <3> HIDE DEF new, got, fifo
    <3> DEFINE all == got \o fifo
    <3>4. all \in Seq(Nat) /\ Len(all) \in Nat
      BY <3>2
    <3>5. ConLastOf(all, con_typed)
      BY DEF ConLastTyped, ConAll, got, fifo
    <3>6. ConAll("rx")' = all \o new
      <4>1. ConThen(got, fifo \o new) = ConThen(ConThen(got, fifo), new)
        BY <3>2, <3>3, ConJoin
      <4> QED
        BY <3>1, <4>1 DEF ConThen, ConAll
    <3> HIDE DEF all
    <3>7. ConLastOf(all \o new, con_typed + n)
      BY <3>2, <3>3, <3>4, <3>5, ConMoreTyped
    <3>8. ConLastOf(ConAll("rx"), con_typed)'
      BY <2>1, <3>6, <3>7, Zenon DEF ConLastOf
    <3>9. con_typed' \in Nat /\ con_write' = TRUE
      BY <2>1, <2>2, <3>2
    <3> QED
      BY <3>8, <3>9, Zenon DEF ConLastTyped
  <2>3. CASE ~con_write
    <3>1. con_fifo' = con_fifo /\ con_got' = con_got
      BY <2>1, <2>3
    <3>2. ConAll("rx")' = <<>>
      BY <2>3, <3>1 DEF ConLastTyped, ConAll
    <3>3. con_typed' \in Nat
      BY <2>1 DEF ConLastTyped
    <3> QED
      BY <3>2, <3>3 DEF ConLastTyped, ConLastOf
  <2> QED
    BY <2>2, <2>3
<1>6. ASSUME UNCHANGED <<con_fifo, con_got, con_typed>>, con_write' = con_write \/ con_write' = TRUE PROVE ConLastTyped'
  <2>1. ConAll("rx")' = ConAll("rx")
    BY <1>6, Zenon DEF ConAll
  <2> QED
    BY <1>1, <1>6, <2>1, Zenon
<1>7. ASSUME NEW q, ConGuestBuffer(q) \/ \E on : ConHandle(q, on) PROVE ConLastTyped'
  BY <1>6, <1>7, Zenon DEF ConGuestBuffer, ConHandle
<1>8. CASE ConBreak \/ ConEnable \/ ConOutput \/ ConAccept \/ ConLeave \/ ConEof \/ ConInterrupt \/ ConPrepareExit
  BY <1>6, <1>8, Zenon DEF ConBreak, ConEnable, ConOutput, ConAccept, ConLeave, ConEof, ConInterrupt, ConPrepareExit
<1>9. ASSUME NEW b, NEW i, NEW s, ConStart(b, i, s) \/ \E m : ConGuestControl(m) PROVE ConLastTyped'
  BY <1>6, <1>9, Zenon DEF ConStart, ConGuestControl
<1> QED
  BY <1>2, <1>3, <1>4, <1>7, <1>8, <1>9, Zenon DEF ConNext

\* A chunk more, in its place.
LEMMA ConOneMore ==
  ASSUME NEW n \in Nat, NEW w \in Nat, NEW s \in Seq(1 .. n), IsInjective(s), ConOvertakes(s, w)
  PROVE  /\ Append(s, n + 1) \in Seq(1 .. n + 1) /\ IsInjective(Append(s, n + 1)) /\ s \in Seq(1 .. n + 1)
         /\ ConOvertakes(Append(s, n + 1), w) /\ ToSet(Append(s, n + 1)) = ToSet(s) \union {n + 1}
<1> DEFINE t == Append(s, n + 1)
<1>1. s \in Seq(1 .. n + 1) /\ t \in Seq(1 .. n + 1)
  BY SeqMonotonic
<1>2. /\ Len(t) = Len(s) + 1 /\ DOMAIN t = 1 .. Len(s) + 1 /\ Len(s) \in Nat
      /\ \A i \in 1 .. Len(s) : t[i] = s[i] /\ s[i] \in 1 .. n
      /\ t[Len(s) + 1] = n + 1 /\ DOMAIN s = 1 .. Len(s)
  BY <1>1
<1> HIDE DEF t
<1>3. IsInjective(t)
  <2>1. ASSUME NEW a \in 1 .. Len(s) + 1, NEW b \in 1 .. Len(s) + 1, t[a] = t[b] PROVE a = b
    <3>1. CASE a \in 1 .. Len(s) /\ b \in 1 .. Len(s)
      BY <1>2, <2>1, <3>1 DEF IsInjective
    <3>2. CASE a = Len(s) + 1 \/ b = Len(s) + 1
      BY <1>2, <2>1, <3>2
    <3> QED
      BY <1>2, <3>1, <3>2
  <2> QED
    BY <1>2, <2>1 DEF IsInjective
<1>4. ConOvertakes(t, w)
  <2>1. ASSUME NEW a \in 1 .. Len(s) + 1, NEW b \in 1 .. Len(s) + 1, a < b, t[a] > t[b] PROVE t[a] <= w
    <3>1. CASE b = Len(s) + 1
      BY <1>2, <2>1, <3>1
    <3>2. CASE b # Len(s) + 1
      <4>1. a \in 1 .. Len(s) /\ b \in 1 .. Len(s)
        <5>1. \A k \in Nat : \A x, y \in 1 .. k + 1 : x < y /\ y # k + 1 => x \in 1 .. k /\ y \in 1 .. k
          OBVIOUS
        <5> QED
          BY <1>2, <2>1, <3>2, <5>1
      <4>2. t[a] = s[a] /\ t[b] = s[b] /\ a \in DOMAIN s /\ b \in DOMAIN s
        BY <1>2, <4>1
      <4>3. s[a] > s[b] /\ a < b
        BY <2>1, <4>2
      <4>4. s[a] <= w
        BY <4>2, <4>3 DEF ConOvertakes
      <4> QED
        BY <4>2, <4>4
    <3> QED
      BY <3>1, <3>2
  <2> QED
    BY <1>2, <2>1 DEF ConOvertakes
<1>5. ToSet(t) = ToSet(s) \union {n + 1}
  <2>1. ASSUME NEW x \in ToSet(t) PROVE x \in ToSet(s) \union {n + 1}
    <3>1. PICK a \in 1 .. Len(s) + 1 : x = t[a]
      BY <1>2 DEF ToSet
    <3> QED
      BY <1>2, <3>1 DEF ToSet
  <2>2. ASSUME NEW x \in ToSet(s) \union {n + 1} PROVE x \in ToSet(t)
    BY <1>2 DEF ToSet
  <2> QED
    BY <2>1, <2>2
<1> QED
  BY <1>1, <1>3, <1>4, <1>5 DEF t

\* The chunks that wait, and how they are written.
LEMMA ConTurned ==
  ASSUME NEW n \in Nat
  PROVE  LET c == ConChunks(n)  r == Reverse(c)
         IN  /\ c \in Seq(1 .. n) /\ IsInjective(c) /\ ToSet(c) = 1 .. n /\ (c = <<>> <=> n = 0)
             /\ r \in Seq(1 .. n) /\ IsInjective(r) /\ ToSet(r) = 1 .. n /\ ConOvertakes(r, n)
             /\ <<>> \o r = r /\ Append(c, n + 1) = ConChunks(n + 1) /\ Append(c, n + 1) # <<>>
<1> DEFINE c == ConChunks(n)
           r == Reverse(c)
<1>1. /\ c \in Seq(1 .. n) /\ Len(c) = n /\ DOMAIN c = 1 .. n /\ \A i \in 1 .. n : c[i] = i
      /\ (c = <<>> <=> n = 0)
  BY DEF ConChunks
<1>2. r = [i \in 1 .. Len(c) |-> c[(Len(c) - i) + 1]]
  BY DEF Reverse
<1>3. Append(c, n + 1) = ConChunks(n + 1) /\ Append(c, n + 1) # <<>>
  BY DEF ConChunks
<1> HIDE DEF c, r
<1>4. r = [i \in 1 .. n |-> (n - i) + 1]
  BY <1>1, <1>2
<1>5. r \in Seq(1 .. n) /\ DOMAIN r = 1 .. n /\ \A i \in 1 .. n : r[i] = (n - i) + 1
  BY <1>4
<1>6. IsInjective(c) /\ IsInjective(r)
  <2>1. IsInjective(c)
    BY <1>1 DEF IsInjective
  <2>2. ASSUME NEW a \in 1 .. n, NEW b \in 1 .. n, r[a] = r[b] PROVE a = b
    <3>1. (n - a) + 1 = (n - b) + 1
      BY <1>5, <2>2
    <3> QED
      BY <3>1
  <2> QED
    BY <1>5, <2>1, <2>2 DEF IsInjective
<1>7. ToSet(c) = 1 .. n
  BY <1>1 DEF ToSet
<1>8. ToSet(r) = 1 .. n
  <2>1. ASSUME NEW x \in 1 .. n PROVE x \in ToSet(r)
    <3>1. (n - x) + 1 \in 1 .. n /\ r[(n - x) + 1] = x
      BY <1>5
    <3> QED
      BY <1>5, <3>1 DEF ToSet
  <2>2. ASSUME NEW x \in ToSet(r) PROVE x \in 1 .. n
    BY <1>5 DEF ToSet
  <2> QED
    BY <2>1, <2>2
<1>9. ConOvertakes(r, n)
  BY <1>5 DEF ConOvertakes
<1>10. <<>> \o r = r
  BY <1>5
<1> QED
  BY <1>1, <1>3, <1>5, <1>6, <1>7, <1>8, <1>9, <1>10 DEF c, r

LEMMA ConStepOnce ==
  ASSUME ConIInv, ConNext PROVE ConEachOnce'
<1> USE DEF ConIInv, conRx, conCtl, conOut, conText
\* Without output, a step of the mode or of the stream.
<1>1. ASSUME UNCHANGED conText,
             con_out # <<>> => con_stream' = "none" /\ con_mode'.backend \notin {"none", "nested"},
             con_stream' = "none" => con_stream = "none",
             con_mode'.backend \in {"none", "nested"} => con_stream' = "none",
             con_mode'.backend = "none" => con_mode.backend = "none",
             con_mode'.backend = "network" => con_mode.backend \in {"none", "network"}
      PROVE  ConEachOnce'
  BY <1>1 DEF ConEachOnce
<1>2. ASSUME UNCHANGED <<con_mode, con_stream, conText>> PROVE ConEachOnce'
  BY <1>2 DEF ConEachOnce
<1>e. /\ con_sent \in Nat /\ con_waited \in 0 .. con_sent /\ con_waited \in Nat
      /\ con_printed \in Seq(1 .. con_sent) /\ IsInjective(con_printed)
      /\ ConOvertakes(con_printed, con_waited)
      /\ con_dropped \subseteq 1 .. con_sent
  BY DEF ConEachOnce
<1>c. ConChunks(con_sent) = <<>> <=> con_sent = 0
  BY <1>e, ConTurned
<1>3. CASE ConOutput
  <2> DEFINE c == con_sent + 1
  <2>1. con_sent' = c /\ UNCHANGED <<con_stream, con_mode>> /\ ConStarted
    BY <1>3 DEF ConOutput, ConPrint, ConRunning
  <2>2. /\ Append(con_printed, c) \in Seq(1 .. c) /\ IsInjective(Append(con_printed, c))
        /\ con_printed \in Seq(1 .. c) /\ ConOvertakes(Append(con_printed, c), con_waited)
        /\ ToSet(Append(con_printed, c)) = ToSet(con_printed) \union {c}
    <3> HIDE DEF ConIInv
    <3> QED
      BY <1>e, ConOneMore
  <2>3. c \in Nat /\ 1 .. c = (1 .. con_sent) \union {c} /\ c \notin 1 .. con_sent
    BY <1>e
  <2>4. ASSUME con_printed' = Append(con_printed, c), UNCHANGED <<con_out, con_waited, con_dropped>>,
               con_out = <<>>, con_mode.backend = "nested" \/ con_stream # "none"
        PROVE  ConEachOnce'
    <3>1. ToSet(con_printed)' = (1 .. c) \ con_dropped
      <4>1. ToSet(con_printed) = (1 .. con_sent) \ con_dropped
        BY <2>4 DEF ConEachOnce
      <4> HIDE DEF c
      <4> QED
        BY <1>e, <2>2, <2>3, <2>4, <4>1
    <3>2. con_waited \in 0 .. c /\ con_dropped \subseteq 1 .. c
      BY <1>e, <2>3
    <3> HIDE DEF c
    <3> QED
      BY <1>e, <2>1, <2>2, <2>3, <2>4, <3>1, <3>2 DEF ConEachOnce, ConStarted
  <2>5. CASE con_mode.backend = "nested"
    <3>1. con_printed' = Append(con_printed, c) /\ UNCHANGED <<con_out, con_waited, con_dropped>>
      BY <1>3, <2>5 DEF ConOutput, ConPrint
    <3>2. con_out = <<>>
      BY <2>5 DEF ConEachOnce
    <3> QED
      BY <2>4, <2>5, <3>1, <3>2
  <2>6. CASE con_mode.backend = "network"
    <3>1. /\ con_out' = IF con_stream = "none" THEN Append(con_out, c) ELSE <<>>
          /\ con_printed' = IF con_stream = "client" THEN con_printed \o Reverse(Append(con_out, c)) ELSE con_printed
          /\ con_dropped' = IF con_stream = "left" THEN con_dropped \union ToSet(Append(con_out, c)) ELSE con_dropped
          /\ con_waited' = IF con_stream = "none" THEN c ELSE con_waited
      BY <1>3, <2>1, <2>6 DEF ConOutput, ConPrint, ConWriteStream
    <3>0. con_stream # "none" => con_out = <<>> /\ Append(con_out, c) = <<c>>
      <4>1. con_stream # "none" => con_out = <<>>
        BY DEF ConEachOnce
      <4>2. Append(<<>>, c) = <<c>>
        OBVIOUS
      <4> QED
        BY <4>1, <4>2
    <3>2. CASE con_stream = "none"
      <4>1. con_printed = <<>> /\ con_out = ConChunks(con_sent) /\ con_dropped = {}
        BY <2>6, <3>2 DEF ConEachOnce
      <4>2. Append(con_out, c) = ConChunks(c) /\ ConChunks(c) # <<>>
        BY <1>e, <4>1, ConTurned
      <4>3. ConOvertakes(<<>>, c) /\ c \in 0 .. c /\ con_printed \in Seq(1 .. c) /\ {} \subseteq 1 .. c
        BY <2>2, <2>3 DEF ConOvertakes
      <4> HIDE DEF c
      <4> QED
        BY <1>e, <2>1, <2>3, <2>6, <3>1, <3>2, <4>1, <4>2, <4>3 DEF ConEachOnce
    <3>3. CASE con_stream = "client"
      <4>2. Reverse(<<c>>) = <<c>>
        BY DEF Reverse
      <4>3. con_printed \o <<c>> = Append(con_printed, c)
        BY <1>e
      <4>4. con_printed' = Append(con_printed, c)
        BY <3>0, <3>1, <3>3, <4>2, <4>3
      <4> QED
        BY <2>4, <3>0, <3>1, <3>3, <4>4
    <3>4. CASE con_stream = "left"
      <4>1. ToSet(<<c>>) = {c}
        BY DEF ToSet
      <4>2. /\ con_printed' = con_printed /\ con_out' = <<>> /\ con_waited' = con_waited
            /\ con_dropped' = con_dropped \union {c}
        BY <3>0, <3>1, <3>4, <4>1
      <4>3. ToSet(con_printed) = (1 .. con_sent) \ con_dropped
        BY <3>0, <3>4 DEF ConEachOnce
      <4>4. (1 .. con_sent) \ con_dropped = (1 .. c) \ (con_dropped \union {c})
        BY <1>e, <2>3
      <4>5. con_waited \in 0 .. c /\ con_dropped \union {c} \subseteq 1 .. c
        BY <1>e, <2>3
      <4> HIDE DEF c
      <4> QED
        BY <1>e, <2>1, <2>2, <2>3, <2>6, <3>4, <4>2, <4>3, <4>4, <4>5 DEF ConEachOnce
    <3> QED
      BY <3>2, <3>3, <3>4 DEF ConSane
  <2> QED
    BY <2>1, <2>5, <2>6 DEF ConStarted
<1>4. CASE ConAccept
  <2>1. /\ con_stream' \in {"client", "left"} /\ con_out' = <<>> /\ con_mode.backend = "network"
        /\ con_printed' = IF con_stream' = "client" THEN con_printed \o Reverse(con_out) ELSE con_printed
        /\ con_dropped' = IF con_stream' = "left" THEN con_dropped \union ToSet(con_out) ELSE con_dropped
        /\ UNCHANGED <<con_mode, con_sent, con_waited>>
    BY <1>4 DEF ConAccept, ConWriteStream
  <2>2. CASE con_out = <<>>
    <3>1. Reverse(<<>>) = <<>> /\ ToSet(<<>>) = {} /\ con_printed \o <<>> = con_printed
      BY <1>e DEF Reverse, ToSet
    <3>2. con_printed' = con_printed /\ con_dropped' = con_dropped
      BY <2>1, <2>2, <3>1
    <3> QED
      BY <1>e, <2>1, <2>2, <3>2 DEF ConEachOnce
  <2>3. CASE con_out # <<>>
    <3> DEFINE r == Reverse(ConChunks(con_sent))
    <3>1. /\ con_out = ConChunks(con_sent) /\ con_printed = <<>> /\ con_dropped = {} /\ con_waited = con_sent
      BY <2>1, <2>3 DEF ConEachOnce
    <3>2. /\ r \in Seq(1 .. con_sent) /\ IsInjective(r) /\ ToSet(r) = 1 .. con_sent /\ ConOvertakes(r, con_sent)
          /\ <<>> \o r = r /\ ToSet(ConChunks(con_sent)) = 1 .. con_sent
      BY <1>e, ConTurned
    <3>3. ToSet(<<>>) = {}
      BY DEF ToSet
    <3>4. CASE con_stream' = "client"
      <4>1. con_printed' = r /\ con_dropped' = {}
        BY <2>1, <3>1, <3>2, <3>4
      <4> HIDE DEF r
      <4> QED
        BY <1>e, <2>1, <3>1, <3>2, <3>4, <4>1 DEF ConEachOnce
    <3>5. CASE con_stream' = "left"
      <4>1. con_printed' = <<>> /\ con_dropped' = 1 .. con_sent
        BY <2>1, <3>1, <3>2, <3>5
      <4> QED
        BY <1>e, <2>1, <3>1, <3>3, <3>5, <4>1 DEF ConEachOnce
    <3> QED
      BY <2>1, <3>4, <3>5
  <2> QED
    BY <2>2, <2>3
<1>5. CASE ConLeave \/ ConEof
  <2>1. UNCHANGED <<con_mode, conText>> /\ con_stream' \in {con_stream, "left"}
        /\ (con_stream' # con_stream => con_stream = "client")
    BY <1>5 DEF ConLeave, ConEof
  <2> QED
    BY <1>1, <2>1 DEF ConEachOnce
<1>6. CASE ConControl
  <2>1. con_mode' \in {con_mode, ConDead} /\ UNCHANGED <<con_stream, conText>> /\ ConStarted
    BY <1>6 DEF ConControl, ConAnswer, ConRunning
  <2>2. ConDead.backend = "dead"
    BY DEF ConDead, NotStarted
  <2> QED
    BY <1>1, <2>1, <2>2 DEF ConEachOnce
<1>7. CASE ConInterrupt \/ ConPrepareExit
  <2>1. con_mode' = ConEnded /\ UNCHANGED <<con_stream, conText>>
    BY <1>7 DEF ConInterrupt, ConPrepareExit
  <2>2. ConEnded.backend = "ended"
    BY DEF ConEnded, NotStarted
  <2> QED
    BY <1>1, <2>1, <2>2 DEF ConEachOnce
<1>8. ASSUME NEW b \in {"nested", "network"}, NEW i, NEW s, ConStart(b, i, s) PROVE ConEachOnce'
  <2>1. con_mode'.backend = b /\ UNCHANGED <<con_stream, conText>> /\ con_mode.backend = "none"
    BY <1>8 DEF ConStart, NotStarted
  <2>2. con_out = <<>> /\ con_stream = "none"
    BY <1>c, <2>1 DEF ConEachOnce
  <2> QED
    BY <1>1, <2>1, <2>2
<1>9. ASSUME NEW q, ConGuestBuffer(q) \/ (\E on : ConHandle(q, on)) \/ \E m : ConGuestControl(m) PROVE ConEachOnce'
  BY <1>2, <1>9, Zenon DEF ConGuestBuffer, ConHandle, ConGuestControl
<1>10. CASE ConBreak \/ ConRound \/ ConEnable \/ ConType
  BY <1>2, <1>10, Zenon DEF ConBreak, ConRound, ConEnable, ConType
<1> QED
  BY <1>3, <1>4, <1>5, <1>6, <1>7, <1>8, <1>9, <1>10, Zenon DEF ConNext

LEMMA ConStepNotified ==
  ASSUME ConIInv, ConNext PROVE ConNotified'
<1> USE DEF ConIInv, conRx, conCtl, conOut, conText
<1>f. /\ con_event \in [ConQueues -> BOOLEAN] /\ con_kick \in [ConQueues -> BOOLEAN]
      /\ con_notify \in [ConQueues -> BOOLEAN]
  BY Zenon DEF ConFlags
<1>t. \A q \in ConQueues : con_notify[q] = TRUE \/ con_notify[q] = FALSE
  BY <1>f, Zenon
<1>a. con_avail \in [ConQueues -> Nat]
  BY DEF ConCounts
<1>q. ConQueues = {"rx", "ctrl"}
  BY DEF ConQueues
<1>n. NotStarted.backend = "none" /\ NotStarted.idx = FALSE /\ ConDead.backend = "dead" /\ ConEnded.backend = "ended"
  BY DEF NotStarted, ConDead, ConEnded
<1>r. ConRunning => ConStarted /\ con_at = ConIdle /\ con_at.queue = "none" /\ con_mode.backend # "none"
  BY DEF ConRunning, ConIdle, ConStarted
<1>x. /\ \A f \in [ConQueues -> BOOLEAN] : \A q \in ConQueues : \A b \in BOOLEAN :
           /\ [f EXCEPT ![q] = b][q] = b
           /\ \A x \in ConQueues : x # q => [f EXCEPT ![q] = b][x] = f[x]
  BY Zenon
\* A queue of which nothing changed is as it was.
<1>1. ASSUME NEW q \in ConQueues, con_mode' = con_mode, con_ready' = con_ready, con_fifo'[q] = con_fifo[q],
             con_avail'[q] = con_avail[q], con_event'[q] = con_event[q], con_kick'[q] = con_kick[q],
             con_notify'[q] = con_notify[q], con_at.queue = q => con_at'.queue = q, ConStarted
      PROVE  ConWillKick(q)' /\ ConWillCome(q)'
  <2>1. ConNothing(q)' = ConNothing(q)
    BY <1>1, Zenon DEF ConNothing
  <2>2. ConWillKick(q) /\ ConWillCome(q)
    BY <1>1, Zenon DEF ConNotified
  <2> QED
    BY <1>1, <2>1, <2>2, Zenon DEF ConWillKick, ConWillCome
<1>2. ASSUME UNCHANGED <<con_mode, con_ready, con_fifo, con_avail, con_event, con_kick, con_notify, con_at>>
      PROVE  ConNotified'
  BY <1>2, Zenon DEF ConNotified, ConStarted, ConWillKick, ConWillCome, ConNothing
<1>3. ASSUME NEW q \in ConQueues, ConGuestBuffer(q) PROVE ConNotified'
  <2>1. /\ UNCHANGED <<con_mode, con_ready, con_fifo, con_event, con_notify, con_at>> /\ ConStarted
        /\ con_kick' = [con_kick EXCEPT ![q] = con_kick[q] \/ con_notify[q]]
    BY <1>3, Zenon DEF ConGuestBuffer
  <2>2. con_avail' = [con_avail EXCEPT ![q] = con_avail[q] + 1]
    BY <1>3 DEF ConGuestBuffer
  <2>3. \A x \in ConQueues : x # q => con_avail'[x] = con_avail[x] /\ con_kick'[x] = con_kick[x]
    <3>1. \A x \in ConQueues : x # q => con_avail'[x] = con_avail[x]
      BY <1>a, <2>2
    <3>2. (con_kick[q] \/ con_notify[q]) \in BOOLEAN
      BY Zenon
    <3> QED
      BY <1>f, <1>x, <2>1, <3>1, <3>2, ZenonT(40)
  <2>4. con_notify[q] = TRUE => con_kick'[q] = TRUE
    <3>1. (con_kick[q] \/ con_notify[q]) \in BOOLEAN
      BY Zenon
    <3>2. con_kick'[q] = (con_kick[q] \/ con_notify[q])
      BY <1>f, <1>x, <2>1, <3>1, Zenon
    <3> QED
      BY <3>2, Zenon
  <2>5. ConWillKick(q)' /\ ConWillCome(q)'
    <3>1. ConNothing(q)' = ConNothing(q)
      BY <2>1, Zenon DEF ConNothing
    <3>2. ConWillKick(q)
      BY <2>1, Zenon DEF ConNotified
    <3> QED
      BY <1>t, <2>1, <2>4, <3>1, <3>2, Zenon DEF ConWillKick, ConWillCome
  <2>6. \A x \in ConQueues : x # q => ConWillKick(x)' /\ ConWillCome(x)'
    BY <1>1, <2>1, <2>3, Zenon
  <2> QED
    BY <2>1, <2>5, <2>6, Zenon DEF ConNotified, ConStarted
<1>4. ASSUME NEW q \in ConQueues, NEW on \in {"kick", "event"}, ConHandle(q, on) PROVE ConNotified'
  <2>1. /\ UNCHANGED <<con_mode, con_ready, con_fifo, con_event, con_notify, con_avail>> /\ ConRunning
        /\ con_kick' = (IF on = "kick" THEN [con_kick EXCEPT ![q] = FALSE] ELSE con_kick)
    BY <1>4, Zenon DEF ConHandle
  <2>2. con_at'.queue = q
    BY <1>4 DEF ConHandle
  <2>3. \A x \in ConQueues : x # q => con_kick'[x] = con_kick[x]
    BY <1>f, <1>x, <2>1, ZenonT(40)
  <2>4. con_at.queue = "none"
    BY <1>r, <2>1, Zenon
  <2>5. "none" \notin ConQueues
    BY <1>q
  <2>6. \A x \in ConQueues : x # q => ConWillKick(x)' /\ ConWillCome(x)'
    BY <1>1, <1>r, <2>1, <2>3, <2>4, <2>5, Zenon
  <2> QED
    BY <2>1, <2>2, <2>6, Zenon DEF ConNotified, ConStarted, ConWillKick, ConWillCome
<1>5. ASSUME ConBreak \/ ConRound \/ ConEnable, NEW q, q = con_at.queue PROVE ConNotified'
  <2>1. /\ q \in ConQueues /\ con_mode.backend # "none" /\ UNCHANGED <<con_mode, con_ready, con_kick>>
    BY <1>5 DEF ConBreak, ConRound, ConEnable, ConSane, ConIdle
  <2>2. /\ \A x \in ConQueues : x # q => con_avail'[x] = con_avail[x] /\ con_fifo'[x] = con_fifo[x]
        /\ con_avail'[q] \in Nat
    <3>1. CASE ConRound
      BY <1>5, <2>1, <3>1, ConRoundMoves
    <3>2. CASE ConBreak \/ ConEnable
      BY <1>a, <2>1, <3>2 DEF ConBreak, ConEnable
    <3> QED
      BY <1>5, <3>1, <3>2
  <2>3. /\ con_event' \in {con_event, [con_event EXCEPT ![q] = FALSE]}
        /\ con_notify' \in {con_notify, [con_notify EXCEPT ![q] = FALSE], [con_notify EXCEPT ![q] = TRUE]}
    BY <1>5, Zenon DEF ConBreak, ConRound, ConEnable
  <2>4. \A x \in ConQueues : x # q => con_event'[x] = con_event[x] /\ con_notify'[x] = con_notify[x]
    <3> SUFFICES ASSUME NEW x \in ConQueues, x # q
                 PROVE  con_event'[x] = con_event[x] /\ con_notify'[x] = con_notify[x]
      OBVIOUS
    <3>1. /\ [con_event EXCEPT ![q] = FALSE][x] = con_event[x]
          /\ [con_notify EXCEPT ![q] = FALSE][x] = con_notify[x]
          /\ [con_notify EXCEPT ![q] = TRUE][x] = con_notify[x]
      <4>1. TRUE \in BOOLEAN /\ FALSE \in BOOLEAN
        BY Zenon
      <4> QED
        BY <1>f, <1>x, <2>1, <4>1, ZenonT(40)
    <3>2. con_event' = con_event \/ con_event' = [con_event EXCEPT ![q] = FALSE]
      BY <2>3, Zenon
    <3>3. con_event'[x] = con_event[x]
      BY <3>1, <3>2, Zenon
    <3> QED
      BY <2>3, <3>1, <3>3, Zenon
  <2>5. \A x \in ConQueues : x # q /\ ConStarted => ConWillKick(x)' /\ ConWillCome(x)'
    BY <1>1, <1>5, <2>1, <2>2, <2>4, Zenon
  <2>6. ASSUME ConStarted PROVE ConWillKick(q)' /\ ConWillCome(q)'
    <3>1. CASE ConBreak
      <4>1. con_fifo' = con_fifo /\ ConNothing(q)
        BY <1>5, <3>1, Zenon DEF ConBreak
      <4>2. ConNothing(q)'
        BY <2>1, <4>1, Zenon DEF ConNothing
      <4> QED
        BY <4>2, Zenon DEF ConWillKick, ConWillCome
    <3>2. CASE ConRound /\ con_mode.idx
      <4>1. con_at'.queue = q
        BY <1>5, <3>2 DEF ConRound, ConSane, ConIdle
      <4> QED
        BY <4>1, Zenon DEF ConWillKick, ConWillCome
    <3>3. CASE ConRound /\ ~con_mode.idx
      <4>1. con_notify' = con_notify /\ con_notify[q] = TRUE
        BY <2>1, <2>6, <3>3, Zenon DEF ConRound, ConNotified
      <4>2. con_avail'[q] = 0
        BY <1>5, <3>3, ConRoundMoves
      <4>3. ~(con_avail'[q] > 0)
        BY <4>2
      <4> QED
        BY <4>1, <4>3, Zenon DEF ConWillKick, ConWillCome
    <3>4. CASE ConEnable
      <4>1. con_notify'[q] = TRUE
        <5>1. con_notify' = [con_notify EXCEPT ![q] = TRUE]
          BY <1>5, <3>4, Zenon DEF ConEnable
        <5> QED
          BY <1>f, <1>x, <2>1, <5>1, Zenon
      <4>2. con_at'.queue = q \/ ~(con_avail'[q] > 0)
        BY <1>5, <2>1, <3>4 DEF ConEnable, ConSane, ConIdle
      <4> QED
        BY <4>1, <4>2, Zenon DEF ConWillKick, ConWillCome
    <3> QED
      BY <1>5, <3>1, <3>2, <3>3, <3>4, Zenon
  <2>7. ASSUME ConStarted, ~con_mode.idx, NEW x \in ConQueues PROVE con_notify'[x] = TRUE
    <3>1. con_notify[x] = TRUE
      BY <2>7, Zenon DEF ConNotified
    <3>2. con_notify' \in {con_notify, [con_notify EXCEPT ![q] = TRUE]}
      BY <1>5, <2>7, Zenon DEF ConBreak, ConRound, ConEnable
    <3>3. [con_notify EXCEPT ![q] = TRUE][x] = TRUE
      BY <1>f, <2>1, <3>1, Zenon
    <3> QED
      BY <3>1, <3>2, <3>3, Zenon
  <2> QED
    BY <2>1, <2>5, <2>6, <2>7, Zenon DEF ConNotified, ConStarted
<1>6. CASE ConControl
  <2>0. ConRunning /\ UNCHANGED <<con_kick, con_notify, con_avail, con_at>>
    BY <1>6, Zenon DEF ConControl
  <2>1. CASE con_request = "unknown"
    <3>1. con_mode' = ConDead
      BY <1>6, <2>1 DEF ConControl, ConAnswer
    <3> QED
      BY <1>n, <3>1 DEF ConNotified, ConStarted
  <2>2. CASE con_request # "unknown"
    <3>1. con_mode' = con_mode /\ con_event' = [con_event EXCEPT !["ctrl"] = TRUE]
      <4>1. (con_request # "unknown") = TRUE
        BY <2>2, Zenon
      <4> QED
        BY <1>6, <2>2, <4>1, Zenon DEF ConControl, ConAnswer
    <3>2. con_event'["ctrl"] = TRUE /\ con_event'["rx"] = con_event["rx"]
      <4>1. "rx" \in ConQueues /\ "ctrl" \in ConQueues /\ "rx" # "ctrl"
        BY <1>q
      <4> QED
        BY <1>f, <1>x, <3>1, <4>1, Zenon
    <3>3. con_fifo'["rx"] = con_fifo["rx"]
      BY <1>6 DEF ConControl, ConAnswer, ConStreams, ConQueues
    <3>4. ConNothing("rx")' = ConNothing("rx")
      BY <3>3 DEF ConNothing
    <3>5. ConStarted /\ con_mode.backend # "none"
      BY <1>r, <2>0, Zenon
    <3>6. ConWillKick("rx") /\ ConWillCome("rx")
      BY <1>q, <3>5 DEF ConNotified
    <3>7. ConWillKick("rx")' /\ ConWillCome("rx")'
      BY <2>0, <3>2, <3>4, <3>6, Zenon DEF ConWillKick, ConWillCome
    <3>8. ConWillKick("ctrl")' /\ ConWillCome("ctrl")'
      BY <3>2, Zenon DEF ConWillKick, ConWillCome
    <3>9. \A q \in ConQueues : ConWillKick(q)' /\ ConWillCome(q)'
      BY <1>q, <3>7, <3>8, Zenon
    <3> QED
      BY <2>0, <3>1, <3>5, <3>9, Zenon DEF ConNotified, ConStarted
  <2> QED
    BY <2>1, <2>2
<1>7. CASE ConType
  <2>1. ConRunning /\ UNCHANGED <<con_mode, con_ready, con_kick, con_notify, con_avail, con_at>>
    BY <1>7, Zenon DEF ConType
  <2>2. CASE ~con_write
    <3>1. UNCHANGED <<con_fifo, con_event>>
      BY <1>7, <2>2, Zenon DEF ConType
    <3> QED
      BY <1>2, <2>1, <3>1, Zenon
  <2>3. CASE con_write
    <3>1. con_event' = [con_event EXCEPT !["rx"] = TRUE]
      BY <1>7, <2>3, Zenon DEF ConType
    <3>2. con_event'["rx"] = TRUE /\ con_event'["ctrl"] = con_event["ctrl"]
      <4>1. "rx" \in ConQueues /\ "ctrl" \in ConQueues /\ "rx" # "ctrl"
        BY <1>q
      <4> QED
        BY <1>f, <1>x, <3>1, <4>1, Zenon
    <3>3. con_fifo'["ctrl"] = con_fifo["ctrl"]
      BY <1>7 DEF ConType, ConStreams, ConQueues
    <3>5. ConStarted /\ con_mode.backend # "none"
      BY <1>r, <2>1, Zenon
    <3>7. ConWillKick("ctrl")' /\ ConWillCome("ctrl")'
      <4>1. "ctrl" \in ConQueues
        BY <1>q
      <4> QED
        BY <1>1, <2>1, <3>2, <3>3, <3>5, <4>1, Zenon
    <3>8. ConWillKick("rx")' /\ ConWillCome("rx")'
      BY <3>2, Zenon DEF ConWillKick, ConWillCome
    <3>9. \A q \in ConQueues : ConWillKick(q)' /\ ConWillCome(q)'
      BY <1>q, <3>7, <3>8, Zenon
    <3> QED
      BY <2>1, <3>5, <3>9, Zenon DEF ConNotified, ConStarted
  <2> QED
    BY <2>2, <2>3
<1>8. CASE ConInterrupt \/ ConPrepareExit
  <2>1. con_mode' = ConEnded
    BY <1>8 DEF ConInterrupt, ConPrepareExit
  <2> QED
    BY <1>n, <2>1 DEF ConNotified, ConStarted
<1>9. ASSUME NEW b \in {"nested", "network"}, NEW i \in BOOLEAN, NEW s, ConStart(b, i, s) PROVE ConNotified'
  <2>1. con_mode.backend = "none" /\ UNCHANGED <<con_fifo, con_notify>> /\ con_mode'.backend # "none"
    BY <1>9, <1>n DEF ConStart
  <2>2. \A q \in ConQueues : con_notify'[q] = TRUE /\ con_fifo'[q] = <<>>
    BY <2>1, Zenon DEF ConNotified
  <2>3. \A q \in ConQueues : ConNothing(q)' /\ ~(con_notify'[q] = FALSE)
    BY <2>2, Zenon DEF ConNothing
  <2> QED
    BY <2>1, <2>2, <2>3, Zenon DEF ConNotified, ConWillKick, ConWillCome
<1>10. CASE ConOutput \/ ConAccept \/ ConLeave \/ ConEof
  BY <1>2, <1>10, Zenon DEF ConOutput, ConAccept, ConLeave, ConEof
<1>11. ASSUME NEW m, ConGuestControl(m) PROVE ConNotified'
  BY <1>2, <1>11, Zenon DEF ConGuestControl
<1> QED
  BY <1>3, <1>4, <1>5, <1>6, <1>7, <1>8, <1>9, <1>10, <1>11, Zenon DEF ConNext

LEMMA ConStepTerminal ==
  ASSUME ConIInv, ConNext PROVE ConTerminal'
<1> USE DEF ConIInv, conRx, conCtl, conOut, conText
<1>0. con_raw => con_mode.backend \in {"nested", "dead"}
  BY Zenon DEF ConTerminal
<1>1. CASE ConControl
  <2>1. con_raw' = con_raw /\ con_mode' \in {con_mode, ConDead}
    BY <1>1, Zenon DEF ConControl, ConAnswer
  <2>2. ConDead.backend = "dead"
    BY DEF ConDead, NotStarted
  <2> QED
    BY <1>0, <2>1, <2>2, Zenon DEF ConTerminal
<1>2. CASE ConInterrupt \/ ConPrepareExit
  BY <1>2, Zenon DEF ConInterrupt, ConPrepareExit, ConTerminal
<1>3. ASSUME NEW b, NEW i, NEW s, ConStart(b, i, s) PROVE ConTerminal'
  <2>1. con_raw' = (b = "nested") /\ con_mode'.backend = b
    <3>1. con_raw' = (b = "nested") /\ con_mode' = [backend |-> b, idx |-> i, scope |-> s]
      BY <1>3, Zenon DEF ConStart, ConInputMethod
    <3> QED
      BY <3>1, Zenon
  <2> QED
    BY <2>1, Zenon DEF ConTerminal
<1>4. ASSUME UNCHANGED <<con_mode, con_raw>> PROVE ConTerminal'
  BY <1>0, <1>4, Zenon DEF ConTerminal
<1>5. ASSUME NEW q, ConGuestBuffer(q) \/ (\E on : ConHandle(q, on)) \/ \E m : ConGuestControl(m) PROVE ConTerminal'
  BY <1>4, <1>5, Zenon DEF ConGuestBuffer, ConHandle, ConGuestControl
<1>6. CASE ConBreak \/ ConRound \/ ConEnable \/ ConType \/ ConOutput \/ ConAccept \/ ConLeave \/ ConEof
  BY <1>4, <1>6, Zenon DEF ConBreak, ConRound, ConEnable, ConType, ConOutput, ConAccept, ConLeave, ConEof
<1> QED
  BY <1>1, <1>2, <1>3, <1>5, <1>6, Zenon DEF ConNext

LEMMA ConStill == ASSUME ConIInv, UNCHANGED ConVars PROVE ConIInv'
BY ZenonT(40) DEF ConIInv, ConVars, conRx, conCtl, conOut, conText, ConSane, ConFlags, ConCounts, ConStreams, ConAsked,
   ConHandshake, ConLastTyped, ConAll, ConEachOnce, ConNotified, ConStarted, ConWillKick, ConWillCome,
   ConNothing, ConTerminal

LEMMA ConBegin == ConInit => ConIInv
<1> SUFFICES ASSUME ConInit PROVE ConIInv
  OBVIOUS
<1>1. /\ con_raw = FALSE /\ con_ready = FALSE /\ con_write = FALSE /\ con_polled = FALSE
      /\ con_event = [q \in ConQueues |-> FALSE] /\ con_kick = [q \in ConQueues |-> FALSE]
      /\ con_notify = [q \in ConQueues |-> TRUE]
  BY Zenon DEF ConInit
<1>2. ConFlags /\ ConTerminal /\ \A q \in ConQueues : con_notify[q] = TRUE
  BY <1>1, Zenon DEF ConFlags, ConTerminal
<1>3. ConSane
  BY DEF ConInit, ConSane, ConModes, NotStarted, ConIdle
<1>4. ConCounts /\ ConStreams
  BY DEF ConInit, ConCounts, ConStreams, ConQueues
<1>5. \A q \in ConQueues : con_fifo[q] = <<>> /\ con_got[q] = <<>>
  BY DEF ConInit
<1>6. "rx" \in ConQueues /\ "ctrl" \in ConQueues /\ <<>> \o <<>> = <<>> /\ Len(<<>>) = 0
  BY DEF ConQueues
<1>7. ConAsked /\ ConLastTyped
  <2>1. con_replies = <<>> /\ con_request = "none" /\ con_typed = 0
    BY DEF ConInit
  <2>2. ConAll("rx") = <<>> /\ con_got["ctrl"] \o con_fifo["ctrl"] = <<>>
    BY <1>5, <1>6 DEF ConAll
  <2> QED
    BY <1>6, <2>1, <2>2 DEF ConAsked, ConHandshake, ConLastTyped, ConLastOf
<1>8. ConEachOnce
  <2>1. /\ con_sent = 0 /\ con_waited = 0 /\ con_printed = <<>> /\ con_out = <<>> /\ con_dropped = {}
        /\ con_stream = "none" /\ con_mode.backend = "none"
    BY DEF ConInit, NotStarted
  <2>2. ConChunks(0) = <<>> /\ IsInjective(<<>>) /\ ToSet(<<>>) = {} /\ <<>> \in Seq(1 .. 0)
    BY ConTurned DEF IsInjective, ToSet
  <2>3. ConOvertakes(<<>>, 0) /\ 1 .. 0 = {} /\ 0 \in 0 .. 0
    BY DEF ConOvertakes
  <2> QED
    BY <2>1, <2>2, <2>3 DEF ConEachOnce
<1>9. ConNotified
  <2>1. ~ConStarted
    BY DEF ConInit, ConStarted, NotStarted
  <2> QED
    BY <1>2, <1>5, <2>1, Zenon DEF ConNotified
<1> QED
  BY <1>2, <1>3, <1>4, <1>7, <1>8, <1>9, Zenon DEF ConIInv

LEMMA ConImplied == ConIInv => ConInv
<1> SUFFICES ASSUME ConIInv PROVE ConInv
  OBVIOUS
<1> USE DEF ConIInv
<1>1. ConTypeOK
  <2>1. /\ con_raw \in BOOLEAN /\ con_ready \in BOOLEAN /\ con_write \in BOOLEAN /\ con_polled \in BOOLEAN
        /\ con_event \in [ConQueues -> BOOLEAN] /\ con_kick \in [ConQueues -> BOOLEAN]
        /\ con_notify \in [ConQueues -> BOOLEAN]
    BY Zenon DEF ConFlags
  <2>2. con_mode.backend \in {"none", "nested", "network", "dead", "ended"} /\ con_mode.idx \in BOOLEAN
    BY DEF ConSane, ConModes
  <2>3. /\ con_at.queue \in ConQueues \union {"none"} /\ con_at.at \in {"idle", "process", "enable"}
        /\ con_request \in ConMessages \union {"none"} /\ con_stream \in {"none", "client", "left"}
    BY DEF ConSane, ConIdle
  <2>4. /\ con_typed \in Nat /\ con_sent \in Nat /\ con_out \in Seq(Nat) /\ con_printed \in Seq(Nat)
        /\ con_waited \in 0 .. con_sent /\ con_dropped \subseteq 1 .. con_sent
    <3>1. con_typed \in Nat /\ con_sent \in Nat /\ 1 .. con_sent \subseteq Nat
      BY DEF ConLastTyped, ConEachOnce
    <3>2. con_out \in Seq(1 .. con_sent)
      <4>1. ConChunks(con_sent) \in Seq(1 .. con_sent) /\ <<>> \in Seq(1 .. con_sent)
        BY <3>1, ConTurned
      <4>2. con_out \in {<<>>, ConChunks(con_sent)}
        BY DEF ConEachOnce
      <4> QED
        BY <4>1, <4>2
    <3>3. con_printed \in Seq(1 .. con_sent) /\ con_waited \in 0 .. con_sent /\ con_dropped \subseteq 1 .. con_sent
      BY DEF ConEachOnce
    <3>4. con_out \in Seq(Nat) /\ con_printed \in Seq(Nat)
      BY <3>1, <3>2, <3>3, SeqMonotonic
    <3> QED
      BY <3>1, <3>3, <3>4
  <2>5. /\ con_fifo["rx"] \in Seq(Nat) /\ con_fifo["ctrl"] \in Seq(ConReplyNames)
        /\ con_avail \in [ConQueues -> Nat] /\ con_lost \in [ConQueues -> Nat] /\ con_twice \in Nat
    BY DEF ConStreams, ConCounts
  <2> QED
    BY <2>1, <2>2, <2>3, <2>4, <2>5, Zenon DEF ConTypeOK
<1>2. ConHandshake /\ ConTerminal
  BY DEF ConAsked
<1>3. ConTypedInOrder
  <2> DEFINE all == con_got["rx"] \o con_fifo["rx"]
  <2>1. all \in Seq(Nat) /\ Len(all) \in Nat /\ con_typed \in Nat
    BY DEF ConStreams, ConLastTyped
  <2>2. /\ \A i \in 1 .. Len(all) : all[i] = con_typed - Len(all) + i
        /\ ~con_write => all = <<>>
    BY DEF ConLastTyped, ConLastOf, ConAll
  <2> HIDE DEF all
  <2>3. ConIncreasing(all)
    BY <2>1, <2>2 DEF ConIncreasing
  <2>4. all # <<>> => Len(all) = Last(all) - Head(all) + 1
    <3> SUFFICES ASSUME all # <<>> PROVE Len(all) = Last(all) - Head(all) + 1
      OBVIOUS
    <3>1. 1 \in 1 .. Len(all) /\ Len(all) \in 1 .. Len(all)
      BY <2>1
    <3>2. Last(all) = con_typed - Len(all) + Len(all) /\ all[1] = con_typed - Len(all) + 1
      BY <2>2, <3>1 DEF Last
    <3>3. Head(all) = all[1]
      BY <2>1
    <3> QED
      BY <2>1, <3>2, <3>3
  <2> QED
    BY <2>2, <2>3, <2>4 DEF ConTypedInOrder, all
<1>4. ConOutputKept
  <2>1. /\ con_out # <<>> => con_stream = "none" /\ con_printed = <<>> /\ con_out = ConChunks(con_sent)
        /\ con_out = <<>> => ToSet(con_printed) = (1 .. con_sent) \ con_dropped
        /\ con_dropped # {} => con_stream # "none"
        /\ con_printed \in Seq(1 .. con_sent) /\ IsInjective(con_printed) /\ con_sent \in Nat
    BY DEF ConEachOnce
  <2>2. CASE con_out = <<>>
    <3>1. con_printed \o con_out = con_printed
      BY <2>1, <2>2
    <3> QED
      BY <2>1, <2>2, <3>1 DEF ConOutputKept, ConEachOnce, ConOvertakes
  <2>3. CASE con_out # <<>>
    <3>1. con_out \in Seq(1 .. con_sent) /\ IsInjective(con_out) /\ ToSet(con_out) = 1 .. con_sent
      BY <2>1, <2>3, ConTurned
    <3>2. con_printed \o con_out = con_out /\ con_dropped = {}
      BY <2>1, <2>3, <3>1
    <3>3. ToSet(con_printed \o con_out) = (1 .. con_sent) \ con_dropped
      BY <3>1, <3>2
    <3> QED
      BY <2>1, <3>1, <3>2, <3>3 DEF ConOutputKept, ConEachOnce, ConOvertakes
  <2> QED
    BY <2>2, <2>3
<1>5. ConComesBack
  BY Zenon DEF ConComesBack, ConNotified, ConWillCome
<1> QED
  BY <1>1, <1>2, <1>3, <1>4, <1>5, Zenon DEF ConInv

\* What is typed and the replies are put into the guest's buffers in order and
\* once; each chunk of output waits for the first client, is written once or
\* has gone to a client that had left, in order but for what waited; what
\* waits for the guest is not forgotten and the host's terminal is given back,
\* for any typing, output, buffers, clients and messages (vhu_console.rs).
THEOREM ConsoleHolds == ConSpec => []ConInv
<1>1. ConIInv /\ [ConNext]_ConVars => ConIInv'
  <2> SUFFICES ASSUME ConIInv, [ConNext]_ConVars PROVE ConIInv'
    OBVIOUS
  <2>1. CASE ConNext
    <3>1. ConSane' /\ ConFlags' /\ ConCounts' /\ ConStreams'
      BY <2>1, ConStepSane, ConStepFlags, ConStepBuffers
    <3>2. ConAsked' /\ ConLastTyped' /\ ConEachOnce'
      BY <2>1, ConStepAsked, ConStepTyped, ConStepOnce
    <3>3. ConNotified' /\ ConTerminal'
      BY <2>1, ConStepNotified, ConStepTerminal
    <3> QED
      BY <3>1, <3>2, <3>3 DEF ConIInv
  <2>2. CASE UNCHANGED ConVars
    BY <2>2, ConStill
  <2> QED
    BY <2>1, <2>2
<1> QED
  BY <1>1, ConBegin, ConImplied, PTL DEF ConSpec

-----------------------------------------------------------------------------
(***************************************************************************)
(* The entropy device, for every period, quota and sizes of the requests.  *)
(* What a period has given is what its quota lacks, nothing is given after *)
(* its end until the next begins, and the one before it gave no more than  *)
(* a whole quota: a stretch of one period's length meets two of them.      *)
(***************************************************************************)
\* The ring, and a thread that sleeps has a request to serve.
RngRing ==
  /\ rng_ring \in [avail : Seq(RngChains), batch : Seq(RngChains), used : Nat]
  /\ Outstanding(rng_ring) <= RngQueueSize
  /\ rng_worker \in {"run", "sleep", "dead"} /\ (rng_worker = "sleep" => Serving(rng_ring))

\* The clock, and until when the thread sleeps.
RngClock ==
  /\ rng_now \in RngTimes /\ rng_start \in 0 .. rng_now /\ rng_quota \in 0 .. RngMaxBytes
  /\ rng_wake \in 0 .. RngHorizon + RngPeriod
  /\ rng_worker = "sleep" => rng_wake = rng_start + RngPeriod

\* What is given is not taken back, and nothing is given ahead of time.
RngLogged ==
  /\ rng_log \in [RngTimes -> Nat]
  /\ \A s, t \in RngTimes : s <= t => rng_log[s] <= rng_log[t]
  /\ \A t \in RngTimes : t >= rng_now => rng_log[t] = rng_log[RngHorizon]

\* What the period has given is missing in the quota, and the one before gave
\* no more than it had; none gives after its end.
RngPeriods ==
  /\ RngGiven(rng_start, RngHorizon) = RngMaxBytes - rng_quota
  /\ \A t \in RngTimes : t >= rng_start + RngPeriod - 1 => rng_log[t] = rng_log[RngHorizon]
  /\ \A t \in RngTimes : t < rng_start /\ t + RngPeriod > rng_start => RngGiven(t, rng_start - 1) <= RngMaxBytes

RngIInv == RngRing /\ RngClock /\ RngLogged /\ RngPeriods /\ RngRateKept

LEMMA RngLast ==
  ASSUME NEW t \in RngTimes
  PROVE  LET last == Min({t + RngPeriod - 1, RngHorizon})
         IN  last \in RngTimes /\ t <= last /\ last <= t + RngPeriod - 1 /\ (last < RngHorizon => last = t + RngPeriod - 1)
<1>1. RngHorizon \in Nat /\ RngPeriod \in Nat \ {0} /\ t \in Nat /\ t <= RngHorizon
  BY RngAssumption DEF RngTimes
<1>2. t + RngPeriod - 1 \in Int /\ RngHorizon \in Int
  BY <1>1
<1>3. Min({t + RngPeriod - 1, RngHorizon}) = IF t + RngPeriod - 1 <= RngHorizon THEN t + RngPeriod - 1 ELSE RngHorizon
  BY <1>2, MinOfTwo
<1> QED
  BY <1>1, <1>3 DEF RngTimes

\* A request is served: from the period that runs, or from a new one.
LEMMA RngGiveKeeps ==
  ASSUME RngIInv, NEW start, NEW quota, RngGive(start, quota), Serving(rng_ring), rng_worker' \in {"run", "sleep", "dead"},
         rng_worker' # "sleep",
         \/ start = rng_start /\ quota = rng_quota /\ rng_now < rng_start + RngPeriod
         \/ start = rng_now /\ quota = RngMaxBytes /\ rng_now >= rng_start + RngPeriod
  PROVE  RngIInv'
<1> USE DEF RngIInv
<1>1. /\ RngHorizon \in Nat /\ RngPeriod \in Nat \ {0} /\ RngMaxBytes \in Nat /\ RngTimes = 0 .. RngHorizon
      /\ rng_now \in 0 .. RngHorizon /\ rng_start \in 0 .. rng_now /\ rng_quota \in 0 .. RngMaxBytes
      /\ start \in 0 .. rng_now /\ quota \in 0 .. RngMaxBytes
  BY RngAssumption DEF RngTimes, RngClock
<1>2. rng_ring.batch \in Seq(RngChains) /\ rng_ring.batch # <<>>
  BY DEF RngRing, Serving
<1>3. Request(rng_ring) \in Int
  <2>1. RngChains \subseteq Int
    BY RngAssumption DEF RngChains, RngBad
  <2>2. Head(rng_ring.batch) \in RngChains
    BY <1>2, HeadTailProperties
  <2> QED
    BY <2>1, <2>2 DEF Request
<1>4. PICK len \in 0 .. Min({Request(rng_ring), quota}) :
        /\ rng_start' = start /\ rng_quota' = quota - len
        /\ rng_log' = [t \in RngTimes |-> IF t < rng_now THEN rng_log[t] ELSE rng_log[t] + len]
        /\ rng_ring' = AddUsed(rng_ring)
        /\ UNCHANGED <<rng_now, rng_wake>>
  BY DEF RngGive
<1>5. len \in 0 .. quota
  <2>1. Min({Request(rng_ring), quota}) = IF Request(rng_ring) <= quota THEN Request(rng_ring) ELSE quota
    BY <1>1, <1>3, MinOfTwo
  <2> QED
    BY <1>1, <1>3, <1>4, <2>1
<1>6. RngRing'
  <2>1. rng_ring' = [rng_ring EXCEPT !.batch = Tail(rng_ring.batch), !.used = rng_ring.used + 1]
    BY <1>4 DEF AddUsed
  <2>2. Tail(rng_ring.batch) \in Seq(RngChains) /\ Len(Tail(rng_ring.batch)) = Len(rng_ring.batch) - 1
    BY <1>2
  <2>4. rng_ring.avail \in Seq(RngChains) /\ Len(rng_ring.avail) \in Nat /\ Len(rng_ring.batch) \in Nat /\ rng_ring.used \in Nat
    BY <1>2 DEF RngRing
  <2>a. rng_ring' = [avail |-> rng_ring.avail, batch |-> Tail(rng_ring.batch), used |-> rng_ring.used + 1]
    BY <2>1 DEF RngRing
  <2>3. rng_ring' \in [avail : Seq(RngChains), batch : Seq(RngChains), used : Nat]
    BY <2>a, <2>2, <2>4
  <2>b. rng_ring'.avail = rng_ring.avail /\ rng_ring'.batch = Tail(rng_ring.batch) /\ rng_ring'.used = rng_ring.used + 1
    BY <2>a
  <2>5. Outstanding(rng_ring)' = Outstanding(rng_ring)
    <3>1. \A m, n, u \in Nat : m + (n - 1) + (u + 1) = m + n + u
      OBVIOUS
    <3>2. Outstanding(rng_ring)' = Len(rng_ring.avail) + (Len(rng_ring.batch) - 1) + (rng_ring.used + 1)
      BY <2>b, <2>2, Zenon DEF Outstanding
    <3> QED
      BY <2>4, <3>1, <3>2, Zenon DEF Outstanding
  <2> QED
    BY <2>3, <2>5 DEF RngRing
<1>7. RngClock'
  BY <1>1, <1>4, <1>5 DEF RngClock, RngTimes
<1>8. /\ rng_log' \in [RngTimes -> Nat] /\ rng_log \in [RngTimes -> Nat] /\ rng_now' = rng_now
      /\ \A t \in RngTimes : rng_log'[t] = IF t < rng_now THEN rng_log[t] ELSE rng_log[t] + len
  BY <1>1, <1>4, <1>5 DEF RngLogged
<1>l. /\ \A t \in RngTimes : rng_log[t] \in Nat
      /\ \A s, t \in RngTimes : s <= t => rng_log[s] <= rng_log[t]
      /\ \A t \in RngTimes : t >= rng_now => rng_log[t] = rng_log[RngHorizon]
      /\ RngHorizon \in RngTimes /\ rng_now \in RngTimes
  BY <1>1 DEF RngLogged
<1>9. RngLogged'
  BY <1>1, <1>5, <1>8, <1>l, SMTT(30) DEF RngLogged
<1>b. \A t \in RngTimes : /\ RngGivenBefore(t) \in Nat /\ RngGivenBefore(t) <= rng_log[t]
                          /\ RngGivenBefore(t)' = IF t <= rng_now THEN RngGivenBefore(t) ELSE RngGivenBefore(t) + len
                          /\ \A s \in RngTimes : s <= t => RngGivenBefore(s) <= RngGivenBefore(t)
  BY <1>1, <1>5, <1>8, <1>l DEF RngGivenBefore
<1>h. rng_log'[RngHorizon] = rng_log[RngHorizon] + len
  BY <1>1, <1>8
<1>p. /\ rng_log[RngHorizon] - RngGivenBefore(rng_start) = RngMaxBytes - rng_quota
      /\ \A t \in RngTimes : t >= rng_start + RngPeriod - 1 => rng_log[t] = rng_log[RngHorizon]
      /\ \A t \in RngTimes : t < rng_start /\ t + RngPeriod > rng_start =>
           rng_log[rng_start - 1] - RngGivenBefore(t) <= RngMaxBytes
  BY DEF RngPeriods, RngGiven
<1>s. rng_start \in RngTimes /\ start \in RngTimes
  BY <1>1
\* What has been given since a moment within a period's length from now.
<1>c. ASSUME NEW t \in RngTimes, t <= rng_now, rng_now < t + RngPeriod
      PROVE  (rng_log[RngHorizon] + len) - RngGivenBefore(t) <= 2 * RngMaxBytes
  <2>1. CASE t >= rng_start
    <3>1. RngGivenBefore(rng_start) <= RngGivenBefore(t)
      BY <1>b, <1>s, <2>1
    <3>2. RngGivenBefore(t) \in Nat /\ RngGivenBefore(rng_start) \in Nat /\ rng_log[RngHorizon] \in Nat /\ quota \in 0 .. RngMaxBytes
      BY <1>1, <1>b, <1>l, <1>s
    <3>3. rng_log[RngHorizon] - RngGivenBefore(rng_start) = RngMaxBytes - rng_quota
      BY <1>p
    <3> QED
      BY <1>1, <1>5, <3>1, <3>2, <3>3
  <2>2. CASE t < rng_start
    <3>1. start = rng_start /\ quota = rng_quota
      BY <1>1, <1>c, <2>2
    <3>2. rng_log[rng_start - 1] - RngGivenBefore(t) <= RngMaxBytes
      BY <1>1, <1>c, <1>p, <2>2
    <3>3. RngGivenBefore(rng_start) = rng_log[rng_start - 1] /\ rng_start - 1 \in RngTimes
      BY <1>1, <2>2 DEF RngGivenBefore
    <3>4. rng_log[RngHorizon] - RngGivenBefore(rng_start) = RngMaxBytes - rng_quota
      BY <1>p
    <3>5. rng_log[RngHorizon] \in Nat /\ RngGivenBefore(t) \in Nat /\ RngGivenBefore(rng_start) \in Nat
      BY <1>1, <1>b, <1>l, <1>s
    <3> QED
      BY <1>1, <1>5, <3>1, <3>2, <3>3, <3>4, <3>5, SMTT(30)
  <2> QED
    BY <1>1, <1>s, <2>1, <2>2
<1>10. RngRateKept'
  <2> SUFFICES ASSUME NEW t \in RngTimes
               PROVE  RngGiven(t, Min({t + RngPeriod - 1, RngHorizon}))' <= 2 * RngMaxBytes
    BY DEF RngRateKept
  <2>0. PICK last : last = Min({t + RngPeriod - 1, RngHorizon})
    OBVIOUS
  <2>1. last \in RngTimes /\ t <= last /\ last <= t + RngPeriod - 1
    BY <2>0, RngLast
  <2>2. rng_log[last] - RngGivenBefore(t) <= 2 * RngMaxBytes
    BY <2>0 DEF RngRateKept, RngGiven
  <2>3. RngGiven(t, Min({t + RngPeriod - 1, RngHorizon}))' = rng_log'[last] - RngGivenBefore(t)'
    BY <2>0 DEF RngGiven
  <2>4. CASE last < rng_now
    <3>1. rng_log'[last] = rng_log[last] /\ RngGivenBefore(t)' = RngGivenBefore(t)
      BY <1>1, <1>8, <1>b, <2>1, <2>4, SMTT(30)
    <3> QED
      BY <2>2, <2>3, <3>1
  <2>5. CASE t > rng_now
    <3>1. rng_log'[last] = rng_log[last] + len /\ RngGivenBefore(t)' = RngGivenBefore(t) + len
      BY <1>1, <1>8, <1>b, <2>1, <2>5
    <3>2. rng_log'[last] - RngGivenBefore(t)' = rng_log[last] - RngGivenBefore(t)
      BY <1>1, <1>5, <1>b, <1>l, <2>1, <3>1
    <3> QED
      BY <2>2, <2>3, <3>2
  <2>6. CASE t <= rng_now /\ rng_now <= last
    <3>1. rng_log'[last] = rng_log[RngHorizon] + len /\ RngGivenBefore(t)' = RngGivenBefore(t)
      BY <1>1, <1>8, <1>b, <1>l, <2>1, <2>6
    <3>2. (rng_log[RngHorizon] + len) - RngGivenBefore(t) <= 2 * RngMaxBytes
      BY <1>1, <1>c, <2>1, <2>6
    <3>3. rng_log'[last] - RngGivenBefore(t)' = (rng_log[RngHorizon] + len) - RngGivenBefore(t)
      BY <3>1, Zenon
    <3> QED
      BY <2>3, <3>2, <3>3, Zenon
  <2> QED
    BY <1>1, <2>1, <2>4, <2>5, <2>6
<1>11. RngPeriods'
  <2>1. /\ RngGiven(rng_start, RngHorizon)' = rng_log'[RngHorizon] - RngGivenBefore(start)'
        /\ \A t \in RngTimes : RngGiven(t, rng_start - 1)' = rng_log'[start - 1] - RngGivenBefore(t)'
    BY <1>4 DEF RngGiven, RngGivenBefore
  <2>2. RngGivenBefore(start)' = RngGivenBefore(start)
    BY <1>1, <1>b, <1>s
  <2>3. CASE start = rng_start /\ quota = rng_quota /\ rng_now < rng_start + RngPeriod
    <3>1. rng_log'[RngHorizon] - RngGivenBefore(start)' = RngMaxBytes - (quota - len)
      <4>1. rng_log[RngHorizon] - RngGivenBefore(start) = RngMaxBytes - quota
        BY <1>p, <2>3
      <4>2. rng_log[RngHorizon] \in Nat /\ RngGivenBefore(start) \in Nat
        BY <1>b, <1>l, <1>s
      <4> QED
        BY <1>1, <1>5, <1>h, <2>2, <4>1, <4>2, SMTT(30)
    <3>2. ASSUME NEW t \in RngTimes, t >= start + RngPeriod - 1 PROVE rng_log'[t] = rng_log'[RngHorizon]
      BY <1>1, <1>8, <1>h, <1>p, <2>3, <3>2
    <3>3. ASSUME NEW t \in RngTimes, t < start, t + RngPeriod > start
          PROVE  rng_log'[start - 1] - RngGivenBefore(t)' <= RngMaxBytes
      BY <1>1, <1>8, <1>b, <1>p, <2>3, <3>3
    <3> QED
      BY <1>4, <2>1, <3>1, <3>2, <3>3 DEF RngPeriods
  <2>4. CASE start = rng_now /\ quota = RngMaxBytes /\ rng_now >= rng_start + RngPeriod
    <3>1. start - 1 \in RngTimes /\ RngGivenBefore(start) = rng_log[start - 1] /\ rng_log[start - 1] = rng_log[RngHorizon]
      BY <1>1, <1>p, <2>4 DEF RngGivenBefore
    <3>2. rng_log'[RngHorizon] - RngGivenBefore(start)' = RngMaxBytes - (quota - len)
      BY <1>1, <1>5, <1>h, <1>l, <2>2, <2>4, <3>1
    <3>3. ASSUME NEW t \in RngTimes, t >= start + RngPeriod - 1 PROVE rng_log'[t] = rng_log'[RngHorizon]
      BY <1>1, <1>8, <1>h, <1>l, <2>4, <3>3
    <3>4. ASSUME NEW t \in RngTimes, t < start, t + RngPeriod > start
          PROVE  rng_log'[start - 1] - RngGivenBefore(t)' <= RngMaxBytes
      <4>1. rng_log'[start - 1] = rng_log[RngHorizon] /\ RngGivenBefore(t)' = RngGivenBefore(t)
        BY <1>1, <1>8, <1>b, <2>4, <3>1, <3>4
      <4>2. RngGivenBefore(rng_start) <= RngGivenBefore(t)
        BY <1>1, <1>b, <1>s, <2>4, <3>4
      <4>3. RngGivenBefore(t) \in Nat /\ RngGivenBefore(rng_start) \in Nat /\ rng_log[RngHorizon] \in Nat
        BY <1>1, <1>b, <1>l, <1>s
      <4>4. rng_log[RngHorizon] - RngGivenBefore(rng_start) = RngMaxBytes - rng_quota
        BY <1>p
      <4> QED
        BY <1>1, <4>1, <4>2, <4>3, <4>4
    <3> QED
      BY <1>4, <2>1, <3>2, <3>3, <3>4 DEF RngPeriods
  <2> QED
    BY <2>3, <2>4
<1> QED
  BY <1>6, <1>7, <1>9, <1>10, <1>11

\* Steps that serve nobody.
LEMMA RngRests ==
  ASSUME RngIInv, UNCHANGED <<rng_start, rng_quota, rng_log>>, RngRing', RngClock', rng_now' >= rng_now
  PROVE  RngIInv'
<1> USE DEF RngIInv
<1>1. RngLogged'
  BY RngAssumption DEF RngLogged, RngClock, RngTimes
<1>2. RngPeriods' /\ RngRateKept'
  BY Zenon DEF RngPeriods, RngRateKept, RngGiven, RngGivenBefore
<1> QED
  BY <1>1, <1>2

LEMMA RngStep == RngIInv /\ [RngNext]_RngVars => RngIInv'
<1> SUFFICES ASSUME RngIInv, [RngNext]_RngVars PROVE RngIInv'
  OBVIOUS
<1>0. /\ rng_ring \in [avail : Seq(RngChains), batch : Seq(RngChains), used : Nat]
      /\ Outstanding(rng_ring) <= RngQueueSize /\ RngQueueSize \in Nat
      /\ rng_ring.avail \in Seq(RngChains) /\ rng_ring.batch \in Seq(RngChains) /\ rng_ring.used \in Nat
      /\ Len(rng_ring.avail) \in Nat /\ Len(rng_ring.batch) \in Nat
  BY RngAssumption DEF RngIInv, RngRing
<1>1. CASE RngCollect \/ RngSignal
  <2>1. UNCHANGED <<rng_now, rng_start, rng_quota, rng_worker, rng_wake, rng_log>> /\ rng_worker = "run"
    BY <1>1 DEF RngCollect, RngSignal
  <2>2. \/ /\ rng_ring' = [avail |-> <<>>, batch |-> rng_ring.avail, used |-> rng_ring.used]
           /\ rng_ring.batch = <<>>
        \/ rng_ring' = [avail |-> rng_ring.avail, batch |-> rng_ring.batch, used |-> 0]
    BY <1>0, <1>1 DEF RngCollect, RngSignal, Collect, CanCollect, SignalUsed
  <2>e. <<>> \in Seq(RngChains) /\ Len(<<>>) = 0
    OBVIOUS
  <2>3. rng_ring' \in [avail : Seq(RngChains), batch : Seq(RngChains), used : Nat] /\ Outstanding(rng_ring)' <= RngQueueSize
    <3>1. CASE rng_ring' = [avail |-> <<>>, batch |-> rng_ring.avail, used |-> rng_ring.used] /\ rng_ring.batch = <<>>
      BY <1>0, <2>e, <3>1 DEF Outstanding
    <3>2. CASE rng_ring' = [avail |-> rng_ring.avail, batch |-> rng_ring.batch, used |-> 0]
      BY <1>0, <3>2 DEF Outstanding
    <3> QED
      BY <2>2, <3>1, <3>2
  <2>4. RngRing' /\ RngClock'
    BY <2>1, <2>3 DEF RngIInv, RngRing, RngClock
  <2> QED
    BY <2>1, <2>4, RngRests DEF RngIInv, RngClock, RngTimes
<1>2. CASE RngFail \/ RngSleep
  <2>1. UNCHANGED <<rng_now, rng_start, rng_quota, rng_ring, rng_log>> /\ Serving(rng_ring)
        /\ \/ rng_worker' = "dead" /\ rng_wake' = rng_wake
           \/ rng_worker' = "sleep" /\ rng_wake' = rng_start + RngPeriod
    BY <1>2 DEF RngFail, RngSleep, RngServing
  <2>2. RngRing'
    BY <2>1 DEF RngIInv, RngRing, Outstanding, Serving
  <2>3. RngClock'
    BY <2>1, RngAssumption DEF RngIInv, RngClock, RngTimes
  <2> QED
    BY <2>1, <2>2, <2>3, RngRests DEF RngIInv, RngClock, RngTimes
<1>3. CASE RngTick
  <2>1. /\ rng_now' = rng_now + 1 /\ rng_now < RngHorizon
        /\ UNCHANGED <<rng_start, rng_quota, rng_worker, rng_wake, rng_ring, rng_log>>
    BY <1>3 DEF RngTick
  <2>2. RngRing'
    BY <2>1 DEF RngIInv, RngRing, Outstanding, Serving
  <2>3. RngClock' /\ rng_now' >= rng_now
    BY <2>1, RngAssumption DEF RngIInv, RngClock, RngTimes
  <2> QED
    BY <2>1, <2>2, <2>3, RngRests
<1>4. CASE RngGuest
  <2>1. PICK r \in RngChains : rng_ring' = [rng_ring EXCEPT !.avail = Append(rng_ring.avail, r)]
    BY <1>4 DEF RngGuest, Offer
  <2>2. UNCHANGED <<rng_now, rng_start, rng_quota, rng_worker, rng_wake, rng_log>> /\ Outstanding(rng_ring) < RngQueueSize
    BY <1>4 DEF RngGuest
  <2>3. Append(rng_ring.avail, r) \in Seq(RngChains) /\ Len(Append(rng_ring.avail, r)) = Len(rng_ring.avail) + 1
    BY <1>0
  <2>a. rng_ring' = [avail |-> Append(rng_ring.avail, r), batch |-> rng_ring.batch, used |-> rng_ring.used]
    BY <1>0, <2>1
  <2>4. rng_ring' \in [avail : Seq(RngChains), batch : Seq(RngChains), used : Nat] /\ Outstanding(rng_ring)' <= RngQueueSize
        /\ rng_ring'.batch = rng_ring.batch
    BY <1>0, <2>a, <2>2, <2>3 DEF Outstanding
  <2>5. RngRing' /\ RngClock'
    BY <2>2, <2>4 DEF RngIInv, RngRing, RngClock, Serving
  <2> QED
    BY <2>2, <2>5, RngRests DEF RngIInv, RngClock, RngTimes
<1>5. CASE RngServe
  <2>1. /\ Serving(rng_ring) /\ rng_worker = "run" /\ rng_worker' = "run"
        /\ \/ RngPeriodOver /\ RngGive(rng_now, RngMaxBytes)
           \/ ~RngPeriodOver /\ RngGive(rng_start, rng_quota)
    BY <1>5 DEF RngServe, RngServing
  <2>2. RngPeriodOver => rng_now >= rng_start + RngPeriod
    BY RngAssumption DEF RngPeriodOver, RngIInv, RngClock, RngTimes
  <2>3. ~RngPeriodOver => rng_now < rng_start + RngPeriod
    BY RngAssumption DEF RngPeriodOver, RngIInv, RngClock, RngTimes
  <2>4. CASE RngPeriodOver
    BY <2>1, <2>2, <2>4, RngGiveKeeps
  <2>5. CASE ~RngPeriodOver
    BY <2>1, <2>3, <2>5, RngGiveKeeps
  <2> QED
    BY <2>4, <2>5
<1>6. CASE RngWakeUp
  <2>1. RngGive(rng_now, RngMaxBytes) /\ rng_worker' = "run" /\ rng_worker = "sleep" /\ rng_wake <= rng_now
    BY <1>6 DEF RngWakeUp
  <2>2. Serving(rng_ring) /\ rng_now >= rng_start + RngPeriod
    BY <2>1, RngAssumption DEF RngIInv, RngRing, RngClock, RngTimes
  <2> QED
    BY <2>1, <2>2, RngGiveKeeps
<1>7. CASE UNCHANGED RngVars
  BY <1>7, Zenon DEF RngVars, RngIInv, RngRing, RngClock, RngLogged, RngPeriods, RngRateKept, RngGiven, RngGivenBefore,
     Outstanding, Serving
<1> QED
  BY <1>1, <1>2, <1>3, <1>4, <1>5, <1>6, <1>7 DEF RngNext

LEMMA RngBegin == RngInit => RngIInv
<1> SUFFICES ASSUME RngInit PROVE RngIInv
  OBVIOUS
<1>1. /\ rng_now = 0 /\ rng_start = 0 /\ rng_quota = RngMaxBytes /\ rng_worker = "run" /\ rng_wake = 0
      /\ rng_ring = [avail |-> <<>>, batch |-> <<>>, used |-> 0] /\ rng_log = [t \in RngTimes |-> 0]
  BY DEF RngInit, EmptyRing
<1>2. RngRing
  BY <1>1, RngAssumption DEF RngRing, Outstanding
<1>3. RngClock /\ RngLogged
  BY <1>1, RngAssumption DEF RngClock, RngLogged, RngTimes
<1>4. \A t \in RngTimes : RngGivenBefore(t) = 0
  BY <1>1, RngAssumption DEF RngGivenBefore, RngTimes
<1>5. RngPeriods
  BY <1>1, <1>4, RngAssumption DEF RngPeriods, RngGiven, RngTimes
<1>6. RngRateKept
  <2> SUFFICES ASSUME NEW t \in RngTimes
               PROVE  RngGiven(t, Min({t + RngPeriod - 1, RngHorizon})) <= 2 * RngMaxBytes
    BY DEF RngRateKept
  <2>0. PICK last : last = Min({t + RngPeriod - 1, RngHorizon})
    OBVIOUS
  <2>1. last \in RngTimes
    BY <2>0, RngLast
  <2>2. rng_log[last] = 0 /\ RngGivenBefore(t) = 0
    BY <1>1, <1>4, <2>1
  <2>3. RngMaxBytes \in Nat
    BY RngAssumption
  <2>4. RngGiven(t, last) = 0
    BY <2>2 DEF RngGiven
  <2> QED
    BY <2>0, <2>3, <2>4
<1> QED
  BY <1>2, <1>3, <1>5, <1>6 DEF RngIInv

\* The guest's share of the source is kept to, at most twice of it in a
\* stretch of one period, wherever the thread sleeps (vhu_rng.rs).
THEOREM RngHolds == RngSpec => []RngInv
<1>1. RngIInv => RngInv
  <2> SUFFICES ASSUME RngIInv PROVE RngInv
    OBVIOUS
  <2>1. /\ rng_ring.avail \in Seq(RngChains) /\ rng_ring.batch \in Seq(RngChains) /\ rng_ring.used \in Nat
        /\ Len(rng_ring.avail) \in Nat /\ Len(rng_ring.batch) \in Nat
        /\ Len(rng_ring.avail) + Len(rng_ring.batch) + rng_ring.used <= RngQueueSize
        /\ rng_ring = [avail |-> rng_ring.avail, batch |-> rng_ring.batch, used |-> rng_ring.used]
        /\ RngQueueSize \in Nat
    BY RngAssumption DEF RngIInv, RngRing, Outstanding
  <2>2. \A s \in Seq(RngChains) : Len(s) \in Nat => s \in [1 .. Len(s) -> RngChains]
    OBVIOUS
  <2>3. rng_ring.avail \in UNION {[1 .. i -> RngChains] : i \in 0 .. RngQueueSize}
    <3>1. Len(rng_ring.avail) \in 0 .. RngQueueSize
      BY <2>1
    <3> QED
      BY <2>1, <2>2, <3>1, Zenon
  <2>4. rng_ring.batch \in UNION {[1 .. i -> RngChains] : i \in 0 .. RngQueueSize}
    <3>1. Len(rng_ring.batch) \in 0 .. RngQueueSize
      BY <2>1
    <3> QED
      BY <2>1, <2>2, <3>1, Zenon
  <2>5. rng_ring.used \in 0 .. RngQueueSize
    BY <2>1
  <2>6. rng_ring \in RingType(RngChains, RngQueueSize)
    BY <2>1, <2>3, <2>4, <2>5, Zenon DEF RingType
  <2>7. RngTypeOK
    BY <2>6, RngAssumption DEF RngIInv, RngRing, RngClock, RngLogged, RngTypeOK, RngTimes
  <2> QED
    BY <2>7 DEF RngIInv, RngInv
<1> QED
  BY <1>1, RngBegin, RngStep, PTL DEF RngSpec

=============================================================================
