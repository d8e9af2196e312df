---------------------------------- MODULE Rtc ----------------------------------
(***************************************************************************)
(* vhost-device-rtc: the alarm of the UTC clock, the only one that has one *)
(* (clocks.rs).  Enabling it spawns a thread that sleeps until the alarm   *)
(* expires and then waits, on a condition variable, for a buffer of the    *)
(* alarm queue in which to tell the guest (alarm.rs).  The threads, the    *)
(* requests and the buffers meet under one lock (backend.rs), so that what *)
(* is done with it held is one step.                                       *)
(* The wall clock being set while a thread sleeps is left out.             *)
(***************************************************************************)
EXTENDS Integers, FiniteSets

CONSTANTS
  RtcNames,   \* the clock ids the guest may name
  RtcClocks,  \* those that there are
  RtcUtc,     \* the one of them with an alarm
  RtcBuffers, \* the buffers the guest has for its alarm queue
  RtcThreads, \* bound: the threads there may be at a time, 1 .. RtcThreads
  RtcHorizon  \* bound: the time at which the model ends

ASSUME RtcAssumption ==
  /\ RtcUtc \in RtcClocks /\ RtcClocks \subseteq RtcNames
  /\ RtcBuffers \in Nat /\ RtcThreads \in Nat /\ RtcHorizon \in Nat

VARIABLES
  rtc_now,
  rtc_features, \* what was negotiated: "none" yet, "plain" or with the "alarm"
  rtc_alarm,    \* Alarm: its time, whether it is enabled
  rtc_worker,   \*   and its thread, or 0
  rtc_thread,   \* AlarmWorker::new's thread: where it is, until when it
                \* sleeps and its cancellation token
  rtc_reply,    \* the status of the last reply to the guest, VIRTIO_RTC_S_*
  rtc_avail,    \* buffers in the alarm queue
  rtc_taken,    \* those that process_alarm_queue() is at
  rtc_pool      \* alarm_notif_buffers

rtcQueue == <<rtc_avail, rtc_taken, rtc_pool>>
RtcVars  == <<rtc_now, rtc_features, rtc_alarm, rtc_worker, rtc_thread,
              rtc_reply, rtcQueue>>

RtcTimes == 0 .. RtcHorizon
RtcIds   == 1 .. RtcThreads
RtcGone  == [at |-> "none", due |-> 0, cancelled |-> FALSE]

RtcTypeOK ==
  /\ rtc_now \in RtcTimes /\ rtc_features \in {"none", "plain", "alarm"}
  /\ rtc_alarm \in [time : RtcTimes, enabled : BOOLEAN]
  /\ rtc_worker \in 0 .. RtcThreads
  /\ rtc_thread \in [RtcIds -> [at : {"none", "sleep", "lock", "wait"}, due : RtcTimes,
                                cancelled : BOOLEAN]]
  /\ rtc_reply \in {"none", "OK", "EINVAL", "EIO", "EOPNOTSUPP"}
  /\ rtc_avail \in 0 .. RtcBuffers /\ rtc_taken \in 0 .. RtcBuffers /\ rtc_pool \in 0 .. RtcBuffers

RtcInit ==
  /\ rtc_now = 0 /\ rtc_features = "none"
  /\ rtc_alarm = [time |-> 0, enabled |-> FALSE]
  /\ rtc_worker = 0 /\ rtc_thread = [w \in RtcIds |-> RtcGone]
  /\ rtc_reply = "none"
  /\ rtc_avail = 0 /\ rtc_taken = 0 /\ rtc_pool = 0

RtcAt(p)  == {w \in RtcIds : rtc_thread[w].at = p}
RtcFree   == RtcAt("none")
RtcLater(s, t) == IF s < t THEN t ELSE s

-----------------------------------------------------------------------------
\* Alarm::enable() and Alarm::disable().  The alarm lets go of the thread it
\* had, which sets the token of that thread and no more.

\* Mistake: the token is not set.
BugRtcCancelled == rtc_thread

RtcCancelled ==
  [w \in RtcIds |->
     IF w = rtc_worker /\ rtc_thread[w].at # "none"
     THEN [rtc_thread[w] EXCEPT !.cancelled = TRUE] ELSE rtc_thread[w]]

RtcEnable(due) ==
  /\ RtcFree # {}
  /\ LET w == CHOOSE w \in RtcFree : TRUE
     IN  /\ rtc_worker' = w
         /\ rtc_thread' =
              [RtcCancelled EXCEPT ![w] = [at |-> "sleep", due |-> due, cancelled |-> FALSE]]

RtcDisable == rtc_worker' = 0 /\ rtc_thread' = RtcCancelled

(***************************************************************************)
(* process_request_queue().  The one thread of the backend is not at the   *)
(* other queue meanwhile.  Reading a clock may fail.                       *)
(***************************************************************************)
RtcAlarmRequests == {"ReadAlarm", "SetAlarm", "SetAlarmEnabled"}
RtcRequests == {"Cfg", "ClockCap", "Read", "ReadCross", "CrossCap", "other"} \cup RtcAlarmRequests

\* The alarm's messages are unknown unless they were negotiated.
RtcKnown(type) == type # "other" /\ (type \in RtcAlarmRequests => rtc_features = "alarm")

RtcStatuses(type, clock) ==
  CASE type \in {"Cfg", "CrossCap"} -> {"OK"}
    [] type = "ReadCross"           -> {"EOPNOTSUPP"}
    [] OTHER ->
         IF \/ ~RtcKnown(type) \/ clock \notin RtcClocks
            \/ type \in RtcAlarmRequests /\ clock # RtcUtc
         THEN {"EINVAL"}
         ELSE IF type \in {"Read", "SetAlarm", "SetAlarmEnabled"} THEN {"OK", "EIO"} ELSE {"OK"}

RtcReply(type, clock) ==
  /\ rtc_taken = 0 /\ rtc_features # "none"
  /\ rtc_reply' \in RtcStatuses(type, clock)
  /\ UNCHANGED <<rtc_now, rtc_features, rtcQueue>>

RtcReport(type, clock) ==
  /\ RtcReply(type, clock)
  /\ rtc_reply' = "OK" => type \notin {"SetAlarm", "SetAlarmEnabled"}
  /\ UNCHANGED <<rtc_alarm, rtc_worker, rtc_thread>>

RtcSetAlarm(clock, time, enabled) ==
  /\ RtcReply("SetAlarm", clock) /\ rtc_reply' = "OK"
  /\ rtc_alarm' = [time |-> time, enabled |-> enabled]
  /\ IF enabled THEN RtcEnable(RtcLater(time, rtc_now)) ELSE RtcDisable

RtcSetAlarmEnabled(clock, enabled) ==
  /\ RtcReply("SetAlarmEnabled", clock) /\ rtc_reply' = "OK"
  /\ rtc_alarm' = [rtc_alarm EXCEPT !.enabled = enabled]
  /\ IF enabled THEN RtcEnable(RtcLater(rtc_alarm.time, rtc_now)) ELSE RtcDisable

(***************************************************************************)
(* process_alarm_queue(): all that is in the queue is taken out and put    *)
(* into the pool one by one, each with a notify_one().                     *)
(***************************************************************************)
RtcTakeBuffers ==
  /\ rtc_features = "alarm" /\ rtc_taken = 0 /\ rtc_avail > 0
  /\ rtc_taken' = rtc_avail /\ rtc_avail' = 0
  /\ UNCHANGED <<rtc_now, rtc_features, rtc_alarm, rtc_worker, rtc_reply, rtc_thread, rtc_pool>>

\* Mistake: only the first buffer notifies.
BugRtcNotifyOne ==
  IF RtcAt("wait") = {} \/ rtc_pool > 0 THEN UNCHANGED rtc_thread
  ELSE \E w \in RtcAt("wait") : rtc_thread' = [rtc_thread EXCEPT ![w].at = "lock"]

RtcNotifyOne ==
  IF RtcAt("wait") = {} THEN UNCHANGED rtc_thread
  ELSE \E w \in RtcAt("wait") : rtc_thread' = [rtc_thread EXCEPT ![w].at = "lock"]

RtcPushBuffer ==
  /\ rtc_taken > 0
  /\ rtc_taken' = rtc_taken - 1 /\ rtc_pool' = rtc_pool + 1
  /\ RtcNotifyOne
  /\ UNCHANGED <<rtc_now, rtc_features, rtc_alarm, rtc_worker, rtc_reply, rtc_avail>>

RtcBackend == RtcTakeBuffers \/ RtcPushBuffer

-----------------------------------------------------------------------------
\* A thread.  Its token is looked at once, when it has slept.
RtcWake(w) ==
  /\ rtc_thread[w].at = "sleep" /\ rtc_thread[w].due <= rtc_now
  /\ rtc_thread' =
       [rtc_thread EXCEPT ![w] = IF @.cancelled THEN RtcGone ELSE [@ EXCEPT !.at = "lock"]]
  /\ UNCHANGED <<rtc_now, rtc_features, rtc_alarm, rtc_worker, rtc_reply, rtcQueue>>

\* With the lock, at first or after a wait: it ends, tells the guest or waits.
RtcGiveUp(w) ==
  /\ rtc_thread[w].at = "lock" /\ ~rtc_alarm.enabled
  /\ rtc_thread' = [rtc_thread EXCEPT ![w] = RtcGone]
  /\ UNCHANGED <<rtc_now, rtc_features, rtc_alarm, rtc_worker, rtc_reply, rtcQueue>>

RtcNotify(w) ==
  /\ rtc_thread[w].at = "lock" /\ rtc_alarm.enabled
  /\ rtc_pool > 0
  /\ rtc_pool' = rtc_pool - 1
  /\ rtc_thread' = [rtc_thread EXCEPT ![w] = RtcGone]
  /\ UNCHANGED <<rtc_now, rtc_features, rtc_alarm, rtc_worker, rtc_reply, rtc_avail, rtc_taken>>

RtcWait(w) ==
  /\ rtc_thread[w].at = "lock" /\ rtc_alarm.enabled
  /\ rtc_pool = 0
  /\ rtc_thread' = [rtc_thread EXCEPT ![w].at = "wait"]
  /\ UNCHANGED <<rtc_now, rtc_features, rtc_alarm, rtc_worker, rtc_reply, rtcQueue>>

RtcThread(w) == RtcWake(w) \/ RtcGiveUp(w) \/ RtcNotify(w) \/ RtcWait(w)

\* Condvar::wait() may return for no reason.
RtcSpurious(w) ==
  /\ rtc_thread[w].at = "wait"
  /\ rtc_thread' = [rtc_thread EXCEPT ![w].at = "lock"]
  /\ UNCHANGED <<rtc_now, rtc_features, rtc_alarm, rtc_worker, rtc_reply, rtcQueue>>

-----------------------------------------------------------------------------
\* Time and the guest (external).

RtcTick ==
  /\ rtc_now < RtcHorizon
  /\ rtc_now' = rtc_now + 1
  /\ UNCHANGED <<rtc_features, rtc_alarm, rtc_worker, rtc_reply, rtc_thread, rtcQueue>>

RtcAckFeatures(f) ==
  /\ rtc_features = "none"
  /\ rtc_features' = f
  /\ UNCHANGED <<rtc_now, rtc_alarm, rtc_worker, rtc_reply, rtc_thread, rtcQueue>>

RtcGuestBuffer ==
  /\ rtc_avail + rtc_taken + rtc_pool < RtcBuffers
  /\ rtc_avail' = rtc_avail + 1
  /\ UNCHANGED <<rtc_now, rtc_features, rtc_alarm, rtc_worker, rtc_reply, rtc_thread, rtc_taken, rtc_pool>>

RtcNext ==
  \/ RtcBackend
  \/ \E w \in RtcIds : RtcThread(w) \/ RtcSpurious(w)
  \/ \E c \in RtcNames :
       \/ \E r \in RtcRequests : RtcReport(r, c)
       \/ \E e \in BOOLEAN :
            RtcSetAlarmEnabled(c, e) \/ \E t \in RtcTimes : RtcSetAlarm(c, t, e)
  \/ RtcTick \/ RtcGuestBuffer
  \/ \E f \in {"plain", "alarm"} : RtcAckFeatures(f)

RtcSpec == RtcInit /\ [][RtcNext]_RtcVars

\* The threads are scheduled.
RtcFairness ==
  WF_RtcVars(RtcBackend) /\ \A w \in RtcIds : WF_RtcVars(RtcThread(w))

-----------------------------------------------------------------------------
(***************************************************************************)
(* A thread that nobody has cancelled is the alarm's own, and the alarm is *)
(* enabled: however the guest sets it, it never has two that count.        *)
(***************************************************************************)
RtcOneAlarm ==
  \A w \in RtcIds :
    rtc_thread[w].at # "none" /\ ~rtc_thread[w].cancelled =>
      w = rtc_worker /\ rtc_alarm.enabled

(***************************************************************************)
(* No wake-up is lost: while the alarm's thread waits, every buffer in the *)
(* pool has a thread on its way to it, whichever notify_one() has woken.   *)
(***************************************************************************)
RtcEveryBufferWakes ==
  rtc_worker # 0 /\ rtc_worker \in RtcAt("wait") => rtc_pool <= Cardinality(RtcAt("lock"))

\* The alarm as the guest sees it (alarm.rs, backend.rs): one thread that
\* counts, and no buffer without a thread on its way.
RtcInv == RtcTypeOK /\ RtcOneAlarm /\ RtcEveryBufferWakes

(***************************************************************************)
(* An alarm that has expired is told "as soon as an alarmq buffer is       *)
(* available", unless the guest sets the alarm again before that.          *)
(***************************************************************************)
RtcExpirationTold ==
  \A w \in RtcIds :
    (w = rtc_worker /\ w \notin RtcFree /\ rtc_thread[w].due <= rtc_now /\ rtc_pool > 0)
      ~> (w # rtc_worker \/ w \in RtcFree \/ rtc_pool = 0)

(***************************************************************************)
(* "The device MUST stop serving any previous alarm expiration event" once *)
(* the alarm has been disabled: what the guest is told is an expiration of *)
(* the alarm as it is set now.                                             *)
(***************************************************************************)
RtcNothingStale == [][rtc_pool' < rtc_pool => rtc_alarm.time <= rtc_now]_RtcVars

=============================================================================
