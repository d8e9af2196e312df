---------------------------------- MODULE Rng ----------------------------------
(***************************************************************************)
(* vhost-device-rng: random bytes for a guest, at most RngMaxBytes of them *)
(* in a period.  A request beyond that makes the thread of the backend     *)
(* sleep until the period is over (vhu_rng.rs).  The bytes and the lock of *)
(* their source, shared by the guests, are left out.                       *)
(***************************************************************************)
EXTENDS Ring, FiniteSetsExt

CONSTANTS
  RngSizes,     \* how much a request may ask for
  RngPeriod,    \* VuRngTimerConfig: the length of a period
  RngMaxBytes,  \*   and what may be read in one
  RngQueueSize,
  RngHorizon    \* bound: the time at which the model ends

ASSUME RngAssumption ==
  /\ RngSizes \subseteq Nat /\ RngPeriod \in Nat \ {0} /\ RngMaxBytes \in Nat
  /\ RngQueueSize \in Nat /\ RngHorizon \in Nat

VARIABLES
  rng_now,
  rng_start,  \* VuRngTimerConfig: when the period began
  rng_quota,  \*   and what is left of it
  rng_worker, \* where the thread is: "run", "sleep" or "dead" of an error
  rng_wake,   \* until when it sleeps
  rng_ring,
  rng_log     \* history: for each instant, the bytes given to the guest by then

RngVars == <<rng_now, rng_start, rng_quota, rng_worker, rng_wake, rng_ring, rng_log>>

RngTimes == 0 .. RngHorizon
\* RngBad is a request that has not just one buffer to write to.
RngBad    == -1
RngChains == RngSizes \cup {RngBad}

RngTypeOK ==
  /\ rng_now \in RngTimes /\ rng_start \in RngTimes
  /\ rng_quota \in 0 .. RngMaxBytes
  /\ rng_worker \in {"run", "sleep", "dead"} /\ rng_wake \in 0 .. RngHorizon + RngPeriod
  /\ rng_ring \in RingType(RngChains, RngQueueSize)
  /\ rng_log \in [RngTimes -> Nat]

RngInit ==
  /\ rng_now = 0 /\ rng_start = 0 /\ rng_quota = RngMaxBytes
  /\ rng_worker = "run" /\ rng_wake = 0
  /\ rng_ring = EmptyRing
  /\ rng_log = [t \in RngTimes |-> 0]

-----------------------------------------------------------------------------
RngCollect ==
  /\ rng_worker = "run" /\ CanCollect(rng_ring)
  /\ rng_ring' = Collect(rng_ring)
  /\ UNCHANGED <<rng_now, rng_start, rng_quota, rng_worker, rng_wake, rng_log>>

RngServing == rng_worker = "run" /\ Serving(rng_ring)

RngPeriodOver == rng_now - rng_start >= RngPeriod

\* A malformed request, or a source that cannot be read, ends the thread and
\* strands the rest of the batch.
RngFail ==
  /\ RngServing
  /\ rng_worker' = "dead"
  /\ UNCHANGED <<rng_now, rng_start, rng_quota, rng_wake, rng_ring, rng_log>>

RngSleep ==
  /\ RngServing /\ Request(rng_ring) # RngBad
  /\ ~RngPeriodOver /\ rng_quota = 0
  /\ rng_worker' = "sleep" /\ rng_wake' = rng_start + RngPeriod
  /\ UNCHANGED <<rng_now, rng_start, rng_quota, rng_ring, rng_log>>

\* The bytes are read and given to the guest, at "now", of a period that
\* began at "start" and has "quota" left.
RngGive(start, quota) ==
  \E len \in 0 .. Min({Request(rng_ring), quota}) :
    /\ rng_start' = start /\ rng_quota' = quota - len
    /\ rng_log' = [t \in RngTimes |-> IF t < rng_now THEN rng_log[t] ELSE rng_log[t] + len]
    /\ rng_ring' = AddUsed(rng_ring)
    /\ UNCHANGED <<rng_now, rng_wake>>

RngServe ==
  /\ RngServing /\ Request(rng_ring) # RngBad
  /\ RngPeriodOver \/ rng_quota > 0
  /\ IF RngPeriodOver THEN RngGive(rng_now, RngMaxBytes) ELSE RngGive(rng_start, rng_quota)
  /\ UNCHANGED rng_worker

\* Mistake: the new period is taken to begin with the sleep.
BugRngWakeUp ==
  /\ rng_worker = "sleep" /\ rng_wake <= rng_now
  /\ RngGive(rng_start, RngMaxBytes)
  /\ rng_worker' = "run"

\* After the sleep the request is served from a new quota.
RngWakeUp ==
  /\ rng_worker = "sleep" /\ rng_wake <= rng_now
  /\ RngGive(rng_now, RngMaxBytes)
  /\ rng_worker' = "run"

RngSignal ==
  /\ rng_worker = "run" /\ CanSignal(rng_ring)
  /\ rng_ring' = SignalUsed(rng_ring)
  /\ UNCHANGED <<rng_now, rng_start, rng_quota, rng_worker, rng_wake, rng_log>>

-----------------------------------------------------------------------------
\* Time and the guest (external).
RngTick ==
  /\ rng_now < RngHorizon
  /\ rng_now' = rng_now + 1
  /\ UNCHANGED <<rng_start, rng_quota, rng_worker, rng_wake, rng_ring, rng_log>>

RngGuest ==
  /\ Outstanding(rng_ring) < RngQueueSize
  /\ \E r \in RngChains : rng_ring' = Offer(rng_ring, r)
  /\ UNCHANGED <<rng_now, rng_start, rng_quota, rng_worker, rng_wake, rng_log>>

RngNext ==
  \/ RngCollect \/ RngFail \/ RngSleep \/ RngServe \/ RngWakeUp \/ RngSignal
  \/ RngTick \/ RngGuest

RngSpec == RngInit /\ [][RngNext]_RngVars

-----------------------------------------------------------------------------
RngGivenBefore(t)     == IF t = 0 THEN 0 ELSE rng_log[t - 1]
RngGiven(first, last) == rng_log[last] - RngGivenBefore(first)

(***************************************************************************)
(* "Maximum amount of byte that can be transferred in a period": the guest *)
(* gets no more in a period of the timer, and so at most twice as much in  *)
(* any stretch of that length, wherever it sleeps and wakes in between.    *)
(***************************************************************************)
RngRateKept ==
  \A t \in RngTimes :
    RngGiven(t, Min({t + RngPeriod - 1, RngHorizon})) <= 2 * RngMaxBytes

\* The limit on the guest's share of the source (VuRngBackend).
RngInv == RngTypeOK /\ RngRateKept

=============================================================================
