-------------------------------- MODULE Template --------------------------------
(***************************************************************************)
(* vhost-device-template, the device others start from: it looks at the    *)
(* requests and does nothing with them.  What is left is how a device      *)
(* empties a queue: with EVENT_IDX it turns the guest's notifications off, *)
(* and on again once nothing new is found (backend.rs).  The driver adds a *)
(* request and then looks whether to notify; the device turns them on and  *)
(* then looks for requests.  The other devices' modules take such a loop   *)
(* for one step, which this one justifies.                                 *)
(***************************************************************************)
EXTENDS Integers

CONSTANTS
  FooQueueSize, \* requests there may be in the queue
  FooRequests   \* bound: requests of a guest, 0 .. FooRequests

ASSUME FooAssumption == FooQueueSize \in Nat /\ FooRequests \in Nat

VARIABLES
  foo_counter,   \* FooInfo: the requests seen
  foo_event_idx, \* what was negotiated
  foo_worker,    \* handle_event(): where it is, "dead" when it has failed
  foo_notify,    \* the queue: whether the driver is to notify,
  foo_kick,      \*   whether it has,
  foo_avail,     \*   what is in it
  foo_driver,    \* the driver: "adding" between adding and notifying
  foo_added      \* history: the requests added

FooVars == <<foo_counter, foo_event_idx, foo_worker, foo_notify, foo_kick, foo_avail,
             foo_driver, foo_added>>

FooTypeOK ==
  /\ foo_counter \in 0 .. FooRequests /\ foo_added \in 0 .. FooRequests
  /\ foo_event_idx \in BOOLEAN /\ foo_notify \in BOOLEAN /\ foo_kick \in BOOLEAN
  /\ foo_worker \in {"idle", "disable", "process", "enable", "recheck", "dead"}
  /\ foo_avail \in 0 .. FooQueueSize
  /\ foo_driver \in {"none", "idle", "adding"}

FooInit ==
  /\ foo_counter = 0 /\ foo_event_idx = FALSE
  /\ foo_worker = "idle" /\ foo_notify = TRUE /\ foo_kick = FALSE
  /\ foo_avail = 0 /\ foo_driver = "none" /\ foo_added = 0

FooNegotiate ==
  /\ foo_driver = "none" /\ foo_driver' = "idle"
  /\ foo_event_idx' \in BOOLEAN
  /\ UNCHANGED <<foo_counter, foo_worker, foo_notify, foo_kick, foo_avail, foo_added>>

FooDriverAdds ==
  /\ foo_driver = "idle" /\ foo_added < FooRequests /\ foo_avail < FooQueueSize
  /\ foo_avail' = foo_avail + 1 /\ foo_added' = foo_added + 1
  /\ foo_driver' = "adding"
  /\ UNCHANGED <<foo_counter, foo_event_idx, foo_worker, foo_notify, foo_kick>>

FooDriverNotifies ==
  /\ foo_driver = "adding" /\ foo_driver' = "idle"
  /\ foo_kick' = (foo_kick \/ foo_notify)
  /\ UNCHANGED <<foo_counter, foo_event_idx, foo_worker, foo_notify, foo_avail, foo_added>>

FooHandleEvent ==
  /\ foo_worker = "idle" /\ foo_kick
  /\ foo_kick' = FALSE
  /\ foo_worker' = IF foo_event_idx THEN "disable" ELSE "process"
  /\ UNCHANGED <<foo_counter, foo_event_idx, foo_notify, foo_avail, foo_driver, foo_added>>

FooDisable ==
  /\ foo_worker = "disable" /\ foo_worker' = "process"
  /\ foo_notify' = FALSE
  /\ UNCHANGED <<foo_counter, foo_event_idx, foo_kick, foo_avail, foo_driver, foo_added>>

\* All that is there is taken out and counted; nothing is put into the used
\* ring, though the guest is notified.
FooProcess ==
  /\ foo_worker = "process"
  /\ foo_counter' = foo_counter + foo_avail /\ foo_avail' = 0
  /\ foo_worker' = IF foo_event_idx THEN "enable" ELSE "idle"
  /\ UNCHANGED <<foo_event_idx, foo_notify, foo_kick, foo_driver, foo_added>>

\* An unreadable queue, or a notification that fails, ends the thread.
FooFail ==
  /\ foo_worker = "process" /\ foo_worker' = "dead"
  /\ UNCHANGED <<foo_counter, foo_event_idx, foo_notify, foo_kick, foo_avail, foo_driver, foo_added>>

FooEnable ==
  /\ foo_worker = "enable" /\ foo_worker' = "recheck"
  /\ foo_notify' = TRUE
  /\ UNCHANGED <<foo_counter, foo_event_idx, foo_kick, foo_avail, foo_driver, foo_added>>

\* Mistake: what enable_notification() says is not looked at.
BugFooRecheck ==
  /\ foo_worker = "recheck" /\ foo_worker' = "idle"
  /\ UNCHANGED <<foo_counter, foo_event_idx, foo_notify, foo_kick, foo_avail, foo_driver, foo_added>>

FooRecheck ==
  /\ foo_worker = "recheck"
  /\ foo_worker' = IF foo_avail > 0 THEN "disable" ELSE "idle"
  /\ UNCHANGED <<foo_counter, foo_event_idx, foo_notify, foo_kick, foo_avail, foo_driver, foo_added>>

\* The guest leaves: the next one gets a new backend with a copy of the
\* FooInfo the daemon has, whose counter nobody has moved.
FooReconnect ==
  /\ foo_driver # "none" /\ foo_driver' = "none"
  /\ foo_counter' = 0 /\ foo_event_idx' = FALSE
  /\ foo_worker' = "idle" /\ foo_notify' = TRUE /\ foo_kick' = FALSE
  /\ foo_avail' = 0 /\ foo_added' = 0

FooNext ==
  \/ FooNegotiate \/ FooDriverAdds \/ FooDriverNotifies
  \/ FooHandleEvent \/ FooDisable \/ FooProcess \/ FooFail \/ FooEnable \/ FooRecheck
  \/ FooReconnect

FooSpec == FooInit /\ [][FooNext]_FooVars

--------------------------------------------------------------------------------
\* A device that rests has been notified of what is in the queue, or the
\* driver has yet to look whether to notify it, and will find that it has.
FooNoneLeft ==
  foo_worker = "idle" /\ foo_avail > 0 => foo_kick \/ (foo_driver = "adding" /\ foo_notify)

\* Notifications are off while the device is sure to look again, only.
FooOffWhileBusy == ~foo_notify => foo_worker \in {"process", "enable", "dead"} /\ foo_event_idx

\* Each request of the guest is counted, once.
FooCounted == foo_counter + foo_avail = foo_added

(***************************************************************************)
(* The loop over the queue, with the notifications off, leaves no request  *)
(* behind, however the driver's steps fall between those of the device.    *)
(***************************************************************************)
FooInv == FooTypeOK /\ FooNoneLeft /\ FooOffWhileBusy /\ FooCounted
=================================================================================
