---------------------------------- MODULE Can ----------------------------------
(***************************************************************************)
(* vhost-device-can (vhu_can.rs, can.rs): a thread reads frames off a CAN  *)
(* socket into rx_fifo while the device is started, and the vring thread   *)
(* gives them to the guest, sends the guest's frames and starts and stops  *)
(* the device for it.  They share the controller under an RwLock that each *)
(* of them takes and lets go of several times for one frame.               *)
(*                                                                         *)
(* A CAN id is 0 (fits a standard frame), 1 (an extended one) or 2         *)
(* (neither); of the data of a frame only the length is kept.              *)
(***************************************************************************)
EXTENDS Integers, Sequences, FiniteSets, SequencesExt

CONSTANTS
  CanBusFrames, \* the frames that other nodes may put on the bus
  CanTxFrames,  \* the frames that the guest may send
  CanBuffers,   \* the buffers of the guest's receive queue
  CanBusLimit,  \* bound: frames on the bus
  CanRequests   \* bound: requests of the guest

ASSUME CanAssumption == CanBuffers \in Nat /\ CanBusLimit \in Nat /\ CanRequests \in Nat

VARIABLES
  can_run,      \* NoRun, or the event_idx and features the guest chose
  can_worker,   \* the vring thread: idle, at a round for its queue, or dead
  can_reader,   \* the reader: its step, and the frame it holds
  can_started,  \* ctrl_state is CAN_CS_STARTED
  can_busoff,   \* config.status is VIRTIO_CAN_S_CTRL_BUSOFF
  can_fifo,     \* rx_fifo
  can_event,    \* rx_event_fd is set
  can_rx,       \* the receive queue: buffers in it, and whether it was kicked
  can_lost,     \* buffers that were taken out and not given back
  can_request,  \* the request that the guest waits for
  can_requests, \* number of requests so far
  can_bus,      \* number of frames on the bus so far
  can_got,      \* history: the frames the guest has got
  can_sent,     \* history: requests whose frame went out to the bus
  can_acked,    \* history: requests answered VIRTIO_CAN_RESULT_OK
  can_late,     \* history: frames put in the fifo since the last stop
  can_missed    \* history: an event or a kick was ignored as the device was stopped

canBack == <<can_run, can_lost, can_requests, can_request, can_acked, can_sent>>
canCtrl == <<can_started, can_busoff>>
canRead == <<can_reader, can_bus, can_late>>
CanVars == <<canBack, canCtrl, canRead, can_worker, can_fifo, can_event, can_rx, can_got, can_missed>>

NoRun   == [up |-> FALSE, idx |-> FALSE, features |-> {}]

CanInit ==
  /\ can_run = NoRun /\ can_worker = "idle" /\ can_reader = [at |-> "none", frame |-> <<>>]
  /\ can_started = FALSE /\ can_busoff = FALSE /\ can_fifo = <<>> /\ can_event = FALSE
  /\ can_rx = [avail |-> 0, kick |-> FALSE] /\ can_lost = 0
  /\ can_request = <<>> /\ can_requests = 0 /\ can_bus = 0
  /\ can_got = <<>> /\ can_sent = <<>> /\ can_acked = <<>> /\ can_late = 0 /\ can_missed = FALSE

-----------------------------------------------------------------------------
(* The checks of frames.  CANFD_VALID_LENGTHS are those above 8 bytes.     *)

CanFdLengths == {12, 16, 20, 24, 32, 48, 64}
CanLength(fd, len) == len <= 8 \/ (fd /\ len \in CanFdLengths)

\* check_tx_frame()
CanCheckTx(features, f) ==
  /\ f.type = "TX" /\ "other" \notin f.flags
  /\ f.id <= (IF "EXTENDED" \in f.flags THEN 1 ELSE 0)
  /\ "RTR" \in f.flags => {"CLASSIC", "RTR"} \subseteq features
  /\ (IF "FD" \in f.flags THEN "FD" ELSE "CLASSIC") \in features
  /\ CanLength("FD" \in f.flags, f.len)

\* can_out(): the frame on the bus.
CanOut(f) ==
  [extended |-> "EXTENDED" \in f.flags, id |-> f.id, fd |-> "FD" \in f.flags,
   rtr |-> {"EXTENDED", "RTR"} \subseteq f.flags, error |-> "none", len |-> f.len]

\* check_rx_frame(), but for the error frames
CanCheckRx(features, h) ==
  /\ h.error = "none"
  /\ (IF h.fd THEN "FD" ELSE "CLASSIC") \in features
  /\ h.rtr => {"CLASSIC", "RTR"} \subseteq features
  /\ CanLength(h.fd, h.len)

CanIn(h) ==
  [type |-> "TX", id |-> h.id, len |-> h.len,
   flags |-> {g \in {"EXTENDED", "RTR", "FD"} :
                CASE g = "EXTENDED" -> h.extended [] g = "RTR" -> h.rtr [] g = "FD" -> h.fd}]

-----------------------------------------------------------------------------
(* The thread that reads the socket, read_can_socket().                    *)

\* Mistake: the state is not looked at.
BugCanRead(h) ==
  /\ can_reader.at = "reading" /\ can_bus < CanBusLimit
  /\ can_bus' = can_bus + 1
  /\ can_reader' = [at |-> "push", frame |-> <<[n |-> can_bus + 1, frame |-> h]>>]
  /\ UNCHANGED <<canBack, canCtrl, can_worker, can_fifo, can_event, can_rx, can_got, can_late, can_missed>>

\* read_frame(), and what is read while the device is stopped is dropped.
CanRead(h) ==
  /\ can_reader.at = "reading" /\ can_bus < CanBusLimit
  /\ can_bus' = can_bus + 1
  /\ can_reader' = IF can_started
       THEN [at |-> "push", frame |-> <<[n |-> can_bus + 1, frame |-> h]>>] ELSE can_reader
  /\ UNCHANGED <<canBack, canCtrl, can_worker, can_fifo, can_event, can_rx, can_got, can_late, can_missed>>

\* push(), under the lock taken anew
CanPush ==
  /\ can_reader.at = "push"
  /\ can_fifo' = can_fifo \o can_reader.frame
  /\ can_reader' = [at |-> "event", frame |-> <<>>]
  /\ can_late' = can_late + (IF can_started THEN 0 ELSE 1)
  /\ UNCHANGED <<canBack, canCtrl, can_worker, can_event, can_rx, can_got, can_bus, can_missed>>

CanEvent ==
  /\ can_reader.at = "event"
  /\ can_event' = TRUE /\ can_reader' = [can_reader EXCEPT !.at = "reading"]
  /\ UNCHANGED <<canBack, canCtrl, can_worker, can_fifo, can_rx, can_got, can_bus, can_late, can_missed>>

-----------------------------------------------------------------------------
(* The vring thread.                                                       *)

CanIdle == can_run.up /\ can_worker = "idle"

\* handle_event() for the receive queue: nothing while the device is
\* stopped, but that the event of the reader is read.
CanHandle(on) ==
  /\ CanIdle
  /\ IF on = "kick" THEN can_rx.kick ELSE can_event
  /\ can_rx' = IF on = "kick" THEN [can_rx EXCEPT !.kick = FALSE] ELSE can_rx
  /\ can_event' = (can_event /\ on = "kick")
  /\ can_worker' = IF can_started /\ (on = "event" \/ can_fifo # <<>>) THEN "process" ELSE "idle"
  /\ can_missed' = (can_missed \/ ~can_started)
  /\ UNCHANGED <<canBack, canCtrl, canRead, can_fifo, can_got>>

\* process_rx_queue() and process_rx_requests(): the chains are all taken
\* out; those that no frame is left for are lost, and a frame that does not
\* pass ends the thread.
CanServed == SubSeq(can_fifo, 1, IF Len(can_fifo) < can_rx.avail THEN Len(can_fifo) ELSE can_rx.avail)
CanBad    == {i \in DOMAIN CanServed : ~CanCheckRx(can_run.features, CanServed[i].frame)}
CanTakes(n) ==
  IF CanBad = {} THEN n = Len(CanServed) ELSE n \in CanBad /\ \A j \in CanBad : n <= j

CanProcess ==
  /\ can_worker = "process"
  /\ \E n \in 0 .. Len(CanServed) :
       LET given == IF CanBad = {} THEN n ELSE n - 1
       IN  /\ CanTakes(n)
           /\ can_fifo' = SubSeq(can_fifo, n + 1, Len(can_fifo))
           /\ can_got' = can_got \o SubSeq(CanServed, 1, given)
           /\ can_lost' = can_lost + can_rx.avail - given
           /\ IF CanBad # {} /\ CanServed[n].frame.error = "busoff"
              THEN can_busoff' = TRUE /\ can_started' = FALSE
              ELSE UNCHANGED canCtrl
  /\ can_rx' = [can_rx EXCEPT !.avail = 0]
  /\ can_worker' = IF CanBad # {} THEN "dead" ELSE IF can_run.idx THEN "enable" ELSE "idle"
  /\ UNCHANGED <<can_run, can_requests, can_request, can_acked, can_sent, can_reader, can_bus, can_event, can_missed>>
  /\ can_late' = IF can_started' = can_started THEN can_late ELSE 0

CanEnable ==
  /\ can_worker = "enable"
  /\ can_worker' = IF can_rx.avail > 0 THEN "process" ELSE "idle"
  /\ UNCHANGED <<canBack, canCtrl, canRead, can_fifo, can_event, can_rx, can_got, can_missed>>

\* process_ctrl_requests(), for one request.  The fifo is left as it is.
CanControl ==
  /\ CanIdle /\ can_request # <<>> /\ Head(can_request) = "ctrl"
  /\ LET ok == can_request[2] = (IF can_started THEN "STOP" ELSE "START")
     IN  /\ can_started' = (can_started # ok)
         /\ can_busoff' = (can_busoff /\ ~ok)
         /\ can_late' = IF ok /\ can_started THEN 0 ELSE can_late
  /\ can_request' = <<>>
  /\ UNCHANGED <<can_run, can_lost, can_requests, can_sent, can_acked, can_reader, can_bus, can_worker,
                 can_fifo, can_event, can_rx, can_got, can_missed>>

\* process_tx_requests(), for one request: what cannot be sent counts as a
\* bus-off.
CanSend ==
  /\ CanIdle /\ can_request # <<>> /\ Head(can_request) = "tx"
  /\ can_request' = <<>>
  /\ \/ /\ can_started /\ CanCheckTx(can_run.features, can_request[2])
        /\ can_sent' = Append(can_sent, can_requests) /\ can_acked' = Append(can_acked, can_requests)
        /\ UNCHANGED <<canCtrl, can_late>>
     \/ /\ can_started        \* does not pass, or the socket fails
        /\ can_started' = FALSE /\ can_busoff' = TRUE /\ can_late' = 0
        /\ UNCHANGED <<can_sent, can_acked>>
     \/ ~can_started /\ UNCHANGED <<canCtrl, can_sent, can_acked, can_late>>
  /\ UNCHANGED <<can_run, can_lost, can_requests, can_reader, can_bus, can_worker,
                 can_fifo, can_event, can_rx, can_got, can_missed>>

-----------------------------------------------------------------------------
(* The guest (external), and the life of the daemon.                       *)

\* start_backend_server(): a new controller, and a new reader, whose own
\* socket may fail to open.
CanStart ==
  /\ ~can_run.up /\ can_reader.at = "none"
  /\ \E idx \in BOOLEAN, features \in {{"CLASSIC"}, {"CLASSIC", "FD"}} :
       can_run' = [up |-> TRUE, idx |-> idx, features |-> features]
  /\ \E at \in {"reading", "failed"} : can_reader' = [can_reader EXCEPT !.at = at]
  /\ UNCHANGED <<can_lost, can_requests, can_request, can_acked, can_sent, can_bus, can_late, canCtrl,
                 can_worker, can_fifo, can_event, can_rx, can_got, can_missed>>

\* serve() returns; exit_read_thread() and join().
CanStop ==
  /\ can_run.up /\ can_worker \in {"idle", "dead"}
  /\ can_run' = NoRun
  /\ UNCHANGED <<can_lost, can_requests, can_request, can_acked, can_sent, canCtrl, canRead,
                 can_worker, can_fifo, can_event, can_rx, can_got, can_missed>>

CanJoin ==
  /\ ~can_run.up /\ can_reader.at \in {"reading", "failed"}
  /\ can_reader' = [can_reader EXCEPT !.at = "none"]
  /\ can_worker' = "idle" /\ can_started' = FALSE /\ can_busoff' = FALSE /\ can_fifo' = <<>>
  /\ can_event' = FALSE /\ can_rx' = [avail |-> 0, kick |-> FALSE] /\ can_lost' = 0 /\ can_request' = <<>>
  /\ can_got' = <<>> /\ can_sent' = <<>> /\ can_acked' = <<>> /\ can_late' = 0 /\ can_missed' = FALSE
  /\ UNCHANGED <<can_run, can_requests, can_bus>>

CanGuestBuffer ==
  /\ can_run.up /\ can_rx.avail + can_lost < CanBuffers
  /\ can_rx' = [avail |-> can_rx.avail + 1, kick |-> TRUE]
  /\ UNCHANGED <<canBack, canCtrl, canRead, can_worker, can_fifo, can_event, can_got, can_missed>>

CanGuestRequest(kind, r) ==
  /\ can_run.up /\ can_request = <<>> /\ can_requests < CanRequests
  /\ can_request' = <<kind, r>> /\ can_requests' = can_requests + 1
  /\ UNCHANGED <<can_run, can_lost, can_acked, can_sent, canCtrl, canRead, can_worker, can_fifo,
                 can_event, can_rx, can_got, can_missed>>

CanNext ==
  \/ \E h \in CanBusFrames : CanRead(h)
  \/ CanPush \/ CanEvent
  \/ \E on \in {"kick", "event"} : CanHandle(on)
  \/ CanProcess \/ CanEnable \/ CanControl \/ CanSend
  \/ CanStart \/ CanStop \/ CanJoin \/ CanGuestBuffer
  \/ \E m \in {"START", "STOP", "unknown"} : CanGuestRequest("ctrl", m)
  \/ \E f \in CanTxFrames : CanGuestRequest("tx", f)

CanSpec == CanInit /\ [][CanNext]_CanVars

-----------------------------------------------------------------------------
CanTypeOK ==
  /\ can_run.up \in BOOLEAN /\ can_run.features \subseteq {"CLASSIC", "FD"}
  /\ can_worker \in {"idle", "process", "enable", "dead"}
  /\ can_reader.at \in {"none", "reading", "failed", "push", "event"}
  /\ can_started \in BOOLEAN /\ can_busoff \in BOOLEAN /\ can_event \in BOOLEAN /\ can_missed \in BOOLEAN
  /\ can_rx.avail \in 0 .. CanBuffers /\ can_lost \in 0 .. CanBuffers
  /\ can_requests \in 0 .. CanRequests /\ can_bus \in 0 .. CanBusLimit /\ can_late \in Nat

\* Frames reach the guest in the order they were read and once each, though
\* the fifo is filled and emptied under separate locks.
CanInOrder ==
  LET all == can_got \o can_fifo \o can_reader.frame
  IN  \A i \in 1 .. Len(all) - 1 : all[i].n < all[i + 1].n

\* The reader looks at the state under one lock and pushes under another:
\* one frame may slip in after a stop, and no more than one.
CanOneLate == can_late <= 1

\* A bus-off stops the device until the guest starts it again.
CanBusOffStops == can_busoff => ~can_started

\* A frame in the fifo and a buffer for it: the thread is at the queue, or
\* has an event or a kick to come, unless it ignored one while stopped.
CanComesBack ==
  (can_run.up /\ can_worker = "idle" /\ can_started /\ can_fifo # <<>> /\ can_rx.avail > 0) =>
    can_event \/ can_rx.kick \/ can_reader.at = "event" \/ can_missed

CanFrames == [type : {"TX", "other"}, flags : SUBSET {"EXTENDED", "RTR", "FD", "other"},
              id : 0 .. 2, len : {0, 8, 9, 12, 13, 64, 65}]

\* What one device accepts from its guest, another with the same features
\* accepts from the bus, as the same frame.
CanRoundTrip ==
  \A features \in {{"CLASSIC"}, {"FD"}, {"CLASSIC", "FD"}}, f \in CanFrames :
    CanCheckTx(features, f) =>
      CanCheckRx(features, CanOut(f)) /\ CanIn(CanOut(f)) = f

\* The guest is told that a frame was sent exactly when it was.
CanAckedSent == can_acked = can_sent

\* The controller between the bus and the guest (can.rs, vhu_can.rs): order,
\* stops, wake-ups, and the same frame on both sides.
CanInv ==
  CanTypeOK /\ CanInOrder /\ CanOneLate /\ CanBusOffStops /\ CanComesBack /\ CanRoundTrip /\ CanAckedSent

=============================================================================
