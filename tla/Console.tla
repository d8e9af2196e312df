-------------------------------- MODULE Console --------------------------------
(***************************************************************************)
(* vhost-device-console (vhu_console.rs): what is typed at the host goes   *)
(* through a fifo to the guest's receive queue, the replies to its control *)
(* messages through another one to the control receive queue, and what it  *)
(* prints to the terminal or to the client of a TCP port.  One thread      *)
(* handles the kicks of the guest, the backend's own eventfds and the host *)
(* side; between two rounds of its EVENT_IDX loop the guest may add        *)
(* buffers, which is why a round is a step.                                *)
(*                                                                         *)
(* Bytes and chunks of output are numbers.  A buffer of the receive queue  *)
(* has room for all there is, one of the control queue is for one message. *)
(***************************************************************************)
EXTENDS Integers, Sequences, SequencesExt, FiniteSetsExt

CONSTANTS
  ConBuffers, \* the buffers the guest has for each of its receive queues
  ConScopes   \* bound: what happens at most, the bytes that are typed, the
              \* buffers of output and whether the guest opens the port

ASSUME ConAssumption ==
  ConBuffers \in Nat /\ ConScopes \subseteq [bytes : Nat, chunks : Nat, control : BOOLEAN]

VARIABLES
  con_mode,    \* BackendType, event_idx and the scope, or NotStarted
  con_fifo,    \* rx_data_fifo and rx_ctrl_fifo
  con_event,   \* rx_event and rx_ctrl_event are set
  con_avail,   \* the buffers in the two receive queues
  con_kick,    \* the guest has kicked
  con_notify,  \* it is to kick
  con_lost,    \* buffers taken out of the queue and not given back
  con_twice,   \* used entries too many: a buffer with n bytes is given back n times
  con_got,     \* history: what the device has put into the guest's buffers
  con_at,      \* the thread: idle, or at a round for a queue
  con_ready,   \* ready
  con_write,   \* ready_to_write
  con_typed,   \* the bytes typed so far
  con_request, \* the message in the guest's control transmit queue
  con_replies, \* history: the replies it has coming
  con_raw,     \* the terminal is in raw mode
  con_stream,  \* stream: "none", of a "client", or of one that has "left"
  con_polled,  \* stream_fd is registered with epoll
  con_out,     \* output_queue
  con_sent,    \* the chunks of output the guest has sent
  con_waited,  \* history: how many of them waited for the first client
  con_printed, \* history: what has been written to the terminal or client
  con_dropped  \* history: what has been written to a client that had left

conRx   == <<con_fifo, con_event, con_avail, con_kick, con_notify, con_lost, con_twice, con_got>>
conCtl  == <<con_ready, con_request, con_replies>>
conText == <<con_out, con_sent, con_waited, con_printed, con_dropped>>
conOut  == <<con_raw, con_stream, con_polled, conText>>
ConVars == <<con_mode, conRx, con_at, con_write, con_typed, conCtl, conOut>>

ConQueues  == {"rx", "ctrl"}
NotStarted == [backend |-> "none", idx |-> FALSE,
               scope |-> [bytes |-> 0, chunks |-> 0, control |-> FALSE]]
ConDead    == [NotStarted EXCEPT !.backend = "dead"]  \* the thread is over
ConEnded   == [NotStarted EXCEPT !.backend = "ended"] \* the process is
ConStarted == con_mode.backend \in {"nested", "network"}
ConIdle    == [queue |-> "none", on |-> "none", at |-> "idle"]
\* VIRTIO_CONSOLE_*: the messages of the guest and the replies.
ConMessages == {"DEVICE_READY", "PORT_READY", "PORT_OPEN", "failed", "unknown"}
ConReplyNames == {"PORT_ADD", "CONSOLE_PORT", "PORT_NAME", "OPEN"}
ConReplies(m) ==
  CASE m = "DEVICE_READY" -> <<"PORT_ADD">>
    [] m = "PORT_READY"   -> <<"CONSOLE_PORT", "PORT_NAME", "OPEN">>
    [] OTHER              -> <<>>

ConInit ==
  /\ con_mode = NotStarted
  /\ con_fifo = [q \in ConQueues |-> <<>>] /\ con_event = [q \in ConQueues |-> FALSE]
  /\ con_avail = [q \in ConQueues |-> 0] /\ con_kick = [q \in ConQueues |-> FALSE]
  /\ con_notify = [q \in ConQueues |-> TRUE] /\ con_lost = [q \in ConQueues |-> 0]
  /\ con_twice = 0 /\ con_got = [q \in ConQueues |-> <<>>]
  /\ con_at = ConIdle /\ con_ready = FALSE /\ con_write = FALSE
  /\ con_typed = 0 /\ con_request = "none" /\ con_replies = <<>>
  /\ con_raw = FALSE /\ con_stream = "none" /\ con_polled = FALSE
  /\ con_out = <<>> /\ con_sent = 0 /\ con_waited = 0 /\ con_printed = <<>> /\ con_dropped = {}

ConRunning == ConStarted /\ con_at = ConIdle

-----------------------------------------------------------------------------
(***************************************************************************)
(* process_rx_requests() and process_ctrl_rx_requests(): all buffers are   *)
(* taken out, and those that nothing is left for are dropped.  For the     *)
(* receive queue add_used() is inside the loop over the bytes, so that a   *)
(* buffer is given back with each byte, with a length that grows.          *)
(***************************************************************************)
\* Mistake: the replies are taken from the end.
BugConServed(q) ==
  IF con_avail[q] = 0 THEN <<>>
  ELSE IF q = "rx" THEN con_fifo[q]
  ELSE Reverse(SubSeq(con_fifo[q], 1, Min({con_avail[q], Len(con_fifo[q])})))

ConServed(q) ==
  IF con_avail[q] = 0 THEN <<>>
  ELSE IF q = "rx" THEN con_fifo[q]
  ELSE SubSeq(con_fifo[q], 1, Min({con_avail[q], Len(con_fifo[q])}))

ConBuffersUsed(q) == IF q = "rx" THEN Min({1, Len(ConServed(q))}) ELSE Len(ConServed(q))

\* process_rx_queue() and process_ctrl_rx_queue()
ConCollect(q) == con_avail' = [con_avail EXCEPT ![q] = 0]

ConProcess(q) ==
  LET out == ConServed(q)
  IN  /\ con_got' = [con_got EXCEPT ![q] = @ \o out]
      /\ con_fifo' = [con_fifo EXCEPT ![q] = SubSeq(@, Len(out) + 1, Len(@))]
      /\ con_lost' = [con_lost EXCEPT ![q] = @ + con_avail[q] - ConBuffersUsed(q)]
      /\ ConCollect(q)
      /\ con_twice' = con_twice + IF q = "rx" THEN Len(out) - ConBuffersUsed(q) ELSE 0

\* handle_event() is called for a kick of the queue or for its eventfd.
ConHandle(q, on) ==
  /\ ConRunning
  /\ IF on = "kick" THEN con_kick[q] ELSE con_event[q]
  /\ con_kick' = IF on = "kick" THEN [con_kick EXCEPT ![q] = FALSE] ELSE con_kick
  /\ con_at' = [queue |-> q, on |-> on, at |-> "process"]
  /\ UNCHANGED <<con_mode, con_fifo, con_event, con_avail, con_notify, con_lost, con_twice,
                 con_got, con_write, con_typed, conCtl, conOut>>

\* A kick that finds nothing to send; the notifications stay disabled.
ConNothing(q) == con_fifo[q] = <<>> \/ (q = "ctrl" /\ ~con_ready)

ConBreak ==
  /\ con_at.at = "process" /\ con_at.on = "kick" /\ con_mode.idx /\ ConNothing(con_at.queue)
  /\ con_notify' = [con_notify EXCEPT ![con_at.queue] = FALSE]
  /\ con_at' = ConIdle
  /\ UNCHANGED <<con_mode, con_fifo, con_event, con_avail, con_kick, con_lost, con_twice,
                 con_got, con_write, con_typed, conCtl, conOut>>

ConRound ==
  /\ con_at.at = "process"
  /\ ~(con_at.on = "kick" /\ con_mode.idx /\ ConNothing(con_at.queue))
  /\ ConProcess(con_at.queue)
  /\ con_event' = IF con_at.on = "event" THEN [con_event EXCEPT ![con_at.queue] = FALSE] ELSE con_event
  /\ con_notify' = IF con_mode.idx THEN [con_notify EXCEPT ![con_at.queue] = FALSE] ELSE con_notify
  /\ con_at' = IF con_mode.idx THEN [con_at EXCEPT !.at = "enable"] ELSE ConIdle
  /\ UNCHANGED <<con_mode, con_kick, con_write, con_typed, conCtl, conOut>>

\* enable_notification(), and another round if there are buffers by now.
ConEnable ==
  /\ con_at.at = "enable"
  /\ con_notify' = [con_notify EXCEPT ![con_at.queue] = TRUE]
  /\ con_at' = IF con_avail[con_at.queue] > 0 THEN [con_at EXCEPT !.at = "process"] ELSE ConIdle
  /\ UNCHANGED <<con_mode, con_fifo, con_event, con_avail, con_kick, con_lost, con_twice,
                 con_got, con_write, con_typed, conCtl, conOut>>

-----------------------------------------------------------------------------
\* handle_control_msg() and process_ctrl_tx_requests(); a message that is
\* not known ends the thread.
ConAnswer(m) ==
  /\ con_ready' = (con_ready \/ m = "DEVICE_READY")
  /\ con_replies' = con_replies \o ConReplies(m)
  /\ con_fifo' = [con_fifo EXCEPT !["ctrl"] = @ \o ConReplies(m)]
  /\ con_event' = [con_event EXCEPT !["ctrl"] = m # "unknown"]
  /\ con_mode' = IF m = "unknown" THEN ConDead ELSE con_mode

\* process_ctrl_tx_queue()
ConControl ==
  /\ ConRunning /\ con_request # "none"
  /\ con_request' = "none"
  /\ ConAnswer(con_request)
  /\ UNCHANGED <<con_avail, con_kick, con_notify, con_lost, con_twice, con_got, con_at,
                 con_write, con_typed, conOut>>

\* write_tcp_stream() with what is in the queue, from its end.
ConWriteStream(queue) ==
  /\ con_out' = IF con_stream' = "none" THEN queue ELSE <<>>
  /\ con_printed' = IF con_stream' = "client" THEN con_printed \o Reverse(queue) ELSE con_printed
  /\ con_dropped' = IF con_stream' = "left" THEN con_dropped \union ToSet(queue) ELSE con_dropped

\* process_tx_requests()
ConPrint(chunk) ==
  /\ UNCHANGED <<con_stream, con_polled>>
  /\ IF con_mode.backend = "nested"
     THEN con_printed' = Append(con_printed, chunk) /\ UNCHANGED <<con_out, con_waited, con_dropped>>
     ELSE /\ ConWriteStream(Append(con_out, chunk))
          /\ con_waited' = IF con_stream = "none" THEN chunk ELSE con_waited

\* process_tx_queue()
ConOutput ==
  /\ ConRunning /\ con_sent < con_mode.scope.chunks
  /\ con_sent' = con_sent + 1 /\ con_write' = TRUE
  /\ ConPrint(con_sent + 1)
  /\ UNCHANGED <<con_mode, conRx, con_at, con_typed, conCtl, con_raw>>

\* Mistake: what was waiting for a client is not written.
BugConAccept ==
  /\ ConRunning /\ con_mode.backend = "network"
  /\ con_stream' \in {"client", "left"} /\ con_polled' = TRUE /\ UNCHANGED conText
  /\ UNCHANGED <<con_mode, conRx, con_at, con_write, con_typed, conCtl, con_raw>>

\* create_new_stream_thread(); a client before this one is forgotten, and
\* this one may have left by now.
ConAccept ==
  /\ ConRunning /\ con_mode.backend = "network"
  /\ con_stream' \in {"client", "left"} /\ con_polled' = TRUE /\ ConWriteStream(con_out)
  /\ UNCHANGED <<con_mode, conRx, con_at, con_write, con_typed, conCtl, con_sent, con_waited, con_raw>>

\* The client leaves (external).  What is written to it then, its socket
\* takes or refuses, and is lost.
ConLeave ==
  /\ ConStarted /\ con_stream = "client"
  /\ con_stream' = "left"
  /\ UNCHANGED <<con_mode, conRx, con_at, con_write, con_typed, conCtl, con_raw, con_polled, conText>>

\* read_tcp_stream() at the end of the stream: the client has left, or has
\* said that it types no more.  The stream is kept.
ConEof ==
  /\ ConRunning /\ con_polled
  /\ con_polled' = FALSE
  /\ UNCHANGED <<con_mode, conRx, con_at, con_write, con_typed, conCtl, con_raw, con_stream, conText>>

\* epoll_register() and epoll_unregister(): what the thread listens to, the
\* terminal or the client.
ConWatched ==
  (IF con_mode.backend = "nested" THEN {"terminal"} ELSE {})
    \union (IF con_polled THEN {"client"} ELSE {})

\* How much is read at once: a character or a buffer.
ConReadable(f) == IF f = "terminal" THEN 1 ELSE con_mode.scope.bytes

\* read_tcp_stream() and read_char_thread(): what is typed before the guest
\* has sent anything is dropped.
ConType ==
  /\ ConRunning
  /\ \E f \in ConWatched : \E n \in 1 .. ConReadable(f) :
       /\ con_typed + n <= con_mode.scope.bytes
       /\ con_typed' = con_typed + n
       /\ con_fifo' = IF con_write
            THEN [con_fifo EXCEPT !["rx"] = @ \o [i \in 1 .. n |-> con_typed + i]] ELSE con_fifo
  /\ con_event' = IF con_write THEN [con_event EXCEPT !["rx"] = TRUE] ELSE con_event
  /\ UNCHANGED <<con_mode, con_avail, con_kick, con_notify, con_lost, con_twice, con_got, con_at,
                 con_write, conCtl, conOut>>

-----------------------------------------------------------------------------
\* The end: read_char_thread() ends the process at ^C, when the daemon is
\* done prepare_exit() is called.  Both leave the terminal as it was.
ConInterrupt ==
  /\ ConRunning /\ "terminal" \in ConWatched
  /\ con_raw' = FALSE
  /\ con_mode' = ConEnded
  /\ UNCHANGED <<conRx, con_at, con_write, con_typed, conCtl, con_stream, con_polled, conText>>

ConPrepareExit ==
  /\ ConRunning \/ con_mode = ConDead
  /\ con_raw' = FALSE
  /\ con_mode' = ConEnded
  /\ UNCHANGED <<conRx, con_at, con_write, con_typed, conCtl, con_stream, con_polled, conText>>

\* assign_input_method()
ConInputMethod(backend) == con_raw' = (backend = "nested")

\* The start of the daemon, and the guest (external): it answers the add of
\* the port, and gives its buffers again and again, each time it is told of a
\* used one.  Guests that stop at a buffer used twice are among these.
ConStart(backend, idx, scope) ==
  /\ con_mode = NotStarted
  /\ con_mode' = [backend |-> backend, idx |-> idx, scope |-> scope]
  /\ ConInputMethod(backend)
  /\ UNCHANGED <<conRx, con_at, con_write, con_typed, conCtl, con_stream, con_polled, conText>>

ConGuestBuffer(q) ==
  /\ ConStarted
  /\ IF q = "ctrl" THEN con_mode.scope.control ELSE con_mode.scope.bytes > 0
  /\ con_avail[q] + con_lost[q] < ConBuffers + IF q = "rx" THEN con_twice ELSE 0
  /\ con_avail' = [con_avail EXCEPT ![q] = @ + 1]
  /\ con_kick' = [con_kick EXCEPT ![q] = @ \/ con_notify[q]]
  /\ UNCHANGED <<con_mode, con_fifo, con_event, con_notify, con_lost, con_twice, con_got, con_at,
                 con_write, con_typed, conCtl, conOut>>

ConGuestControl(m) ==
  /\ con_mode.scope.control /\ con_request = "none"
  /\ \/ m \in {"DEVICE_READY", "failed"} /\ con_replies = <<>>
     \/ m \in {"PORT_READY", "unknown"} /\ con_replies = ConReplies("DEVICE_READY")
     \/ m = "PORT_OPEN" /\ Len(con_replies) > 1
  /\ con_request' = m
  /\ UNCHANGED <<con_mode, conRx, con_at, con_write, con_typed, con_ready, con_replies, conOut>>

ConNext ==
  \/ \E q \in ConQueues : ConGuestBuffer(q) \/ \E on \in {"kick", "event"} : ConHandle(q, on)
  \/ ConBreak \/ ConRound \/ ConEnable
  \/ ConControl \/ ConOutput \/ ConAccept \/ ConLeave \/ ConEof \/ ConType
  \/ ConInterrupt \/ ConPrepareExit
  \/ \E b \in {"nested", "network"}, i \in BOOLEAN, s \in ConScopes : ConStart(b, i, s)
  \/ \E m \in ConMessages : ConGuestControl(m)

ConSpec == ConInit /\ [][ConNext]_ConVars

-----------------------------------------------------------------------------
ConTypeOK ==
  /\ con_mode.backend \in {"none", "nested", "network", "dead", "ended"} /\ con_raw \in BOOLEAN /\ con_mode.idx \in BOOLEAN
  /\ con_fifo["rx"] \in Seq(Nat) /\ con_fifo["ctrl"] \in Seq(ConReplyNames)
  /\ con_avail \in [ConQueues -> Nat] /\ con_lost \in [ConQueues -> Nat]
  /\ con_event \in [ConQueues -> BOOLEAN] /\ con_kick \in [ConQueues -> BOOLEAN]
  /\ con_notify \in [ConQueues -> BOOLEAN]
  /\ con_at.queue \in ConQueues \union {"none"} /\ con_at.at \in {"idle", "process", "enable"}
  /\ con_ready \in BOOLEAN /\ con_write \in BOOLEAN /\ con_twice \in Nat
  /\ con_request \in ConMessages \union {"none"} /\ con_stream \in {"none", "client", "left"}
  /\ con_typed \in Nat /\ con_sent \in Nat /\ con_out \in Seq(Nat) /\ con_printed \in Seq(Nat)
  /\ con_polled \in BOOLEAN /\ con_waited \in 0 .. con_sent /\ con_dropped \subseteq 1 .. con_sent

ConIncreasing(s) == \A i \in 2 .. Len(s) : s[i - 1] < s[i]

(***************************************************************************)
(* The replies reach the guest in the order of its messages, none is lost  *)
(* and none comes before its time, in whatever rounds they are sent.       *)
(***************************************************************************)
ConHandshake ==
  /\ con_got["ctrl"] \o con_fifo["ctrl"] = con_replies
  /\ con_replies # <<>> => con_ready

\* What is typed is put into the guest's buffers in order, each byte once;
\* nothing typed is kept from it but what came before it was ready.
ConTypedInOrder ==
  LET all == con_got["rx"] \o con_fifo["rx"]
  IN  /\ ConIncreasing(all)
      /\ all # <<>> => con_write /\ Len(all) = Last(all) - Head(all) + 1

(***************************************************************************)
(* Each chunk of the guest's output waits, has been written, or has been   *)
(* written to a client that had left, and only one of these.  It waits     *)
(* only for the first client.  A chunk comes out before an earlier one     *)
(* only if it waited, because write_tcp_stream() takes what waited from    *)
(* its end; from then on chunks come out in the guest's order.             *)
(***************************************************************************)
ConOutputKept ==
  LET kept == con_printed \o con_out
  IN  /\ con_out # <<>> => con_stream = "none" /\ con_printed = <<>>
      /\ IsInjective(kept)
      /\ ToSet(kept) = (1 .. con_sent) \ con_dropped
      /\ con_dropped # {} => con_stream # "none"
      /\ \A i, j \in DOMAIN con_printed :
           i < j /\ con_printed[i] > con_printed[j] => con_printed[i] <= con_waited

\* With something to send and a buffer for it, the thread is at the queue or
\* will come back to it: no kick and no event is lost between its rounds.
ConComesBack ==
  \A q \in ConQueues :
    ConStarted /\ ~ConNothing(q) /\ con_avail[q] > 0 =>
      con_at.queue = q \/ con_event[q] \/ con_kick[q]

\* The terminal is raw while it is the guest's and never after the process.
ConTerminal == con_raw => con_mode.backend \in {"nested", "dead"}

\* The three streams of a console, none forgotten and each in order but for
\* the output that waited for the first client, and the host's terminal given
\* back (vhu_console.rs).
ConInv == ConTerminal /\ ConTypeOK /\ ConHandshake /\ ConTypedInOrder /\ ConOutputKept /\ ConComesBack

(***************************************************************************)
(* What does not hold: that output comes out in the guest's order also     *)
(* when it waited for the first client, that none of it is written to a    *)
(* client that has left, and that each buffer is given back once.          *)
(***************************************************************************)
ConOutputInOrder == ConIncreasing(con_printed)
ConOutputSeen    == con_dropped = {}
ConGivenOnce     == con_twice = 0

=============================================================================
