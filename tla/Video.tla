--------------------------------- MODULE Video ---------------------------------
(***************************************************************************)
(* vhost-device-video: one stream of the decoder.  The worker thread runs  *)
(* the guest's commands (vhu_video_thread.rs, v4l2_decoder.rs) and takes   *)
(* events and decoded buffers from the V4L2 device that it polls; a        *)
(* RESOURCE_QUEUE is answered by a future of the thread pool that waits    *)
(* for the resource to be ready (stream.rs).  Any ioctl() may fail; what   *)
(* the buffers hold is left out.                                           *)
(***************************************************************************)
EXTENDS Ring, SequencesExt

CONSTANTS
  VideoBackends,    \* of "null" and "v4l2"
  VideoIds,         \* the resources of the guest
  VideoBatches,     \* the commands that it sends together
  VideoEventBuffers \* its buffers for events

VARIABLES
  video_backend, \* which backend was chosen; "none" before
  video_worker,  \* "run", "dead" of an error or a panic
  video_ring,    \* the command queue
  video_clearing, \* the queue that the worker is clearing, "none" else
  video_silent,  \* the chains put into the used ring without a notification
  video_lost,    \* history: the requests dropped with their batch
  video_stream,  \* the stream: its state, and for each queue "streaming" and the resources by index
  video_tasks,   \* the futures of the pool
  video_polled,  \* is the stream's file in the poller?
  video_todo,    \* what the poller reported and is not looked at yet
  video_free,    \* the event buffers of the guest, and
  video_offered, \*   those in the event queue
  video_host,    \* the device (external): its buffers for each queue
  video_stop,    \* was it told to stop?
  video_refused  \* history: an ioctl() has failed

videoPool == <<video_stream, video_tasks, video_polled>>
videoEvents == <<video_free, video_offered>>
videoHost == <<video_host, video_stop, video_refused>>
VideoVars == <<video_backend, video_worker, video_clearing, video_ring, video_silent, video_lost, videoPool, video_todo, videoEvents, videoHost>>

VideoQueues == {"input", "output"}
VideoTold == VideoQueues \cup {"event"}
VideoStates == {"none", "Stopped", "Subscribed", "Streaming", "Draining"}
VideoResourceStates == {"Created", "Queried", "Queued", "Ready"}

VideoNewStream(state) ==
  [state |-> state, on |-> [q \in VideoQueues |-> FALSE], res |-> [q \in VideoQueues |-> <<>>]]

\* The device as it is opened: no buffers, nothing streaming
VideoClosed == [q \in VideoQueues |-> [count |-> 0, on |-> FALSE, held |-> {}, done |-> <<>>]]

VideoInit ==
  /\ video_backend = "none" /\ video_worker = "run" /\ video_clearing = "none"
  /\ video_ring = EmptyRing /\ video_silent = 0 /\ video_lost = {}
  /\ video_stream = VideoNewStream("none") /\ video_tasks = {} /\ video_polled = FALSE /\ video_todo = {}
  /\ video_free = VideoEventBuffers /\ video_offered = 0
  /\ video_host = VideoClosed /\ video_stop = FALSE /\ video_refused = FALSE

\* alloc_video_backend()
VideoAlloc(b) ==
  /\ video_backend = "none" /\ video_backend' = b
  /\ UNCHANGED <<video_worker, video_clearing, video_ring, video_silent, video_lost, videoPool, video_todo, videoEvents, videoHost>>

-----------------------------------------------------------------------------
(* The commands.  An outcome is the stream, the device and the poller       *)
(* afterwards, the resources on which set_ready() was called, the answer,   *)
(* and whether an ioctl() failed.                                          *)

VideoOut(answer) ==
  [stream |-> video_stream, host |-> video_host, stop |-> video_stop, polled |-> video_polled,
   ready |-> {}, answer |-> answer, refused |-> FALSE]

VideoFailed(o, answer) == [o EXCEPT !.answer = answer, !.refused = TRUE]

VideoHeld(q) == video_host[q].held \cup {b.index : b \in ToSet(video_host[q].done)}

VideoFind(resources, id) == SelectInSeq(resources, LAMBDA r : r.id = id)
VideoMark(s, q, i, state) == [s EXCEPT !.res[q][i].state = state]

\* reqbufs(): the device has n buffers; with none it also stops the queue.
VideoRequestBuffers(h, q, n) ==
  IF n = 0 THEN [h EXCEPT ![q] = VideoClosed[q]] ELSE [h EXCEPT ![q].count = n]

\* create_stream(): a stream of the same number is replaced, and its file
\* closed; unwrap() of File::create().
VideoCreate ==
  {[VideoOut("ok") EXCEPT !.stream = VideoNewStream("Stopped"), !.host = VideoClosed, !.stop = FALSE, !.polled = FALSE],
   VideoOut("dead")}

VideoDestroy ==
  {[VideoOut("ok") EXCEPT !.stream = VideoNewStream("none"), !.host = VideoClosed, !.stop = FALSE, !.polled = FALSE]}

VideoCreateResource(r) ==
  {IF VideoFind(video_stream.res[r.q], r.id) # 0 THEN VideoOut("error")
   ELSE IF r.odd = "layout" THEN VideoOut("dead") \* todo!()
   ELSE [VideoOut("ok") EXCEPT !.stream.res[r.q] = Append(@, [id |-> r.id, state |-> "Created"])]}

\* set_stream_poller(), with whatever queue_resource() then does
VideoPolls == video_polled \/ video_stream.state \notin {"none", "Streaming", "Draining"}

\* The end of queue_resource(), when the device has taken the buffer
VideoStreamOn(o, q) ==
  IF o.stream.state = "Draining" \/ o.stream.on[q] THEN {o}
  ELSE LET on == [o EXCEPT !.stream.on[q] = TRUE, !.stream.state = "Streaming"] IN
       {[on EXCEPT !.host[q].on = TRUE], VideoFailed(on, "async")}

\* queue_resource() after the buffers were requested: qbuf()
VideoQueueBuffer(o, r, i) ==
  IF r.odd = "planes" \/ i > o.host[r.q].count \/ i \in VideoHeld(r.q) THEN {[o EXCEPT !.answer = "error"]}
  ELSE LET queued == VideoMark(o.stream, r.q, i, "Queued") IN
       {VideoFailed(o, "error")} \cup
       VideoStreamOn([o EXCEPT !.host[r.q].held = @ \cup {i},
         !.stream = [queued EXCEPT !.state = IF @ = "Stopped" THEN "Subscribed" ELSE @]], r.q)

VideoQueueResource(r) ==
  LET i == VideoFind(video_stream.res[r.q], r.id)
      o == [VideoOut("async") EXCEPT !.polled = VideoPolls]
      all == video_stream.res[r.q]
  IN  IF i = 0 THEN {[o EXCEPT !.answer = "error"]}
      ELSE IF \A k \in DOMAIN all : all[k].state = "Created"
      THEN {VideoFailed(o, "error")} \cup
           VideoQueueBuffer([o EXCEPT !.host = VideoRequestBuffers(@, r.q, Len(all)), !.stream = VideoMark(@, r.q, i, "Queried")], r, i)
      ELSE VideoQueueBuffer(o, r, i)

VideoReadied(q) ==
  [k \in DOMAIN video_stream.res[q] |->
     LET e == video_stream.res[q][k] IN IF e.state = "Queued" THEN [e EXCEPT !.state = "Ready"] ELSE e]

\* clear_queue() begins: the futures of what is queued may answer from now on,
\* before the device is told to stop (VideoStreamOff).
VideoClearQueue(r) ==
  {[VideoOut("clearing") EXCEPT !.stream.res[r.q] = VideoReadied(r.q),
      !.ready = {<<r.q, e.id>> : e \in {x \in ToSet(video_stream.res[r.q]) : x.state = "Queued"}}]}

\* destroy_resources(): the futures that wait for them are left to wait.
VideoDestroyResources(r) ==
  LET o == [VideoOut("ok") EXCEPT !.stream.res[r.q] = <<>>]
  IN  {[o EXCEPT !.host = VideoRequestBuffers(@, r.q, 0)], VideoFailed(o, "ok")}

VideoDrain ==
  {[VideoOut("ok") EXCEPT !.stop = TRUE, !.stream.state = "Draining"], VideoFailed(VideoOut("error"), "error")}

\* get_params(), set_params() and query_control() ask the device and change
\* nothing here; query_capability() enumerates until the device refuses.
VideoParams(r) ==
  {VideoOut("ok")} \cup (IF r.cmd = "QueryCapability" THEN {} ELSE {VideoFailed(VideoOut("error"), "error")})

VideoStreamCommands == {"ResourceCreate", "ResourceQueue", "ResourceDestroyAll", "QueueClear", "StreamDrain", "GetParams", "SetParams"}

\* The length that the body of each command must have exactly
VideoBodyBytes ==
  [QueryCapability |-> 16, QueryControl |-> 24, StreamCreate |-> 88, StreamDestroy |-> 8, StreamDrain |-> 8,
   ResourceCreate |-> 88, ResourceQueue |-> 64, ResourceDestroyAll |-> 16, QueueClear |-> 16,
   GetParams |-> 16, SetParams |-> 128, GetControl |-> 16]

\* What may be odd about a request: a "value" that from_descriptor() does not know
\* (also the number of the command), a count of "offsets" that it panics of, an
\* "entry" that collect_planes() cannot read, and for the backend the "layout" or
\* the "planes" (also: its memory type).  With odd "descriptors", their number
\* or the direction of the last, the command has been run when that is seen.
VideoOdd(cmd) ==
  {"", "value", "descriptors"} \cup
  (CASE cmd = "ResourceCreate" -> {"offsets", "entry", "layout"}
     [] cmd = "ResourceQueue" -> {"offsets", "planes"} [] OTHER -> {})

\* Batches are of commands that there are, for the queues that there are.
ASSUME VideoAssumption ==
  /\ VideoBackends \subseteq {"null", "v4l2"} /\ VideoEventBuffers \in Nat
  /\ \A b \in VideoBatches : b \in Seq(ToSet(b)) /\ \A r \in ToSet(b) :
       r.cmd \in DOMAIN VideoBodyBytes /\ r.q \in VideoQueues /\ r.id \in VideoIds /\ r.odd \in VideoOdd(r.cmd)

VideoReadable(r) == r.bytes = VideoBodyBytes[r.cmd] /\ r.odd \notin {"value", "offsets", "entry"}

\* A command that cannot be read is answered, unless it has three descriptors.
VideoMalformed(r) ==
  IF r.cmd = "ResourceCreate" \/ (r.bytes = VideoBodyBytes[r.cmd] /\ r.odd # "value")
  THEN {VideoOut("dead")} ELSE {VideoOut("error")}

VideoDecoder(r) ==
  IF r.cmd \in VideoStreamCommands /\ video_stream.state = "none" THEN {VideoOut("error")}
  ELSE CASE r.cmd = "StreamCreate"       -> VideoCreate
         [] r.cmd = "StreamDestroy"      -> VideoDestroy
         [] r.cmd = "StreamDrain"        -> VideoDrain
         [] r.cmd = "ResourceCreate"     -> VideoCreateResource(r)
         [] r.cmd = "ResourceQueue"      -> VideoQueueResource(r)
         [] r.cmd = "ResourceDestroyAll" -> VideoDestroyResources(r)
         [] r.cmd = "QueueClear"         -> VideoClearQueue(r)
         [] r.cmd \in {"GetParams", "SetParams", "QueryCapability", "QueryControl"} -> VideoParams(r)
         [] r.cmd = "GetControl"         -> {VideoOut("error")}

\* NullBackend has no streams.
VideoNull(r) == {VideoOut(IF r.cmd \in {"ResourceQueue", "GetParams", "GetControl"} THEN "error" ELSE "ok")}

-----------------------------------------------------------------------------
(* The futures.  A task is "new", "woken" (both: to be polled), "checked"   *)
(* (poll() found the resource not ready and has not left its waker yet),    *)
(* or "waiting".  When its resource is dropped from the stream, it is "last" *)
(* if it will still be answered, and else "stranded".                      *)

VideoResource(s, t) == VideoFind(s.res[t.q], t.id)

VideoOrphan(t, ready) ==
  [t EXCEPT !.phase = IF @ \in {"last", "stranded"} THEN @ ELSE IF ready /\ @ \in {"new", "woken"} THEN "last" ELSE "stranded"]

\* The tasks after the stream became s and set_ready() was called on some
VideoWoken(s, ready) ==
  {LET now == VideoResource(s, t)
       was == VideoResource(video_stream, t)
   IN  IF now = 0 THEN VideoOrphan(t, was # 0 /\ video_stream.res[t.q][was].state = "Ready")
       ELSE IF <<t.q, t.id>> \in ready /\ t.phase = "waiting" THEN [t EXCEPT !.phase = "woken"] ELSE t : t \in video_tasks}

VideoReady(t) ==
  LET i == VideoResource(video_stream, t) IN i # 0 /\ video_stream.res[t.q][i].state = "Ready"

\* poll(): the resource is ready, and the answer is sent
VideoAnswer ==
  /\ \E t \in video_tasks :
       /\ t.phase = "last" \/ (t.phase \in {"new", "woken"} /\ VideoReady(t))
       /\ video_tasks' = video_tasks \ {t}
  /\ video_silent' = 0
  /\ UNCHANGED <<video_backend, video_worker, video_clearing, video_ring, video_lost, video_stream, video_polled, video_todo, videoEvents, videoHost>>

\* poll(): it is not; the waker is left in a second step
VideoPoll ==
  /\ \E t \in video_tasks :
       \/ /\ t.phase \in {"new", "woken"} /\ ~VideoReady(t)
          /\ video_tasks' = (video_tasks \ {t}) \cup {[t EXCEPT !.phase = "checked"]}
       \/ /\ t.phase = "checked"
          /\ video_tasks' = (video_tasks \ {t}) \cup {[t EXCEPT !.phase = "waiting"]}
  /\ UNCHANGED <<video_backend, video_worker, video_clearing, video_ring, video_silent, video_lost, video_stream, video_polled, video_todo, videoEvents, videoHost>>

-----------------------------------------------------------------------------
(* The worker thread.                                                      *)

VideoIdle == video_backend # "none" /\ video_worker = "run" /\ video_clearing = "none" /\ video_todo = {}

VideoCollect ==
  /\ VideoIdle /\ CanCollect(video_ring)
  /\ video_ring' = Collect(video_ring)
  /\ UNCHANGED <<video_backend, video_worker, video_clearing, video_silent, video_lost, videoPool, video_todo, videoEvents, videoHost>>

\* What becomes of the batch: after a RESOURCE_QUEUE process_requests() returns
\* and the rest is dropped, without a notification for what was served.
VideoBatch(answer) ==
  CASE answer = "async" -> /\ video_ring' = EmptyRing
                           /\ video_silent' = video_silent + video_ring.used
                           /\ video_lost' = video_lost \cup ToSet(Tail(video_ring.batch))
    [] answer \in {"dead", "clearing"} -> UNCHANGED <<video_ring, video_silent, video_lost>>
    [] OTHER -> video_ring' = AddUsed(video_ring) /\ UNCHANGED <<video_silent, video_lost>>

\* The descriptors are looked at when the command has been run.
VideoChecked(r, answer) == IF r.odd = "descriptors" /\ answer # "clearing" THEN "dead" ELSE answer

VideoCommand ==
  /\ VideoIdle /\ Serving(video_ring)
  /\ LET r == Request(video_ring) IN
     \E o \in IF ~VideoReadable(r) THEN VideoMalformed(r)
              ELSE IF video_backend = "null" THEN VideoNull(r) ELSE VideoDecoder(r) :
     LET answer == VideoChecked(r, o.answer) IN
     /\ VideoBatch(answer)
     /\ video_worker' = IF answer = "dead" THEN "dead" ELSE "run"
     /\ video_clearing' = IF answer = "clearing" THEN r.q ELSE "none"
     /\ video_stream' = o.stream /\ video_polled' = o.polled
     /\ video_host' = o.host /\ video_stop' = o.stop
     /\ video_refused' = (video_refused \/ o.refused)
     /\ video_tasks' = VideoWoken(o.stream, o.ready) \cup
          (IF answer = "async" THEN {[q |-> r.q, id |-> r.id, phase |-> "new"]} ELSE {})
  /\ UNCHANGED <<video_backend, video_todo, videoEvents>>

\* Mistake: the buffers are given back without stopping the device.
BugVideoStreamOff ==
  /\ video_worker = "run" /\ video_clearing # "none"
  /\ video_clearing' = "none"
  /\ VideoBatch("ok")
  /\ UNCHANGED <<video_backend, video_worker, videoPool, video_todo, videoEvents, videoHost>>

\* clear_queue() goes on: the device stops, or the call fails; "streaming" stays
\* as it is.
VideoStreamOff ==
  /\ video_worker = "run" /\ video_clearing # "none"
  /\ video_clearing' = "none"
  /\ \E stops \in BOOLEAN :
       LET answer == VideoChecked(Request(video_ring), IF stops THEN "ok" ELSE "error") IN
       /\ VideoBatch(answer)
       /\ video_worker' = IF answer = "dead" THEN "dead" ELSE "run"
       /\ video_refused' = (video_refused \/ ~stops)
       /\ video_host' = IF stops
            THEN [video_host EXCEPT ![video_clearing].on = FALSE, ![video_clearing].held = {}, ![video_clearing].done = <<>>]
            ELSE video_host
  /\ UNCHANGED <<video_backend, videoPool, video_todo, videoEvents, video_stop>>

\* A kick that finds no chain notifies too.
VideoSignal ==
  /\ VideoIdle /\ (CanSignal(video_ring) \/ (Outstanding(video_ring) = 0 /\ video_silent > 0))
  /\ video_ring' = SignalUsed(video_ring) /\ video_silent' = 0
  /\ UNCHANGED <<video_backend, video_worker, video_clearing, video_lost, videoPool, video_todo, videoEvents, videoHost>>

\* process_video_event(): what the poller reports is handled, events first and
\* then the output queue.
VideoTurn(x) ==
  /\ video_worker = "run" /\ x \in video_todo
  /\ x # "event" => "event" \notin video_todo
  /\ x = "input" => "output" \notin video_todo

VideoHandled(x) == video_todo' = video_todo \ {x}

VideoWake ==
  /\ VideoIdle /\ video_ring.batch = <<>> /\ video_ring.used = 0 /\ video_polled
  /\ \E event \in {FALSE, video_stream.state # "Stopped"} :
       video_todo' = {x \in VideoTold : IF x = "event" THEN event ELSE video_host[x].done # <<>>}
  /\ video_todo' # {}
  /\ UNCHANGED <<video_backend, video_worker, video_clearing, video_ring, video_silent, video_lost, videoPool, videoEvents, videoHost>>

\* process_event(): all the buffers of the event queue are taken, and one is
\* used; the end of the stream is not reported.
VideoProcessEvent ==
  /\ VideoTurn("event")
  /\ \E told \in BOOLEAN :
       IF ~told THEN UNCHANGED <<video_worker, videoEvents>> /\ VideoHandled("event")
       ELSE IF video_offered = 0 THEN video_worker' = "dead" /\ UNCHANGED <<videoEvents, video_todo>>
       ELSE /\ video_offered' = 0 /\ video_free' = video_free + 1
            /\ VideoHandled("event") /\ UNCHANGED video_worker
  /\ UNCHANGED <<video_backend, video_clearing, video_ring, video_silent, video_lost, videoPool, videoHost>>

\* dqbuf() fails: nothing is done
VideoDequeueFails(q) ==
  /\ VideoTurn(q) /\ VideoHandled(q) /\ video_refused' = TRUE
  /\ UNCHANGED <<video_backend, video_worker, video_clearing, video_ring, video_silent, video_lost, videoPool, videoEvents, video_host, video_stop>>

\* send_dqbuf(): the last buffer of a stream that is drained stops it; unwrap()
\* of the resource.
VideoSendDqbuf(q) ==
  /\ VideoTurn(q)
  /\ LET b == Head(video_host[q].done)
         last == b.eos /\ video_stream.state = "Draining"
         s == [video_stream EXCEPT !.state = IF last THEN "Stopped" ELSE @]
     IN  /\ video_host' = [video_host EXCEPT ![q].done = Tail(@)]
         /\ video_polled' = (video_polled /\ ~last)
         /\ IF b.index \notin DOMAIN s.res[q]
            THEN /\ video_worker' = "dead" /\ video_stream' = s
                 /\ UNCHANGED <<video_tasks, video_todo>>
            ELSE /\ video_stream' = VideoMark(s, q, b.index, "Ready")
                 /\ video_tasks' = VideoWoken(video_stream', {<<q, s.res[q][b.index].id>>})
                 /\ VideoHandled(q) /\ UNCHANGED video_worker
  /\ UNCHANGED <<video_backend, video_clearing, video_ring, video_silent, video_lost, videoEvents, video_stop, video_refused>>

-----------------------------------------------------------------------------
(* The guest, which queues a resource when it has it back, and the device.  *)

\* It has the resource, as far as it knows.
VideoHas(r) ==
  /\ ~\E t \in video_tasks : t.q = r.q /\ t.id = r.id
  /\ ~\E x \in video_lost : x.cmd = "ResourceQueue" /\ x.q = r.q /\ x.id = r.id

VideoGuest(b) ==
  /\ video_backend # "none" /\ Outstanding(video_ring) = 0
  /\ \A i \in DOMAIN b : b[i].cmd = "ResourceQueue" => VideoHas(b[i])
  /\ video_ring' = [video_ring EXCEPT !.avail = b]
  /\ UNCHANGED <<video_backend, video_worker, video_clearing, video_silent, video_lost, videoPool, video_todo, videoEvents, videoHost>>

VideoGuestEvent ==
  /\ video_backend # "none" /\ video_free > 0
  /\ video_free' = video_free - 1 /\ video_offered' = video_offered + 1
  /\ UNCHANGED <<video_backend, video_worker, video_clearing, video_ring, video_silent, video_lost, videoPool, video_todo, videoHost>>

\* The device is done with a buffer, the last one if it was told to stop.
VideoDecode(q) ==
  /\ video_host[q].on
  /\ \E i \in video_host[q].held : \E eos \in {FALSE} \cup (IF video_stop /\ q = "output" THEN {TRUE} ELSE {}) :
       video_host' = [video_host EXCEPT ![q].held = @ \ {i}, ![q].done = Append(@, [index |-> i, eos |-> eos])]
  /\ UNCHANGED <<video_backend, video_worker, video_clearing, video_ring, video_silent, video_lost, videoPool, video_todo, videoEvents, video_stop, video_refused>>

VideoNext ==
  \/ VideoCollect \/ VideoCommand \/ VideoStreamOff \/ VideoSignal \/ VideoWake \/ VideoProcessEvent
  \/ VideoAnswer \/ VideoPoll \/ VideoGuestEvent
  \/ \E b \in VideoBackends : VideoAlloc(b)
  \/ \E b \in VideoBatches : VideoGuest(b)
  \/ \E q \in VideoQueues : VideoDequeueFails(q) \/ VideoSendDqbuf(q) \/ VideoDecode(q)

VideoSpec == VideoInit /\ [][VideoNext]_VideoVars

-----------------------------------------------------------------------------
VideoTypeOK ==
  /\ video_worker \in {"run", "dead"} /\ video_backend \in VideoBackends \cup {"none"}
  /\ video_clearing \in VideoQueues \cup {"none"}
  /\ video_stream.state \in VideoStates /\ video_silent \in Nat
  /\ \A q \in VideoQueues : \A e \in ToSet(video_stream.res[q]) : e.id \in VideoIds /\ e.state \in VideoResourceStates

(***************************************************************************)
(* While no ioctl() has failed, the device has just the buffers of the     *)
(* resources that are Queued, unless QUEUE_CLEAR is between giving them     *)
(* back and stopping the device: send_dqbuf() finds the resource of every  *)
(* buffer, and no other buffer is the device's to write, through           *)
(* QUEUE_CLEAR, RESOURCE_DESTROY_ALL and a new stream in any order.         *)
(***************************************************************************)
VideoOwners ==
  ~video_refused => \A q \in VideoQueues :
    LET queued == {i \in DOMAIN video_stream.res[q] : video_stream.res[q][i].state = "Queued"} IN
    IF q = video_clearing THEN queued = {} /\ VideoHeld(q) \subseteq DOMAIN video_stream.res[q]
    ELSE VideoHeld(q) = queued

\* A Queued resource has one future that waits for it and will see it ready, or
\* was asked for in a request whose future found it so, while the worker runs.
VideoWaits(t, q, id) == t.q = q /\ t.id = id /\ t.phase \in {"new", "woken", "checked", "waiting"}

VideoAwaited ==
  video_worker = "run" => \A q \in VideoQueues : \A e \in ToSet(video_stream.res[q]) :
    e.state = "Queued" => \E t \in video_tasks : {u \in video_tasks : VideoWaits(u, q, e.id)} = {t}

\* Every queued resource has its owner and one future that waits for it
\* (v4l2_decoder.rs, vhu_video_thread.rs).
VideoInv == VideoTypeOK /\ VideoOwners /\ VideoAwaited

\* (The wakeups: no future waits for a resource that is ready.)
VideoNoneAsleep == \A t \in video_tasks : t.phase = "waiting" => ~VideoReady(t)

=============================================================================
