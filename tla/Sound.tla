--------------------------------- MODULE Sound ---------------------------------
(***************************************************************************)
(* vhost-device-sound: the life cycle of a PCM stream (stream.rs), the     *)
(* threads for the control and the transfer queues (device.rs) and the     *)
(* four audio backends, with ALSA's worker and its channel and the         *)
(* callbacks of PipeWire and GStreamer.  The thread of a transfer queue    *)
(* puts the guest's buffers into the stream and then asks the backend to   *)
(* work; the control thread may change the stream in between, or, where    *)
(* one thread serves all queues, before it comes to the buffers.           *)
(*                                                                         *)
(* The two streams share nothing but the threads, so that one is modelled, *)
(* in either direction.  Of its parameters and of the sound only what is   *)
(* refused and which buffers are empty is kept.                            *)
(***************************************************************************)
EXTENDS Integers, Sequences, FiniteSets

CONSTANTS
  SndBackends,  \* the audio backends looked at
  SndTransfers, \* bound: buffers of the guest
  SndControls   \* bound: control messages of the guest

ASSUME SndAssumption ==
  /\ SndBackends \subseteq {"null", "alsa", "pipewire", "gstreamer"}
  /\ SndTransfers \in Nat /\ SndControls \in Nat

VARIABLES
  snd_mode,    \* SoundConfig and the direction of the stream, or NoSound
  snd_state,   \* PCMState
  snd_params,  \* the parameters are such that the backend can prepare
  snd_host,    \* the host's stream or pipeline
  snd_avail,   \* the buffers in the transfer queue
  snd_queue,   \* requests of the stream
  snd_used,    \* history: the buffers given back, in order
  snd_control, \* the control message that is to be answered
  snd_count,   \* number of control messages and of buffers so far
  snd_io,      \* where the thread of the transfer queue is
  snd_dead,    \* threads that have ended, by an error or a panic
  snd_poison,  \* a thread has panicked while it held audio_backend
  snd_channel, \* the messages to ALSA's worker
  snd_worker,  \* where that worker is
  snd_error    \* history: the worker, or the release of a pipeline, has failed

sndStream == <<snd_state, snd_params, snd_host>>
sndWork   == <<snd_channel, snd_worker, snd_error>>
sndLife   == <<snd_dead, snd_poison>>
SndVars   == <<snd_mode, sndStream, snd_avail, snd_queue, snd_used, snd_control, snd_count, snd_io,
               sndLife, sndWork>>

NoSound == [backend |-> "none", multi |-> FALSE, direction |-> "none"]

SndCommands == {"SET_PARAMS", "SET_PARAMS bad", "PREPARE", "START", "STOP", "RELEASE", "INFO", "unknown"}

SndInit ==
  /\ snd_mode = NoSound /\ snd_state = "SetParameters" /\ snd_params = TRUE /\ snd_host = "none"
  /\ snd_avail = <<>> /\ snd_queue = <<>> /\ snd_used = <<>>
  /\ snd_control = "none" /\ snd_count = [controls |-> 0, transfers |-> 0]
  /\ snd_io = "idle" /\ snd_dead = {} /\ snd_poison = FALSE
  /\ snd_channel = <<>> /\ snd_worker = "recv" /\ snd_error = FALSE

\* queues_per_thread(): one thread serves all queues, or each its own.
SndThread(t)   == IF snd_mode.multi THEN {t} ELSE {"control", "io"}
SndMayRun(t)   == snd_mode # NoSound /\ t \notin snd_dead /\ (snd_mode.multi \/ snd_io = "idle")
SndHosted      == snd_mode.backend \in {"pipewire", "gstreamer"}

-----------------------------------------------------------------------------
(* PCMState, set_new_state!: from which states a state may be entered.     *)

SndFrom == [SetParameters |-> {"SetParameters", "Prepare", "Release"},
            Prepare |-> {"SetParameters", "Prepare", "Release"},
            Start   |-> {"Prepare", "Stop"},
            Stop    |-> {"Start"},
            Release |-> {"Prepare", "Stop"}]

SndMay(to)   == snd_state \in SndFrom[to]
SndMoves(to) == SndMay(to) /\ snd_state' = to

\* The thread panics with audio_backend locked for writing: the lock is
\* poisoned, and every later use of it panics.
SndPanic(t) == snd_dead' = snd_dead \union SndThread(t) /\ snd_poison' = TRUE

(***************************************************************************)
(* The operations of the backends.  Each goes through the state machine    *)
(* first, and where that refuses the guest is told, for set_parameters()   *)
(* and release(), or the thread panics, for prepare(), start() and stop(), *)
(* whose results process_control() unwraps.                                *)
(***************************************************************************)
SndRefused(to) == ~SndMay(to) /\ SndPanic("control") /\ UNCHANGED <<snd_state, snd_host>>
SndTell(work)  == snd_channel' = Append(snd_channel, work)
SndSame        == UNCHANGED <<snd_params, snd_queue, snd_used>>
SndIdleWorker  == UNCHANGED <<snd_channel, snd_error>>

\* Parameters that are not supported are refused when the state has been
\* changed already; the number of channels is looked at in prepare() only.
SndPwSetParams(bad) ==
  /\ IF SndMay("SetParameters")
     THEN snd_state' = "SetParameters" /\ snd_params' \in (IF bad THEN {snd_params, FALSE} ELSE {TRUE})
     ELSE UNCHANGED <<snd_state, snd_params>>
  /\ UNCHANGED <<snd_host, snd_queue, snd_used, sndLife>> /\ SndIdleWorker

SndGstSetParams(bad) == SndPwSetParams(bad)

\* update_pcm() opens the PCM anew, and its failure is a panic, after
\* which the backend can still be used by other threads.
SndAlsaSetParams ==
  /\ IF SndMay("SetParameters") THEN snd_state' = "SetParameters" ELSE UNCHANGED snd_state
  /\ \/ UNCHANGED sndLife
     \/ SndMay("SetParameters") /\ snd_dead' = snd_dead \union SndThread("control") /\ UNCHANGED snd_poison
  /\ UNCHANGED snd_host /\ SndSame /\ SndIdleWorker

\* The stream of before is disconnected, and a new one connected.
SndPwPrepare ==
  /\ \/ SndMoves("Prepare") /\ snd_params /\ snd_host' = "paused" /\ UNCHANGED sndLife
     \/ SndMoves("Prepare") /\ ~snd_params /\ snd_host' = "none" /\ SndPanic("control")
     \/ SndRefused("Prepare")
  /\ SndSame /\ SndIdleWorker

\* As above; the new pipeline may also fail for a reason of its own.
SndGstPrepare ==
  /\ \/ SndMoves("Prepare") /\ snd_params /\ snd_host' = "paused" /\ UNCHANGED sndLife
     \/ SndMoves("Prepare") /\ snd_host' = "none" /\ SndPanic("control")
     \/ SndRefused("Prepare")
  /\ SndSame /\ SndIdleWorker

SndAlsaPrepare ==
  /\ \/ SndMoves("Prepare") /\ UNCHANGED <<snd_host, sndLife>>
     \/ SndMoves("Prepare") /\ UNCHANGED snd_host /\ SndPanic("control")
     \/ SndRefused("Prepare")
  /\ SndSame /\ SndIdleWorker

SndPwStart ==
  /\ \/ SndMoves("Start") /\ snd_host' = "active" /\ UNCHANGED sndLife
     \/ SndRefused("Start")
  /\ SndSame /\ SndIdleWorker

SndGstStart ==
  /\ \/ SndMoves("Start") /\ snd_host' = "active" /\ UNCHANGED sndLife
     \/ SndMoves("Start") /\ UNCHANGED snd_host /\ SndPanic("control")
     \/ SndRefused("Start")
  /\ SndSame /\ SndIdleWorker

\* Mistake: the worker is not told.
BugSndAlsaStart ==
  /\ \/ SndMoves("Start") /\ UNCHANGED <<snd_host, sndLife>>
     \/ SndRefused("Start")
  /\ SndSame /\ SndIdleWorker

SndAlsaStart ==
  /\ \/ SndMoves("Start") /\ SndTell(TRUE) /\ UNCHANGED <<snd_host, sndLife>>
     \/ SndMoves("Start") /\ SndPanic("control") /\ UNCHANGED <<snd_host, snd_channel>>
     \/ SndRefused("Start") /\ UNCHANGED snd_channel
  /\ SndSame /\ UNCHANGED snd_error

SndPwStop ==
  /\ \/ SndMoves("Stop") /\ snd_host' = "paused" /\ UNCHANGED sndLife
     \/ SndRefused("Stop")
  /\ SndSame /\ SndIdleWorker

SndGstStop ==
  /\ \/ SndMoves("Stop") /\ snd_host' = "paused" /\ UNCHANGED sndLife
     \/ SndMoves("Stop") /\ UNCHANGED snd_host /\ SndPanic("control")
     \/ SndRefused("Stop")
  /\ SndSame /\ SndIdleWorker

\* Only this one goes on after a state that does not allow it.
SndAlsaStop ==
  /\ IF SndMay("Stop") THEN snd_state' = "Stop" ELSE UNCHANGED snd_state
  /\ UNCHANGED <<snd_host, sndLife>> /\ SndSame /\ SndIdleWorker

\* What is pending is dropped, which gives it back to the guest.
SndDropAll == snd_queue' = <<>> /\ snd_used' = snd_used \o snd_queue

SndPwRelease ==
  /\ IF SndMay("Release")
     THEN snd_state' = "Release" /\ snd_host' = "none" /\ SndDropAll
     ELSE UNCHANGED <<snd_state, snd_host, snd_queue, snd_used>>
  /\ UNCHANGED <<snd_params, sndLife>> /\ SndIdleWorker

\* Where the pipeline cannot be stopped the requests stay as they are.
SndGstRelease ==
  /\ \/ SndMoves("Release") /\ snd_host' = "none" /\ SndDropAll /\ UNCHANGED snd_error
     \/ SndMoves("Release") /\ snd_error' = TRUE /\ UNCHANGED <<snd_host, snd_queue, snd_used>>
     \/ ~SndMay("Release") /\ UNCHANGED <<snd_state, snd_host, snd_queue, snd_used, snd_error>>
  /\ UNCHANGED <<snd_params, sndLife, snd_channel>>

\* The message that is to end the worker makes it go on waiting.
SndAlsaRelease ==
  /\ IF SndMay("Release")
     THEN snd_state' = "Release" /\ SndDropAll /\ SndTell(FALSE)
     ELSE UNCHANGED <<snd_state, snd_queue, snd_used, snd_channel>>
  /\ UNCHANGED <<snd_params, snd_host, sndLife, snd_error>>

SndAlsa(c) ==
  \/ c \in {"SET_PARAMS", "SET_PARAMS bad"} /\ SndAlsaSetParams
  \/ c = "PREPARE" /\ SndAlsaPrepare
  \/ c = "START"   /\ SndAlsaStart
  \/ c = "STOP"    /\ SndAlsaStop
  \/ c = "RELEASE" /\ SndAlsaRelease

SndPipewire(c) ==
  \/ c = "SET_PARAMS" /\ SndPwSetParams(FALSE)
  \/ c = "SET_PARAMS bad" /\ SndPwSetParams(TRUE)
  \/ c = "PREPARE" /\ SndPwPrepare
  \/ c = "START"   /\ SndPwStart
  \/ c = "STOP"    /\ SndPwStop
  \/ c = "RELEASE" /\ SndPwRelease

SndGStreamer(c) ==
  \/ c = "SET_PARAMS" /\ SndGstSetParams(FALSE)
  \/ c = "SET_PARAMS bad" /\ SndGstSetParams(TRUE)
  \/ c = "PREPARE" /\ SndGstPrepare
  \/ c = "START"   /\ SndGstStart
  \/ c = "STOP"    /\ SndGstStop
  \/ c = "RELEASE" /\ SndGstRelease

\* The trait's own methods, which the null backend keeps, agree to all.
SndNull(c) == UNCHANGED <<sndStream, snd_queue, snd_used, sndLife>> /\ SndIdleWorker

\* JackInfo, ChmapInfo and PcmInfo change nothing.
SndInfo == UNCHANGED <<sndStream, snd_queue, snd_used, sndLife>> /\ SndIdleWorker

\* process_control(), for one message; one that is not known ends the
\* thread.
SndControl ==
  /\ SndMayRun("control") /\ snd_control # "none" /\ snd_control' = "none"
  /\ UNCHANGED <<snd_mode, snd_avail, snd_count, snd_io, snd_worker>>
  /\ \/ snd_control = "INFO" /\ SndInfo
     \/ /\ snd_control = "unknown" /\ snd_dead' = snd_dead \union SndThread("control")
        /\ UNCHANGED <<sndStream, snd_queue, snd_used, snd_poison>> /\ SndIdleWorker
     \/ /\ snd_control \notin {"INFO", "unknown"}
        /\ \/ snd_mode.backend = "null"      /\ SndNull(snd_control)
           \/ snd_mode.backend = "alsa"      /\ SndAlsa(snd_control)
           \/ snd_mode.backend = "pipewire"  /\ SndPipewire(snd_control)
           \/ snd_mode.backend = "gstreamer" /\ SndGStreamer(snd_control)

-----------------------------------------------------------------------------
(* The transfer queue, process_io().                                       *)

SndPush ==
  /\ SndMayRun("io") \/ (snd_io = "push" /\ "io" \notin snd_dead)
  /\ snd_io \in {"idle", "push"} /\ snd_avail # <<>>
  /\ snd_queue' = Append(snd_queue, Head(snd_avail)) /\ snd_avail' = Tail(snd_avail)
  /\ snd_io' = IF Len(snd_avail) > 1 THEN "push" ELSE "write"
  /\ UNCHANGED <<snd_mode, sndStream, snd_used, snd_control, snd_count, sndLife, sndWork>>

\* write() and read() of the backend, with the state as it is by now.
SndAsk ==
  /\ snd_io = "write" /\ snd_io' = "idle"
  /\ IF snd_poison \/ (snd_mode.backend # "null" /\ snd_state \notin {"Start", "Prepare"})
     THEN /\ snd_dead' = snd_dead \union SndThread("io")
          /\ UNCHANGED <<snd_queue, snd_used, snd_channel>>
     ELSE /\ UNCHANGED snd_dead
          /\ snd_channel' = IF snd_mode.backend = "alsa" THEN Append(snd_channel, TRUE) ELSE snd_channel
          /\ IF snd_mode.backend = "null" /\ snd_mode.direction = "output"
             THEN snd_queue' = <<>> /\ snd_used' = snd_used \o snd_queue
             ELSE UNCHANGED <<snd_queue, snd_used>>
  /\ UNCHANGED <<snd_mode, sndStream, snd_avail, snd_control, snd_count, snd_poison, snd_worker, snd_error>>

-----------------------------------------------------------------------------
(* The host's side.                                                        *)

SndDone ==
  /\ snd_queue # <<>>
  /\ snd_used' = Append(snd_used, Head(snd_queue)) /\ snd_queue' = Tail(snd_queue)

SndHost == UNCHANGED <<snd_mode, sndStream, snd_avail, snd_control, snd_count, snd_io, sndLife>>

\* alsa_worker(): a message, and then rounds while the stream is started
\* and has buffers.
SndReceive ==
  /\ snd_worker = "recv" /\ snd_channel # <<>>
  /\ snd_channel' = Tail(snd_channel)
  /\ snd_worker' = IF Head(snd_channel) THEN "look" ELSE "recv"
  /\ UNCHANGED <<snd_queue, snd_used, snd_error>> /\ SndHost

SndLook ==
  /\ snd_worker = "look"
  /\ snd_worker' = IF snd_queue # <<>> /\ snd_state = "Start" THEN "play" ELSE "recv"
  /\ UNCHANGED <<snd_queue, snd_used, snd_channel, snd_error>> /\ SndHost

\* write_samples_direct(): as many buffers as there is room for, while the
\* stream is started; the rounds go on from "look".
SndWriteDirect == snd_state = "Start" /\ SndDone

\* read_samples_direct() fills a buffer also when the stream was stopped
\* since the worker looked.
SndReadDirect == SndDone

\* write_samples_io() and read_samples_io() give such a buffer back as it is.
SndWriteIo == SndDone
SndReadIo  == SndDone

\* A round of the worker: a buffer is finished, or there is more to do; or
\* an error ends the worker, which is started again and waits for a message.
SndPlay ==
  /\ snd_worker = "play" /\ SndHost /\ UNCHANGED snd_channel
  /\ \/ /\ snd_worker' = "look" /\ UNCHANGED snd_error
        /\ IF snd_mode.direction = "output" THEN SndWriteDirect \/ SndWriteIo
                                            ELSE SndReadDirect \/ SndReadIo
     \/ snd_worker' = "look" /\ UNCHANGED <<snd_queue, snd_used, snd_error>>
     \/ snd_worker' = "recv" /\ snd_error' = TRUE /\ UNCHANGED <<snd_queue, snd_used>>

\* The callbacks of an active stream.  An empty buffer stays at the head but
\* for GStreamer's output.
SndPwProcess  == ~Head(snd_queue).empty /\ SndDone
SndGstSample  == ~Head(snd_queue).empty /\ SndDone
SndGstNeedData == SndDone

SndCallback ==
  /\ snd_host = "active" /\ snd_queue # <<>>
  /\ \/ snd_mode.backend = "pipewire" /\ SndPwProcess
     \/ snd_mode.backend = "gstreamer" /\ snd_mode.direction = "input" /\ SndGstSample
     \/ snd_mode.backend = "gstreamer" /\ snd_mode.direction = "output" /\ SndGstNeedData
  /\ SndHost /\ UNCHANGED sndWork

-----------------------------------------------------------------------------
\* The start of the daemon, and the guest (external).

SndStartBackend(backend, multi, direction) ==
  /\ snd_mode = NoSound
  /\ snd_mode' = [backend |-> backend, multi |-> multi, direction |-> direction]
  /\ UNCHANGED <<sndStream, snd_avail, snd_queue, snd_used, snd_control, snd_count, snd_io, sndLife, sndWork>>

SndGuestControl(c) ==
  /\ snd_mode # NoSound /\ snd_control = "none" /\ snd_count.controls < SndControls
  /\ snd_control' = c /\ snd_count' = [snd_count EXCEPT !.controls = @ + 1]
  /\ UNCHANGED <<snd_mode, sndStream, snd_avail, snd_queue, snd_used, snd_io, sndLife, sndWork>>

SndGuestTransfer(empty) ==
  /\ snd_mode # NoSound /\ snd_count.transfers < SndTransfers /\ snd_io # "push"
  /\ snd_count' = [snd_count EXCEPT !.transfers = @ + 1]
  /\ snd_avail' = Append(snd_avail, [id |-> snd_count.transfers + 1, empty |-> empty])
  /\ UNCHANGED <<snd_mode, sndStream, snd_queue, snd_used, snd_control, snd_io, sndLife, sndWork>>

SndNext ==
  \/ SndControl \/ SndPush \/ SndAsk
  \/ SndReceive \/ SndLook \/ SndPlay \/ SndCallback
  \/ \E b \in SndBackends, m \in BOOLEAN, d \in {"input", "output"} : SndStartBackend(b, m, d)
  \/ \E c \in SndCommands : SndGuestControl(c)
  \/ \E empty \in BOOLEAN : SndGuestTransfer(empty)

SndSpec == SndInit /\ [][SndNext]_SndVars

-----------------------------------------------------------------------------
SndTypeOK ==
  /\ snd_mode.backend \in SndBackends \union {"none"} /\ snd_mode.multi \in BOOLEAN
  /\ snd_state \in DOMAIN SndFrom /\ snd_params \in BOOLEAN
  /\ snd_host \in {"none", "paused", "active"}
  /\ snd_control \in SndCommands \union {"none"} /\ snd_io \in {"idle", "push", "write"}
  /\ snd_dead \subseteq {"control", "io"} /\ snd_poison \in BOOLEAN /\ snd_error \in BOOLEAN
  /\ snd_channel \in Seq(BOOLEAN) /\ snd_worker \in {"recv", "look", "play"}

\* Each buffer of the guest is in one place, and they are given back in the
\* order they came, by whichever of the threads.
SndInOrder ==
  LET all == snd_used \o snd_queue \o snd_avail
  IN  Len(all) = snd_count.transfers /\ \A i \in DOMAIN all : all[i].id = i

\* A released stream has no buffer, but for those that came when it was
\* released already, whose thread panics, unless the pipeline failed.
SndReleased ==
  snd_state = "Release" /\ snd_queue # <<>> => snd_io # "idle" \/ "io" \in snd_dead \/ snd_error

\* A stream that is started and has buffers has the worker at it or a
\* message for it on the way, unless an error has cost it a message.
SndWorkerTold ==
  snd_mode.backend = "alsa" /\ snd_state = "Start" /\ snd_queue # <<>>
    /\ snd_worker = "recv" /\ TRUE \notin {snd_channel[i] : i \in DOMAIN snd_channel} =>
      snd_error \/ snd_io # "idle" \/ snd_dead # {}

\* The states of the stream and of the host's agree: the look-up of the
\* host's stream, on which start(), stop() and release() panic, cannot fail.
SndHostThere ==
  SndHosted /\ "control" \notin snd_dead =>
    /\ snd_state \in {"Prepare", "Start", "Stop"} => snd_host # "none"
    /\ snd_host = "active" <=> snd_state = "Start"

\* The guest's buffers through a stream and its backend: in order, given back,
\* with the worker told and the host's stream there (device.rs, stream.rs).
SndInv == SndTypeOK /\ SndInOrder /\ SndReleased /\ SndWorkerTold /\ SndHostThere

=============================================================================
