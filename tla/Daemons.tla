-------------------------------- MODULE Daemons --------------------------------
(***************************************************************************)
(* The life of the daemons: main() takes the arguments and starts a thread *)
(* for each socket, each of which makes a backend, serves one guest and    *)
(* starts again; main waits for the threads.  The daemons differ in three  *)
(* things: what ends a thread, which threads main hears of, and whether    *)
(* they serve again.                                                       *)
(* Errors in the workers of the queues are not errors of serve(): they are *)
(* in the modules of the devices.                                          *)
(***************************************************************************)
EXTENDS DaemonArgs

CONSTANTS
  DaemonPrograms,  \* the daemons
  DaemonArguments, \* for each, the arguments it is started with
  DaemonFaults     \* bound: what may go wrong, 0 .. DaemonFaults

ASSUME DaemonAssumption ==
  /\ DaemonFaults \in Nat /\ DaemonPrograms \subseteq DOMAIN DaemonArguments
  /\ \A p \in DaemonPrograms : \A a \in DaemonArguments[p] :
       /\ a.count \in Nat /\ a.value \in Nat
       /\ Len(a.devices) \in Nat /\ DOMAIN a.devices = 1 .. Len(a.devices)

VARIABLES
  daemon_program,
  daemon_args,
  daemon_main,    \* "start", "wait" for the threads, or how it ended
  daemon_thread,  \* for each socket, where its thread is
  daemon_told,    \* the ids in the channel to main
  daemon_handles, \* the threads main has yet to join
  daemon_faults

DaemonVars == <<daemon_program, daemon_args, daemon_main, daemon_thread, daemon_told,
                daemon_handles, daemon_faults>>

DaemonOver   == {"ok", "failed", "panicked"}
DaemonExits  == {"exit 0", "exit 1", "panic"}
DaemonPlaces == {"make", "listen", "guest"} \cup DaemonOver

\* Who is heard first: any thread that ends (they send their id), only the
\* one that main joins next, or main itself, that has no other thread.
DaemonHears(p) ==
  CASE p \in {"vsock", "spi", "input", "console", "can"} -> "any"
    [] p \in {"rng", "i2c", "gpio", "template"} -> "next"
    [] OTHER -> "itself"
DaemonLoops(p) == p \notin {"gpu", "scsi"}

\* How a thread goes on when the guest has left.  serve() takes it for the
\* normal end, wait() returns it as an error: rtc and sound except it.
DaemonWaits == {"rtc", "sound", "media"}
DaemonExcepts == {"rtc", "sound"}
DaemonAfterGuest(p) ==
  IF p \in DaemonWaits \ DaemonExcepts THEN "failed"
  ELSE IF DaemonLoops(p) THEN "make" ELSE "ok"

\* And when serve() fails.
DaemonAfterError(p) ==
  CASE p = "vsock" -> "make"
    [] p = "sound" -> "panicked"
    [] OTHER -> "failed"

\* An unwrap() where the others return the error.
DaemonAfterMake(p) ==
  CASE p \in {"scmi", "video", "console", "can", "vsock"} -> {"failed", "panicked"}
    [] p \in {"sound", "scsi"} -> {"panicked"}
    [] OTHER -> {"failed"}

DaemonSockets == DOMAIN daemon_thread
DaemonRunning == daemon_main = "wait"

DaemonInit ==
  /\ daemon_program \in DaemonPrograms
  /\ daemon_args \in DaemonArguments[daemon_program]
  /\ daemon_main = "start" /\ daemon_thread = << >> /\ daemon_told = << >>
  /\ daemon_handles = {} /\ daemon_faults = 0

\* scmi prints its usage and ends as if all was well, vsock too.
DaemonStart ==
  LET jobs == DaemonJobs(daemon_program, daemon_args)
  IN /\ daemon_main = "start"
     /\ daemon_main' = IF jobs # DaemonRefused THEN "wait"
                       ELSE IF daemon_program \in {"scmi", "vsock"} THEN "exit 0" ELSE "exit 1"
     /\ daemon_thread' = [i \in DOMAIN jobs |-> "make"]
     /\ daemon_handles' = DOMAIN jobs
     /\ UNCHANGED <<daemon_program, daemon_args, daemon_told, daemon_faults>>

DaemonExit(how) == CASE how = "ok" -> "exit 0" [] how = "failed" -> "exit 1" [] how = "panicked" -> "panic"

\* A variant: the id is not sent when the thread panics.
BugDaemonGoes(s, to) ==
  /\ daemon_thread' = [daemon_thread EXCEPT ![s] = to]
  /\ daemon_told' = IF to = "failed" /\ DaemonHears(daemon_program) = "any"
                    THEN Append(daemon_told, s) ELSE daemon_told
  /\ daemon_main' = IF to \in DaemonOver /\ DaemonHears(daemon_program) = "itself"
                    THEN DaemonExit(to) ELSE daemon_main
  /\ UNCHANGED <<daemon_program, daemon_args, daemon_handles>>

\* Where main is the thread its end is the daemon's; where threads tell
\* they send their id, whether they returned or panicked (catch_unwind()).
DaemonGoes(s, to) ==
  /\ daemon_thread' = [daemon_thread EXCEPT ![s] = to]
  /\ daemon_told' = IF to \in DaemonOver /\ DaemonHears(daemon_program) = "any"
                    THEN Append(daemon_told, s) ELSE daemon_told
  /\ daemon_main' = IF to \in DaemonOver /\ DaemonHears(daemon_program) = "itself"
                    THEN DaemonExit(to) ELSE daemon_main
  /\ UNCHANGED <<daemon_program, daemon_args, daemon_handles>>

DaemonFault == daemon_faults < DaemonFaults /\ daemon_faults' = daemon_faults + 1

DaemonMake(s) ==
  /\ DaemonRunning /\ daemon_thread[s] = "make"
  /\ DaemonGoes(s, "listen") /\ UNCHANGED daemon_faults

DaemonMakeFails(s) ==
  /\ DaemonRunning /\ daemon_thread[s] = "make"
  /\ DaemonFault
  /\ \E to \in DaemonAfterMake(daemon_program) : DaemonGoes(s, to)

DaemonConnect(s) ==
  /\ DaemonRunning /\ daemon_thread[s] = "listen"
  /\ DaemonGoes(s, "guest") /\ UNCHANGED daemon_faults

DaemonLeave(s) ==
  /\ DaemonRunning /\ daemon_thread[s] = "guest"
  /\ DaemonGoes(s, DaemonAfterGuest(daemon_program)) /\ UNCHANGED daemon_faults

\* The socket cannot be bound, or the VMM sends what is not understood.
DaemonServeFails(s) ==
  /\ DaemonRunning /\ daemon_thread[s] \in {"listen", "guest"}
  /\ DaemonFault
  /\ DaemonGoes(s, DaemonAfterError(daemon_program))

\* The first error that main hears of ends it: `?', or the panic resumed,
\* that the telling daemons have made an error of.
DaemonJoined(s) ==
  /\ daemon_thread[s] \in DaemonOver
  /\ daemon_main' = IF daemon_thread[s] = "panicked" /\ DaemonHears(daemon_program) = "any"
                    THEN "exit 1" ELSE DaemonExit(daemon_thread[s])
  /\ daemon_handles' = daemon_handles \ {s}
  /\ UNCHANGED <<daemon_program, daemon_args, daemon_thread, daemon_faults>>

DaemonHear ==
  /\ DaemonRunning /\ daemon_told # << >>
  /\ DaemonJoined(Head(daemon_told)) /\ daemon_told' = Tail(daemon_told)

DaemonJoin ==
  /\ DaemonRunning /\ DaemonHears(daemon_program) = "next"
  /\ \E s \in daemon_handles : (\A h \in daemon_handles : s <= h) /\ DaemonJoined(s)
  /\ UNCHANGED daemon_told

DaemonNext ==
  \/ DaemonStart
  \/ \E s \in DaemonSockets :
       \/ DaemonMake(s) \/ DaemonMakeFails(s)
       \/ DaemonConnect(s) \/ DaemonLeave(s) \/ DaemonServeFails(s)
  \/ DaemonHear \/ DaemonJoin

DaemonSpec == DaemonInit /\ [][DaemonNext]_DaemonVars

\* main takes what is there to be received or joined.  No guest has to leave.
DaemonFairness == WF_DaemonVars(DaemonHear \/ DaemonJoin)

--------------------------------------------------------------------------------
DaemonTypeOK ==
  /\ daemon_program \in DaemonPrograms /\ daemon_faults \in 0 .. DaemonFaults
  /\ daemon_main \in {"start", "wait"} \cup DaemonExits
  /\ \A s \in DaemonSockets : daemon_thread[s] \in DaemonPlaces
  /\ Range(daemon_told) \subseteq DaemonSockets /\ daemon_handles \subseteq DaemonSockets

\* Guests share nothing they must not: a physical chip, the terminal or a
\* port belongs to one of them, and as many guests as there are, with the
\* largest of their shares, do not exceed rng's bandwidth.
DaemonApart ==
  LET jobs == DaemonJobs(daemon_program, daemon_args)
  IN DaemonRunning =>
       /\ daemon_program = "rng" => \A j \in DOMAIN jobs : Len(jobs) * jobs[j].share <= daemon_args.value
       /\ daemon_program \in {"gpio", "console"} =>
            \A i, j \in DOMAIN jobs : i # j => jobs[i].device # jobs[j].device \/ jobs[i].device = "sim"
       /\ daemon_program \in {"gpio", "can"} => Len(jobs) = daemon_args.count

\* Of the daemons that serve again, a guest that leaves takes none with it:
\* only a fault does.  media is the exception (see DaemonMediaServesAgain).
DaemonOutlivesGuests ==
  daemon_main \in DaemonExits /\ DaemonSockets # {} /\ DaemonLoops(daemon_program)
    /\ daemon_program # "media" => daemon_faults > 0

\* While a daemon runs whose threads send their ids (vsock, spi, input, console
\* and can), main has word of each thread that has ended and of no other, once.
\* Of rng, i2c, gpio and template, which join in order, it says nothing: see
\* DaemonErrorHeard.
DaemonNoneForgotten ==
  DaemonRunning /\ DaemonHears(daemon_program) # "next" =>
    /\ Range(daemon_told) = {s \in DaemonSockets : daemon_thread[s] \in DaemonOver}
    /\ IsInjective(daemon_told)

(***************************************************************************)
(* The guests of a daemon are kept apart, their leaving does not end it    *)
(* and where threads tell of their end none is overlooked (main.rs and     *)
(* backend.rs of the daemons).                                             *)
(***************************************************************************)
DaemonInv ==
  DaemonTypeOK /\ DaemonApart /\ DaemonOutlivesGuests /\ DaemonNoneForgotten

\* A thread that has ended with an error ends the daemon: where threads tell,
\* whichever it is and whatever guests the others serve; where main joins them in
\* order, the one that it waits for (the channel, or `handle.join()`, in
\* start_backend() of the daemons).
DaemonFailed(s) == daemon_thread[s] \in {"failed", "panicked"}

DaemonErrorHeard ==
  (\E s \in DaemonSockets :
     /\ DaemonFailed(s)
     /\ DaemonHears(daemon_program) = "next" => \A h \in daemon_handles : s <= h)
    ~> (daemon_main \in DaemonExits)

-----------------------------------------------------------------------------
(***************************************************************************)
(* What does not hold.  "if we fail to spawn (due to bad config or other   *)
(* reason) we will bail out of the spawning and propagate the error back   *)
(* to gpio_init()" (vhost-device-gpio/src/backend.rs).                     *)
(***************************************************************************)
DaemonErrorPropagated == (\E s \in DaemonSockets : DaemonFailed(s)) ~> (daemon_main \in DaemonExits)

(***************************************************************************)
(* "it loops indefinitely, re-spawning the chosen backend after each guest *)
(* disconnect.  It only returns `Err` if the backend itself fails to       *)
(* start" (vhost-device-media/src/lib.rs, start_backend).                  *)
(***************************************************************************)
DaemonMediaServesAgain ==
  daemon_program = "media" /\ daemon_main \in DaemonExits => daemon_faults > 0
================================================================================
