------------------------------ MODULE SharingProofs ------------------------------
(***************************************************************************)
(* Where several guests share a program or a device of the host, and where *)
(* a guest shares memory with it.                                          *)
(***************************************************************************)
EXTENDS Daemons, Spi, Media, SequenceTheorems, FiniteSetTheorems, WellFoundedInduction, TLAPS

-----------------------------------------------------------------------------
(***************************************************************************)
(* The life of the daemons, for all sixteen, any command line and any      *)
(* number of sockets.  Before the arguments are read there is no thread,   *)
(* and of a daemon that serves again a thread is over only of a fault.     *)
(***************************************************************************)
DaemonJobsNow == DaemonJobs(daemon_program, daemon_args)

\* Nothing runs before the start, and only what was not refused after it.
DaemonStarted ==
  /\ daemon_program \in DaemonPrograms /\ daemon_args \in DaemonArguments[daemon_program]
  /\ daemon_main = "start" => DaemonSockets = {} /\ daemon_told = << >>
  /\ DaemonRunning => DaemonJobsNow # DaemonRefused

DaemonMoves ==
  /\ daemon_faults \in 0 .. DaemonFaults /\ daemon_main \in {"start", "wait"} \cup DaemonExits
  /\ \A s \in DaemonSockets : daemon_thread[s] \in DaemonPlaces
  /\ daemon_told \in Seq(DaemonSockets) /\ daemon_handles \subseteq DaemonSockets

DaemonNotLeftBehind == DaemonLoops(daemon_program) /\ daemon_program # "media"

\* A thread that is over has met a fault.
DaemonOverByFault ==
  DaemonNotLeftBehind /\ (\E s \in DaemonSockets : daemon_thread[s] \in DaemonOver) => daemon_faults > 0

DaemonIInv == DaemonStarted /\ DaemonMoves /\ DaemonOverByFault /\ DaemonOutlivesGuests /\ DaemonNoneForgotten

\* What each kind of daemon gives its guests.
LEMMA DaemonRngShares ==
  ASSUME NEW a, a.count \in Nat, a.value \in Nat
  PROVE  \A j \in DOMAIN DaemonRng(a) : Len(DaemonRng(a)) * DaemonRng(a)[j].share <= a.value
<1> SUFFICES ASSUME NEW j \in DOMAIN DaemonRng(a) PROVE Len(DaemonRng(a)) * DaemonRng(a)[j].share <= a.value
  OBVIOUS
<1>1. CASE ~a.valid \/ a.count = 0
  <2>1. DaemonRng(a) = << >>
    BY <1>1 DEF DaemonRng, DaemonRefused
  <2> QED
    BY <2>1
<1>2. CASE a.valid /\ a.count # 0
  <2> DEFINE jobs == [i \in 1 .. a.count |-> DaemonJob("random", DaemonRngShare(a))]
  <2>1. DaemonRng(a) = jobs
    BY <1>2 DEF DaemonRng
  <2>2. Len(jobs) = a.count /\ jobs[j].share = DaemonRngShare(a)
    BY <2>1 DEF DaemonJob
  <2>3. \A v \in Nat, n \in Nat \ {0} : n * (v \div n) <= v
    BY SMTT(20)
  <2>4. a.count * DaemonRngShare(a) <= a.value
    BY <1>2, <2>3 DEF DaemonRngShare
  <2> QED
    BY <2>1, <2>2, <2>4
<1> QED
  BY <1>1, <1>2

LEMMA DaemonGpioApart ==
  ASSUME NEW a, a.count \in Nat, Len(a.devices) \in Nat, DOMAIN a.devices = 1 .. Len(a.devices), DaemonGpio(a) # DaemonRefused
  PROVE  /\ \A i, j \in DOMAIN DaemonGpio(a) :
              i # j => DaemonGpio(a)[i].device # DaemonGpio(a)[j].device \/ DaemonGpio(a)[i].device = "sim"
         /\ Len(DaemonGpio(a)) = a.count
<1>1. DaemonGpio(a) = [i \in 1 .. Len(a.devices) |-> DaemonJob(a.devices[i], 0)] /\ ~DaemonDuplicate(a.devices) /\ Len(a.devices) = a.count
  BY DEF DaemonGpio, DaemonListed
<1>2. Len(DaemonGpio(a)) = a.count
  BY <1>1
<1>3. ASSUME NEW i \in 1 .. Len(a.devices), NEW j \in 1 .. Len(a.devices), i < j
      PROVE  a.devices[i] # a.devices[j] \/ a.devices[i] = "sim"
  BY <1>1, <1>3 DEF DaemonDuplicate, DaemonSimulated
<1>4. \A i \in 1 .. Len(a.devices) : DaemonGpio(a)[i].device = a.devices[i]
  BY <1>1 DEF DaemonJob
<1>5. ASSUME NEW i \in 1 .. Len(a.devices), NEW j \in 1 .. Len(a.devices), i # j
      PROVE  a.devices[i] # a.devices[j] \/ a.devices[i] = "sim"
  <2>1. i < j \/ j < i
    BY <1>5
  <2> QED
    BY <1>3, <2>1
<1>6. DOMAIN DaemonGpio(a) = 1 .. Len(a.devices)
  BY <1>1
<1> QED
  BY <1>2, <1>4, <1>5, <1>6

LEMMA DaemonConsoleApart ==
  ASSUME NEW a, a.count \in Nat, a.value \in Nat
  PROVE  \A i, j \in DOMAIN DaemonConsole(a) : i # j => DaemonConsole(a)[i].device # DaemonConsole(a)[j].device
<1>1. CASE a.count = 0 \/ (a.mode = "nested" /\ a.count # 1)
  <2>1. DaemonConsole(a) = << >>
    BY <1>1 DEF DaemonConsole, DaemonRefused
  <2> QED
    BY <2>1
<1>2. CASE ~(a.count = 0 \/ (a.mode = "nested" /\ a.count # 1)) /\ a.mode = "nested"
  <2>1. DOMAIN DaemonConsole(a) = 1 .. 1
    BY <1>2 DEF DaemonConsole, DaemonEach
  <2> QED
    BY <2>1
<1>3. CASE ~(a.count = 0 \/ (a.mode = "nested" /\ a.count # 1)) /\ a.mode # "nested"
  <2>1. DaemonConsole(a) = [i \in 1 .. a.count |-> DaemonJob(a.value + i - 1, 0)]
    BY <1>3 DEF DaemonConsole
  <2>2. \A i \in 1 .. a.count : DaemonConsole(a)[i].device = a.value + i - 1
    BY <2>1 DEF DaemonJob
  <2>3. \A i, j \in 1 .. a.count : i # j => a.value + i - 1 # a.value + j - 1
    OBVIOUS
  <2>4. DOMAIN DaemonConsole(a) = 1 .. a.count
    BY <2>1
  <2> QED
    BY <2>2, <2>3, <2>4
<1> QED
  BY <1>1, <1>2, <1>3

LEMMA DaemonCanCount ==
  ASSUME NEW a, a.count \in Nat, Len(a.devices) \in Nat, DOMAIN a.devices = 1 .. Len(a.devices), DaemonCan(a) # DaemonRefused
  PROVE  Len(DaemonCan(a)) = a.count
<1>1. DaemonCan(a) = [i \in 1 .. Len(a.devices) |-> DaemonJob(a.devices[i], 0)] /\ Len(a.devices) = a.count
  BY DEF DaemonCan, DaemonListed
<1> QED
  BY <1>1

LEMMA DaemonApartAlways == DaemonStarted => DaemonApart
<1> SUFFICES ASSUME DaemonStarted, DaemonRunning PROVE DaemonApart
  BY DEF DaemonApart
<1> DEFINE a == daemon_args
<1>1. /\ a.count \in Nat /\ a.value \in Nat
      /\ Len(a.devices) \in Nat /\ DOMAIN a.devices = 1 .. Len(a.devices)
  BY DaemonAssumption DEF DaemonStarted
<1>2. DaemonJobsNow # DaemonRefused
  BY DEF DaemonStarted
<1> HIDE DEF a
<1>3. CASE daemon_program = "rng"
  <2>1. DaemonJobsNow = DaemonRng(a)
    BY <1>3 DEF DaemonJobsNow, DaemonJobs, a
  <2>2. \A j \in DOMAIN DaemonRng(a) : Len(DaemonRng(a)) * DaemonRng(a)[j].share <= a.value
    BY <1>1, DaemonRngShares
  <2> QED
    BY <1>3, <2>1, <2>2 DEF DaemonApart, DaemonJobsNow, a
<1>4. CASE daemon_program = "gpio"
  <2>1. DaemonJobsNow = DaemonGpio(a)
    BY <1>4 DEF DaemonJobsNow, DaemonJobs, a
  <2>2. /\ \A i, j \in DOMAIN DaemonGpio(a) :
             i # j => DaemonGpio(a)[i].device # DaemonGpio(a)[j].device \/ DaemonGpio(a)[i].device = "sim"
        /\ Len(DaemonGpio(a)) = a.count
    BY <1>1, <1>2, <2>1, DaemonGpioApart
  <2> QED
    BY <1>4, <2>1, <2>2 DEF DaemonApart, DaemonJobsNow, a
<1>5. CASE daemon_program = "console"
  <2>1. DaemonJobsNow = DaemonConsole(a)
    BY <1>5 DEF DaemonJobsNow, DaemonJobs, a
  <2>2. \A i, j \in DOMAIN DaemonConsole(a) : i # j => DaemonConsole(a)[i].device # DaemonConsole(a)[j].device
    BY <1>1, DaemonConsoleApart
  <2> QED
    BY <1>5, <2>1, <2>2 DEF DaemonApart, DaemonJobsNow, a
<1>6. CASE daemon_program = "can"
  <2>1. DaemonJobsNow = DaemonCan(a)
    BY <1>6 DEF DaemonJobsNow, DaemonJobs, a
  <2>2. Len(DaemonCan(a)) = a.count
    BY <1>1, <1>2, <2>1, DaemonCanCount
  <2> QED
    BY <1>6, <2>1, <2>2 DEF DaemonApart, DaemonJobsNow, a
<1>7. CASE daemon_program \notin {"rng", "gpio", "console", "can"}
  BY <1>7 DEF DaemonApart
<1> QED
  BY <1>3, <1>4, <1>5, <1>6, <1>7

-----------------------------------------------------------------------------
\* What is put at the end of the channel is in it, once if it was not yet.
LEMMA DaemonTold ==
  ASSUME NEW S, NEW t \in Seq(S), NEW s \in S
  PROVE  /\ Range(Append(t, s)) = Range(t) \cup {s}
         /\ s \notin Range(t) /\ IsInjective(t) => IsInjective(Append(t, s))
<1>1. /\ Len(t) \in Nat /\ DOMAIN t = 1 .. Len(t) /\ DOMAIN Append(t, s) = 1 .. Len(t) + 1
      /\ Append(t, s)[Len(t) + 1] = s /\ \A i \in 1 .. Len(t) : Append(t, s)[i] = t[i]
  BY AppendProperties
<1>2. Range(Append(t, s)) = Range(t) \cup {s}
  <2>1. Range(Append(t, s)) \subseteq Range(t) \cup {s}
    BY <1>1 DEF Range
  <2>2. \A i \in DOMAIN t : i \in DOMAIN Append(t, s) /\ Append(t, s)[i] = t[i]
    BY <1>1
  <2>3. Range(t) \subseteq Range(Append(t, s))
    BY <2>2, Zenon DEF Range
  <2>4. s \in Range(Append(t, s))
    <3>1. Len(t) + 1 \in DOMAIN Append(t, s)
      BY <1>1
    <3> QED
      BY <1>1, <3>1, Zenon DEF Range
  <2> QED
    BY <2>1, <2>3, <2>4
<1>3. ASSUME s \notin Range(t), IsInjective(t) PROVE IsInjective(Append(t, s))
  <2> SUFFICES ASSUME NEW i \in 1 .. Len(t) + 1, NEW j \in 1 .. Len(t) + 1, Append(t, s)[i] = Append(t, s)[j] PROVE i = j
    BY <1>1 DEF IsInjective
  <2>1. \A k \in 1 .. Len(t) : t[k] # s
    BY <1>1, <1>3, Zenon DEF Range
  <2>2. \A k, l \in 1 .. Len(t) : t[k] = t[l] => k = l
    BY <1>1, <1>3 DEF IsInjective
  <2>3. i \in 1 .. Len(t) \/ i = Len(t) + 1
    BY <1>1
  <2>4. j \in 1 .. Len(t) \/ j = Len(t) + 1
    BY <1>1
  <2> QED
    BY <1>1, <2>1, <2>2, <2>3, <2>4
<1> QED
  BY <1>2, <1>3

\* A thread goes on: to the next place, to its end by a fault, or to the end
\* that a guest's leaving is for some daemons.
LEMMA DaemonGoesKeeps ==
  ASSUME DaemonIInv, DaemonRunning, NEW s \in DaemonSockets, daemon_thread[s] \notin DaemonOver,
         NEW to \in DaemonPlaces, DaemonGoes(s, to), daemon_faults' \in 0 .. DaemonFaults, daemon_faults' >= daemon_faults,
         to \in DaemonOver /\ DaemonNotLeftBehind => daemon_faults' > 0
  PROVE  DaemonIInv'
<1>1. /\ daemon_thread' = [daemon_thread EXCEPT ![s] = to]
      /\ daemon_told' = IF to \in DaemonOver /\ DaemonHears(daemon_program) = "any" THEN Append(daemon_told, s) ELSE daemon_told
      /\ daemon_main' = IF to \in DaemonOver /\ DaemonHears(daemon_program) = "itself" THEN DaemonExit(to) ELSE daemon_main
      /\ UNCHANGED <<daemon_program, daemon_args, daemon_handles>>
  BY DEF DaemonGoes
<1>2. DaemonSockets' = DaemonSockets /\ daemon_main = "wait"
  BY <1>1 DEF DaemonSockets, DaemonRunning
<1>3. \A r \in DaemonSockets : daemon_thread'[r] = IF r = s THEN to ELSE daemon_thread[r]
  BY <1>1 DEF DaemonSockets
<1>4. daemon_main' \in {"wait"} \cup DaemonExits
  BY <1>1, <1>2 DEF DaemonExit, DaemonExits, DaemonOver
<1>5. daemon_told' \in Seq(DaemonSockets)
  BY <1>1, AppendProperties DEF DaemonIInv, DaemonMoves
<1>6. DaemonStarted'
  <2>1. daemon_main' # "start"
    BY <1>4 DEF DaemonExits
  <2>2. DaemonJobsNow' = DaemonJobsNow
    BY <1>1 DEF DaemonJobsNow
  <2> QED
    BY <1>1, <2>1, <2>2 DEF DaemonIInv, DaemonStarted, DaemonRunning
<1>7. DaemonMoves'
  BY <1>1, <1>2, <1>3, <1>4, <1>5 DEF DaemonIInv, DaemonMoves
<1>8. DaemonOverByFault'
  <2> SUFFICES ASSUME DaemonNotLeftBehind, NEW r \in DaemonSockets, daemon_thread'[r] \in DaemonOver PROVE daemon_faults' > 0
    BY <1>1, <1>2 DEF DaemonOverByFault, DaemonNotLeftBehind
  <2>1. CASE r = s
    BY <1>3, <2>1
  <2>2. CASE r # s
    <3>1. daemon_faults > 0
      BY <1>3, <2>2 DEF DaemonIInv, DaemonOverByFault
    <3> QED
      BY <3>1 DEF DaemonIInv, DaemonMoves
  <2> QED
    BY <2>1, <2>2
<1>9. DaemonOutlivesGuests'
  <2> SUFFICES ASSUME daemon_main' \in DaemonExits, DaemonNotLeftBehind PROVE daemon_faults' > 0
    BY <1>1 DEF DaemonOutlivesGuests, DaemonNotLeftBehind
  <2>1. to \in DaemonOver
    BY <1>1, <1>2 DEF DaemonExits
  <2> QED
    BY <2>1
<1>10. DaemonNoneForgotten'
  <2> SUFFICES ASSUME daemon_main' = "wait", DaemonHears(daemon_program) # "next"
               PROVE  /\ Range(daemon_told') = {r \in DaemonSockets : daemon_thread'[r] \in DaemonOver}
                      /\ IsInjective(daemon_told')
    BY <1>1, <1>2 DEF DaemonNoneForgotten, DaemonRunning
  <2>1. /\ Range(daemon_told) = {r \in DaemonSockets : daemon_thread[r] \in DaemonOver}
        /\ IsInjective(daemon_told) /\ daemon_told \in Seq(DaemonSockets)
    BY <1>2 DEF DaemonIInv, DaemonMoves, DaemonNoneForgotten, DaemonRunning
  <2>2. CASE to \in DaemonOver
    <3>1. DaemonExit(to) # "wait"
      BY <2>2 DEF DaemonExit, DaemonOver
    <3>2. DaemonHears(daemon_program) = "any"
      BY <1>1, <2>2, <3>1 DEF DaemonHears
    <3>3. daemon_told' = Append(daemon_told, s)
      BY <1>1, <2>2, <3>2
    <3>4. s \notin Range(daemon_told)
      BY <2>1
    <3>5. Range(daemon_told') = Range(daemon_told) \cup {s} /\ IsInjective(daemon_told')
      BY <2>1, <3>3, <3>4, DaemonTold
    <3> QED
      BY <1>3, <2>1, <2>2, <3>5
  <2>3. CASE to \notin DaemonOver
    <3>1. daemon_told' = daemon_told
      BY <1>1, <2>3
    <3> QED
      BY <1>3, <2>1, <2>3, <3>1
  <2> QED
    BY <2>2, <2>3
<1> QED
  BY <1>6, <1>7, <1>8, <1>9, <1>10 DEF DaemonIInv

\* Main hears of the end of a thread, and ends.
LEMMA DaemonJoinedKeeps ==
  ASSUME DaemonIInv, DaemonRunning, NEW s \in DaemonSockets, DaemonJoined(s), daemon_told' \in Seq(DaemonSockets)
  PROVE  DaemonIInv'
<1>1. /\ daemon_thread[s] \in DaemonOver
      /\ daemon_main' = IF daemon_thread[s] = "panicked" /\ DaemonHears(daemon_program) = "any"
                        THEN "exit 1" ELSE DaemonExit(daemon_thread[s])
      /\ daemon_handles' = daemon_handles \ {s}
      /\ UNCHANGED <<daemon_program, daemon_args, daemon_thread, daemon_faults>>
  BY DEF DaemonJoined
<1>2. daemon_main' \in DaemonExits
  BY <1>1 DEF DaemonExit, DaemonExits, DaemonOver
<1>3. daemon_main' # "start" /\ daemon_main' # "wait"
  BY <1>2 DEF DaemonExits
<1>4. DaemonSockets' = DaemonSockets
  BY <1>1 DEF DaemonSockets
<1>5. DaemonStarted' /\ DaemonMoves'
  BY <1>1, <1>2, <1>3, <1>4 DEF DaemonIInv, DaemonStarted, DaemonMoves, DaemonRunning
<1>6. DaemonOverByFault'
  BY <1>1, <1>4 DEF DaemonIInv, DaemonOverByFault, DaemonNotLeftBehind
<1>7. DaemonOutlivesGuests'
  BY <1>1 DEF DaemonIInv, DaemonOverByFault, DaemonOutlivesGuests, DaemonNotLeftBehind
<1>8. DaemonNoneForgotten'
  BY <1>3 DEF DaemonNoneForgotten, DaemonRunning
<1> QED
  BY <1>5, <1>6, <1>7, <1>8 DEF DaemonIInv

LEMMA DaemonStartKeeps == DaemonIInv /\ DaemonStart => DaemonIInv'
<1> SUFFICES ASSUME DaemonIInv, DaemonStart PROVE DaemonIInv'
  OBVIOUS
<1>1. /\ daemon_main = "start" /\ daemon_thread' = [i \in DOMAIN DaemonJobsNow |-> "make"]
      /\ daemon_main' = IF DaemonJobsNow # DaemonRefused THEN "wait"
                        ELSE IF daemon_program \in {"scmi", "vsock"} THEN "exit 0" ELSE "exit 1"
      /\ daemon_handles' = DOMAIN DaemonJobsNow
      /\ UNCHANGED <<daemon_program, daemon_args, daemon_told, daemon_faults>>
  BY DEF DaemonStart, DaemonJobsNow
<1>2. daemon_told' = << >> /\ DaemonSockets' = DOMAIN DaemonJobsNow /\ DaemonJobsNow' = DaemonJobsNow
  BY <1>1 DEF DaemonIInv, DaemonStarted, DaemonSockets, DaemonJobsNow
<1>3. daemon_main' # "start" /\ daemon_main' \in {"wait"} \cup DaemonExits /\ (daemon_main' = "wait" => DaemonJobsNow # DaemonRefused)
  BY <1>1 DEF DaemonExits
<1>4. \A s \in DOMAIN DaemonJobsNow : daemon_thread'[s] = "make"
  BY <1>1
<1>5. DaemonStarted'
  BY <1>1, <1>2, <1>3 DEF DaemonIInv, DaemonStarted, DaemonRunning
<1>6. DaemonMoves'
  <2>1. daemon_handles' = DaemonSockets' /\ daemon_faults' = daemon_faults
    BY <1>1, <1>2, Zenon
  <2>2. \A s \in DaemonSockets' : daemon_thread'[s] \in DaemonPlaces
    BY <1>2, <1>4 DEF DaemonPlaces
  <2>3. daemon_told' \in Seq(DaemonSockets')
    BY <1>2
  <2> QED
    BY <1>3, <2>1, <2>2, <2>3, Zenon DEF DaemonIInv, DaemonMoves
<1>7. DaemonOverByFault'
  BY <1>2, <1>4 DEF DaemonOverByFault, DaemonOver
<1>8. DaemonOutlivesGuests'
  <2>1. CASE DaemonJobsNow = DaemonRefused
    <3>1. DaemonSockets' = {}
      BY <1>2, <2>1 DEF DaemonRefused
    <3> QED
      BY <3>1 DEF DaemonOutlivesGuests
  <2>2. CASE DaemonJobsNow # DaemonRefused
    BY <1>1, <2>2 DEF DaemonOutlivesGuests, DaemonExits
  <2> QED
    BY <2>1, <2>2
<1>9. DaemonNoneForgotten'
  <2>1. Range(daemon_told') = {} /\ IsInjective(daemon_told')
    BY <1>2 DEF Range, IsInjective
  <2>2. {s \in DaemonSockets' : daemon_thread'[s] \in DaemonOver} = {}
    BY <1>2, <1>4 DEF DaemonOver
  <2> QED
    BY <2>1, <2>2 DEF DaemonNoneForgotten
<1> QED
  BY <1>5, <1>6, <1>7, <1>8, <1>9 DEF DaemonIInv

LEMMA DaemonStep == DaemonIInv /\ [DaemonNext]_DaemonVars => DaemonIInv'
<1> SUFFICES ASSUME DaemonIInv, [DaemonNext]_DaemonVars PROVE DaemonIInv'
  OBVIOUS
<1>0. daemon_faults \in 0 .. DaemonFaults /\ DaemonFaults \in Nat /\ daemon_told \in Seq(DaemonSockets)
      /\ \A s \in DaemonSockets : daemon_thread[s] \in DaemonPlaces
  BY DaemonAssumption DEF DaemonIInv, DaemonMoves
<1>1. CASE DaemonStart
  BY <1>1, DaemonStartKeeps
<1>2. ASSUME NEW s \in DaemonSockets,
             DaemonMake(s) \/ DaemonMakeFails(s) \/ DaemonConnect(s) \/ DaemonLeave(s) \/ DaemonServeFails(s)
      PROVE  DaemonIInv'
  <2>1. DaemonRunning /\ daemon_thread[s] \in {"make", "listen", "guest"}
    BY <1>2 DEF DaemonMake, DaemonMakeFails, DaemonConnect, DaemonLeave, DaemonServeFails
  <2>2. daemon_thread[s] \notin DaemonOver
    BY <2>1 DEF DaemonOver
  <2>3. CASE DaemonMake(s) \/ DaemonConnect(s)
    <3>1. PICK to \in {"listen", "guest"} : DaemonGoes(s, to) /\ UNCHANGED daemon_faults
      BY <2>3 DEF DaemonMake, DaemonConnect
    <3>2. to \in DaemonPlaces /\ to \notin DaemonOver
      BY <3>1 DEF DaemonPlaces, DaemonOver
    <3> QED
      BY <1>0, <2>1, <2>2, <3>1, <3>2, DaemonGoesKeeps
  <2>4. CASE DaemonMakeFails(s) \/ DaemonServeFails(s)
    <3>1. PICK to \in DaemonPlaces : DaemonGoes(s, to)
      BY <2>4 DEF DaemonMakeFails, DaemonServeFails, DaemonAfterMake, DaemonAfterError, DaemonPlaces, DaemonOver
    <3>2. daemon_faults' = daemon_faults + 1 /\ daemon_faults < DaemonFaults
      BY <2>4 DEF DaemonMakeFails, DaemonServeFails, DaemonFault
    <3>3. daemon_faults' \in 0 .. DaemonFaults /\ daemon_faults' >= daemon_faults /\ daemon_faults' > 0
      BY <1>0, <3>2
    <3> QED
      BY <2>1, <2>2, <3>1, <3>3, DaemonGoesKeeps
  <2>5. CASE DaemonLeave(s)
    <3> DEFINE to == DaemonAfterGuest(daemon_program)
    <3>1. DaemonGoes(s, to) /\ UNCHANGED daemon_faults
      BY <2>5 DEF DaemonLeave
    <3>2. to \in DaemonPlaces
      BY DEF DaemonAfterGuest, DaemonPlaces, DaemonOver
    <3>3. DaemonNotLeftBehind => to \notin DaemonOver
      BY DEF DaemonAfterGuest, DaemonNotLeftBehind, DaemonWaits, DaemonExcepts, DaemonOver
    <3> HIDE DEF to
    <3> QED
      BY <1>0, <2>1, <2>2, <3>1, <3>2, <3>3, DaemonGoesKeeps
  <2> QED
    BY <1>2, <2>3, <2>4, <2>5
<1>3. CASE DaemonHear
  <2>1. DaemonRunning /\ daemon_told # << >> /\ DaemonJoined(Head(daemon_told)) /\ daemon_told' = Tail(daemon_told)
    BY <1>3 DEF DaemonHear
  <2>2. Head(daemon_told) \in DaemonSockets /\ daemon_told' \in Seq(DaemonSockets)
    BY <1>0, <2>1, HeadTailProperties
  <2> QED
    BY <2>1, <2>2, DaemonJoinedKeeps
<1>4. CASE DaemonJoin
  <2>1. DaemonRunning /\ daemon_told' = daemon_told
    BY <1>4 DEF DaemonJoin
  <2>2. PICK s \in daemon_handles : DaemonJoined(s)
    BY <1>4 DEF DaemonJoin
  <2>3. s \in DaemonSockets
    BY DEF DaemonIInv, DaemonMoves
  <2> QED
    BY <1>0, <2>1, <2>2, <2>3, DaemonJoinedKeeps
<1>5. CASE UNCHANGED DaemonVars
  BY <1>5 DEF DaemonVars, DaemonIInv, DaemonStarted, DaemonMoves, DaemonOverByFault, DaemonOutlivesGuests, DaemonNoneForgotten,
     DaemonRunning, DaemonSockets, DaemonJobsNow, DaemonNotLeftBehind
<1> QED
  BY <1>1, <1>2, <1>3, <1>4, <1>5 DEF DaemonNext

LEMMA DaemonBegin == DaemonInit => DaemonIInv
<1> SUFFICES ASSUME DaemonInit PROVE DaemonIInv
  OBVIOUS
<1>1. /\ daemon_program \in DaemonPrograms /\ daemon_args \in DaemonArguments[daemon_program]
      /\ daemon_main = "start" /\ daemon_thread = << >> /\ daemon_told = << >> /\ daemon_handles = {} /\ daemon_faults = 0
  BY DEF DaemonInit
<1>2. DaemonSockets = {}
  BY <1>1 DEF DaemonSockets
<1>3. DaemonStarted /\ DaemonMoves
  BY <1>1, <1>2, DaemonAssumption DEF DaemonStarted, DaemonMoves, DaemonRunning
<1>4. DaemonOverByFault /\ DaemonOutlivesGuests /\ DaemonNoneForgotten
  BY <1>1, <1>2 DEF DaemonOverByFault, DaemonOutlivesGuests, DaemonNoneForgotten, DaemonRunning
<1> QED
  BY <1>3, <1>4 DEF DaemonIInv

\* The guests of a daemon are kept apart; no guest of a daemon that serves again,
\* but of media, ends it by leaving; and where threads send their ids main has
\* word of every one that has ended (main.rs and backend.rs of the crates).
THEOREM DaemonsHold == DaemonSpec => []DaemonInv
<1>1. DaemonIInv => DaemonInv
  <2> SUFFICES ASSUME DaemonIInv PROVE DaemonInv
    OBVIOUS
  <2>1. DaemonApart
    BY DaemonApartAlways DEF DaemonIInv
  <2>2. Range(daemon_told) \subseteq DaemonSockets
    <3>1. daemon_told \in Seq(DaemonSockets)
      BY DEF DaemonIInv, DaemonMoves
    <3>2. \A i \in DOMAIN daemon_told : daemon_told[i] \in DaemonSockets
      BY <3>1, ElementOfSeq
    <3> QED
      BY <3>2, Zenon DEF Range
  <2>3. DaemonTypeOK
    BY <2>2 DEF DaemonIInv, DaemonStarted, DaemonMoves, DaemonTypeOK
  <2> QED
    BY <2>1, <2>3 DEF DaemonIInv, DaemonInv
<1> QED
  BY <1>1, DaemonBegin, DaemonStep, PTL DEF DaemonSpec

-----------------------------------------------------------------------------
(***************************************************************************)
(* The SPI device, for any hardware, any bits of the mode, any number of   *)
(* guests and any queues.  What a thread knows of the device holds while   *)
(* no other thread has set it since: each conjunct is about one guest, and *)
(* a step of another keeps it or counts as such a move (SpiAside).         *)
(***************************************************************************)
\* A mode that a device can be in.
SpiLegal(h, mode) ==
  /\ mode \subseteq SpiTried /\ mode \cap SpiFlags \subseteq h.flags /\ mode \cap SpiWide \subseteq h.wide
  /\ SpiOneWidth(mode)

SpiLegalNow(mode) ==
  mode \subseteq SpiTried /\ \A h \in SpiHardware : spi_has = <<>> \/ spi_has = h => SpiLegal(h, mode)

\* What the try of a bit tells of the device, and after those before the k-th.
SpiGives(bit) ==
  IF bit \in SpiWide THEN {bit} \cap spi_has.wide
  ELSE SpiNames(bit, FALSE) \cup (IF bit \in spi_has.flags THEN SpiNames(bit, TRUE) ELSE {})
SpiFound(k) == UNION {SpiGives(SpiProbes[i]) : i \in 1 .. k - 1}

\* What is known of a bit without a try.
SpiAtOnce(g) == IF SpiBit(g) \in SpiWide THEN {} ELSE SpiNames(SpiBit(g), SpiBit(g) \in spi_saved[g])

SpiTrying(g) ==
  /\ spi_pc[g] = "try" =>
       /\ spi_probe[g] \in 1 .. Len(SpiProbes) + 1
       /\ ~spi_moved[g] =>
            spi_config[g] = [bits |-> SpiFound(spi_probe[g]), words |-> spi_has.words, speed |-> spi_has.speed]
  /\ spi_pc[g] = "look" =>
       /\ spi_probe[g] \in 1 .. Len(SpiProbes) /\ SpiTakes(SpiTryMode(g))
       /\ ~spi_moved[g] =>
            /\ spi_config[g] = [bits |-> SpiFound(spi_probe[g]) \cup SpiAtOnce(g), words |-> spi_has.words, speed |-> spi_has.speed]
            /\ spi_mode = SpiTryMode(g) \ (SpiWide \ spi_has.wide)

SpiFindsOutOf(g) ==
  spi_pc[g] = "idle" /\ spi_answers[g] = <<>> /\ ~spi_moved[g] =>
    spi_config[g] = [bits |-> SpiAbilities, words |-> spi_has.words, speed |-> spi_has.speed]
SpiModeAskedOf(g) ==
  spi_pc[g] = "rdwr" /\ ~spi_moved[g] => spi_mode \cap SpiFlags = Last(spi_reqs[g]).flags \cap SpiTried
SpiModeKeptOf(g) ==
  spi_pc[g] = "idle" /\ ~spi_moved[g] /\ (\A i \in DOMAIN spi_answers[g] : spi_answers[g][i] = "OK") => spi_mode = spi_saved[g]
SpiOkMeansDoneOf(g) ==
  spi_pc[g] = "idle" /\ "OK" \in Range(spi_answers[g]) =>
    spi_done[g] \/ "PARAM_ERR" \in Range(spi_answers[g]) \/ Len(spi_answers[g]) >= SpiMessageLimit

\* The requests of a transfer, and what it has done.
SpiTransferring(g) ==
  /\ spi_pc[g] \in {"check", "set", "rdwr", "restore"} => spi_reqs[g] \in SpiQueues
  /\ spi_pc[g] = "restore" => spi_done[g] \/ Len(spi_reqs[g]) >= SpiMessageLimit

SpiPlaces == {"new", "speed", "try", "look", "idle", "check", "set", "rdwr", "restore", "dead", "gone"}

SpiOwn(g) ==
  /\ spi_pc[g] \in SpiPlaces /\ (spi_has = <<>> => spi_pc[g] = "new")
  /\ spi_pc[g] \in {"new", "speed", "try", "look"} => spi_answers[g] = <<>>
  /\ spi_probe[g] \in 0 .. Len(SpiProbes) + 1
  /\ SpiLegalNow(spi_saved[g])
  /\ spi_done[g] \in BOOLEAN /\ spi_moved[g] \in BOOLEAN
  /\ Range(spi_answers[g]) \subseteq {"OK", "PARAM_ERR", "TRANS_ERR", "none"}

SpiLocal(g) ==
  /\ SpiOwn(g) /\ SpiTrying(g) /\ SpiTransferring(g)
  /\ SpiFindsOutOf(g) /\ SpiModeAskedOf(g) /\ SpiModeKeptOf(g) /\ SpiOkMeansDoneOf(g)

\* The variables that have a part for each guest.
SpiTables ==
  /\ spi_pc = [g \in SpiGuests |-> spi_pc[g]] /\ spi_probe = [g \in SpiGuests |-> spi_probe[g]]
  /\ spi_saved = [g \in SpiGuests |-> spi_saved[g]]
  /\ DOMAIN spi_config = SpiGuests /\ DOMAIN spi_reqs = SpiGuests /\ DOMAIN spi_answers = SpiGuests
  /\ spi_done \in [SpiGuests -> BOOLEAN] /\ spi_moved \in [SpiGuests -> BOOLEAN]

SpiDevice ==
  (spi_has = <<>> \/ spi_has \in SpiHardware) /\ SpiLegalNow(spi_mode)

SpiIInv == SpiTables /\ SpiDevice /\ \A g \in SpiGuests : SpiLocal(g)

-----------------------------------------------------------------------------
\* The bits: which there are, and what their tries tell.
LEMMA SpiBitsApart ==
  /\ SpiFlags \cap SpiWide = {} /\ SpiTx \cap SpiRx = {} /\ SpiTx \subseteq SpiWide /\ SpiRx \subseteq SpiWide
  /\ SpiWide = SpiTx \cup SpiRx /\ SpiTried \subseteq SpiFlags \cup SpiWide
<1>1. SpiFlags \cap SpiWide = {} /\ SpiTx \cap SpiRx = {}
  BY DEF SpiFlags, SpiWide, SpiTx, SpiRx
<1>2. SpiTried \subseteq SpiFlags \cup SpiWide
  <2>1. SpiProbes \in Seq(SpiFlags \cup SpiWide)
    BY SpiAssumption
  <2>2. \A i \in DOMAIN SpiProbes : SpiProbes[i] \in SpiFlags \cup SpiWide
    BY <2>1, ElementOfSeq
  <2> QED
    BY <2>2, Zenon DEF SpiTried, Range
<1> QED
  BY <1>1, <1>2 DEF SpiWide

LEMMA SpiNamed ==
  ASSUME NEW bit \in SpiFlags
  PROVE  /\ bit = "CPHA" => SpiNames(bit, TRUE) = {"CPHA_1"} /\ SpiNames(bit, FALSE) = {"CPHA_0"}
         /\ bit = "CPOL" => SpiNames(bit, TRUE) = {"CPOL_1"} /\ SpiNames(bit, FALSE) = {"CPOL_0"}
         /\ bit \notin {"CPHA", "CPOL"} => SpiNames(bit, TRUE) = {bit} /\ SpiNames(bit, FALSE) = {}
  BY DEF SpiNames

LEMMA SpiNamedWide ==
  ASSUME NEW bit \in SpiWide
  PROVE  SpiNames(bit, TRUE) = {bit} /\ SpiNames(bit, FALSE) = {}
<1>1. bit # "CPHA" /\ bit # "CPOL"
  BY DEF SpiWide, SpiTx, SpiRx
<1> QED
  BY <1>1 DEF SpiNames

LEMMA SpiHas ==
  ASSUME NEW h \in SpiHardware
  PROVE  h.flags \subseteq SpiFlags \cap SpiTried /\ h.wide \subseteq SpiWide \cap SpiTried
  BY SpiAssumption

LEMMA SpiProbesCount == Len(SpiProbes) \in Nat /\ DOMAIN SpiProbes = 1 .. Len(SpiProbes) /\ \A i \in 1 .. Len(SpiProbes) : SpiProbes[i] \in SpiTried
<1>1. SpiProbes \in Seq(SpiFlags \cup SpiWide)
  BY SpiAssumption
<1>2. Len(SpiProbes) \in Nat /\ DOMAIN SpiProbes = 1 .. Len(SpiProbes)
  BY <1>1, LenProperties
<1>3. \A i \in DOMAIN SpiProbes : SpiProbes[i] \in SpiTried
  BY Zenon DEF SpiTried, Range
<1> QED
  BY <1>2, <1>3

\* One more try, and all of them.
LEMMA SpiFoundMore ==
  ASSUME NEW k \in 1 .. Len(SpiProbes)
  PROVE  SpiFound(k + 1) = SpiFound(k) \cup SpiGives(SpiProbes[k])
<1>1. 1 .. (k + 1) - 1 = (1 .. k - 1) \cup {k}
  BY SpiProbesCount
<1> QED
  BY <1>1 DEF SpiFound

LEMMA SpiFoundNone == SpiFound(1) = {}
<1>1. 1 .. 1 - 1 = {}
  OBVIOUS
<1> QED
  BY <1>1 DEF SpiFound

LEMMA SpiFoundAll ==
  ASSUME spi_has \in SpiHardware
  PROVE  SpiFound(Len(SpiProbes) + 1) = SpiAbilities
<1>1. SpiFound(Len(SpiProbes) + 1) = UNION {SpiGives(bit) : bit \in SpiTried}
  <2>1. 1 .. (Len(SpiProbes) + 1) - 1 = DOMAIN SpiProbes
    BY SpiProbesCount
  <2>2. SpiFound(Len(SpiProbes) + 1) = UNION {SpiGives(SpiProbes[i]) : i \in DOMAIN SpiProbes}
    BY <2>1 DEF SpiFound
  <2>3. \A x : x \in UNION {SpiGives(SpiProbes[i]) : i \in DOMAIN SpiProbes} <=> \E i \in DOMAIN SpiProbes : x \in SpiGives(SpiProbes[i])
    BY Zenon
  <2>4. \A x : x \in UNION {SpiGives(bit) : bit \in SpiTried} <=> \E bit \in SpiTried : x \in SpiGives(bit)
    BY Zenon
  <2>5. \A bit : bit \in SpiTried <=> \E i \in DOMAIN SpiProbes : bit = SpiProbes[i]
    BY Zenon DEF SpiTried, Range
  <2> QED
    <3> DEFINE some == UNION {SpiGives(SpiProbes[i]) : i \in DOMAIN SpiProbes}
               all == UNION {SpiGives(bit) : bit \in SpiTried}
    <3>1. \A x : x \in some <=> x \in all
      BY <2>3, <2>4, <2>5, Zenon
    <3> HIDE DEF some, all
    <3>2. some = all
      BY <3>1
    <3> QED
      BY <2>2, <3>2, Zenon DEF some, all
<1>2. spi_has.flags \subseteq SpiFlags \cap SpiTried /\ spi_has.wide \subseteq SpiWide \cap SpiTried
  BY SpiHas
<1>3. ASSUME NEW bit \in SpiTried PROVE SpiGives(bit) \subseteq SpiAbilities
  <2>1. CASE bit \in SpiWide
    BY <2>1 DEF SpiGives, SpiAbilities
  <2>2. CASE bit \in SpiFlags /\ bit \notin {"CPHA", "CPOL"}
    <3>0. SpiNames(bit, TRUE) = {bit} /\ SpiNames(bit, FALSE) = {}
      BY <2>2, SpiNamed
    <3>1. SpiGives(bit) \subseteq {bit} \cap spi_has.flags
      BY <2>2, <3>0, SpiBitsApart DEF SpiGives
    <3> QED
      BY <2>2, <3>1 DEF SpiAbilities
  <2>3. CASE bit \in SpiFlags /\ bit \in {"CPHA", "CPOL"}
    <3>1. SpiNames(bit, FALSE) \subseteq SpiAbilities
      BY <2>3, Zenon DEF SpiAbilities
    <3>2. bit \in spi_has.flags => SpiNames(bit, TRUE) \subseteq SpiAbilities
      BY <2>3, Zenon DEF SpiAbilities
    <3>3. bit \notin SpiWide
      BY <2>3, SpiBitsApart
    <3> QED
      BY <3>1, <3>2, <3>3 DEF SpiGives
  <2> QED
    BY <2>1, <2>2, <2>3, SpiBitsApart
<1>4. ASSUME NEW x \in SpiAbilities PROVE \E bit \in SpiTried : x \in SpiGives(bit)
  <2>1. CASE x \in spi_has.wide
    BY <1>2, <2>1 DEF SpiGives
  <2>2. CASE x \in spi_has.flags \ {"CPHA", "CPOL"}
    <3>1. x \in SpiFlags /\ x \in SpiTried /\ x \notin SpiWide
      BY <1>2, <2>2, SpiBitsApart
    <3>2. x \in SpiGives(x)
      BY <2>2, <3>1, SpiNamed DEF SpiGives
    <3> QED
      BY <3>1, <3>2
  <2>3. CASE x \in UNION {SpiNames(bit, FALSE) : bit \in {"CPHA", "CPOL"} \cap SpiTried}
    <3>1. PICK bit \in {"CPHA", "CPOL"} \cap SpiTried : x \in SpiNames(bit, FALSE)
      BY <2>3, Zenon
    <3>2. bit \notin SpiWide
      BY <3>1 DEF SpiWide, SpiTx, SpiRx
    <3> QED
      BY <3>1, <3>2 DEF SpiGives
  <2>4. CASE x \in UNION {SpiNames(bit, TRUE) : bit \in {"CPHA", "CPOL"} \cap spi_has.flags}
    <3>1. PICK bit \in {"CPHA", "CPOL"} \cap spi_has.flags : x \in SpiNames(bit, TRUE)
      BY <2>4, Zenon
    <3>2. bit \notin SpiWide
      BY <3>1 DEF SpiWide, SpiTx, SpiRx
    <3> QED
      BY <1>2, <3>1, <3>2 DEF SpiGives
  <2> QED
    BY <2>1, <2>2, <2>3, <2>4, Zenon DEF SpiAbilities
<1> QED
  BY <1>1, <1>3, <1>4, Zenon

\* A mode that is set is one that the device can be in; a legal one is set whole.
LEMMA SpiSetLegal ==
  ASSUME NEW h \in SpiHardware, NEW mode, mode \subseteq SpiTried, mode \cap SpiFlags \subseteq h.flags, SpiOneWidth(mode)
  PROVE  SpiLegal(h, mode \ (SpiWide \ h.wide))
<1> DEFINE m == mode \ (SpiWide \ h.wide)
<1>1. m \subseteq SpiTried /\ m \cap SpiFlags \subseteq h.flags /\ m \cap SpiWide \subseteq h.wide
  OBVIOUS
<1>2. m \cap SpiTx \subseteq mode \cap SpiTx /\ m \cap SpiRx \subseteq mode \cap SpiRx
  OBVIOUS
<1>3. SpiOneWidth(m)
  <2> HIDE DEF m
  <2> QED
    BY <1>2, Zenon DEF SpiOneWidth
<1> QED
  BY <1>1, <1>3 DEF SpiLegal

LEMMA SpiLegalWhole ==
  ASSUME NEW h, NEW mode, SpiLegal(h, mode)
  PROVE  mode \ (SpiWide \ h.wide) = mode
  BY DEF SpiLegal

\* The mode of a try: one width in its direction, or one flag turned over.
LEMMA SpiTryIs ==
  ASSUME NEW g \in SpiGuests, spi_has \in SpiHardware, SpiLegal(spi_has, spi_saved[g]), SpiBit(g) \in SpiTried
  PROVE  /\ SpiTryMode(g) \subseteq SpiTried
         /\ SpiBit(g) \in SpiWide => SpiBit(g) \in SpiTryMode(g)
         /\ SpiBit(g) \notin SpiWide =>
              /\ SpiBit(g) \in SpiFlags /\ (SpiBit(g) \in SpiTryMode(g) <=> SpiBit(g) \notin spi_saved[g])
              /\ (SpiTakes(SpiTryMode(g)) <=> SpiBit(g) \in spi_has.flags)
<1> DEFINE bit == SpiBit(g)
           origin == spi_saved[g]
<1>1. origin \subseteq SpiTried /\ origin \cap SpiFlags \subseteq spi_has.flags /\ SpiOneWidth(origin)
  BY DEF SpiLegal
<1>2. CASE bit \in SpiWide
  <2>1. bit \in SpiTx \/ bit \in SpiRx
    BY <1>2, SpiBitsApart
  <2> QED
    BY <1>1, <1>2, <2>1 DEF SpiTryMode
<1>3. CASE bit \notin SpiWide
  <2>1. bit \in SpiFlags /\ bit \notin SpiTx /\ bit \notin SpiRx
    BY <1>3, SpiBitsApart
  <2>2. SpiTryMode(g) = IF bit \in origin THEN origin \ {bit} ELSE origin \cup {bit}
    BY <2>1 DEF SpiTryMode
  <2> HIDE DEF bit, origin
  <2>3. SpiTryMode(g) \subseteq SpiTried /\ (bit \in SpiTryMode(g) <=> bit \notin origin)
    BY <1>1, <2>2 DEF bit
  <2>4. SpiTryMode(g) \cap SpiTx = origin \cap SpiTx /\ SpiTryMode(g) \cap SpiRx = origin \cap SpiRx
    BY <2>1, <2>2
  <2>5. SpiOneWidth(SpiTryMode(g))
    BY <1>1, <2>4 DEF SpiOneWidth
  <2>6. SpiTryMode(g) \cap SpiFlags \subseteq spi_has.flags <=> bit \in spi_has.flags
    BY <1>1, <2>1, <2>2
  <2> QED
    BY <1>3, <2>1, <2>3, <2>5, <2>6 DEF SpiTakes, bit, origin
<1> QED
  BY <1>2, <1>3

-----------------------------------------------------------------------------
\* A guest that a step is not about keeps what it has, and is told by its
\* history if the mode was set.
SpiStays(h) ==
  /\ spi_pc'[h] = spi_pc[h] /\ spi_probe'[h] = spi_probe[h] /\ spi_saved'[h] = spi_saved[h]
  /\ spi_config'[h] = spi_config[h] /\ spi_reqs'[h] = spi_reqs[h] /\ spi_answers'[h] = spi_answers[h]
  /\ spi_done'[h] = spi_done[h] /\ spi_moved'[h] \in BOOLEAN
  /\ (spi_moved[h] => spi_moved'[h]) /\ (spi_mode' = spi_mode \/ spi_moved'[h])

LEMMA SpiAside ==
  ASSUME NEW h, SpiLocal(h), SpiStays(h), spi_has' = spi_has
  PROVE  SpiLocal(h)'
<1> USE DEF SpiLocal, SpiStays
<1>1. SpiOwn(h)'
  BY Zenon DEF SpiOwn, SpiLegalNow
<1>2. SpiBit(h)' = SpiBit(h) /\ SpiTryMode(h)' = SpiTryMode(h) /\ SpiAtOnce(h)' = SpiAtOnce(h)
  BY Zenon DEF SpiBit, SpiTryMode, SpiAtOnce
<1>3. SpiTakes(SpiTryMode(h))' = SpiTakes(SpiTryMode(h))
  BY <1>2, Zenon DEF SpiTakes
<1>4. SpiFound(spi_probe[h])' = SpiFound(spi_probe[h])
  BY Zenon DEF SpiFound, SpiGives
<1>5. SpiTrying(h)'
  BY <1>2, <1>3, <1>4, Zenon DEF SpiTrying
<1>6. SpiTransferring(h)' /\ SpiModeAskedOf(h)' /\ SpiModeKeptOf(h)' /\ SpiOkMeansDoneOf(h)'
  BY Zenon DEF SpiTransferring, SpiModeAskedOf, SpiModeKeptOf, SpiOkMeansDoneOf
<1>7. SpiFindsOutOf(h)'
  <2>1. SpiAbilities' = SpiAbilities
    BY Zenon DEF SpiAbilities
  <2> QED
    BY <2>1, Zenon DEF SpiFindsOutOf
<1> QED
  BY <1>1, <1>5, <1>6, <1>7

\* A step of one guest's thread.
LEMMA SpiOne ==
  ASSUME SpiIInv, NEW g \in SpiGuests, spi_has' = spi_has, SpiTables', SpiLegalNow(spi_mode)', SpiLocal(g)',
         \A h \in SpiGuests : h # g => SpiStays(h)
  PROVE  SpiIInv'
<1>1. \A h \in SpiGuests : SpiLocal(h)'
  <2> TAKE h \in SpiGuests
  <2>1. CASE h = g
    BY <2>1
  <2>2. CASE h # g
    <3>1. SpiStays(h) /\ SpiLocal(h)
      BY <2>2 DEF SpiIInv
    <3> QED
      BY <3>1, SpiAside
  <2> QED
    BY <2>1, <2>2
<1>2. SpiDevice'
  BY DEF SpiDevice, SpiIInv
<1> QED
  BY <1>1, <1>2 DEF SpiIInv

\* Of a thread at rest, or at its beginning, there is little to know.
LEMMA SpiElsewhere ==
  ASSUME NEW g \in SpiGuests, SpiOwn(g)', spi_pc'[g] \in {"new", "speed", "dead", "gone"}
  PROVE  SpiLocal(g)'
  BY DEF SpiLocal, SpiTrying, SpiTransferring, SpiFindsOutOf, SpiModeAskedOf, SpiModeKeptOf, SpiOkMeansDoneOf

LEMMA SpiWhileTrying ==
  ASSUME NEW g \in SpiGuests, SpiOwn(g)', SpiTrying(g)', spi_pc'[g] \in {"try", "look"}
  PROVE  SpiLocal(g)'
  BY DEF SpiLocal, SpiTransferring, SpiFindsOutOf, SpiModeAskedOf, SpiModeKeptOf, SpiOkMeansDoneOf

LEMMA SpiWhileTransferring ==
  ASSUME NEW g \in SpiGuests, SpiOwn(g)', SpiTransferring(g)', SpiModeAskedOf(g)', spi_pc'[g] \in {"check", "set", "rdwr", "restore"}
  PROVE  SpiLocal(g)'
  BY DEF SpiLocal, SpiTrying, SpiFindsOutOf, SpiModeKeptOf, SpiOkMeansDoneOf

LEMMA SpiWhileIdle ==
  ASSUME NEW g \in SpiGuests, SpiOwn(g)', SpiFindsOutOf(g)', SpiModeKeptOf(g)', SpiOkMeansDoneOf(g)', spi_pc'[g] = "idle"
  PROVE  SpiLocal(g)'
  BY DEF SpiLocal, SpiTrying, SpiTransferring, SpiModeAskedOf

\* The device is known when a step is made, and the modes are its.
LEMMA SpiThere ==
  ASSUME SpiIInv, NEW g \in SpiGuests, spi_has # <<>>
  PROVE  spi_has \in SpiHardware /\ SpiLegal(spi_has, spi_mode) /\ SpiLegal(spi_has, spi_saved[g])
  BY DEF SpiIInv, SpiDevice, SpiLocal, SpiOwn, SpiLegalNow

LEMMA SpiNowLegal ==
  ASSUME spi_has # <<>>, NEW mode, SpiLegal(spi_has, mode)
  PROVE  SpiLegalNow(mode)
<1>1. mode \subseteq SpiTried
  BY DEF SpiLegal
<1> QED
  BY <1>1 DEF SpiLegalNow

-----------------------------------------------------------------------------
LEMMA SpiOpenKeeps ==
  ASSUME SpiIInv, NEW g \in SpiGuests, SpiOpen(g) \/ SpiLost(g) \/ SpiServed(g) \/ SpiPanic(g)
  PROVE  SpiIInv'
<1>1. PICK to \in {"new", "speed", "dead", "gone"} : spi_has # <<>> /\ spi_pc' = [spi_pc EXCEPT ![g] = to]
  BY DEF SpiOpen, SpiLost, SpiServed, SpiPanic, SpiStep
<1>2. spi_has' = spi_has /\ spi_mode' = spi_mode
  BY DEF SpiOpen, SpiLost, SpiServed, SpiPanic
<1>3. \A h \in SpiGuests : h # g => SpiStays(h)
  <2>1. CASE SpiOpen(g)
    BY <1>1, <1>2, <2>1 DEF SpiOpen, SpiStays, SpiIInv, SpiTables
  <2>2. CASE SpiLost(g) \/ SpiPanic(g)
    BY <1>1, <1>2, <2>2 DEF SpiLost, SpiPanic, SpiStays, SpiIInv, SpiTables
  <2>3. CASE SpiServed(g)
    BY <1>1, <1>2, <2>3 DEF SpiServed, SpiStays, SpiIInv, SpiTables
  <2> QED
    BY <2>1, <2>2, <2>3
<1>4. SpiTables'
  BY <1>1 DEF SpiOpen, SpiLost, SpiServed, SpiPanic, SpiIInv, SpiTables
<1>5. spi_pc'[g] = to /\ spi_moved'[g] \in BOOLEAN /\ spi_done'[g] \in BOOLEAN
  BY <1>1, <1>4 DEF SpiIInv, SpiTables
<1>6. spi_probe'[g] \in {spi_probe[g], 0} /\ spi_saved'[g] \in {spi_saved[g], {}} /\ spi_answers'[g] \in {spi_answers[g], <<>>}
  BY DEF SpiOpen, SpiLost, SpiServed, SpiPanic, SpiIInv, SpiTables
<1>7. SpiOwn(g)'
  <2>1. SpiOwn(g) /\ Len(SpiProbes) \in Nat
    BY SpiProbesCount DEF SpiIInv, SpiLocal
  <2>2. SpiLegalNow({})
    BY DEF SpiLegalNow, SpiLegal, SpiOneWidth
  <2>3. SpiLegalNow(spi_saved'[g])
    BY <1>6, <2>1, <2>2 DEF SpiOwn
  <2>4. SpiLegalNow(spi_saved[g])'
    BY <1>2, <2>3, Zenon DEF SpiLegalNow
  <2>5. Range(spi_answers'[g]) \subseteq {"OK", "PARAM_ERR", "TRANS_ERR", "none"}
    <3>1. Range(<<>>) = {}
      BY DEF Range
    <3> QED
      BY <1>6, <2>1, <3>1, Zenon DEF SpiOwn
  <2>6. spi_pc'[g] \in SpiPlaces
    BY <1>5 DEF SpiPlaces
  <2>7. spi_probe'[g] \in 0 .. Len(SpiProbes) + 1
    BY <1>6, <2>1 DEF SpiOwn
  <2>8. spi_pc'[g] \in {"new", "speed", "try", "look"} => spi_answers'[g] = <<>>
    BY <1>1, <1>5, <2>1 DEF SpiOpen, SpiLost, SpiServed, SpiPanic, SpiStep, SpiOwn, SpiIInv, SpiTables
  <2> QED
    BY <1>1, <1>2, <1>5, <2>4, <2>5, <2>6, <2>7, <2>8, Zenon DEF SpiOwn
<1>8. SpiLocal(g)'
  BY <1>5, <1>7, SpiElsewhere
<1>9. SpiLegalNow(spi_mode)'
  BY <1>2, Zenon DEF SpiIInv, SpiDevice, SpiLegalNow
<1> QED
  BY <1>2, <1>3, <1>4, <1>8, <1>9, SpiOne

LEMMA SpiDetectKeeps ==
  ASSUME SpiIInv, NEW g \in SpiGuests, SpiDetect(g)
  PROVE  SpiIInv'
<1>1. PICK read \in {IF spi_has.speed = 0 THEN 0 ELSE spi_speed} \cup {0} :
        /\ spi_config' = [spi_config EXCEPT ![g] = [bits |-> {}, words |-> spi_has.words, speed |-> read]]
        /\ spi_moved' = [h \in SpiGuests |->
             spi_moved[h] \/ IF h = g THEN read # spi_has.speed ELSE spi_pc[h] = "speed"]
  BY DEF SpiDetect
<1>2. /\ spi_has # <<>> /\ spi_pc[g] = "speed" /\ spi_pc' = [spi_pc EXCEPT ![g] = "try"]
      /\ spi_saved' = [spi_saved EXCEPT ![g] = spi_mode] /\ spi_probe' = [spi_probe EXCEPT ![g] = 1]
      /\ UNCHANGED <<spi_has, spi_mode, spi_reqs, spi_answers, spi_done>>
  BY DEF SpiDetect, SpiStep
<1>3. SpiTables /\ SpiTables'
  BY <1>1, <1>2 DEF SpiIInv, SpiTables
<1>4. \A h \in SpiGuests : h # g => SpiStays(h)
  BY <1>1, <1>2, <1>3 DEF SpiStays, SpiTables
<1>5. spi_pc'[g] = "try" /\ spi_probe'[g] = 1 /\ spi_saved'[g] = spi_mode
  BY <1>2, <1>3 DEF SpiTables
<1>6. spi_config'[g] = [bits |-> {}, words |-> spi_has.words, speed |-> read] /\ (~spi_moved'[g] => read = spi_has.speed)
  BY <1>1, <1>3 DEF SpiTables
<1>7. SpiOwn(g)'
  <2>1. SpiOwn(g) /\ Len(SpiProbes) \in Nat
    BY SpiProbesCount DEF SpiIInv, SpiLocal
  <2>2. SpiLegalNow(spi_saved[g])'
    BY <1>2, <1>5, Zenon DEF SpiIInv, SpiDevice, SpiLegalNow
  <2> QED
    BY <1>2, <1>3, <1>5, <2>1, <2>2 DEF SpiOwn, SpiPlaces, SpiTables
<1>8. SpiTrying(g)'
  <2>1. SpiFound(spi_probe[g])' = {}
    <3>1. SpiFound(1)' = {}
      BY SpiFoundNone DEF SpiFound
    <3> QED
      BY <1>5, <3>1 DEF SpiFound
  <2>2. spi_probe'[g] \in 1 .. Len(SpiProbes) + 1
    BY <1>5, SpiProbesCount
  <2> QED
    BY <1>2, <1>5, <1>6, <2>1, <2>2 DEF SpiTrying
<1>9. SpiLocal(g)'
  BY <1>5, <1>7, <1>8, SpiWhileTrying
<1>10. SpiLegalNow(spi_mode)'
  BY <1>2, Zenon DEF SpiIInv, SpiDevice, SpiLegalNow
<1> QED
  BY <1>2, <1>3, <1>4, <1>9, <1>10, SpiOne

-----------------------------------------------------------------------------
\* The tries: before one it is known what those before it told, and a call
\* that fails though the device would take the mode counts as a move.
LEMMA SpiLearnt ==
  \A c, bits, words, speed, more : c = [bits |-> bits, words |-> words, speed |-> speed] =>
    [c EXCEPT !.bits = c.bits \cup more] = [bits |-> bits \cup more, words |-> words, speed |-> speed]
<1> SUFFICES ASSUME NEW c, NEW bits, NEW words, NEW speed, NEW more, c = [bits |-> bits, words |-> words, speed |-> speed]
             PROVE  [c EXCEPT !.bits = c.bits \cup more] = [bits |-> bits \cup more, words |-> words, speed |-> speed]
  OBVIOUS
<1>1. c.bits = bits
  OBVIOUS
<1>2. \A e : [[bits |-> bits, words |-> words, speed |-> speed] EXCEPT !.bits = e] = [bits |-> e, words |-> words, speed |-> speed]
  OBVIOUS
<1> QED
  BY <1>1, <1>2, Zenon

LEMMA SpiTryKeeps ==
  ASSUME SpiIInv, NEW g \in SpiGuests, SpiTry(g)
  PROVE  SpiIInv'
<1> DEFINE bit == SpiBit(g)
           now == IF SpiBit(g) \in SpiWide THEN {} ELSE SpiNames(SpiBit(g), SpiBit(g) \in spi_saved[g])
           k == spi_probe[g]
<1>1. /\ spi_pc[g] = "try" /\ k <= Len(SpiProbes) /\ SpiLocal(g) /\ SpiTables
      /\ UNCHANGED <<spi_has, spi_speed, spi_saved, spi_reqs, spi_answers, spi_done>>
  BY DEF SpiTry, SpiIInv
<1>2. k \in 1 .. Len(SpiProbes) /\ Len(SpiProbes) \in Nat /\ bit = SpiProbes[k] /\ bit \in SpiTried
  BY <1>1, SpiProbesCount DEF SpiLocal, SpiTrying, SpiBit
<1>3. now = SpiAtOnce(g)
  BY DEF SpiAtOnce
<1>4. \/ /\ SpiKnown(g)
         /\ SpiStep(g, "try", "try") /\ SpiLearn(g, now, 1) /\ UNCHANGED <<spi_mode, spi_moved>>
      \/ /\ ~SpiKnown(g) /\ SpiTakes(SpiTryMode(g)) /\ SpiSetMode(g, SpiTryMode(g))
         /\ SpiStep(g, "try", "look") /\ SpiLearn(g, now, 0)
      \/ /\ ~SpiKnown(g) /\ SpiStep(g, "try", IF SpiBit(g) \in SpiWide THEN "gone" ELSE "try")
         /\ SpiLearn(g, now, 1) /\ UNCHANGED spi_mode
         /\ spi_moved' = [spi_moved EXCEPT ![g] = @ \/ SpiTakes(SpiTryMode(g))]
  BY DEF SpiTry
<1> HIDE DEF bit, now, k
<1>5. PICK to \in {"try", "look", "gone"}, next \in {0, 1} :
        /\ spi_pc' = [spi_pc EXCEPT ![g] = to] /\ spi_has # <<>>
        /\ spi_config' = [spi_config EXCEPT ![g].bits = @ \cup now]
        /\ spi_probe' = [spi_probe EXCEPT ![g] = @ + next]
        /\ to = "look" <=> next = 0
  BY <1>4 DEF SpiStep, SpiLearn
<1>6. spi_has \in SpiHardware /\ SpiLegal(spi_has, spi_mode) /\ SpiLegal(spi_has, spi_saved[g])
  BY <1>5, SpiThere
<1>7. /\ spi_pc'[g] = to /\ spi_probe'[g] = k + next /\ spi_saved'[g] = spi_saved[g]
      /\ spi_config'[g] = [spi_config[g] EXCEPT !.bits = @ \cup now]
  BY <1>1, <1>5 DEF SpiTables, k
<1>8. spi_moved' \in [SpiGuests -> BOOLEAN]
  BY <1>1, <1>4 DEF SpiTables, SpiSetMode, SpiDisturb
<1>9. SpiTables'
  BY <1>1, <1>5, <1>8 DEF SpiTables
<1>10. \A h \in SpiGuests : h # g => SpiStays(h)
  <2> SUFFICES ASSUME NEW h \in SpiGuests, h # g PROVE SpiStays(h)
    OBVIOUS
  <2>1. /\ spi_pc'[h] = spi_pc[h] /\ spi_probe'[h] = spi_probe[h] /\ spi_saved'[h] = spi_saved[h]
        /\ spi_config'[h] = spi_config[h] /\ spi_reqs'[h] = spi_reqs[h] /\ spi_answers'[h] = spi_answers[h]
        /\ spi_done'[h] = spi_done[h] /\ spi_moved'[h] \in BOOLEAN
    BY <1>1, <1>5, <1>8 DEF SpiTables
  <2>2. CASE spi_mode' = spi_mode /\ (spi_moved' = spi_moved \/ spi_moved' = [spi_moved EXCEPT ![g] = @ \/ SpiTakes(SpiTryMode(g))])
    BY <1>1, <2>1, <2>2 DEF SpiStays, SpiTables
  <2>3. CASE SpiSetMode(g, SpiTryMode(g))
    BY <2>1, <2>3 DEF SpiStays, SpiSetMode, SpiDisturb
  <2> QED
    BY <1>4, <2>2, <2>3
<1>11. SpiOwn(g)'
  <2>1. SpiLegalNow(spi_saved[g])'
    BY <1>1, <1>7, Zenon DEF SpiLocal, SpiOwn, SpiLegalNow
  <2>2. spi_probe'[g] \in 0 .. Len(SpiProbes) + 1
    BY <1>2, <1>7
  <2>3. spi_pc'[g] \in SpiPlaces
    BY <1>7 DEF SpiPlaces
  <2>4. spi_moved'[g] \in BOOLEAN
    BY <1>8
  <2>5. spi_answers'[g] = <<>>
    BY <1>1, Zenon DEF SpiLocal, SpiOwn
  <2> QED
    BY <1>1, <1>5, <2>1, <2>2, <2>3, <2>4, <2>5, Zenon DEF SpiLocal, SpiOwn
<1>12. SpiLegalNow(spi_mode)'
  <2>1. CASE spi_mode' = spi_mode
    BY <1>1, <2>1, Zenon DEF SpiIInv, SpiDevice, SpiLegalNow
  <2>2. CASE SpiTakes(SpiTryMode(g)) /\ SpiSetMode(g, SpiTryMode(g))
    <3>1. SpiTryMode(g) \subseteq SpiTried
      BY <1>2, <1>6, SpiTryIs DEF bit
    <3>2. SpiLegal(spi_has, SpiTryMode(g) \ (SpiWide \ spi_has.wide))
      BY <1>6, <2>2, <3>1, SpiSetLegal DEF SpiTakes
    <3>3. SpiLegalNow(spi_mode')
      BY <1>5, <2>2, <3>2, SpiNowLegal DEF SpiSetMode
    <3> QED
      BY <1>1, <3>3, Zenon DEF SpiLegalNow
  <2> QED
    BY <1>4, <2>1, <2>2
<1>13. ~spi_moved[g] =>
         spi_config'[g] = [bits |-> SpiFound(k) \cup now, words |-> spi_has.words, speed |-> spi_has.speed]
  <2> SUFFICES ASSUME ~spi_moved[g]
               PROVE  spi_config'[g] = [bits |-> SpiFound(k) \cup now, words |-> spi_has.words, speed |-> spi_has.speed]
    OBVIOUS
  <2> DEFINE c == spi_config[g]
             d == spi_config'[g]
             known == SpiFound(k)
             words == spi_has.words
             speed == spi_has.speed
  <2>1. c = [bits |-> known, words |-> words, speed |-> speed]
    BY <1>1, Zenon DEF SpiLocal, SpiTrying, k
  <2>2. d = [c EXCEPT !.bits = c.bits \cup now]
    BY <1>7
  <2> HIDE DEF c, d, known, words, speed
  <2>3. d = [bits |-> known \cup now, words |-> words, speed |-> speed]
    BY <2>1, <2>2, SpiLearnt
  <2> QED
    BY <2>3, Zenon DEF c, d, known, words, speed
<1>14. SpiFound(k + 1) = SpiFound(k) \cup SpiGives(bit)
  BY <1>2, SpiFoundMore
<1>16. CASE SpiKnown(g) /\ UNCHANGED <<spi_mode, spi_moved>> /\ to = "try"
  <2>1. bit \in SpiFlags /\ bit \notin {"CPHA", "CPOL"} /\ bit \in spi_saved[g]
    BY <1>16 DEF SpiKnown, SpiFlags, bit
  <2>2. bit \in spi_has.flags /\ bit \notin SpiWide
    BY <1>6, <2>1, SpiBitsApart DEF SpiLegal
  <2>3. now = {bit} /\ SpiGives(bit) = {bit}
    BY <2>1, <2>2, SpiNamed DEF now, bit, SpiGives
  <2>4. SpiTrying(g)'
    <3>1. ~spi_moved'[g] => spi_config'[g] = [bits |-> SpiFound(k + 1), words |-> spi_has.words, speed |-> spi_has.speed]
      BY <1>13, <1>14, <1>16, <2>3
    <3>2. next = 1
      BY <1>5, <1>16
    <3>3. SpiFound(spi_probe[g])' = SpiFound(k + 1)
      BY <1>1, <1>7, <3>2, Zenon DEF SpiFound, SpiGives
    <3>4. spi_probe'[g] \in 1 .. Len(SpiProbes) + 1
      BY <1>2, <1>7, <3>2
    <3> QED
      BY <1>1, <1>7, <1>16, <3>1, <3>3, <3>4 DEF SpiTrying
  <2>5. SpiLocal(g)'
    BY <1>7, <1>11, <1>16, <2>4, SpiWhileTrying
  <2> QED
    BY <1>1, <1>9, <1>10, <1>12, <2>5, SpiOne
<1>17. CASE SpiTakes(SpiTryMode(g)) /\ SpiSetMode(g, SpiTryMode(g)) /\ to = "look"
  <2>1. next = 0 /\ spi_probe'[g] = k
    BY <1>2, <1>5, <1>7, <1>17
  <2>2. spi_moved'[g] = spi_moved[g] /\ spi_mode' = SpiTryMode(g) \ (SpiWide \ spi_has.wide)
    BY <1>1, <1>17 DEF SpiSetMode, SpiDisturb, SpiTables
  <2>3. SpiBit(g)' = SpiBit(g) /\ SpiTryMode(g)' = SpiTryMode(g) /\ SpiAtOnce(g)' = SpiAtOnce(g)
    BY <1>7, <2>1, Zenon DEF SpiBit, SpiTryMode, SpiAtOnce, k
  <2>4. SpiTakes(SpiTryMode(g))'
    BY <1>1, <1>17, <2>3, Zenon DEF SpiTakes
  <2>5. SpiFound(spi_probe[g])' = SpiFound(k)
    BY <1>1, <2>1, Zenon DEF SpiFound, SpiGives
  <2>6. SpiTrying(g)'
    BY <1>1, <1>2, <1>3, <1>7, <1>13, <1>17, <2>1, <2>2, <2>3, <2>4, <2>5 DEF SpiTrying
  <2>7. SpiLocal(g)'
    BY <1>7, <1>11, <1>17, <2>6, SpiWhileTrying
  <2> QED
    BY <1>1, <1>9, <1>10, <1>12, <2>7, SpiOne
<1>18. CASE to = "gone"
  <2>1. SpiLocal(g)'
    BY <1>7, <1>11, <1>18, SpiElsewhere
  <2> QED
    BY <1>1, <1>9, <1>10, <1>12, <2>1, SpiOne
<1>19. CASE /\ bit \notin SpiWide /\ to = "try" /\ ~SpiKnown(g) /\ UNCHANGED spi_mode
            /\ spi_moved' = [spi_moved EXCEPT ![g] = @ \/ SpiTakes(SpiTryMode(g))]
  <2>1. ~spi_moved'[g] => ~spi_moved[g] /\ ~SpiTakes(SpiTryMode(g))
    BY <1>1, <1>19 DEF SpiTables
  <2>2. bit \in SpiFlags /\ (SpiTakes(SpiTryMode(g)) <=> bit \in spi_has.flags)
    BY <1>2, <1>6, <1>19, SpiTryIs DEF bit
  <2>3. bit \notin spi_has.flags => bit \notin spi_saved[g]
    BY <1>6, <2>2 DEF SpiLegal
  <2>4. bit \notin spi_has.flags => SpiGives(bit) = now
    <3> SUFFICES ASSUME bit \notin spi_has.flags PROVE SpiGives(bit) = now
      OBVIOUS
    <3>1. bit \notin spi_saved[g]
      BY <2>3
    <3>2. now = SpiNames(bit, bit \in spi_saved[g])
      BY <1>19 DEF now, bit
    <3>3. SpiNames(bit, bit \in spi_saved[g]) = SpiNames(bit, FALSE)
      BY <3>1 DEF SpiNames
    <3> QED
      BY <1>19, <3>2, <3>3 DEF SpiGives
  <2>5. SpiTrying(g)'
    <3>1. ~spi_moved'[g] => spi_config'[g] = [bits |-> SpiFound(k + 1), words |-> spi_has.words, speed |-> spi_has.speed]
      BY <1>13, <1>14, <2>1, <2>2, <2>4
    <3>2. next = 1
      BY <1>5, <1>19
    <3>3. SpiFound(spi_probe[g])' = SpiFound(k + 1)
      BY <1>1, <1>7, <3>2, Zenon DEF SpiFound, SpiGives
    <3>4. spi_probe'[g] \in 1 .. Len(SpiProbes) + 1
      BY <1>2, <1>7, <3>2
    <3> QED
      BY <1>1, <1>7, <1>19, <3>1, <3>3, <3>4 DEF SpiTrying
  <2>6. SpiLocal(g)'
    BY <1>7, <1>11, <1>19, <2>5, SpiWhileTrying
  <2> QED
    BY <1>1, <1>9, <1>10, <1>12, <2>6, SpiOne
<1>20. \/ SpiKnown(g) /\ UNCHANGED <<spi_mode, spi_moved>> /\ to = "try"
       \/ SpiTakes(SpiTryMode(g)) /\ SpiSetMode(g, SpiTryMode(g)) /\ to = "look"
       \/ to = "gone"
       \/ /\ bit \notin SpiWide /\ to = "try" /\ ~SpiKnown(g) /\ UNCHANGED spi_mode
          /\ spi_moved' = [spi_moved EXCEPT ![g] = @ \/ SpiTakes(SpiTryMode(g))]
  BY <1>1, <1>4, <1>7 DEF SpiStep, SpiTables, bit
<1> QED
  BY <1>16, <1>17, <1>18, <1>19, <1>20

\* What the look at the mode adds.
LEMMA SpiLookTells ==
  ASSUME NEW g \in SpiGuests, spi_has \in SpiHardware, SpiLegal(spi_has, spi_saved[g]), SpiBit(g) \in SpiTried,
         SpiTakes(SpiTryMode(g)), spi_mode = SpiTryMode(g) \ (SpiWide \ spi_has.wide)
  PROVE  SpiAtOnce(g) \cup (IF SpiBit(g) \in SpiTryMode(g) <=> SpiBit(g) \in spi_mode THEN SpiNames(SpiBit(g), SpiBit(g) \in spi_mode) ELSE {})
           = SpiGives(SpiBit(g))
<1> DEFINE seen == IF SpiBit(g) \in SpiTryMode(g) <=> SpiBit(g) \in spi_mode THEN SpiNames(SpiBit(g), SpiBit(g) \in spi_mode) ELSE {}
<1>1. CASE SpiBit(g) \in SpiWide
  <2>1. SpiBit(g) \in SpiTryMode(g)
    BY <1>1, SpiTryIs
  <2>2. SpiBit(g) \in spi_mode <=> SpiBit(g) \in spi_has.wide
    BY <1>1, <2>1
  <2>3. SpiBit(g) \in spi_has.wide => seen = {SpiBit(g)}
    <3> SUFFICES ASSUME SpiBit(g) \in spi_has.wide PROVE seen = {SpiBit(g)}
      OBVIOUS
    <3>1. seen = SpiNames(SpiBit(g), TRUE)
      BY <2>1, <2>2 DEF SpiNames
    <3> QED
      BY <1>1, <3>1, SpiNamedWide
  <2>4. SpiBit(g) \notin spi_has.wide => seen = {}
    BY <2>1, <2>2
  <2>5. SpiGives(SpiBit(g)) = {SpiBit(g)} \cap spi_has.wide /\ SpiAtOnce(g) = {}
    BY <1>1 DEF SpiGives, SpiAtOnce
  <2> HIDE DEF seen
  <2>6. SpiAtOnce(g) \cup seen = SpiGives(SpiBit(g))
    BY <2>3, <2>4, <2>5
  <2> QED
    BY <2>6 DEF seen
<1>2. CASE SpiBit(g) \notin SpiWide
  <2>1. SpiBit(g) \in spi_has.flags /\ (SpiBit(g) \in SpiTryMode(g) <=> SpiBit(g) \notin spi_saved[g])
    BY <1>2, SpiTryIs
  <2>2. SpiBit(g) \in spi_mode <=> SpiBit(g) \in SpiTryMode(g)
    BY <1>2
  <2>3. SpiGives(SpiBit(g)) = SpiNames(SpiBit(g), FALSE) \cup SpiNames(SpiBit(g), TRUE)
    BY <1>2, <2>1 DEF SpiGives
  <2>4. CASE SpiBit(g) \in spi_saved[g]
    <3>1. seen = SpiNames(SpiBit(g), FALSE) /\ SpiAtOnce(g) = SpiNames(SpiBit(g), TRUE)
      BY <1>2, <2>1, <2>2, <2>4 DEF SpiAtOnce, SpiNames
    <3> HIDE DEF seen
    <3>2. SpiAtOnce(g) \cup seen = SpiGives(SpiBit(g))
      BY <2>3, <3>1
    <3> QED
      BY <3>2 DEF seen
  <2>5. CASE SpiBit(g) \notin spi_saved[g]
    <3>1. seen = SpiNames(SpiBit(g), TRUE) /\ SpiAtOnce(g) = SpiNames(SpiBit(g), FALSE)
      BY <1>2, <2>1, <2>2, <2>5 DEF SpiAtOnce, SpiNames
    <3> HIDE DEF seen
    <3>2. SpiAtOnce(g) \cup seen = SpiGives(SpiBit(g))
      BY <2>3, <3>1
    <3> QED
      BY <3>2 DEF seen
  <2> QED
    BY <2>4, <2>5
<1> QED
  BY <1>1, <1>2

LEMMA SpiLookKeeps ==
  ASSUME SpiIInv, NEW g \in SpiGuests, SpiLook(g)
  PROVE  SpiIInv'
<1> DEFINE seen == IF SpiBit(g) \in SpiTryMode(g) <=> SpiBit(g) \in spi_mode THEN SpiNames(SpiBit(g), SpiBit(g) \in spi_mode) ELSE {}
           k == spi_probe[g]
<1>1. /\ spi_has # <<>> /\ spi_pc[g] = "look" /\ spi_pc' = [spi_pc EXCEPT ![g] = "try"]
      /\ spi_config' = [spi_config EXCEPT ![g].bits = @ \cup seen] /\ spi_probe' = [spi_probe EXCEPT ![g] = @ + 1]
      /\ UNCHANGED <<spi_has, spi_mode, spi_speed, spi_saved, spi_reqs, spi_answers, spi_done, spi_moved>>
      /\ SpiLocal(g) /\ SpiTables
  BY DEF SpiLook, SpiStep, SpiLearn, SpiIInv
<1>2. seen = IF SpiBit(g) \in SpiTryMode(g) <=> SpiBit(g) \in spi_mode THEN SpiNames(SpiBit(g), SpiBit(g) \in spi_mode) ELSE {}
  OBVIOUS
<1> HIDE DEF seen, k
<1>3. k \in 1 .. Len(SpiProbes) /\ Len(SpiProbes) \in Nat /\ SpiBit(g) = SpiProbes[k] /\ SpiBit(g) \in SpiTried
  BY <1>1, SpiProbesCount DEF SpiLocal, SpiTrying, SpiBit, k
<1>4. spi_has \in SpiHardware /\ SpiLegal(spi_has, spi_mode) /\ SpiLegal(spi_has, spi_saved[g])
  BY <1>1, SpiThere
<1>5. /\ spi_pc'[g] = "try" /\ spi_probe'[g] = k + 1 /\ spi_saved'[g] = spi_saved[g]
      /\ spi_config'[g] = [spi_config[g] EXCEPT !.bits = spi_config[g].bits \cup seen]
  BY <1>1 DEF SpiTables, k
<1>6. SpiTables'
  BY <1>1 DEF SpiTables
<1>7. \A h \in SpiGuests : h # g => SpiStays(h)
  BY <1>1 DEF SpiStays, SpiTables
<1>8. SpiOwn(g)'
  <2>1. SpiLegalNow(spi_saved[g])'
    BY <1>1, <1>5, Zenon DEF SpiLocal, SpiOwn, SpiLegalNow
  <2>2. spi_probe'[g] \in 0 .. Len(SpiProbes) + 1 /\ spi_pc'[g] \in SpiPlaces
    BY <1>3, <1>5 DEF SpiPlaces
  <2>3. spi_answers'[g] = <<>>
    BY <1>1, Zenon DEF SpiLocal, SpiOwn
  <2> QED
    BY <1>1, <2>1, <2>2, <2>3, Zenon DEF SpiLocal, SpiOwn
<1>9. SpiLegalNow(spi_mode)'
  BY <1>1, Zenon DEF SpiIInv, SpiDevice, SpiLegalNow
<1>10. ~spi_moved[g] => spi_config'[g] = [bits |-> SpiFound(k + 1), words |-> spi_has.words, speed |-> spi_has.speed]
  <2> SUFFICES ASSUME ~spi_moved[g]
               PROVE  spi_config'[g] = [bits |-> SpiFound(k + 1), words |-> spi_has.words, speed |-> spi_has.speed]
    OBVIOUS
  <2>1. /\ spi_config[g] = [bits |-> SpiFound(k) \cup SpiAtOnce(g), words |-> spi_has.words, speed |-> spi_has.speed]
        /\ spi_mode = SpiTryMode(g) \ (SpiWide \ spi_has.wide) /\ SpiTakes(SpiTryMode(g))
    BY <1>1, Zenon DEF SpiLocal, SpiTrying, k
  <2>2. SpiAtOnce(g) \cup seen = SpiGives(SpiBit(g))
    BY <1>2, <1>3, <1>4, <2>1, SpiLookTells
  <2>3. spi_config'[g] = [bits |-> (SpiFound(k) \cup SpiAtOnce(g)) \cup seen, words |-> spi_has.words, speed |-> spi_has.speed]
    <3> DEFINE c == spi_config[g]
               d == spi_config'[g]
               known == SpiFound(k) \cup SpiAtOnce(g)
               words == spi_has.words
               speed == spi_has.speed
    <3>1. c = [bits |-> known, words |-> words, speed |-> speed] /\ d = [c EXCEPT !.bits = c.bits \cup seen]
      BY <1>5, <2>1, Zenon
    <3> HIDE DEF c, d, known, words, speed
    <3>2. d = [bits |-> known \cup seen, words |-> words, speed |-> speed]
      BY <3>1, SpiLearnt
    <3> QED
      BY <3>2, Zenon DEF c, d, known, words, speed
  <2>4. SpiFound(k + 1) = SpiFound(k) \cup SpiGives(SpiBit(g))
    BY <1>3, SpiFoundMore
  <2>5. (SpiFound(k) \cup SpiAtOnce(g)) \cup seen = SpiFound(k + 1)
    BY <2>2, <2>4
  <2> QED
    BY <2>3, <2>5
<1>11. SpiTrying(g)'
  <2>1. SpiFound(spi_probe[g])' = SpiFound(k + 1)
    BY <1>1, <1>5, Zenon DEF SpiFound, SpiGives
  <2>2. spi_probe'[g] \in 1 .. Len(SpiProbes) + 1
    BY <1>3, <1>5
  <2> QED
    BY <1>1, <1>5, <1>10, <2>1, <2>2 DEF SpiTrying
<1>12. SpiLocal(g)'
  BY <1>5, <1>8, <1>11, SpiWhileTrying
<1> QED
  BY <1>1, <1>6, <1>7, <1>9, <1>12, SpiOne

\* The mode is set back whole: the device was in it.
LEMMA SpiSetBack ==
  ASSUME SpiIInv, NEW g \in SpiGuests, spi_has # <<>>, spi_has' = spi_has, spi_saved' = spi_saved, SpiSetMode(g, spi_saved[g])
  PROVE  /\ spi_mode' = spi_saved[g] /\ SpiLegalNow(spi_mode)' /\ SpiLegalNow(spi_saved[g])'
         /\ \A h \in SpiGuests : spi_moved'[h] = (spi_moved[h] \/ h # g)
<1>1. SpiLegal(spi_has, spi_saved[g])
  BY SpiThere
<1>2. spi_mode' = spi_saved[g]
  BY <1>1, SpiLegalWhole DEF SpiSetMode
<1>3. SpiLegalNow(spi_saved[g])
  BY <1>1, SpiNowLegal
<1> QED
  BY <1>2, <1>3, Zenon DEF SpiLegalNow, SpiSetMode, SpiDisturb

LEMMA SpiDetectedKeeps ==
  ASSUME SpiIInv, NEW g \in SpiGuests, SpiDetected(g)
  PROVE  SpiIInv'
<1>1. /\ spi_has # <<>> /\ spi_pc[g] = "try" /\ spi_pc' = [spi_pc EXCEPT ![g] = "idle"] /\ spi_probe[g] > Len(SpiProbes)
      /\ SpiSetMode(g, spi_saved[g]) /\ spi_probe' = [spi_probe EXCEPT ![g] = 0]
      /\ UNCHANGED <<spi_has, spi_speed, spi_saved, spi_config, spi_reqs, spi_answers, spi_done>>
      /\ SpiLocal(g) /\ SpiTables
  BY DEF SpiDetected, SpiStep, SpiIInv
<1>2. spi_has \in SpiHardware
  BY <1>1, SpiThere
<1>3. /\ spi_mode' = spi_saved[g] /\ SpiLegalNow(spi_mode)' /\ SpiLegalNow(spi_saved[g])'
      /\ \A h \in SpiGuests : spi_moved'[h] = (spi_moved[h] \/ h # g)
  BY <1>1, SpiSetBack
<1>4. SpiTables'
  BY <1>1 DEF SpiTables, SpiSetMode, SpiDisturb
<1>5. spi_pc'[g] = "idle" /\ spi_probe'[g] = 0 /\ spi_moved'[g] = spi_moved[g]
  BY <1>1, <1>3 DEF SpiTables
<1>6. \A h \in SpiGuests : h # g => SpiStays(h)
  BY <1>1, <1>3 DEF SpiStays, SpiTables
<1>7. spi_answers'[g] = <<>>
  BY <1>1, Zenon DEF SpiLocal, SpiOwn
<1>8. SpiOwn(g)'
  <2>1. spi_probe'[g] \in 0 .. Len(SpiProbes) + 1 /\ spi_pc'[g] \in SpiPlaces
    BY <1>5, SpiProbesCount DEF SpiPlaces
  <2> QED
    BY <1>1, <1>3, <1>5, <1>7, <2>1, Zenon DEF SpiLocal, SpiOwn
<1>9. SpiFindsOutOf(g)'
  <2>1. spi_probe[g] = Len(SpiProbes) + 1
    BY <1>1, SpiProbesCount DEF SpiLocal, SpiTrying
  <2>2. ~spi_moved[g] => spi_config[g] = [bits |-> SpiAbilities, words |-> spi_has.words, speed |-> spi_has.speed]
    BY <1>1, <1>2, <2>1, SpiFoundAll, Zenon DEF SpiLocal, SpiTrying
  <2>3. SpiAbilities' = SpiAbilities
    BY <1>1, Zenon DEF SpiAbilities
  <2> QED
    BY <1>1, <1>5, <2>2, <2>3, Zenon DEF SpiFindsOutOf
<1>10. SpiModeKeptOf(g)'
  BY <1>1, <1>3 DEF SpiModeKeptOf
<1>11. SpiOkMeansDoneOf(g)'
  <2>1. "OK" \notin Range(spi_answers'[g])
    <3>1. Range(<<>>) = {}
      BY DEF Range
    <3> QED
      BY <1>7, <3>1
  <2> QED
    BY <2>1 DEF SpiOkMeansDoneOf
<1>12. SpiLocal(g)'
  BY <1>5, <1>8, <1>9, <1>10, <1>11, SpiWhileIdle
<1> QED
  BY <1>1, <1>3, <1>4, <1>6, <1>12, SpiOne

-----------------------------------------------------------------------------
\* The device is there before any thread opens it.
LEMMA SpiPlugKeeps ==
  ASSUME SpiIInv, NEW h \in SpiHardware, SpiPlug(h)
  PROVE  SpiIInv'
<1>1. /\ spi_has = <<>> /\ spi_has' = h
      /\ UNCHANGED <<spi_mode, spi_speed, spi_pc, spi_probe, spi_saved, spi_config, spi_reqs, spi_answers, spi_done, spi_moved>>
  BY DEF SpiPlug
<1>2. SpiTables' /\ SpiDevice'
  <2>1. SpiTables'
    BY <1>1 DEF SpiIInv, SpiTables
  <2>2. SpiLegalNow(spi_mode)'
    BY <1>1, Zenon DEF SpiIInv, SpiDevice, SpiLegalNow
  <2> QED
    BY <1>1, <2>1, <2>2 DEF SpiDevice
<1>3. ASSUME NEW g \in SpiGuests PROVE SpiLocal(g)'
  <2>1. SpiOwn(g) /\ spi_pc[g] = "new"
    BY <1>1 DEF SpiIInv, SpiLocal, SpiOwn
  <2>2. SpiLegalNow(spi_saved[g])'
    BY <1>1, <2>1, Zenon DEF SpiOwn, SpiLegalNow
  <2>3. SpiOwn(g)'
    BY <1>1, <2>1, <2>2, Zenon DEF SpiOwn
  <2> QED
    BY <1>1, <2>1, <2>3, SpiElsewhere
<1> QED
  BY <1>2, <1>3 DEF SpiIInv

-----------------------------------------------------------------------------
\* A transfer.
LEMMA SpiQueued ==
  ASSUME NEW q \in SpiQueues
  PROVE  Len(q) \in Nat \ {0} /\ DOMAIN q = 1 .. Len(q) /\ 1 \in DOMAIN q /\ q # <<>>
         /\ Last(q) = q[Len(q)] /\ Last(q).flags \subseteq SpiFlags
<1>1. Len(q) \in Nat \ {0} /\ DOMAIN q = 1 .. Len(q) /\ \A i \in DOMAIN q : q[i].flags \subseteq SpiFlags
  BY SpiAssumption
<1>2. 1 \in DOMAIN q /\ Len(q) \in DOMAIN q
  BY <1>1
<1> QED
  BY <1>1, <1>2 DEF Last

\* What a thread that serves its guest keeps of its own.
SpiServing(g) ==
  /\ spi_has # <<>> /\ spi_pc[g] \in {"idle", "check", "set", "rdwr", "restore"}
  /\ SpiTables /\ SpiLocal(g)
  /\ UNCHANGED <<spi_has, spi_probe, spi_config>>

LEMMA SpiServingOwn ==
  ASSUME NEW g \in SpiGuests, SpiServing(g), SpiTables',
         spi_pc'[g] \in {"idle", "check", "set", "rdwr", "restore", "dead"},
         SpiLegalNow(spi_saved[g])', Range(spi_answers'[g]) \subseteq {"OK", "PARAM_ERR", "TRANS_ERR", "none"}
  PROVE  SpiOwn(g)'
<1>1. spi_pc'[g] \in SpiPlaces
  BY DEF SpiPlaces
<1>2. spi_done'[g] \in BOOLEAN /\ spi_moved'[g] \in BOOLEAN
  BY DEF SpiTables
<1>3. spi_pc'[g] \notin {"new", "speed", "try", "look"}
  OBVIOUS
<1> QED
  BY <1>1, <1>2, <1>3, Zenon DEF SpiServing, SpiLocal, SpiOwn

LEMMA SpiSavedStays ==
  ASSUME NEW g \in SpiGuests, SpiServing(g), spi_saved' = spi_saved
  PROVE  SpiLegalNow(spi_saved[g])'
  BY Zenon DEF SpiServing, SpiLocal, SpiOwn, SpiLegalNow

LEMMA SpiModeStays ==
  ASSUME SpiIInv, spi_has' = spi_has, spi_mode' = spi_mode
  PROVE  SpiLegalNow(spi_mode)'
  BY Zenon DEF SpiIInv, SpiDevice, SpiLegalNow

LEMMA SpiNoAnswers == Range(<<>>) = {}
  BY DEF Range

LEMMA SpiCollectKeeps ==
  ASSUME SpiIInv, NEW g \in SpiGuests, SpiCollect(g)
  PROVE  SpiIInv'
<1>1. PICK queue \in SpiQueues :
        \/ SpiStep(g, "idle", "check") /\ spi_reqs' = [spi_reqs EXCEPT ![g] = queue]
        \/ SpiStep(g, "idle", "dead") /\ UNCHANGED spi_reqs
  BY DEF SpiCollect
<1>2. /\ spi_answers' = [spi_answers EXCEPT ![g] = <<>>] /\ spi_done' = [spi_done EXCEPT ![g] = FALSE]
      /\ UNCHANGED <<spi_has, spi_mode, spi_speed, spi_probe, spi_saved, spi_config, spi_moved>>
  BY DEF SpiCollect
<1>3. SpiServing(g)
  BY <1>1, <1>2 DEF SpiServing, SpiStep, SpiIInv
<1>4. SpiTables'
  BY <1>1, <1>2, <1>3 DEF SpiServing, SpiStep, SpiTables
<1>5. spi_answers'[g] = <<>> /\ spi_pc'[g] \in {"check", "dead"} /\ (spi_pc'[g] = "check" => spi_reqs'[g] = queue)
  BY <1>1, <1>2, <1>3 DEF SpiServing, SpiStep, SpiTables
<1>6. \A h \in SpiGuests : h # g => SpiStays(h)
  BY <1>1, <1>2, <1>3 DEF SpiServing, SpiStep, SpiTables, SpiStays
<1>7. SpiOwn(g)'
  BY <1>2, <1>3, <1>4, <1>5, SpiServingOwn, SpiSavedStays, SpiNoAnswers
<1>8. SpiLocal(g)'
  <2>1. CASE spi_pc'[g] = "dead"
    BY <1>7, <2>1, SpiElsewhere
  <2>2. CASE spi_pc'[g] = "check"
    <3>1. SpiTransferring(g)' /\ SpiModeAskedOf(g)'
      BY <1>5, <2>2 DEF SpiTransferring, SpiModeAskedOf
    <3> QED
      BY <1>7, <2>2, <3>1, SpiWhileTransferring
  <2> QED
    BY <1>5, <2>1, <2>2
<1> QED
  BY <1>2, <1>4, <1>6, <1>8, SpiModeStays, SpiOne

\* Steps within the transfer: the requests stay.
LEMMA SpiWithin ==
  ASSUME SpiIInv, NEW g \in SpiGuests, SpiServing(g), SpiTables', SpiLegalNow(spi_mode)', SpiLegalNow(spi_saved[g])',
         spi_pc[g] \in {"check", "set", "rdwr", "restore"}, NEW to \in {"set", "rdwr", "restore"},
         spi_pc' = [spi_pc EXCEPT ![g] = to], SpiModeAskedOf(g)',
         UNCHANGED <<spi_reqs, spi_answers>>, to = "restore" => spi_done'[g] \/ Len(spi_reqs[g]) >= SpiMessageLimit,
         \A h \in SpiGuests : h # g =>
           /\ spi_saved'[h] = spi_saved[h] /\ spi_done'[h] = spi_done[h]
           /\ (spi_moved[h] => spi_moved'[h]) /\ (spi_mode' = spi_mode \/ spi_moved'[h])
  PROVE  SpiIInv'
<1>1. spi_pc'[g] = to
  BY DEF SpiServing, SpiTables
<1>2. SpiOwn(g)'
  <2>1. Range(spi_answers'[g]) \subseteq {"OK", "PARAM_ERR", "TRANS_ERR", "none"}
    BY Zenon DEF SpiServing, SpiLocal, SpiOwn
  <2> QED
    BY <1>1, <2>1, SpiServingOwn
<1>3. SpiTransferring(g)'
  BY <1>1 DEF SpiServing, SpiLocal, SpiTransferring
<1>4. SpiLocal(g)'
  BY <1>1, <1>2, <1>3, SpiWhileTransferring
<1>5. \A h \in SpiGuests : h # g => SpiStays(h)
  BY DEF SpiServing, SpiTables, SpiStays
<1> QED
  BY <1>4, <1>5, SpiOne DEF SpiServing

LEMMA SpiSaveKeeps ==
  ASSUME SpiIInv, NEW g \in SpiGuests, SpiSave(g)
  PROVE  SpiIInv'
<1>1. /\ spi_has # <<>> /\ spi_pc[g] = "check" /\ spi_pc' = [spi_pc EXCEPT ![g] = "set"]
      /\ spi_saved' = [spi_saved EXCEPT ![g] = spi_mode] /\ spi_moved' = [spi_moved EXCEPT ![g] = FALSE]
      /\ UNCHANGED <<spi_has, spi_mode, spi_speed, spi_probe, spi_config, spi_reqs, spi_answers, spi_done>>
  BY DEF SpiSave, SpiStep
<1>2. SpiServing(g)
  BY <1>1 DEF SpiServing, SpiIInv
<1>3. SpiTables'
  BY <1>1, <1>2 DEF SpiServing, SpiTables
<1>4. SpiLegalNow(spi_mode)'
  BY <1>1, SpiModeStays
<1>5. spi_saved'[g] = spi_mode'
  BY <1>1, <1>2 DEF SpiServing, SpiTables
<1>6. SpiLegalNow(spi_saved[g])'
  BY <1>4, <1>5, Zenon DEF SpiLegalNow
<1>7. SpiModeAskedOf(g)'
  BY <1>1, <1>2 DEF SpiServing, SpiTables, SpiModeAskedOf
<1>8. \A h \in SpiGuests : h # g =>
        /\ spi_saved'[h] = spi_saved[h] /\ spi_done'[h] = spi_done[h]
        /\ (spi_moved[h] => spi_moved'[h]) /\ (spi_mode' = spi_mode \/ spi_moved'[h])
  BY <1>1, <1>2 DEF SpiServing, SpiTables
<1> QED
  BY <1>1, <1>2, <1>3, <1>4, <1>6, <1>7, <1>8, SpiWithin

\* The mode of a transfer: the flags are those asked for, the widths stay.
LEMMA SpiTransIs ==
  ASSUME NEW g \in SpiGuests, spi_has \in SpiHardware, SpiLegal(spi_has, spi_saved[g]), spi_reqs[g] \in SpiQueues,
         SpiTakes(SpiTransMode(g)), SpiSetMode(g, SpiTransMode(g))
  PROVE  /\ SpiLegal(spi_has, spi_mode')
         /\ spi_mode' \cap SpiFlags = Last(spi_reqs[g]).flags \cap SpiTried
<1> DEFINE asked == Last(spi_reqs[g]).flags
<1>1. asked \subseteq SpiFlags
  BY SpiQueued
<1>2. SpiTransMode(g) = (spi_saved[g] \ SpiFlags) \cup (asked \cap SpiTried)
  BY DEF SpiTransMode
<1> HIDE DEF asked
<1>3. SpiTransMode(g) \subseteq SpiTried /\ SpiTransMode(g) \cap SpiFlags = asked \cap SpiTried
  BY <1>1, <1>2 DEF SpiLegal
<1>4. SpiLegal(spi_has, SpiTransMode(g) \ (SpiWide \ spi_has.wide))
  BY <1>3, SpiSetLegal DEF SpiTakes
<1>5. (SpiTransMode(g) \ (SpiWide \ spi_has.wide)) \cap SpiFlags = SpiTransMode(g) \cap SpiFlags
  BY SpiBitsApart
<1> QED
  BY <1>3, <1>4, <1>5 DEF SpiSetMode, asked

LEMMA SpiSetKeeps ==
  ASSUME SpiIInv, NEW g \in SpiGuests, SpiSet(g)
  PROVE  SpiIInv'
<1>1. /\ spi_has # <<>> /\ spi_pc[g] = "set" /\ spi_pc' = [spi_pc EXCEPT ![g] = "rdwr"]
      /\ SpiTakes(SpiTransMode(g)) /\ SpiSetMode(g, SpiTransMode(g))
      /\ UNCHANGED <<spi_has, spi_speed, spi_probe, spi_saved, spi_config, spi_reqs, spi_answers, spi_done>>
  BY DEF SpiSet, SpiStep
<1>2. SpiServing(g)
  BY <1>1 DEF SpiServing, SpiIInv
<1>3. SpiTables'
  BY <1>1, <1>2 DEF SpiServing, SpiTables, SpiSetMode, SpiDisturb
<1>4. /\ SpiLegal(spi_has, spi_mode') /\ spi_mode' \cap SpiFlags = Last(spi_reqs[g]).flags \cap SpiTried
  <2>1. spi_has \in SpiHardware /\ SpiLegal(spi_has, spi_saved[g])
    BY <1>1, SpiThere
  <2>2. spi_reqs[g] \in SpiQueues
    BY <1>1, <1>2 DEF SpiServing, SpiLocal, SpiTransferring
  <2> QED
    BY <1>1, <2>1, <2>2, SpiTransIs
<1>5. SpiLegalNow(spi_mode)'
  <2>1. SpiLegalNow(spi_mode')
    BY <1>1, <1>4, SpiNowLegal
  <2> QED
    BY <1>1, <2>1, Zenon DEF SpiLegalNow
<1>6. SpiLegalNow(spi_saved[g])'
  BY <1>1, <1>2, SpiSavedStays
<1>7. SpiModeAskedOf(g)'
  BY <1>1, <1>4 DEF SpiModeAskedOf
<1>8. \A h \in SpiGuests : h # g =>
        /\ spi_saved'[h] = spi_saved[h] /\ spi_done'[h] = spi_done[h]
        /\ (spi_moved[h] => spi_moved'[h]) /\ (spi_mode' = spi_mode \/ spi_moved'[h])
  BY <1>1 DEF SpiSetMode, SpiDisturb
<1> QED
  BY <1>1, <1>2, <1>3, <1>5, <1>6, <1>7, <1>8, SpiWithin

LEMMA SpiRdwrKeeps ==
  ASSUME SpiIInv, NEW g \in SpiGuests, SpiRdwr(g)
  PROVE  SpiIInv'
<1>1. /\ spi_has # <<>> /\ spi_pc[g] = "rdwr" /\ spi_pc' = [spi_pc EXCEPT ![g] = "restore"]
      /\ spi_done' = [spi_done EXCEPT ![g] = Len(spi_reqs[g]) < SpiMessageLimit]
      /\ UNCHANGED <<spi_has, spi_mode, spi_speed, spi_probe, spi_saved, spi_config, spi_reqs, spi_answers, spi_moved>>
  BY DEF SpiRdwr, SpiStep
<1>2. SpiServing(g)
  BY <1>1 DEF SpiServing, SpiIInv
<1>3. SpiTables'
  <2>1. PICK fits \in BOOLEAN : fits = (Len(spi_reqs[g]) < SpiMessageLimit)
    <3>1. (Len(spi_reqs[g]) < SpiMessageLimit) \in BOOLEAN
      OBVIOUS
    <3> QED
      BY <3>1, Zenon
  <2>2. spi_done' = [spi_done EXCEPT ![g] = fits]
    BY <1>1, <2>1, Zenon
  <2>3. spi_done' \in [SpiGuests -> BOOLEAN]
    <3>1. spi_done \in [SpiGuests -> BOOLEAN]
      BY <1>2, Zenon DEF SpiServing, SpiTables
    <3>2. \A f \in [SpiGuests -> BOOLEAN], b \in BOOLEAN : [f EXCEPT ![g] = b] \in [SpiGuests -> BOOLEAN]
      OBVIOUS
    <3> QED
      BY <2>1, <2>2, <3>1, <3>2, Zenon
  <2>4. spi_pc' = [h \in SpiGuests |-> spi_pc'[h]]
    <3>1. spi_pc = [h \in SpiGuests |-> spi_pc[h]]
      BY <1>2 DEF SpiServing, SpiTables
    <3> QED
      BY <1>1, <3>1
  <2> QED
    BY <1>1, <1>2, <2>3, <2>4, Zenon DEF SpiServing, SpiTables
<1>4. spi_pc'[g] = "restore" /\ (spi_done'[g] \/ Len(spi_reqs[g]) >= SpiMessageLimit)
  <2>1. spi_done'[g] = (Len(spi_reqs[g]) < SpiMessageLimit) /\ spi_pc'[g] = "restore"
    BY <1>1, <1>2 DEF SpiServing, SpiTables
  <2>2. Len(spi_reqs[g]) \in Nat
    BY <1>1, <1>2, SpiQueued DEF SpiServing, SpiLocal, SpiTransferring
  <2>3. Len(spi_reqs[g]) < SpiMessageLimit \/ Len(spi_reqs[g]) >= SpiMessageLimit
    BY <2>2, SpiAssumption
  <2> QED
    BY <2>1, <2>3, Zenon
<1>5. SpiModeAskedOf(g)'
  BY <1>4 DEF SpiModeAskedOf
<1>6. SpiLegalNow(spi_saved[g])' /\ SpiLegalNow(spi_mode)'
  BY <1>1, <1>2, SpiSavedStays, SpiModeStays
<1>7. \A h \in SpiGuests : h # g =>
        /\ spi_saved'[h] = spi_saved[h] /\ spi_done'[h] = spi_done[h]
        /\ (spi_moved[h] => spi_moved'[h]) /\ (spi_mode' = spi_mode \/ spi_moved'[h])
  BY <1>1, <1>2 DEF SpiServing, SpiTables
<1> QED
  BY <1>1, <1>2, <1>3, <1>4, <1>5, <1>6, <1>7, SpiWithin

-----------------------------------------------------------------------------
\* The end of a transfer: every request has its answer.
SpiStatuses == {"OK", "PARAM_ERR", "TRANS_ERR", "none"}

LEMMA SpiAnswersCount ==
  ASSUME NEW g, spi_reqs[g] \in SpiQueues, NEW answers, answers \in [DOMAIN spi_reqs[g] -> SpiStatuses]
  PROVE  Len(answers) = Len(spi_reqs[g]) /\ Len(answers) \in Nat /\ answers # <<>>
<1>1. Len(spi_reqs[g]) \in Nat \ {0} /\ DOMAIN spi_reqs[g] = 1 .. Len(spi_reqs[g])
  BY SpiQueued
<1>2. answers \in Seq(SpiStatuses)
  BY <1>1, SeqDef
<1>3. Len(answers) \in Nat /\ DOMAIN answers = 1 .. Len(answers)
  BY <1>2, LenProperties
<1>4. Len(answers) = Len(spi_reqs[g])
  BY <1>1, <1>3
<1> QED
  BY <1>1, <1>2, <1>4, EmptySeq

LEMMA SpiAnswered ==
  ASSUME SpiIInv, NEW g \in SpiGuests, SpiServing(g), spi_pc[g] \in {"check", "set", "rdwr", "restore"},
         NEW answers, answers \in [DOMAIN spi_reqs[g] -> SpiStatuses],
         SpiAnswer(g, answers), spi_pc' = [spi_pc EXCEPT ![g] = "idle"],
         UNCHANGED <<spi_saved, spi_done>>, SpiLegalNow(spi_mode)', spi_moved' \in [SpiGuests -> BOOLEAN],
         \A h \in SpiGuests : h # g => (spi_moved[h] => spi_moved'[h]) /\ (spi_mode' = spi_mode \/ spi_moved'[h]),
         (\A i \in DOMAIN answers : answers[i] = "OK") => spi_mode' = spi_saved[g],
         "OK" \in Range(answers) => spi_done[g] \/ "PARAM_ERR" \in Range(answers) \/ Len(spi_reqs[g]) >= SpiMessageLimit
  PROVE  SpiIInv'
<1>1. SpiTables'
  BY DEF SpiServing, SpiTables, SpiAnswer
<1>2. spi_pc'[g] = "idle" /\ spi_answers'[g] = answers
  BY DEF SpiServing, SpiTables, SpiAnswer
<1>3. \A h \in SpiGuests : h # g => SpiStays(h)
  BY DEF SpiServing, SpiTables, SpiStays, SpiAnswer
<1>4. Range(answers) \subseteq SpiStatuses
  BY DEF Range
<1>5. SpiOwn(g)'
  BY <1>1, <1>2, <1>4, SpiServingOwn, SpiSavedStays DEF SpiStatuses
<1>6. Len(answers) = Len(spi_reqs[g]) /\ answers # <<>>
  BY SpiAnswersCount DEF SpiServing, SpiLocal, SpiTransferring
<1>7. SpiFindsOutOf(g)'
  BY <1>2, <1>6 DEF SpiFindsOutOf
<1>8. SpiModeKeptOf(g)'
  BY <1>2 DEF SpiModeKeptOf
<1>9. SpiOkMeansDoneOf(g)'
  BY <1>2, <1>6 DEF SpiOkMeansDoneOf
<1>10. SpiLocal(g)'
  BY <1>2, <1>5, <1>7, <1>8, <1>9, SpiWhileIdle
<1> QED
  BY <1>1, <1>3, <1>10, SpiOne DEF SpiServing

LEMMA SpiRefuseKeeps ==
  ASSUME SpiIInv, NEW g \in SpiGuests, SpiRefuse(g)
  PROVE  SpiIInv'
<1> DEFINE answers == [i \in DOMAIN spi_reqs[g] |-> IF SpiValid(spi_config[g], spi_reqs[g][i]) THEN "OK" ELSE "PARAM_ERR"]
<1>1. /\ spi_has # <<>> /\ spi_pc[g] = "check" /\ spi_pc' = [spi_pc EXCEPT ![g] = "idle"]
      /\ SpiAnswer(g, answers)
      /\ UNCHANGED <<spi_has, spi_mode, spi_speed, spi_probe, spi_saved, spi_config, spi_done, spi_moved>>
  BY DEF SpiRefuse, SpiStep
<1>2. PICK i \in DOMAIN spi_reqs[g] : ~SpiValid(spi_config[g], spi_reqs[g][i])
  BY DEF SpiRefuse, SpiAllValid
<1>3. answers \in [DOMAIN spi_reqs[g] -> SpiStatuses] /\ i \in DOMAIN answers /\ answers[i] = "PARAM_ERR"
  BY <1>2 DEF SpiStatuses
<1> HIDE DEF answers
<1>4. "PARAM_ERR" \in Range(answers)
  BY <1>3 DEF Range
<1>5. SpiServing(g)
  BY <1>1 DEF SpiServing, SpiIInv
<1>6. SpiLegalNow(spi_mode)' /\ spi_moved' \in [SpiGuests -> BOOLEAN]
  BY <1>1, SpiModeStays DEF SpiIInv, SpiTables
<1> QED
  BY <1>1, <1>3, <1>4, <1>5, <1>6, SpiAnswered

LEMMA SpiRestoreKeeps ==
  ASSUME SpiIInv, NEW g \in SpiGuests, SpiRestore(g)
  PROVE  SpiIInv'
<1> DEFINE answers == [i \in DOMAIN spi_reqs[g] |-> "OK"]
<1>1. /\ spi_has # <<>> /\ spi_pc[g] = "restore" /\ spi_pc' = [spi_pc EXCEPT ![g] = "idle"]
      /\ SpiSetMode(g, spi_saved[g]) /\ SpiAnswer(g, answers)
      /\ UNCHANGED <<spi_has, spi_speed, spi_probe, spi_saved, spi_config, spi_done>>
  BY DEF SpiRestore, SpiStep
<1>2. answers \in [DOMAIN spi_reqs[g] -> SpiStatuses]
  BY DEF SpiStatuses
<1> HIDE DEF answers
<1>3. SpiServing(g)
  BY <1>1 DEF SpiServing, SpiIInv
<1>4. spi_done[g] \/ Len(spi_reqs[g]) >= SpiMessageLimit
  BY <1>1, <1>3 DEF SpiServing, SpiLocal, SpiTransferring
<1>5. /\ spi_mode' = spi_saved[g] /\ SpiLegalNow(spi_mode)'
      /\ \A h \in SpiGuests : spi_moved'[h] = (spi_moved[h] \/ h # g)
  BY <1>1, SpiSetBack
<1>6. spi_moved' \in [SpiGuests -> BOOLEAN]
  BY <1>1, <1>3 DEF SpiServing, SpiTables, SpiSetMode, SpiDisturb
<1> QED
  BY <1>1, <1>2, <1>3, <1>4, <1>5, <1>6, SpiAnswered

LEMMA SpiTransErrKeeps ==
  ASSUME SpiIInv, NEW g \in SpiGuests, SpiTransErr(g)
  PROVE  SpiIInv'
<1> DEFINE answers == [i \in DOMAIN spi_reqs[g] |-> IF spi_reqs[g][i].in = 1 THEN "TRANS_ERR" ELSE "none"]
<1>1. /\ spi_has # <<>> /\ spi_pc[g] \in {"check", "set", "rdwr", "restore"} /\ spi_pc' = [spi_pc EXCEPT ![g] = "idle"]
      /\ SpiAnswer(g, answers)
      /\ UNCHANGED <<spi_has, spi_mode, spi_speed, spi_probe, spi_saved, spi_config, spi_done, spi_moved>>
  BY DEF SpiTransErr, SpiStep
<1>2. answers \in [DOMAIN spi_reqs[g] -> SpiStatuses] /\ \A i \in DOMAIN spi_reqs[g] : answers[i] # "OK"
  BY DEF SpiStatuses
<1> HIDE DEF answers
<1>3. SpiServing(g)
  BY <1>1 DEF SpiServing, SpiIInv
<1>4. DOMAIN answers = DOMAIN spi_reqs[g] /\ 1 \in DOMAIN answers /\ "OK" \notin Range(answers)
  <2>1. 1 \in DOMAIN spi_reqs[g]
    BY <1>1, <1>3, SpiQueued DEF SpiServing, SpiLocal, SpiTransferring
  <2> QED
    BY <1>2, <2>1 DEF Range
<1>5. SpiLegalNow(spi_mode)' /\ spi_moved' \in [SpiGuests -> BOOLEAN]
  BY <1>1, SpiModeStays DEF SpiIInv, SpiTables
<1> QED
  BY <1>1, <1>2, <1>3, <1>4, <1>5, SpiAnswered

-----------------------------------------------------------------------------
LEMMA SpiBegins ==
  ASSUME SpiInit
  PROVE  SpiIInv
<1>1. SpiTables
  BY DEF SpiInit, SpiTables
<1>2. SpiLegalNow(SpiOrigin) /\ SpiLegalNow({})
  <2>1. ASSUME NEW h \in SpiHardware PROVE SpiLegal(h, SpiOrigin) /\ SpiLegal(h, {})
    <3>1. SpiOrigin \subseteq SpiTried /\ SpiOrigin \subseteq h.flags \cup h.wide /\ SpiOneWidth(SpiOrigin)
      BY SpiAssumption
    <3>2. h.flags \subseteq SpiFlags \cap SpiTried /\ h.wide \subseteq SpiWide \cap SpiTried
      BY SpiHas
    <3>3. SpiOneWidth({})
      BY DEF SpiOneWidth
    <3> QED
      BY <3>1, <3>2, <3>3, SpiBitsApart DEF SpiLegal
  <2>2. SpiOrigin \subseteq SpiTried /\ {} \subseteq SpiTried
    BY SpiAssumption
  <2> QED
    BY <2>1, <2>2, Zenon DEF SpiLegalNow
<1>3. SpiDevice
  BY <1>2 DEF SpiInit, SpiDevice
<1>4. ASSUME NEW g \in SpiGuests PROVE SpiLocal(g)
  <2>1. /\ spi_pc[g] = "new" /\ spi_probe[g] = 0 /\ spi_saved[g] = {} /\ spi_answers[g] = <<>>
        /\ spi_done[g] \in BOOLEAN /\ spi_moved[g] \in BOOLEAN
    BY DEF SpiInit
  <2>2. SpiOwn(g)
    BY <1>2, <2>1, SpiProbesCount, SpiNoAnswers DEF SpiOwn, SpiPlaces
  <2> QED
    BY <2>1, <2>2 DEF SpiLocal, SpiTrying, SpiTransferring, SpiFindsOutOf, SpiModeAskedOf, SpiModeKeptOf, SpiOkMeansDoneOf
<1> QED
  BY <1>1, <1>3, <1>4 DEF SpiIInv

LEMMA SpiSignalKeeps ==
  ASSUME SpiIInv, NEW g \in SpiGuests, SpiSignal(g)
  PROVE  SpiIInv'
<1>1. /\ UNCHANGED <<spi_has, spi_mode, spi_speed, spi_probe, spi_saved, spi_config>>
      /\ UNCHANGED <<spi_reqs, spi_answers, spi_done, spi_moved>>
  BY DEF SpiSignal
<1>2. spi_pc' = spi_pc
  BY DEF SpiSignal, SpiStep, SpiIInv, SpiTables
<1>3. SpiTables' /\ SpiLegalNow(spi_mode)' /\ SpiDevice'
  BY <1>1, <1>2, SpiModeStays DEF SpiIInv, SpiTables, SpiDevice
<1>4. ASSUME NEW h \in SpiGuests PROVE SpiLocal(h)'
  <2>1. SpiStays(h) /\ SpiLocal(h)
    BY <1>1, <1>2 DEF SpiStays, SpiIInv, SpiTables
  <2> QED
    BY <1>1, <2>1, SpiAside
<1> QED
  BY <1>3, <1>4 DEF SpiIInv

LEMMA SpiStepKeeps ==
  ASSUME SpiIInv, [SpiNext]_SpiVars
  PROVE  SpiIInv'
<1>1. ASSUME NEW h \in SpiHardware, SpiPlug(h) PROVE SpiIInv'
  BY <1>1, SpiPlugKeeps
<1>2. ASSUME NEW g \in SpiGuests, SpiThread(g) PROVE SpiIInv'
  <2>1. CASE SpiOpen(g) \/ SpiLost(g) \/ SpiServed(g) \/ SpiPanic(g)
    BY <2>1, SpiOpenKeeps
  <2>13. CASE SpiSignal(g)
    BY <2>13, SpiSignalKeeps
  <2>2. CASE SpiDetect(g)
    BY <2>2, SpiDetectKeeps
  <2>3. CASE SpiTry(g)
    BY <2>3, SpiTryKeeps
  <2>4. CASE SpiLook(g)
    BY <2>4, SpiLookKeeps
  <2>5. CASE SpiDetected(g)
    BY <2>5, SpiDetectedKeeps
  <2>6. CASE SpiCollect(g)
    BY <2>6, SpiCollectKeeps
  <2>7. CASE SpiRefuse(g)
    BY <2>7, SpiRefuseKeeps
  <2>8. CASE SpiSave(g)
    BY <2>8, SpiSaveKeeps
  <2>9. CASE SpiSet(g)
    BY <2>9, SpiSetKeeps
  <2>10. CASE SpiRdwr(g)
    BY <2>10, SpiRdwrKeeps
  <2>11. CASE SpiRestore(g)
    BY <2>11, SpiRestoreKeeps
  <2>12. CASE SpiTransErr(g)
    BY <2>12, SpiTransErrKeeps
  <2> QED
    BY <1>2, <2>1, <2>2, <2>3, <2>4, <2>5, <2>6, <2>7, <2>8, <2>9, <2>10, <2>11, <2>12, <2>13 DEF SpiThread, SpiHandleEvent
<1>3. CASE UNCHANGED SpiVars
  <2>1. /\ UNCHANGED <<spi_has, spi_mode, spi_speed, spi_pc, spi_probe, spi_saved, spi_config>>
        /\ UNCHANGED <<spi_reqs, spi_answers, spi_done, spi_moved>>
    BY <1>3 DEF SpiVars
  <2>2. SpiTables' /\ SpiLegalNow(spi_mode)' /\ SpiDevice'
    BY <2>1, SpiModeStays DEF SpiIInv, SpiTables, SpiDevice
  <2>3. ASSUME NEW h \in SpiGuests PROVE SpiLocal(h)'
    <3>1. SpiStays(h) /\ SpiLocal(h)
      BY <2>1 DEF SpiStays, SpiIInv, SpiTables
    <3> QED
      BY <2>1, <3>1, SpiAside
  <2> QED
    BY <2>2, <2>3 DEF SpiIInv
<1> QED
  BY <1>1, <1>2, <1>3 DEF SpiNext

\* What is answered is told: nothing but an answer adds to the used ring, and a
\* thread with something there is at rest until it has told of it.
SpiTelling == spi_used \in [SpiGuests -> Nat] /\ SpiTold

SpiToldWhile == {"check", "set", "rdwr", "restore", "dead"}

LEMMA SpiTellingOne ==
  ASSUME SpiTelling, SpiTables, NEW g \in SpiGuests, NEW to, spi_pc' = [spi_pc EXCEPT ![g] = to],
         NEW n \in Nat, spi_used' = [spi_used EXCEPT ![g] = n], to \in SpiToldWhile => n = 0
  PROVE  SpiTelling'
<1>1. spi_used' \in [SpiGuests -> Nat]
  BY DEF SpiTelling
<1>2. ASSUME NEW h \in SpiGuests, spi_pc'[h] \in SpiToldWhile PROVE spi_used'[h] = 0
  <2>1. CASE h = g
    BY <1>2, <2>1 DEF SpiTelling, SpiTables
  <2>2. CASE h # g
    BY <1>2, <2>2 DEF SpiTelling, SpiTables, SpiTold, SpiToldWhile
  <2> QED
    BY <2>1, <2>2
<1> QED
  BY <1>1, <1>2 DEF SpiTelling, SpiTold, SpiToldWhile

LEMMA SpiTellingStays ==
  ASSUME SpiTelling, SpiTables, NEW g \in SpiGuests, NEW from, NEW to, SpiStep(g, from, to), spi_used' = spi_used,
         to \in SpiToldWhile => from \in SpiToldWhile \/ spi_used[g] = 0
  PROVE  SpiTelling'
<1>1. spi_pc[g] = from /\ spi_pc' = [spi_pc EXCEPT ![g] = to]
  BY DEF SpiStep
<1>2. spi_used[g] \in Nat /\ spi_used' = [spi_used EXCEPT ![g] = spi_used[g]]
  BY DEF SpiTelling
<1>3. to \in SpiToldWhile => spi_used[g] = 0
  BY <1>1 DEF SpiTelling, SpiTold, SpiToldWhile
<1> QED
  BY <1>1, <1>2, <1>3, SpiTellingOne

LEMMA SpiTellingAnswers ==
  ASSUME SpiIInv, SpiTelling, NEW g \in SpiGuests, spi_pc[g] \in {"check", "set", "rdwr", "restore"},
         spi_pc' = [spi_pc EXCEPT ![g] = "idle"],
         NEW answers, answers \in [DOMAIN spi_reqs[g] -> SpiStatuses], SpiAnswer(g, answers)
  PROVE  SpiTelling'
<1>1. spi_reqs[g] \in SpiQueues /\ SpiTables
  BY DEF SpiIInv, SpiLocal, SpiTransferring
<1>2. Len(answers) \in Nat
  BY <1>1, SpiAnswersCount
<1>3. spi_used[g] \in Nat /\ spi_used' = [spi_used EXCEPT ![g] = spi_used[g] + Len(answers)]
  BY DEF SpiTelling, SpiAnswer
<1>4. spi_used[g] + Len(answers) \in Nat /\ "idle" \notin SpiToldWhile
  BY <1>2, <1>3 DEF SpiToldWhile
<1> QED
  BY <1>1, <1>3, <1>4, SpiTellingOne

LEMMA SpiTellingKept ==
  ASSUME SpiIInv, SpiTelling, [SpiNext]_SpiVars
  PROVE  SpiTelling'
<1> USE DEF SpiToldWhile
<1>1. SpiTables
  BY DEF SpiIInv
<1>2. CASE UNCHANGED <<spi_pc, spi_used>>
  BY <1>2, Zenon DEF SpiTelling, SpiTold
<1>3. ASSUME NEW h \in SpiHardware, SpiPlug(h) PROVE SpiTelling'
  BY <1>2, <1>3 DEF SpiPlug
<1>4. ASSUME NEW g \in SpiGuests, SpiThread(g) PROVE SpiTelling'
  <2>1. CASE SpiOpen(g) \/ SpiDetect(g) \/ SpiLook(g) \/ SpiDetected(g)
    <3>1. PICK from \in {"new", "speed", "look", "try"}, to \in {"speed", "try", "idle"} :
            SpiStep(g, from, to) /\ spi_used' = spi_used
      BY <2>1 DEF SpiOpen, SpiDetect, SpiLook, SpiDetected
    <3> QED
      BY <1>1, <3>1, SpiTellingStays
  <2>2. CASE SpiTry(g)
    <3>1. PICK to \in {"try", "look", "gone"} : SpiStep(g, "try", to) /\ spi_used' = spi_used
      BY <2>2 DEF SpiTry
    <3> QED
      BY <1>1, <3>1, SpiTellingStays
  <2>3. CASE SpiLost(g)
    <3>1. PICK from \in {"new", "speed", "try", "look", "idle", "dead"} : SpiStep(g, from, "gone") /\ spi_used' = spi_used
      BY <2>3 DEF SpiLost
    <3> QED
      BY <1>1, <3>1, SpiTellingStays
  <2>4. CASE SpiServed(g)
    BY <1>1, <2>4, SpiTellingOne DEF SpiServed, SpiStep
  <2>5. CASE SpiCollect(g)
    <3>1. spi_used[g] = 0 /\ spi_used' = spi_used /\ (SpiStep(g, "idle", "check") \/ SpiStep(g, "idle", "dead"))
      BY <2>5 DEF SpiCollect
    <3> QED
      BY <1>1, <3>1, SpiTellingStays
  <2>6. CASE SpiSignal(g)
    BY <1>1, <2>6, SpiTellingOne DEF SpiSignal, SpiStep
  <2>7. CASE SpiPanic(g) \/ SpiSave(g) \/ SpiSet(g) \/ SpiRdwr(g)
    <3>1. PICK from \in SpiToldWhile, to \in SpiToldWhile : SpiStep(g, from, to) /\ spi_used' = spi_used
      BY <2>7 DEF SpiPanic, SpiSave, SpiSet, SpiRdwr
    <3> QED
      BY <1>1, <3>1, SpiTellingStays
  <2>8. CASE SpiRefuse(g) \/ SpiRestore(g) \/ SpiTransErr(g)
    <3>1. PICK answers \in [DOMAIN spi_reqs[g] -> SpiStatuses] :
            /\ spi_pc[g] \in {"check", "set", "rdwr", "restore"} /\ spi_pc' = [spi_pc EXCEPT ![g] = "idle"]
            /\ SpiAnswer(g, answers)
      <4>1. CASE SpiRefuse(g)
        <5> DEFINE answers == [i \in DOMAIN spi_reqs[g] |-> IF SpiValid(spi_config[g], spi_reqs[g][i]) THEN "OK" ELSE "PARAM_ERR"]
        <5>1. answers \in [DOMAIN spi_reqs[g] -> SpiStatuses]
          BY DEF SpiStatuses
        <5>2. SpiAnswer(g, answers) /\ spi_pc[g] = "check" /\ spi_pc' = [spi_pc EXCEPT ![g] = "idle"]
          BY <4>1 DEF SpiRefuse, SpiStep
        <5> QED
          BY <5>1, <5>2
      <4>2. CASE SpiRestore(g)
        <5> DEFINE answers == [i \in DOMAIN spi_reqs[g] |-> "OK"]
        <5>1. answers \in [DOMAIN spi_reqs[g] -> SpiStatuses]
          BY DEF SpiStatuses
        <5>2. SpiAnswer(g, answers) /\ spi_pc[g] = "restore" /\ spi_pc' = [spi_pc EXCEPT ![g] = "idle"]
          BY <4>2 DEF SpiRestore, SpiStep
        <5> QED
          BY <5>1, <5>2
      <4>3. CASE SpiTransErr(g)
        <5> DEFINE answers == [i \in DOMAIN spi_reqs[g] |-> IF spi_reqs[g][i].in = 1 THEN "TRANS_ERR" ELSE "none"]
        <5>1. answers \in [DOMAIN spi_reqs[g] -> SpiStatuses]
          BY DEF SpiStatuses
        <5>2. SpiAnswer(g, answers) /\ spi_pc[g] \in {"check", "set", "rdwr", "restore"} /\ spi_pc' = [spi_pc EXCEPT ![g] = "idle"]
          BY <4>3 DEF SpiTransErr, SpiStep
        <5> QED
          BY <5>1, <5>2
      <4> QED
        BY <2>8, <4>1, <4>2, <4>3
    <3> QED
      BY <3>1, SpiTellingAnswers
  <2> QED
    BY <1>4, <2>1, <2>2, <2>3, <2>4, <2>5, <2>6, <2>7, <2>8 DEF SpiThread, SpiHandleEvent
<1> QED
  BY <1>2, <1>3, <1>4 DEF SpiNext, SpiVars

LEMMA SpiEntails ==
  ASSUME SpiIInv, SpiTelling
  PROVE  SpiInv
<1>1. SpiTables /\ SpiDevice /\ \A g \in SpiGuests : SpiLocal(g)
  BY DEF SpiIInv
<1>2. SpiTypeOK
  <2>1. spi_mode \subseteq SpiTried
    BY <1>1 DEF SpiDevice, SpiLegalNow
  <2>2. \A g \in SpiGuests : /\ spi_pc[g] \in SpiPlaces /\ spi_probe[g] \in 0 .. Len(SpiProbes) + 1
                             /\ spi_saved[g] \in SUBSET SpiTried
                             /\ Range(spi_answers[g]) \subseteq {"OK", "PARAM_ERR", "TRANS_ERR", "none"}
    BY <1>1 DEF SpiLocal, SpiOwn, SpiLegalNow
  <2>3. /\ spi_pc \in [SpiGuests -> SpiPlaces] /\ spi_probe \in [SpiGuests -> 0 .. Len(SpiProbes) + 1]
        /\ spi_saved \in [SpiGuests -> SUBSET SpiTried]
    BY <1>1, <2>2 DEF SpiTables
  <2> QED
    BY <1>1, <2>1, <2>2, <2>3 DEF SpiTypeOK, SpiTables, SpiPlaces, SpiTelling
<1>3. SpiFindsOut /\ SpiModeAsked /\ SpiModeKept /\ SpiOkMeansDone
  <2>1. SpiFindsOut
    BY <1>1, Zenon DEF SpiFindsOut, SpiLocal, SpiFindsOutOf
  <2>2. SpiModeAsked
    BY <1>1, Zenon DEF SpiModeAsked, SpiLocal, SpiModeAskedOf
  <2>3. SpiModeKept
    BY <1>1, Zenon DEF SpiModeKept, SpiLocal, SpiModeKeptOf
  <2>4. SpiOkMeansDone
    BY <1>1, Zenon DEF SpiOkMeansDone, SpiLocal, SpiOkMeansDoneOf
  <2> QED
    BY <2>1, <2>2, <2>3, <2>4
<1> QED
  BY <1>2, <1>3 DEF SpiInv, SpiTelling

\* The SPI device, whatever it can do and however many guests share it: what the
\* trying finds is what it can do, a transfer is made in the mode its request asks
\* for, and the mode is set back, for as long as no other thread sets it between;
\* and the guest is told of every answer before its next chains are taken.
THEOREM SpiHolds == SpiSpec => []SpiInv
<1>1. SpiInit => SpiIInv /\ SpiTelling
  <2>1. SpiInit => SpiTelling
    BY DEF SpiInit, SpiTelling, SpiTold
  <2> QED
    BY <2>1, SpiBegins
<1>2. SpiIInv /\ SpiTelling /\ [SpiNext]_SpiVars => SpiIInv' /\ SpiTelling'
  BY SpiStepKeeps, SpiTellingKept
<1>3. SpiIInv /\ SpiTelling => SpiInv
  BY SpiEntails
<1> QED
  BY <1>1, <1>2, <1>3, PTL DEF SpiSpec

-----------------------------------------------------------------------------
(***************************************************************************)
(* The media device, for a region of any size, any alignment and any       *)
(* commands.  MediaInv is nearly inductive: only how ranges lie to each    *)
(* other has to be said of their ends and not of addresses (MediaParted).  *)
(* Two free regions are away from each other by an address at least        *)
(* (MediaAway), any other two ranges are beside each other (MediaBeside),  *)
(* and together they cover the region.  allocate() and insert_at() have a  *)
(* lemma each; that a freed range has at most one neighbour on each side   *)
(* is what makes joining them enough.                                      *)
(***************************************************************************)
MediaPairs == {r \in Nat \X Nat : r[1] <= r[2] /\ r[2] < MediaSpace}

MediaRings == [avail : Seq(MediaCommands), batch : Seq(MediaCommands), used : Nat]

MediaTyped ==
  /\ media_backend \in MediaBackends \cup {"none"} /\ media_worker \in {"run", "dead"}
  /\ media_sessions \subseteq MediaIds /\ media_buffers \in 0 .. MediaEvents
  /\ media_used \in 0 .. MediaAnswer /\ media_ring \in MediaRings
  /\ media_mapped \subseteq MediaPairs

\* Two ranges are not met by one address; nor do they meet each other.
MediaBeside(r, s) == r[2] < s[1] \/ s[2] < r[1]
MediaAway(r, s)   == r[2] + 1 < s[1] \/ s[2] + 1 < r[1]

MediaIn(a, r) == r[1] <= a /\ a <= r[2]

MediaCovers(regions, allocs) ==
  \A a \in 0 .. MediaSpace - 1 :
    (\E r \in regions : MediaIn(a, r)) \/ (\E o \in DOMAIN allocs : MediaIn(a, allocs[o]))

MediaParted(regions, allocs) ==
  /\ regions \subseteq MediaPairs /\ allocs \in [DOMAIN allocs -> MediaPairs]
  /\ \A r, s \in regions : r # s => MediaAway(r, s)
  /\ \A r \in regions : \A o \in DOMAIN allocs : MediaBeside(r, allocs[o])
  /\ \A o, p \in DOMAIN allocs : o # p => MediaBeside(allocs[o], allocs[p])
  /\ MediaCovers(regions, allocs)
  /\ \A o \in DOMAIN allocs : allocs[o][1] % MediaAlign = 0

MediaKnown ==
  /\ \A o \in DOMAIN media_allocs : media_allocs[o] \in media_mapped
  /\ \A r \in media_mapped : r \in media_leaked \/ \E o \in DOMAIN media_allocs : media_allocs[o] = r

MediaIInv ==
  /\ MediaTyped /\ MediaParted(media_regions, media_allocs) /\ MediaKnown /\ MediaHeard

-----------------------------------------------------------------------------
(* Numbers.                                                                *)

\* A set of numbers has a least one.
LEMMA MediaLeast ==
  ASSUME NEW T \in SUBSET Nat, T # {}
  PROVE  \E n \in T : \A m \in T : n <= m
<1> DEFINE less == OpToRel(<, Nat)
<1>1. IsWellFoundedOn(less, Nat)
  BY NatLessThanWellFounded
<1>2. \A n, m \in Nat : ~ (<<m, n>> \in less) => n <= m
  BY DEF OpToRel
<1> HIDE DEF less
<1>3. \E n \in T : \A m \in T : ~ (<<m, n>> \in less)
  BY <1>1, WFMin
<1> QED
  BY <1>2, <1>3

\* align_up!: the next aligned address, not before it
LEMMA MediaAlignedUp ==
  ASSUME NEW x \in Nat
  PROVE  MediaUp(x) \in Nat /\ MediaUp(x) >= x /\ MediaUp(x) % MediaAlign = 0
<1> DEFINE A == MediaAlign
           m == x % A
           q == x \div A
<1>1. A \in Nat /\ A >= 1
  BY MediaAssumption
<1> HIDE DEF A
<1>2. m \in 0 .. A - 1 /\ q \in Nat
  BY <1>1
<1>3. x = A * q + m
  BY <1>1
<1>4. CASE m = 0
  <2>1. (A - m) % A = 0
    BY <1>1, <1>4
  <2> QED
    BY <1>4, <2>1 DEF MediaUp, A
<1>5. CASE m # 0
  <2>1. (A - m) % A = A - m
    BY <1>1, <1>2, <1>5
  <2>2. MediaUp(x) = x + (A - m)
    BY <2>1 DEF MediaUp, A
  <2>3. MediaUp(x) = A * (q + 1)
    BY <1>1, <1>2, <1>3, <2>2
  <2>4. (A * (q + 1)) % A = 0
    BY <1>1, <1>2
  <2>5. MediaUp(x) % A = 0
    BY <2>3, <2>4
  <2> DEFINE up == MediaUp(x)
  <2> HIDE DEF m, q, up
  <2>6. up \in Nat /\ up >= x
    BY <1>1, <1>2, <2>2 DEF up
  <2> QED
    BY <2>5, <2>6 DEF A, up
<1> QED
  BY <1>4, <1>5

\* The first free region that has room
LEMMA MediaFirstIs ==
  ASSUME media_regions \subseteq MediaPairs, NEW len, \E r \in media_regions : MediaRoomy(r, len)
  PROVE  MediaFirst(len) \in media_regions /\ MediaRoomy(MediaFirst(len), len)
<1> DEFINE T == {r[1] : r \in {s \in media_regions : MediaRoomy(s, len)}}
<1>1. T \in SUBSET Nat /\ T # {}
  BY DEF MediaPairs
<1>2. PICK n \in T : \A m \in T : n <= m
  BY <1>1, MediaLeast
<1>3. PICK r \in media_regions : MediaRoomy(r, len) /\ r[1] = n
  OBVIOUS
<1>4. \A s \in media_regions : MediaRoomy(s, len) => r[1] <= s[1]
  BY <1>2, <1>3
<1> QED
  BY <1>3, <1>4 DEF MediaFirst

-----------------------------------------------------------------------------
(* The allocator.                                                          *)

MediaWith(offset, range) ==
  [o \in DOMAIN media_allocs \cup {offset} |-> IF o = offset THEN range ELSE media_allocs[o]]

\* What is left of the region before and behind the range that is taken
LEMMA MediaLeftIs ==
  ASSUME NEW f \in MediaPairs, NEW start \in Nat, NEW end \in Nat, f[1] <= start, start <= end, end <= f[2]
  PROVE  /\ MediaLeft(f, <<start, end>>) \subseteq MediaPairs
         /\ \A s \in MediaLeft(f, <<start, end>>) : (s[1] = f[1] /\ s[2] = start - 1) \/ (s[1] = end + 1 /\ s[2] = f[2])
         /\ f[1] < start => <<f[1], start - 1>> \in MediaLeft(f, <<start, end>>)
         /\ end < f[2] => <<end + 1, f[2]>> \in MediaLeft(f, <<start, end>>)
         /\ \A r, s \in MediaLeft(f, <<start, end>>) : r # s => r[1] # s[1]
<1> DEFINE left == MediaLeft(f, <<start, end>>)
           before == <<f[1], start - 1>>
           behind == <<end + 1, f[2]>>
<1>1. f[1] \in Nat /\ f[2] \in Nat /\ f[2] < MediaSpace /\ MediaSpace \in Nat
  BY MediaAssumption DEF MediaPairs
<1>2. \A s : s \in left <=> s \in {before, behind} /\ s[1] <= s[2]
  <2>1. before[1] \in Int /\ before[2] \in Int /\ behind[1] \in Int /\ behind[2] \in Int
    BY <1>1
  <2>2. left = {s \in {before, behind} : ~(s[2] < s[1])}
    BY DEF MediaLeft, MediaEmpty
  <2> HIDE DEF left, before, behind
  <2> QED
    BY <2>1, <2>2
<1>3. before[1] = f[1] /\ before[2] = start - 1 /\ behind[1] = end + 1 /\ behind[2] = f[2]
  OBVIOUS
<1>4. \A s \in left : s \in MediaPairs
  <2> SUFFICES ASSUME NEW s \in left PROVE s \in MediaPairs
    OBVIOUS
  <2>1. CASE s = before
    <3>1. f[1] <= start - 1
      BY <1>2, <1>3, <2>1
    <3>2. start - 1 \in Nat /\ start - 1 < MediaSpace
      BY <1>1, <3>1
    <3> QED
      BY <1>1, <2>1, <3>1, <3>2 DEF MediaPairs
  <2>2. CASE s = behind
    <3>1. end + 1 <= f[2]
      BY <1>2, <1>3, <2>2
    <3> QED
      BY <1>1, <2>2, <3>1 DEF MediaPairs
  <2> QED
    BY <1>2, <2>1, <2>2
<1> HIDE DEF left, before, behind
<1>5. \A s \in left : (s[1] = f[1] /\ s[2] = start - 1) \/ (s[1] = end + 1 /\ s[2] = f[2])
  BY <1>2, <1>3
<1>6. f[1] < start => before \in left
  BY <1>1, <1>2, <1>3
<1>7. end < f[2] => behind \in left
  BY <1>1, <1>2, <1>3
<1>8. \A r, s \in left : r # s => r[1] # s[1]
  BY <1>1, <1>2, <1>3
<1> QED
  BY <1>4, <1>5, <1>6, <1>7, <1>8 DEF left, before, behind

\* allocate()
LEMMA MediaAllocates ==
  ASSUME MediaParted(media_regions, media_allocs), NEW f \in media_regions,
         NEW start \in Nat, NEW end \in Nat, f[1] <= start, start <= end, end <= f[2], start % MediaAlign = 0,
         NEW offset, offset \notin DOMAIN media_allocs
  PROVE  MediaParted((media_regions \ {f}) \cup MediaLeft(f, <<start, end>>), MediaWith(offset, <<start, end>>))
<1> DEFINE range == <<start, end>>
           left == MediaLeft(f, range)
           regions == (media_regions \ {f}) \cup left
           allocs == MediaWith(offset, range)
           old == DOMAIN media_allocs
<1>1. f \in MediaPairs /\ f[1] \in Nat /\ f[2] \in Nat /\ f[2] < MediaSpace /\ MediaSpace \in Nat
  BY MediaAssumption DEF MediaParted, MediaPairs
<1>2. range \in MediaPairs /\ range[1] = start /\ range[2] = end
  BY <1>1 DEF MediaPairs
<1>3. /\ left \subseteq MediaPairs
      /\ \A s \in left : (s[1] = f[1] /\ s[2] = start - 1) \/ (s[1] = end + 1 /\ s[2] = f[2])
      /\ f[1] < start => <<f[1], start - 1>> \in left
      /\ end < f[2] => <<end + 1, f[2]>> \in left
      /\ \A r, s \in left : r # s => r[1] # s[1]
  BY <1>1, MediaLeftIs
<1> HIDE DEF range, left
<1>4. DOMAIN allocs = old \cup {offset} /\ allocs[offset] = range /\ \A o \in old : allocs[o] = media_allocs[o]
  BY DEF MediaWith
<1>5. allocs \in [DOMAIN allocs -> MediaPairs]
  <2>1. allocs = [o \in DOMAIN allocs |-> allocs[o]]
    BY DEF MediaWith
  <2>2. \A o \in DOMAIN allocs : allocs[o] \in MediaPairs
    BY <1>2, <1>4 DEF MediaParted
  <2> HIDE DEF allocs
  <2> QED
    BY <2>1, <2>2
<1> HIDE DEF allocs
<1>6. \A r \in MediaPairs : r[1] \in Nat /\ r[2] \in Nat /\ r[1] <= r[2] /\ r[2] < MediaSpace
  BY DEF MediaPairs
<1>7. /\ media_regions \subseteq MediaPairs /\ \A o \in old : media_allocs[o] \in MediaPairs
      /\ \A r, s \in media_regions : r # s => MediaAway(r, s)
      /\ \A r \in media_regions : \A o \in old : MediaBeside(r, media_allocs[o])
      /\ \A o, p \in old : o # p => MediaBeside(media_allocs[o], media_allocs[p])
  BY DEF MediaParted
<1>8. \A r \in media_regions : r # f => MediaAway(r, f) /\ MediaAway(f, r)
  BY <1>7
<1>9. \A r, s \in regions : r # s => MediaAway(r, s)
  <2>1. ASSUME NEW r \in media_regions, r # f, NEW s \in left PROVE MediaAway(r, s) /\ MediaAway(s, r)
    BY <1>1, <1>3, <1>6, <1>7, <1>8, <2>1 DEF MediaAway
  <2>2. ASSUME NEW r \in left, NEW s \in left, r # s PROVE MediaAway(r, s)
    BY <1>1, <1>3, <1>6, <2>2 DEF MediaAway
  <2> QED
    BY <1>7, <2>1, <2>2
<1>10. \A r \in regions : \A o \in DOMAIN allocs : MediaBeside(r, allocs[o])
  <2>1. ASSUME NEW r \in left, NEW o \in old PROVE MediaBeside(r, media_allocs[o])
    BY <1>1, <1>3, <1>6, <1>7 DEF MediaBeside
  <2>2. ASSUME NEW r \in left PROVE MediaBeside(r, range)
    BY <1>1, <1>2, <1>3, <1>6 DEF MediaBeside
  <2>3. ASSUME NEW r \in media_regions, r # f PROVE MediaBeside(r, range)
    BY <1>1, <1>2, <1>6, <1>7, <1>8, <2>3 DEF MediaBeside, MediaAway
  <2> QED
    BY <1>4, <1>7, <2>1, <2>2, <2>3
<1>11. \A o, p \in DOMAIN allocs : o # p => MediaBeside(allocs[o], allocs[p])
  <2>1. ASSUME NEW o \in old PROVE MediaBeside(media_allocs[o], range) /\ MediaBeside(range, media_allocs[o])
    BY <1>1, <1>2, <1>6, <1>7 DEF MediaBeside
  <2> QED
    BY <1>4, <1>7, <2>1
<1>12. MediaCovers(regions, allocs)
  <2> SUFFICES ASSUME NEW a \in 0 .. MediaSpace - 1
               PROVE  (\E r \in regions : MediaIn(a, r)) \/ (\E o \in DOMAIN allocs : MediaIn(a, allocs[o]))
    BY DEF MediaCovers
  <2>1. CASE MediaIn(a, f)
    <3>1. CASE start <= a /\ a <= end
      BY <1>2, <1>4, <3>1 DEF MediaIn
    <3>2. CASE a < start
      <4>1. f[1] < start /\ f[1] <= a /\ a <= start - 1
        BY <1>1, <2>1, <3>2 DEF MediaIn
      <4>2. MediaIn(a, <<f[1], start - 1>>)
        BY <4>1 DEF MediaIn
      <4> QED
        BY <1>3, <4>1, <4>2
    <3>3. CASE end < a
      <4>1. end < f[2] /\ end + 1 <= a /\ a <= f[2]
        BY <1>1, <2>1, <3>3 DEF MediaIn
      <4>2. MediaIn(a, <<end + 1, f[2]>>)
        BY <4>1 DEF MediaIn
      <4> QED
        BY <1>3, <4>1, <4>2
    <3> QED
      BY <3>1, <3>2, <3>3
  <2>2. CASE ~MediaIn(a, f)
    <3>1. (\E r \in media_regions : MediaIn(a, r)) \/ (\E o \in old : MediaIn(a, media_allocs[o]))
      BY DEF MediaParted, MediaCovers
    <3> QED
      BY <1>4, <2>2, <3>1
  <2> QED
    BY <2>1, <2>2
<1>13. \A o \in DOMAIN allocs : allocs[o][1] % MediaAlign = 0
  BY <1>2, <1>4 DEF MediaParted
<1>14. regions \subseteq MediaPairs
  BY <1>3, <1>7
<1> QED
  BY <1>5, <1>9, <1>10, <1>11, <1>12, <1>13, <1>14 DEF MediaParted, range, left, allocs

\* The greatest and the least of a set are what they are.
LEMMA MediaMaxOf ==
  ASSUME NEW S, NEW n \in S, \A m \in S : n \in Int /\ m \in Int /\ n >= m
  PROVE  Max(S) = n
<1>1. Max(S) \in S /\ \A m \in S : Max(S) >= m
  BY DEF Max
<1>2. Max(S) \in Int /\ n \in Int /\ Max(S) >= n /\ n >= Max(S)
  BY <1>1
<1> QED
  BY <1>2

LEMMA MediaMinOf ==
  ASSUME NEW S, NEW n \in S, \A m \in S : n \in Int /\ m \in Int /\ n <= m
  PROVE  Min(S) = n
<1>1. Min(S) \in S /\ \A m \in S : Min(S) <= m
  BY DEF Min
<1>2. Min(S) \in Int /\ n \in Int /\ Min(S) <= n /\ n <= Min(S)
  BY <1>1
<1> QED
  BY <1>2

\* A region that ends where the range begins, or begins where it ends
MediaNear(range) == {r \in media_regions : r[2] + 1 = range[1] \/ r[1] = range[2] + 1}

\* insert_at(): the range grows by the neighbours that it has.
LEMMA MediaJoinedIs ==
  ASSUME media_regions \subseteq MediaPairs, \A r, s \in media_regions : r # s => MediaAway(r, s),
         NEW range \in MediaPairs
  PROVE  \E lo, hi \in Nat :
           /\ MediaJoined(range) = (media_regions \ MediaNear(range)) \cup {<<lo, hi>>}
           /\ (lo = range[1] /\ \A r \in media_regions : r[2] + 1 # range[1])
              \/ (\E l \in media_regions : l[2] + 1 = range[1] /\ l[1] = lo)
           /\ (hi = range[2] /\ \A r \in media_regions : r[1] # range[2] + 1)
              \/ (\E h \in media_regions : h[1] = range[2] + 1 /\ h[2] = hi)
<1> DEFINE near == MediaNear(range)
           starts == {range[1]} \cup {r[1] : r \in near}
           ends == {range[2]} \cup {r[2] : r \in near}
<1>1. \A r \in MediaPairs : r[1] \in Nat /\ r[2] \in Nat /\ r[1] <= r[2]
  BY DEF MediaPairs
<1>2. \A r, s \in media_regions : r # s => MediaAway(r, s)
  OBVIOUS
<1>3. \A r \in near : r \in media_regions /\ (r[2] + 1 = range[1] \/ r[1] = range[2] + 1)
  BY DEF MediaNear
<1>4. \A r \in media_regions : r[2] + 1 = range[1] \/ r[1] = range[2] + 1 => r \in near
  BY DEF MediaNear
<1> HIDE DEF near
<1>5. PICK lo \in Nat : /\ Min(starts) = lo
                        /\ (lo = range[1] /\ \A r \in media_regions : r[2] + 1 # range[1])
                           \/ (\E l \in media_regions : l[2] + 1 = range[1] /\ l[1] = lo)
  <2>1. CASE \E l \in media_regions : l[2] + 1 = range[1]
    <3>1. PICK l \in media_regions : l[2] + 1 = range[1]
      BY <2>1
    <3>2. \A r \in near : r = l \/ r[1] = range[2] + 1
      BY <1>1, <1>2, <1>3, <3>1 DEF MediaAway
    <3>3. l[1] \in starts
      BY <1>4, <3>1
    <3>4. \A m \in starts : m \in Int /\ l[1] <= m
      BY <1>1, <1>3, <3>1, <3>2
    <3> HIDE DEF starts
    <3>5. Min(starts) = l[1]
      BY <1>1, <3>3, <3>4, MediaMinOf
    <3> QED
      BY <1>1, <3>1, <3>5
  <2>2. CASE \A l \in media_regions : l[2] + 1 # range[1]
    <3>1. \A m \in starts : m \in Int /\ range[1] <= m
      BY <1>1, <1>3, <2>2
    <3>2. range[1] \in starts
      OBVIOUS
    <3> HIDE DEF starts
    <3>3. Min(starts) = range[1]
      BY <1>1, <3>1, <3>2, MediaMinOf
    <3> QED
      BY <1>1, <2>2, <3>3
  <2> QED
    BY <2>1, <2>2
<1>6. PICK hi \in Nat : /\ Max(ends) = hi
                        /\ (hi = range[2] /\ \A r \in media_regions : r[1] # range[2] + 1)
                           \/ (\E h \in media_regions : h[1] = range[2] + 1 /\ h[2] = hi)
  <2>1. CASE \E h \in media_regions : h[1] = range[2] + 1
    <3>1. PICK h \in media_regions : h[1] = range[2] + 1
      BY <2>1
    <3>2. \A r \in near : r = h \/ r[2] + 1 = range[1]
      BY <1>1, <1>2, <1>3, <3>1 DEF MediaAway
    <3>3. h[2] \in ends
      BY <1>4, <3>1
    <3>4. \A m \in ends : m \in Int /\ h[2] >= m
      BY <1>1, <1>3, <3>1, <3>2
    <3> HIDE DEF ends
    <3>5. Max(ends) = h[2]
      BY <1>1, <3>3, <3>4, MediaMaxOf
    <3> QED
      BY <1>1, <3>1, <3>5
  <2>2. CASE \A h \in media_regions : h[1] # range[2] + 1
    <3>1. \A m \in ends : m \in Int /\ range[2] >= m
      BY <1>1, <1>3, <2>2
    <3>2. range[2] \in ends
      OBVIOUS
    <3> HIDE DEF ends
    <3>3. Max(ends) = range[2]
      BY <1>1, <3>1, <3>2, MediaMaxOf
    <3> QED
      BY <1>1, <2>2, <3>3
  <2> QED
    BY <2>1, <2>2
<1>7. MediaJoined(range) = (media_regions \ near) \cup {<<Min(starts), Max(ends)>>}
  BY DEF MediaJoined, near, MediaNear
<1> HIDE DEF starts, ends
<1>8. MediaJoined(range) = (media_regions \ near) \cup {<<lo, hi>>}
  BY <1>5, <1>6, <1>7
<1> QED
  BY <1>5, <1>6, <1>8 DEF near

MediaWithout(offset) == [o \in DOMAIN media_allocs \ {offset} |-> media_allocs[o]]

\* free()
LEMMA MediaReleases ==
  ASSUME MediaParted(media_regions, media_allocs), NEW offset \in DOMAIN media_allocs
  PROVE  MediaParted(MediaJoined(media_allocs[offset]), MediaWithout(offset))
<1> DEFINE range == media_allocs[offset]
           old == DOMAIN media_allocs
           allocs == MediaWithout(offset)
<1>1. range \in MediaPairs
  BY DEF MediaParted
<1>2. \A r \in MediaPairs : r[1] \in Nat /\ r[2] \in Nat /\ r[1] <= r[2] /\ r[2] < MediaSpace
  BY DEF MediaPairs
<1>3. /\ media_regions \subseteq MediaPairs /\ \A o \in old : media_allocs[o] \in MediaPairs
      /\ \A r, s \in media_regions : r # s => MediaAway(r, s)
      /\ \A r \in media_regions : \A o \in old : MediaBeside(r, media_allocs[o])
      /\ \A o, p \in old : o # p => MediaBeside(media_allocs[o], media_allocs[p])
  BY DEF MediaParted
<1>4. DOMAIN allocs = old \ {offset} /\ \A o \in DOMAIN allocs : allocs[o] = media_allocs[o]
  BY DEF MediaWithout
<1>5. allocs \in [DOMAIN allocs -> MediaPairs]
  <2>1. allocs = [o \in DOMAIN allocs |-> allocs[o]]
    BY DEF MediaWithout
  <2> HIDE DEF allocs
  <2> QED
    BY <1>3, <1>4, <2>1
<1> DEFINE near == MediaNear(range)
           regions == MediaJoined(range)
<1>6. PICK lo \in Nat, hi \in Nat :
        /\ regions = (media_regions \ near) \cup {<<lo, hi>>}
        /\ (lo = range[1] /\ \A r \in media_regions : r[2] + 1 # range[1])
           \/ (\E l \in media_regions : l[2] + 1 = range[1] /\ l[1] = lo)
        /\ (hi = range[2] /\ \A r \in media_regions : r[1] # range[2] + 1)
           \/ (\E h \in media_regions : h[1] = range[2] + 1 /\ h[2] = hi)
  BY <1>1, <1>3, MediaJoinedIs
<1>7. \A r : r \in near <=> r \in media_regions /\ (r[2] + 1 = range[1] \/ r[1] = range[2] + 1)
  BY DEF MediaNear
<1>8. \A r \in media_regions : MediaBeside(r, range)
  BY <1>3
<1>9. \A o \in old \ {offset} : MediaBeside(media_allocs[o], range)
  BY <1>3
<1> HIDE DEF range, near, regions, allocs
<1> DEFINE one == <<lo, hi>>
<1>10. one[1] = lo /\ one[2] = hi /\ lo <= range[1] /\ range[2] <= hi /\ hi < MediaSpace /\ one \in MediaPairs
  <2>1. lo <= range[1]
    BY <1>1, <1>2, <1>3, <1>6
  <2>2. range[2] <= hi /\ hi < MediaSpace
    BY <1>1, <1>2, <1>3, <1>6
  <2> QED
    BY <1>1, <1>2, <2>1, <2>2, MediaAssumption DEF MediaPairs
<1> HIDE DEF one
<1>11. ASSUME NEW s \in MediaPairs, MediaBeside(s, range),
              \A r \in media_regions : r \in near => MediaBeside(r, s)
       PROVE  MediaBeside(s, one)
  <2>1. CASE s[2] < range[1]
    <3>1. s[2] < lo
      BY <1>1, <1>2, <1>3, <1>6, <1>7, <1>11, <2>1 DEF MediaBeside
    <3> QED
      BY <1>10, <3>1 DEF MediaBeside
  <2>2. CASE range[2] < s[1]
    <3>1. hi < s[1]
      BY <1>1, <1>2, <1>3, <1>6, <1>7, <1>11, <2>2 DEF MediaBeside
    <3> QED
      BY <1>10, <3>1 DEF MediaBeside
  <2> QED
    BY <1>11, <2>1, <2>2 DEF MediaBeside
<1>12. \A o \in DOMAIN allocs : MediaBeside(one, allocs[o])
  <2> SUFFICES ASSUME NEW o \in DOMAIN allocs PROVE MediaBeside(media_allocs[o], one)
    BY <1>4 DEF MediaBeside
  <2>1. o \in old /\ media_allocs[o] \in MediaPairs /\ MediaBeside(media_allocs[o], range)
    BY <1>3, <1>4, <1>9
  <2> QED
    BY <1>3, <1>11, <2>1
<1>13. \A r \in media_regions \ near : MediaAway(r, one) /\ MediaAway(one, r)
  <2> SUFFICES ASSUME NEW r \in media_regions, r \notin near PROVE MediaAway(r, one)
    BY DEF MediaAway
  <2>1. r \in MediaPairs /\ MediaBeside(r, range) /\ r[2] + 1 # range[1] /\ r[1] # range[2] + 1
    BY <1>3, <1>7, <1>8
  <2>2. \A s \in near : MediaAway(s, r)
    BY <1>3, <1>7
  <2>3. CASE r[2] < range[1]
    <3>1. r[2] + 1 < range[1]
      BY <1>1, <1>2, <2>1, <2>3
    <3>2. r[2] + 1 < lo
      <4>1. CASE lo = range[1]
        BY <3>1, <4>1
      <4>2. CASE \E l \in media_regions : l[2] + 1 = range[1] /\ l[1] = lo
        <5>1. PICK l \in media_regions : l[2] + 1 = range[1] /\ l[1] = lo
          BY <4>2
        <5>2. MediaAway(l, r) /\ l \in MediaPairs
          BY <1>3, <1>7, <2>2, <5>1
        <5> QED
          BY <1>1, <1>2, <2>1, <3>1, <5>1, <5>2 DEF MediaAway
      <4> QED
        BY <1>6, <4>1, <4>2
    <3> QED
      BY <1>10, <3>2 DEF MediaAway
  <2>4. CASE range[2] < r[1]
    <3>1. range[2] + 1 < r[1]
      BY <1>1, <1>2, <2>1, <2>4
    <3>2. hi + 1 < r[1]
      <4>1. CASE hi = range[2]
        BY <3>1, <4>1
      <4>2. CASE \E h \in media_regions : h[1] = range[2] + 1 /\ h[2] = hi
        <5>1. PICK h \in media_regions : h[1] = range[2] + 1 /\ h[2] = hi
          BY <4>2
        <5>2. MediaAway(h, r) /\ h \in MediaPairs
          BY <1>3, <1>7, <2>2, <5>1
        <5> QED
          BY <1>1, <1>2, <2>1, <3>1, <5>1, <5>2 DEF MediaAway
      <4> QED
        BY <1>6, <4>1, <4>2
    <3> QED
      BY <1>10, <3>2 DEF MediaAway
  <2> QED
    BY <2>1, <2>3, <2>4 DEF MediaBeside
<1>14. \A r, s \in regions : r # s => MediaAway(r, s)
  BY <1>3, <1>6, <1>13 DEF one
<1>15. \A r \in regions : \A o \in DOMAIN allocs : MediaBeside(r, allocs[o])
  BY <1>3, <1>4, <1>6, <1>12 DEF one
<1>16. \A o, p \in DOMAIN allocs : o # p => MediaBeside(allocs[o], allocs[p])
  BY <1>3, <1>4
<1>17. MediaCovers(regions, allocs)
  <2> SUFFICES ASSUME NEW a \in 0 .. MediaSpace - 1
               PROVE  (\E r \in regions : MediaIn(a, r)) \/ (\E o \in DOMAIN allocs : MediaIn(a, allocs[o]))
    BY DEF MediaCovers
  <2>0. a \in Nat
    OBVIOUS
  <2>1. (\E r \in media_regions : MediaIn(a, r)) \/ (\E o \in old : MediaIn(a, media_allocs[o]))
    BY DEF MediaParted, MediaCovers
  <2>2. CASE \E r \in media_regions \ near : MediaIn(a, r)
    BY <1>6, <2>2
  <2>3. CASE \E o \in old \ {offset} : MediaIn(a, media_allocs[o])
    BY <1>4, <2>3
  <2>4. CASE MediaIn(a, range)
    <3>1. MediaIn(a, one)
      BY <1>1, <1>2, <1>10, <2>0, <2>4 DEF MediaIn
    <3> QED
      BY <1>6, <3>1 DEF one
  <2>5. CASE \E r \in near : MediaIn(a, r)
    <3>1. PICK r \in near : MediaIn(a, r)
      BY <2>5
    <3>2. r \in media_regions /\ r \in MediaPairs /\ (r[2] + 1 = range[1] \/ r[1] = range[2] + 1)
      BY <1>3, <1>7
    <3>3. CASE r[2] + 1 = range[1]
      <4>1. PICK l \in media_regions : l[2] + 1 = range[1] /\ l[1] = lo
        BY <1>6, <3>2, <3>3
      <4>2. l = r
        BY <1>2, <1>3, <3>2, <3>3, <4>1 DEF MediaAway
      <4>3. MediaIn(a, one)
        BY <1>1, <1>2, <1>10, <2>0, <3>1, <3>2, <3>3, <4>1, <4>2 DEF MediaIn
      <4> QED
        BY <1>6, <4>3 DEF one
    <3>4. CASE r[1] = range[2] + 1
      <4>1. PICK h \in media_regions : h[1] = range[2] + 1 /\ h[2] = hi
        BY <1>6, <3>2, <3>4
      <4>2. h = r
        BY <1>2, <1>3, <3>2, <3>4, <4>1 DEF MediaAway
      <4>3. MediaIn(a, one)
        BY <1>1, <1>2, <1>10, <2>0, <3>1, <3>2, <3>4, <4>1, <4>2 DEF MediaIn
      <4> QED
        BY <1>6, <4>3 DEF one
    <3> QED
      BY <3>2, <3>3, <3>4
  <2> QED
    BY <2>1, <2>2, <2>3, <2>4, <2>5 DEF range
<1>18. \A o \in DOMAIN allocs : allocs[o][1] % MediaAlign = 0
  BY <1>4 DEF MediaParted
<1>19. regions \subseteq MediaPairs
  BY <1>3, <1>6, <1>10 DEF one
<1> QED
  BY <1>5, <1>14, <1>15, <1>16, <1>17, <1>18, <1>19 DEF MediaParted, range, regions, allocs

-----------------------------------------------------------------------------
(* Every step.                                                             *)

\* Mappings: what the VMM maps is allocated, unless it failed to unmap it.
MediaSpaceSound ==
  /\ media_mapped \subseteq MediaPairs
  /\ MediaParted(media_regions, media_allocs) /\ MediaKnown

\* add_mapping()
LEMMA MediaMapStep ==
  ASSUME MediaSpaceSound, NEW c \in MediaCommands, MediaMap(c)
  PROVE  MediaSpaceSound'
<1> DEFINE f == MediaFirst(c.len)
           start == MediaUp(f[1])
           end == start + c.len - 1
           range == <<start, end>>
<1>1. /\ c.offset \notin DOMAIN media_allocs /\ c.len > 0
      /\ \E r \in media_regions : MediaRoomy(r, c.len)
      /\ MediaAllocate(c.offset, c.len, range) /\ media_mapped' = media_mapped \cup {range} /\ UNCHANGED media_leaked
  BY DEF MediaMap
<1>2. c.len \in Nat
  BY MediaAssumption
<1>3. media_regions \subseteq MediaPairs
  BY DEF MediaSpaceSound, MediaParted
<1>4. f \in media_regions /\ MediaRoomy(f, c.len)
  BY <1>1, <1>3, MediaFirstIs
<1> HIDE DEF f
<1>5. f[1] \in Nat /\ f[2] \in Nat /\ f[2] < MediaSpace
  BY <1>3, <1>4 DEF MediaPairs
<1>6. start \in Nat /\ f[1] <= start /\ start % MediaAlign = 0
  BY <1>5, MediaAlignedUp
<1>7. end <= f[2]
  BY <1>4 DEF MediaRoomy
<1> HIDE DEF start
<1>8. end \in Nat /\ start <= end
  BY <1>1, <1>2, <1>6
<1> HIDE DEF end
<1>9. MediaParted((media_regions \ {f}) \cup MediaLeft(f, range), MediaWith(c.offset, range))
  BY <1>1, <1>4, <1>6, <1>7, <1>8, MediaAllocates DEF MediaSpaceSound
<1>10. range \in MediaPairs
  BY <1>5, <1>6, <1>7, <1>8, MediaAssumption DEF MediaPairs
<1> HIDE DEF range
<1>11. media_regions' = (media_regions \ {f}) \cup MediaLeft(f, range) /\ media_allocs' = MediaWith(c.offset, range)
  BY <1>1 DEF MediaAllocate, MediaWith, f
<1>12. DOMAIN media_allocs' = DOMAIN media_allocs \cup {c.offset} /\ media_allocs'[c.offset] = range
       /\ \A o \in DOMAIN media_allocs : media_allocs'[o] = media_allocs[o]
  BY <1>1, <1>11 DEF MediaWith
<1>13. MediaKnown'
  BY <1>1, <1>12 DEF MediaSpaceSound, MediaKnown
<1>14. media_mapped' \subseteq MediaPairs
  BY <1>1, <1>10 DEF MediaSpaceSound
<1> QED
  BY <1>9, <1>11, <1>13, <1>14 DEF MediaSpaceSound

\* remove_mapping(), also if the VMM fails
LEMMA MediaUnmapStep ==
  ASSUME MediaSpaceSound, NEW c, MediaUnmap(c)
  PROVE  MediaSpaceSound'
<1>1. PICK o \in DOMAIN media_allocs :
        /\ MediaRelease(o)
        /\ \/ media_mapped' = media_mapped \ {media_allocs[o]} /\ media_leaked' = media_leaked
           \/ media_leaked' = media_leaked \cup {media_allocs[o]} /\ media_mapped' = media_mapped
  BY DEF MediaUnmap, MediaHit
<1>2. MediaParted(MediaJoined(media_allocs[o]), MediaWithout(o))
  BY MediaReleases DEF MediaSpaceSound
<1>3. media_regions' = MediaJoined(media_allocs[o]) /\ media_allocs' = MediaWithout(o)
  BY <1>1 DEF MediaRelease, MediaWithout
<1>4. DOMAIN media_allocs' = DOMAIN media_allocs \ {o} /\ \A p \in DOMAIN media_allocs' : media_allocs'[p] = media_allocs[p]
  BY <1>3 DEF MediaWithout
<1>5. \A p \in DOMAIN media_allocs : p # o => media_allocs[p] # media_allocs[o]
  <2> SUFFICES ASSUME NEW p \in DOMAIN media_allocs, p # o, media_allocs[p] = media_allocs[o] PROVE FALSE
    OBVIOUS
  <2>1. MediaBeside(media_allocs[o], media_allocs[o])
    BY DEF MediaSpaceSound, MediaParted
  <2>2. media_allocs[o][1] \in Nat /\ media_allocs[o][2] \in Nat /\ media_allocs[o][1] <= media_allocs[o][2]
    BY DEF MediaSpaceSound, MediaParted, MediaPairs
  <2> QED
    BY <2>1, <2>2 DEF MediaBeside
<1>6. MediaKnown'
  <2>1. \A p \in DOMAIN media_allocs' : media_allocs'[p] \in media_mapped'
    BY <1>1, <1>4, <1>5 DEF MediaSpaceSound, MediaKnown
  <2>2. ASSUME NEW r \in media_mapped'
        PROVE  r \in media_leaked' \/ \E p \in DOMAIN media_allocs' : media_allocs'[p] = r
    <3>1. r \in media_mapped
      BY <1>1
    <3>2. CASE r \in media_leaked
      BY <1>1, <3>2
    <3>3. CASE \E p \in DOMAIN media_allocs : media_allocs[p] = r
      BY <1>1, <1>4, <3>3
    <3> QED
      BY <3>1, <3>2, <3>3 DEF MediaSpaceSound, MediaKnown
  <2> QED
    BY <2>1, <2>2 DEF MediaKnown
<1>7. media_mapped' \subseteq MediaPairs
  BY <1>1 DEF MediaSpaceSound
<1> QED
  BY <1>2, <1>3, <1>6, <1>7 DEF MediaSpaceSound

\* Sessions
MediaSessionsSound == media_sessions \subseteq MediaIds /\ MediaHeard

\* Whatever the runner does of a command
LEMMA MediaDeviceStep ==
  ASSUME MediaSpaceSound, MediaSessionsSound, NEW c \in MediaCommands,
         MediaDevice(c) \/ (UNCHANGED mediaSpaceVars /\ UNCHANGED mediaSessionVars), media_worker' = media_worker
  PROVE  MediaSpaceSound' /\ MediaSessionsSound'
<1>1. c.cmd = "open" => c.id \in MediaIds
  BY MediaAssumption
<1>2. ASSUME UNCHANGED mediaSpaceVars PROVE MediaSpaceSound'
  BY <1>2 DEF mediaSpaceVars, MediaSpaceSound, MediaKnown
<1>3. ASSUME UNCHANGED mediaSessionVars PROVE MediaSessionsSound'
  BY <1>3 DEF mediaSessionVars, MediaSessionsSound, MediaHeard
<1>4. CASE c.cmd = "open" /\ MediaOpen(c.id) /\ UNCHANGED mediaSpaceVars
  <2>1. MediaSessionsSound'
    BY <1>1, <1>4 DEF MediaOpen, MediaSessionsSound, MediaHeard
  <2> QED
    BY <1>2, <1>4, <2>1
<1>5. CASE MediaClose(c.id) /\ UNCHANGED mediaSpaceVars
  <2>1. MediaSessionsSound'
    BY <1>1, <1>5 DEF MediaClose, MediaSessionsSound, MediaHeard
  <2> QED
    BY <1>2, <1>5, <2>1
<1>6. CASE MediaMap(c) /\ UNCHANGED mediaSessionVars
  BY <1>3, <1>6, MediaMapStep
<1>7. CASE MediaUnmap(c) /\ UNCHANGED mediaSessionVars
  BY <1>3, <1>7, MediaUnmapStep
<1>8. CASE UNCHANGED mediaSpaceVars /\ UNCHANGED mediaSessionVars
  BY <1>2, <1>3, <1>8
<1> QED
  BY <1>4, <1>5, <1>6, <1>7, <1>8 DEF MediaDevice

\* The queues, the answers and the guest's buffers
MediaRestSound ==
  /\ media_backend \in MediaBackends \cup {"none"} /\ media_worker \in {"run", "dead"}
  /\ media_buffers \in 0 .. MediaEvents /\ media_used \in 0 .. MediaAnswer /\ media_ring \in MediaRings

\* The three parts, which each step changes at most two of
LEMMA MediaPieces ==
  MediaIInv <=> MediaRestSound /\ MediaSpaceSound /\ MediaSessionsSound
  BY DEF MediaIInv, MediaTyped, MediaRestSound, MediaSpaceSound, MediaSessionsSound

\* An answer is no longer than it may be.
LEMMA MediaAnswers ==
  ASSUME NEW c \in MediaCommands
  PROVE  MediaCopied(c.out, MediaAnswer) \in 0 .. MediaAnswer
<1> DEFINE n == MediaReach(c.out)
           S == {2, n}
<1>1. n \in Nat
  BY MediaAssumption
<1> HIDE DEF n
<1>2. \E k \in S : \A m \in S : k <= m
  BY <1>1
<1>3. Min(S) \in S /\ \A m \in S : Min(S) <= m
  <2> HIDE DEF S
  <2> QED
    BY <1>2 DEF Min
<1>4. Min(S) \in 0 .. 2
  BY <1>1, <1>3
<1> QED
  BY <1>4 DEF MediaCopied, MediaAnswer, n

\* The queue holds commands.
LEMMA MediaRingsStay ==
  ASSUME media_ring \in MediaRings
  PROVE  /\ Collect(media_ring) \in MediaRings /\ SignalUsed(media_ring) \in MediaRings
         /\ \A c \in MediaCommands : Offer(media_ring, c) \in MediaRings
         /\ Serving(media_ring) => Request(media_ring) \in MediaCommands /\ AddUsed(media_ring) \in MediaRings
<1> DEFINE S == Seq(MediaCommands)
           a == media_ring.avail
           b == media_ring.batch
           n == media_ring.used
           none == <<>>
           Is(x, y, m) == [avail |-> x, batch |-> y, used |-> m]
<1>1. a \in S /\ b \in S /\ n \in Nat /\ none \in S
  BY DEF MediaRings
<1>2. media_ring = Is(a, b, n)
  BY DEF MediaRings
<1>3. ASSUME NEW x \in S, NEW y \in S, NEW m \in Nat PROVE Is(x, y, m) \in MediaRings
  <2> HIDE DEF S
  <2> QED
    BY DEF MediaRings, S
<1>4. b # <<>> => Head(b) \in MediaCommands /\ Tail(b) \in S
  BY <1>1, HeadTailProperties
<1>5. \A c \in MediaCommands : Append(a, c) \in S
  BY <1>1
<1> DEFINE ring == media_ring
           tail == Tail(b)
           more == n + 1
<1>6. Collect(ring) = [ring EXCEPT !.batch = a, !.avail = none]
  BY DEF Collect
<1>7. SignalUsed(ring) = [ring EXCEPT !.used = 0]
  BY DEF SignalUsed
<1>8. \A c : Offer(ring, c) = [ring EXCEPT !.avail = Append(a, c)]
  BY DEF Offer
<1>9. AddUsed(ring) = [ring EXCEPT !.batch = tail, !.used = more]
  BY DEF AddUsed
<1> HIDE DEF S, a, b, n, none, ring, tail, more
<1>10. ring = Is(a, b, n)
  BY <1>2 DEF ring
<1>11. /\ [ring EXCEPT !.batch = a, !.avail = none] = Is(none, a, n)
       /\ [ring EXCEPT !.used = 0] = Is(a, b, 0)
       /\ \A x : [ring EXCEPT !.avail = x] = Is(x, b, n)
       /\ [ring EXCEPT !.batch = tail, !.used = more] = Is(a, tail, more)
  <2> DEFINE r1 == [ring EXCEPT !.batch = a]
             r2 == [ring EXCEPT !.batch = tail]
  <2>1. r1 = Is(a, a, n) /\ r2 = Is(a, tail, n)
    BY <1>10
  <2> HIDE DEF r1, r2
  <2>2. [r1 EXCEPT !.avail = none] = Is(none, a, n)
    BY <2>1
  <2>3. [r2 EXCEPT !.used = more] = Is(a, tail, more)
    BY <2>1
  <2>4. [ring EXCEPT !.batch = a, !.avail = none] = Is(none, a, n)
    BY <2>2 DEF r1
  <2>5. [ring EXCEPT !.used = 0] = Is(a, b, 0)
    BY <1>10
  <2>6. \A x : [ring EXCEPT !.avail = x] = Is(x, b, n)
    BY <1>10
  <2>7. [ring EXCEPT !.batch = tail, !.used = more] = Is(a, tail, more)
    BY <2>3 DEF r2
  <2> QED
    BY <2>4, <2>5, <2>6, <2>7
<1> HIDE DEF Is
<1>12. Collect(ring) \in MediaRings /\ SignalUsed(ring) \in MediaRings
  <2>1. Is(none, a, n) \in MediaRings /\ Is(a, b, 0) \in MediaRings
    BY <1>1, <1>3
  <2> QED
    BY <1>6, <1>7, <1>11, <2>1
<1>13. \A c \in MediaCommands : Offer(ring, c) \in MediaRings
  <2> SUFFICES ASSUME NEW c \in MediaCommands PROVE Offer(ring, c) \in MediaRings
    OBVIOUS
  <2> DEFINE x == Append(a, c)
  <2>1. x \in S /\ Offer(ring, c) = [ring EXCEPT !.avail = x]
    BY <1>5, <1>8
  <2> HIDE DEF x
  <2>2. Is(x, b, n) \in MediaRings
    BY <1>1, <1>3, <2>1
  <2> QED
    BY <1>11, <2>1, <2>2
<1>14. b # <<>> => AddUsed(ring) \in MediaRings
  <2>1. more \in Nat
    BY <1>1 DEF more
  <2> QED
    BY <1>1, <1>3, <1>4, <1>9, <1>11, <2>1 DEF tail
<1> QED
  BY <1>4, <1>12, <1>13, <1>14 DEF ring, b, Serving, Request

\* The parts after a step
LEMMA MediaPiecesNext ==
  ASSUME MediaRestSound', MediaSpaceSound', MediaSessionsSound'
  PROVE  MediaIInv'
  BY DEF MediaIInv, MediaTyped, MediaRestSound, MediaSpaceSound, MediaSessionsSound

\* Every step
LEMMA MediaSteps ==
  ASSUME MediaIInv, [MediaNext]_MediaVars
  PROVE  MediaIInv'
<1>1. MediaRestSound /\ MediaSpaceSound /\ MediaSessionsSound
  BY MediaPieces
<1>2. ASSUME UNCHANGED mediaSpaceVars PROVE MediaSpaceSound'
  BY <1>1, <1>2 DEF mediaSpaceVars, MediaSpaceSound, MediaKnown
<1>3. ASSUME UNCHANGED mediaSessionVars, media_worker' \in {media_worker, "dead"} PROVE MediaSessionsSound'
  BY <1>1, <1>3 DEF mediaSessionVars, MediaSessionsSound, MediaHeard
<1>4. CASE MediaServe
  <2> DEFINE c == Request(media_ring)
  <2>1. c \in MediaCommands /\ media_ring' \in MediaRings
    BY <1>1, <1>4, MediaRingsStay DEF MediaServe, MediaRestSound
  <2>2. /\ MediaDevice(c) \/ (UNCHANGED mediaSpaceVars /\ UNCHANGED mediaSessionVars)
        /\ media_used' = MediaCopied(c.out, MediaAnswer)
        /\ UNCHANGED <<media_backend, media_worker, media_memory, media_buffers>>
    BY <1>4 DEF MediaServe
  <2>3. MediaSpaceSound' /\ MediaSessionsSound'
    BY <1>1, <2>1, <2>2, MediaDeviceStep
  <2>4. media_used' \in 0 .. MediaAnswer
    BY <2>1, <2>2, MediaAnswers
  <2>5. MediaRestSound'
    BY <1>1, <2>1, <2>2, <2>4 DEF MediaRestSound
  <2> QED
    BY <2>3, <2>5, MediaPiecesNext
<1>5. CASE MediaCollect \/ MediaSignal
  <2>1. /\ media_ring' \in {Collect(media_ring), SignalUsed(media_ring)}
        /\ UNCHANGED <<media_backend, media_worker, media_memory, media_buffers, media_used>>
        /\ UNCHANGED mediaSpaceVars /\ UNCHANGED mediaSessionVars
    BY <1>5 DEF MediaCollect, MediaSignal
  <2>2. media_ring' \in MediaRings
    BY <1>1, <2>1, MediaRingsStay DEF MediaRestSound
  <2>3. MediaRestSound'
    BY <1>1, <2>1, <2>2 DEF MediaRestSound
  <2> QED
    BY <1>2, <1>3, <2>1, <2>3, MediaPiecesNext
<1>6. CASE MediaOffer
  <2>1. /\ media_ring' = media_ring \/ \E c \in MediaCommands : media_ring' = Offer(media_ring, c)
        /\ media_buffers' = media_buffers \/ (media_buffers < MediaEvents /\ media_buffers' = media_buffers + 1)
        /\ UNCHANGED <<media_backend, media_worker, media_memory, media_used>>
        /\ UNCHANGED mediaSpaceVars /\ UNCHANGED mediaSessionVars
    BY <1>6 DEF MediaOffer
  <2>2. media_ring' \in MediaRings
    BY <1>1, <2>1, MediaRingsStay DEF MediaRestSound
  <2>3. media_buffers' \in 0 .. MediaEvents
    BY <1>1, <2>1, MediaAssumption DEF MediaRestSound
  <2>4. MediaRestSound'
    BY <1>1, <2>1, <2>2, <2>3 DEF MediaRestSound
  <2> QED
    BY <1>2, <1>3, <2>1, <2>4, MediaPiecesNext
<1>7. CASE (\E backend \in MediaBackends : MediaStart(backend)) \/ MediaConfigure
  <2>1. /\ media_backend' \in MediaBackends \cup {media_backend} /\ media_worker' \in {media_worker, "dead"}
        /\ UNCHANGED <<media_ring, media_buffers, media_used>>
        /\ UNCHANGED mediaSpaceVars /\ UNCHANGED mediaSessionVars
    BY <1>7 DEF MediaStart, MediaConfigure
  <2>2. MediaRestSound'
    BY <1>1, <2>1 DEF MediaRestSound
  <2> QED
    BY <1>2, <1>3, <2>1, <2>2, MediaPiecesNext
<1>8. ASSUME NEW id \in MediaIds, MediaProcessEvents(id) PROVE MediaIInv'
  <2>1. /\ media_buffers' = Max({0, media_buffers - 1})
        /\ UNCHANGED <<media_backend, media_worker, media_memory, media_ring, media_used>>
        /\ UNCHANGED mediaSpaceVars /\ UNCHANGED mediaSessionVars
    BY <1>8 DEF MediaProcessEvents
  <2>2. media_buffers' \in 0 .. MediaEvents
    <3> DEFINE n == media_buffers - 1
    <3>1. n \in Int /\ n <= MediaEvents /\ MediaEvents \in Nat
      BY <1>1, MediaAssumption DEF MediaRestSound
    <3> HIDE DEF n
    <3>2. CASE n >= 0
      <4>1. Max({0, n}) = n
        BY <3>1, <3>2, MediaMaxOf
      <4> QED
        BY <2>1, <3>1, <3>2, <4>1 DEF n
    <3>3. CASE n < 0
      <4>1. Max({0, n}) = 0
        BY <3>1, <3>3, MediaMaxOf
      <4> QED
        BY <2>1, <3>1, <4>1 DEF n
    <3> QED
      BY <3>1, <3>2, <3>3
  <2>3. MediaRestSound'
    BY <1>1, <2>1, <2>2 DEF MediaRestSound
  <2> QED
    BY <1>2, <1>3, <2>1, <2>3, MediaPiecesNext
<1>9. ASSUME NEW id \in MediaIds, MediaEventsFail(id) PROVE MediaIInv'
  <2>1. /\ media_sessions' \subseteq media_sessions /\ media_worker' = "dead"
        /\ UNCHANGED <<media_backend, media_ring, media_buffers, media_used>> /\ UNCHANGED mediaSpaceVars
    BY <1>9 DEF MediaEventsFail
  <2>2. MediaSessionsSound'
    BY <1>1, <2>1 DEF MediaSessionsSound, MediaHeard
  <2>3. MediaRestSound'
    BY <1>1, <2>1 DEF MediaRestSound
  <2> QED
    BY <1>2, <2>1, <2>2, <2>3, MediaPiecesNext
<1>10. CASE UNCHANGED MediaVars
  <2>1. /\ UNCHANGED <<media_backend, media_worker, media_ring, media_buffers, media_used>>
        /\ UNCHANGED mediaSpaceVars /\ UNCHANGED mediaSessionVars
    BY <1>10 DEF MediaVars, mediaSpaceVars, mediaSessionVars
  <2>2. MediaRestSound'
    BY <1>1, <2>1 DEF MediaRestSound
  <2> QED
    BY <1>2, <1>3, <2>1, <2>2, MediaPiecesNext
<1> QED
  BY <1>4, <1>5, <1>6, <1>7, <1>8, <1>9, <1>10 DEF MediaNext

\* At first the whole region is free.
LEMMA MediaBegins ==
  ASSUME MediaInit
  PROVE  MediaIInv
<1> DEFINE whole == <<0, MediaSpace - 1>>
<1>1. whole \in MediaPairs /\ whole[1] = 0 /\ whole[2] = MediaSpace - 1
  BY MediaAssumption DEF MediaPairs
<1>2. media_regions = {whole} /\ media_allocs = <<>> /\ media_mapped = {} /\ media_sessions = {}
  BY DEF MediaInit
<1> HIDE DEF whole
<1>3. DOMAIN media_allocs = {}
  BY <1>2
<1>4. media_allocs \in [DOMAIN media_allocs -> MediaPairs]
  <2>1. media_allocs = [o \in DOMAIN media_allocs |-> media_allocs[o]]
    BY <1>2
  <2> QED
    BY <1>3, <2>1
<1>5. MediaCovers(media_regions, media_allocs)
  BY <1>1, <1>2, MediaAssumption DEF MediaCovers, MediaIn
<1>6. MediaParted(media_regions, media_allocs)
  BY <1>1, <1>2, <1>3, <1>4, <1>5 DEF MediaParted
<1>7. MediaKnown
  BY <1>2, <1>3 DEF MediaKnown
<1>8. media_ring \in MediaRings
  <2>1. <<>> \in Seq(MediaCommands)
    OBVIOUS
  <2> QED
    BY <2>1 DEF MediaInit, EmptyRing, MediaRings
<1>9. MediaTyped
  BY <1>2, <1>8, MediaAssumption DEF MediaInit, MediaTyped, MediaAnswer
<1>10. MediaHeard
  BY DEF MediaInit, MediaHeard
<1> QED
  BY <1>6, <1>7, <1>9, <1>10 DEF MediaIInv

\* What is promised follows.
LEMMA MediaConcludes ==
  ASSUME MediaIInv
  PROVE  MediaInv
<1>1. /\ media_regions \subseteq MediaPairs /\ media_mapped \subseteq MediaPairs
      /\ \A o \in DOMAIN media_allocs : media_allocs[o] \in MediaPairs
  BY DEF MediaIInv, MediaTyped, MediaParted
<1>2. \A r \in MediaPairs : r[1] \in Nat /\ r[2] \in Nat /\ r[1] <= r[2] /\ r[2] < MediaSpace
  BY DEF MediaPairs
<1>3. \A r, s \in media_regions : r # s => MediaAway(r, s)
  BY DEF MediaIInv, MediaParted
<1>4. /\ \A r \in media_regions : \A o \in DOMAIN media_allocs : MediaBeside(r, media_allocs[o])
      /\ \A o, p \in DOMAIN media_allocs : o # p => MediaBeside(media_allocs[o], media_allocs[p])
  BY DEF MediaIInv, MediaParted
<1>5. MediaTypeOK
  <2>1. ASSUME NEW r \in MediaPairs PROVE r[1] \in 0 .. r[2] /\ r[2] \in 0 .. MediaSpace - 1
    BY <1>2, MediaAssumption
  <2> QED
    BY <1>1, <2>1 DEF MediaIInv, MediaTyped, MediaTypeOK, MediaRanges
<1>6. ASSUME NEW a \in 0 .. MediaSpace - 1
      PROVE  Cardinality({r \in media_regions : a \in r[1] .. r[2]})
               + Cardinality({o \in DOMAIN media_allocs : a \in media_allocs[o][1] .. media_allocs[o][2]}) = 1
  <2> DEFINE R == {r \in media_regions : a \in r[1] .. r[2]}
             O == {o \in DOMAIN media_allocs : a \in media_allocs[o][1] .. media_allocs[o][2]}
  <2>0. a \in Nat
    OBVIOUS
  <2>1. \A r \in R : r \in media_regions /\ r \in MediaPairs /\ MediaIn(a, r)
    BY <1>1, <1>2 DEF MediaIn
  <2>2. \A o \in O : o \in DOMAIN media_allocs /\ media_allocs[o] \in MediaPairs /\ MediaIn(a, media_allocs[o])
    BY <1>1, <1>2 DEF MediaIn
  <2>3. \A r \in media_regions : MediaIn(a, r) => r \in R
    BY <1>1, <1>2 DEF MediaIn
  <2>4. \A o \in DOMAIN media_allocs : MediaIn(a, media_allocs[o]) => o \in O
    BY <1>1, <1>2 DEF MediaIn
  <2> HIDE DEF R, O
  <2>5. \A r, s \in MediaPairs : MediaIn(a, r) /\ MediaIn(a, s) => ~MediaAway(r, s) /\ ~MediaBeside(r, s)
    BY <1>2, <2>0 DEF MediaIn, MediaAway, MediaBeside
  <2>6. \A r, s \in R : r = s
    BY <1>3, <2>1, <2>5
  <2>7. \A o, p \in O : o = p
    BY <1>4, <2>2, <2>5
  <2>8. R = {} \/ O = {}
    BY <1>4, <2>1, <2>2, <2>5
  <2>9. (\E r \in media_regions : MediaIn(a, r)) \/ (\E o \in DOMAIN media_allocs : MediaIn(a, media_allocs[o]))
    BY DEF MediaIInv, MediaParted, MediaCovers
  <2>10. (O = {} /\ \E x : R = {x}) \/ (R = {} /\ \E x : O = {x})
    <3>1. CASE O = {}
      <4>1. PICK x : x \in R
        BY <2>3, <2>4, <2>9, <3>1
      <4>2. R = {x}
        BY <2>6, <4>1
      <4> QED
        BY <3>1, <4>2
    <3>2. CASE R = {}
      <4>1. PICK x : x \in O
        BY <2>3, <2>4, <2>9, <3>2
      <4>2. O = {x}
        BY <2>7, <4>1
      <4> QED
        BY <3>2, <4>2
    <3> QED
      BY <2>8, <3>1, <3>2
  <2>11. Cardinality(R) + Cardinality(O) = 1
    <3>1. Cardinality({}) = 0 /\ \A x : Cardinality({x}) = 1
      BY FS_EmptySet, FS_Singleton
    <3>2. CASE O = {} /\ \E x : R = {x}
      <4>1. Cardinality(O) = 0 /\ Cardinality(R) = 1
        BY <3>1, <3>2
      <4> QED
        BY <4>1
    <3>3. CASE R = {} /\ \E x : O = {x}
      <4>1. Cardinality(R) = 0 /\ Cardinality(O) = 1
        BY <3>1, <3>3
      <4> QED
        BY <4>1
    <3> QED
      BY <2>10, <3>2, <3>3
  <2> QED
    BY <2>11 DEF R, O
<1>7. \A r, s \in media_regions : r[2] + 1 # s[1]
  <2> SUFFICES ASSUME NEW r \in media_regions, NEW s \in media_regions, r[2] + 1 = s[1] PROVE FALSE
    OBVIOUS
  <2>1. r \in MediaPairs /\ s \in MediaPairs /\ (r # s => MediaAway(r, s))
    BY <1>1, <1>3
  <2> QED
    BY <1>2, <2>1 DEF MediaAway
<1>8. MediaAccounted
  BY <1>6, <1>7 DEF MediaAccounted, MediaIInv, MediaParted
<1>9. MediaMappedAllocated
  <2>1. MediaRanges \subseteq media_mapped /\ \A r \in media_mapped : r \in MediaRanges \/ r \in media_leaked
    BY DEF MediaIInv, MediaKnown, MediaRanges
  <2>2. ASSUME NEW r \in media_mapped, NEW s \in media_mapped, r # s, MediaOverlap(r, s), r \notin media_leaked, s \notin media_leaked
        PROVE  FALSE
    <3>1. PICK o \in DOMAIN media_allocs : r = media_allocs[o]
      BY <2>1, <2>2 DEF MediaRanges
    <3>2. PICK p \in DOMAIN media_allocs : s = media_allocs[p]
      BY <2>1, <2>2 DEF MediaRanges
    <3>3. MediaBeside(r, s) /\ r \in MediaPairs /\ s \in MediaPairs
      BY <1>1, <1>4, <2>2, <3>1, <3>2
    <3>4. /\ Max({r[1], s[1]}) >= r[1] /\ Max({r[1], s[1]}) >= s[1] /\ Max({r[1], s[1]}) \in Nat
          /\ Min({r[2], s[2]}) <= r[2] /\ Min({r[2], s[2]}) <= s[2] /\ Min({r[2], s[2]}) \in Nat
      <4>1. r[1] \in Nat /\ s[1] \in Nat /\ r[2] \in Nat /\ s[2] \in Nat
        BY <1>2, <3>3
      <4> DEFINE X == {r[1], s[1]}
                 Y == {r[2], s[2]}
      <4>2. (\E n \in X : \A m \in X : n >= m) /\ (\E n \in Y : \A m \in Y : n <= m)
        BY <4>1
      <4>3. X \subseteq Nat /\ Y \subseteq Nat /\ r[1] \in X /\ s[1] \in X /\ r[2] \in Y /\ s[2] \in Y
        BY <4>1
      <4> HIDE DEF X, Y
      <4>4. Max(X) \in X /\ \A m \in X : Max(X) >= m
        BY <4>2 DEF Max
      <4>5. Min(Y) \in Y /\ \A m \in Y : Min(Y) <= m
        BY <4>2 DEF Min
      <4> QED
        BY <4>3, <4>4, <4>5 DEF X, Y
    <3>5. ~(Min({r[2], s[2]}) < Max({r[1], s[1]}))
      BY <2>2 DEF MediaOverlap, MediaEmpty
    <3> QED
      BY <1>2, <3>3, <3>4, <3>5 DEF MediaBeside
  <2> QED
    BY <2>1, <2>2 DEF MediaMappedAllocated
<1> QED
  BY <1>5, <1>8, <1>9 DEF MediaInv, MediaIInv

\* Each address of the shared region is free or allocated once and the free
\* regions are joined, what the VMM maps is what is allocated unless it failed to
\* unmap it, and the thread hears the sessions that there are
\* (media_allocator.rs, vhu_media_thread.rs).
THEOREM MediaHolds == MediaSpec => []MediaInv
<1>1. MediaInit => MediaIInv
  BY MediaBegins
<1>2. MediaIInv /\ [MediaNext]_MediaVars => MediaIInv'
  BY MediaSteps
<1>3. MediaIInv => MediaInv
  BY MediaConcludes
<1> QED
  BY <1>1, <1>2, <1>3, PTL DEF MediaSpec

=============================================================================
