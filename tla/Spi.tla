---------------------------------- MODULE Spi ----------------------------------
(***************************************************************************)
(* vhost-device-spi: each guest's thread opens the one SPI device, finds   *)
(* out what it can do by trying, and transfers what its guest queues.  The *)
(* mode is the device's, not the file's: the threads share it, unlocked.   *)
(***************************************************************************)
EXTENDS Integers, Sequences, SequencesExt

CONSTANTS
  SpiGuests,
  SpiHardware, \* external: devices there may be, [flags, wide, words, speed]
  SpiOrigin,   \* external: the mode it is found in
  SpiOriginSpeed, \* external: the speed it is found at
  SpiMessageLimit, \* the messages that do not fit the size field of the call, 512
  SpiProbes,   \* bound: the mode bits that the model tells apart, as they are tried
  SpiQueues    \* bound: what a guest may have queued, sequences of chains

VARIABLES
  spi_has,     \* external: the device of the host, <<>> before it is known
  spi_mode,    \* external: the set of its mode bits
  spi_speed,   \* external: its speed
  spi_pc,      \* where each guest's thread is
  spi_probe,   \* the bit that it tries next
  spi_saved,   \* the mode that it found
  spi_config,  \* VirtioSpiConfig: what it found out, [bits, words, speed]
  spi_reqs,    \* the requests it collected
  spi_answers, \* what each finds where its status belongs
  spi_used,    \* the chains in its used ring that the guest is not told of yet
  spi_done,    \* history: they were transferred
  spi_moved    \* history: another thread has set the device since this one
               \* looked at it, or a call of this one failed that need not have

SpiVars == <<spi_has, spi_mode, spi_speed, spi_pc, spi_probe, spi_saved, spi_config, spi_reqs, spi_answers, spi_used, spi_done, spi_moved>>

SpiFlags == {"CPHA", "CPOL", "CS_HIGH", "LSB", "LOOP"}
SpiTx    == {"TX_DUAL", "TX_QUAD", "TX_OCTAL"}
SpiRx    == {"RX_DUAL", "RX_QUAD", "RX_OCTAL"}
SpiWide  == SpiTx \cup SpiRx

\* detect_supported_features() tries the bits in this order.
SpiOrder == <<"TX_DUAL", "TX_QUAD", "TX_OCTAL", "RX_DUAL", "RX_QUAD", "RX_OCTAL", "CPHA", "CPOL", "CS_HIGH", "LSB", "LOOP">>
SpiTried == Range(SpiProbes)

\* External: the mode that a device is in asks for one width in each direction.
SpiOneWidth(mode) ==
  \A widths \in {mode \cap SpiTx, mode \cap SpiRx} : \A a, b \in widths : a = b

\* The model has some of the bits, in their order; the device is found in a mode
\* that it can be in; and no queue is looked at with nothing in it.
ASSUME SpiAssumption ==
  /\ SpiOriginSpeed \in Nat /\ SpiMessageLimit \in Nat \ {0}
  /\ SpiProbes \in Seq(SpiFlags \cup SpiWide)
  /\ \E place \in [DOMAIN SpiProbes -> DOMAIN SpiOrder] : \A i, j \in DOMAIN SpiProbes :
       SpiProbes[i] = SpiOrder[place[i]] /\ (i < j => place[i] < place[j])
  /\ SpiOrigin \subseteq SpiTried
  /\ \A h \in SpiHardware :
       /\ h.flags \subseteq SpiFlags \cap SpiTried /\ h.wide \subseteq SpiWide \cap SpiTried
       /\ SpiOrigin \subseteq h.flags \cup h.wide /\ SpiOneWidth(SpiOrigin)
  /\ \A q \in SpiQueues :
       /\ Len(q) \in Nat \ {0} /\ DOMAIN q = 1 .. Len(q)
       /\ \A i \in DOMAIN q : q[i].flags \subseteq SpiFlags

SpiNoConfig == [bits |-> {}, words |-> {}, speed |-> 0]

SpiInit ==
  /\ spi_has = <<>> /\ spi_mode = SpiOrigin /\ spi_speed = SpiOriginSpeed
  /\ spi_pc = [g \in SpiGuests |-> "new"] /\ spi_probe = [g \in SpiGuests |-> 0]
  /\ spi_saved = [g \in SpiGuests |-> {}] /\ spi_config = [g \in SpiGuests |-> SpiNoConfig]
  /\ spi_reqs = [g \in SpiGuests |-> <<>>] /\ spi_answers = [g \in SpiGuests |-> <<>>]
  /\ spi_used = [g \in SpiGuests |-> 0]
  /\ spi_done = [g \in SpiGuests |-> FALSE] /\ spi_moved = [g \in SpiGuests |-> FALSE]

\* External: a device with certain abilities is there.
SpiPlug(h) ==
  /\ spi_has = <<>> /\ spi_has' = h
  /\ UNCHANGED <<spi_mode, spi_speed, spi_pc, spi_probe, spi_saved, spi_config, spi_reqs, spi_answers, spi_done, spi_moved, spi_used>>

SpiStep(g, from, to) == spi_has # <<>> /\ spi_pc[g] = from /\ spi_pc' = [spi_pc EXCEPT ![g] = to]

-----------------------------------------------------------------------------
\* External: spidev takes a mode if the device has its flags and it asks for one
\* width only in each direction; widths that it has not are dropped.
SpiTakes(mode) ==
  mode \cap SpiFlags \subseteq spi_has.flags /\ SpiOneWidth(mode)

SpiDisturb(g) == spi_moved' = [h \in SpiGuests |-> spi_moved[h] \/ h # g]

SpiSetMode(g, mode) == spi_mode' = mode \ (SpiWide \ spi_has.wide) /\ SpiDisturb(g)

\* The device is opened, and detect_supported_features() begins: the speed that
\* it finds is kept, and 0 is set, which the device may make its limit of ...
SpiOpen(g) ==
  /\ SpiStep(g, "new", "speed")
  /\ spi_config' = [spi_config EXCEPT ![g].speed = spi_speed]
  /\ spi_speed' = IF spi_has.speed = 0 THEN spi_speed ELSE spi_has.speed
  /\ spi_moved' = [h \in SpiGuests |-> h # g /\ (spi_moved[h] \/ spi_pc[h] = "speed")]
  /\ UNCHANGED <<spi_has, spi_mode, spi_probe, spi_saved, spi_reqs, spi_answers, spi_done, spi_used>>

\* ... which is read back, if 0 was taken, and the speed is set back.  Then the
\* word lengths are tried (a call tells, whatever another thread has set), and
\* the mode is looked at.
SpiDetect(g) ==
  /\ SpiStep(g, "speed", "try")
  /\ \E read \in {IF spi_has.speed = 0 THEN 0 ELSE spi_speed} \cup {0} :
       /\ spi_config' = [spi_config EXCEPT ![g] = [bits |-> {}, words |-> spi_has.words, speed |-> read]]
       /\ spi_moved' = [h \in SpiGuests |->
            spi_moved[h] \/ IF h = g THEN read # spi_has.speed ELSE spi_pc[h] = "speed"]
  /\ spi_speed' = spi_config[g].speed
  /\ spi_saved' = [spi_saved EXCEPT ![g] = spi_mode]
  /\ spi_probe' = [spi_probe EXCEPT ![g] = 1]
  /\ UNCHANGED <<spi_has, spi_mode, spi_reqs, spi_answers, spi_done, spi_used>>

SpiBit(g) == SpiProbes[spi_probe[g]]

\* The polarities have two values, and a bit of the configuration for each.
SpiNames(bit, on) ==
  CASE bit = "CPHA" -> IF on THEN {"CPHA_1"} ELSE {"CPHA_0"}
    [] bit = "CPOL" -> IF on THEN {"CPOL_1"} ELSE {"CPOL_0"}
    [] OTHER -> IF on THEN {bit} ELSE {}

SpiLearn(g, names, next) ==
  /\ spi_config' = [spi_config EXCEPT ![g].bits = @ \cup names]
  /\ spi_probe' = [spi_probe EXCEPT ![g] = @ + next]

\* The mode to try: a width alone in its direction, a polarity turned over.
SpiTryMode(g) ==
  LET bit == SpiBit(g)  origin == spi_saved[g] IN
  IF bit \in SpiTx THEN (origin \ SpiTx) \cup {bit}
  ELSE IF bit \in SpiRx THEN (origin \ SpiRx) \cup {bit}
  ELSE IF bit \in origin THEN origin \ {bit} ELSE origin \cup {bit}

\* What the mode is found in is supported; the other flags need not be cleared.
SpiKnown(g) == SpiBit(g) \in spi_saved[g] /\ SpiBit(g) \in {"CS_HIGH", "LSB", "LOOP"}

SpiTry(g) ==
  /\ spi_pc[g] = "try" /\ spi_probe[g] <= Len(SpiProbes)
  /\ LET now == IF SpiBit(g) \in SpiWide THEN {}
                ELSE SpiNames(SpiBit(g), SpiBit(g) \in spi_saved[g]) IN
     IF SpiKnown(g)
     THEN SpiStep(g, "try", "try") /\ SpiLearn(g, now, 1) /\ UNCHANGED <<spi_mode, spi_moved>>
     ELSE \/ /\ SpiTakes(SpiTryMode(g)) /\ SpiSetMode(g, SpiTryMode(g))
             /\ SpiStep(g, "try", "look") /\ SpiLearn(g, now, 0)
          \/ /\ SpiStep(g, "try", IF SpiBit(g) \in SpiWide THEN "gone" ELSE "try")
             /\ SpiLearn(g, now, 1) /\ UNCHANGED spi_mode
             /\ spi_moved' = [spi_moved EXCEPT ![g] = @ \/ SpiTakes(SpiTryMode(g))]
  /\ UNCHANGED <<spi_has, spi_speed, spi_saved, spi_reqs, spi_answers, spi_done, spi_used>>

\* The mode is read back, by a call of its own.
SpiLook(g) ==
  /\ SpiStep(g, "look", "try")
  /\ LET bit == SpiBit(g)  on == bit \in spi_mode IN
     SpiLearn(g, IF bit \in SpiTryMode(g) <=> on THEN SpiNames(bit, on) ELSE {}, 1)
  /\ UNCHANGED <<spi_has, spi_mode, spi_speed, spi_saved, spi_reqs, spi_answers, spi_done, spi_moved, spi_used>>

SpiDetected(g) ==
  /\ SpiStep(g, "try", "idle") /\ spi_probe[g] > Len(SpiProbes)
  /\ SpiTakes(spi_saved[g]) /\ SpiSetMode(g, spi_saved[g])
  /\ spi_probe' = [spi_probe EXCEPT ![g] = 0]
  /\ UNCHANGED <<spi_has, spi_speed, spi_saved, spi_config, spi_reqs, spi_answers, spi_done, spi_used>>

\* The device cannot be opened, a call on it fails, or serve() does: the thread
\* ends, and with it the daemon.  What was set last stays set.
SpiLost(g) ==
  /\ \E from \in {"new", "speed", "try", "look", "idle", "dead"} : SpiStep(g, from, "gone")
  /\ UNCHANGED <<spi_has, spi_mode, spi_speed, spi_probe, spi_saved, spi_config, spi_reqs, spi_answers, spi_done, spi_moved, spi_used>>

\* The guest is gone (the worker that served it may have ended before): the
\* device is opened anew for the next one.
SpiServed(g) ==
  /\ \E from \in {"idle", "dead"} : SpiStep(g, from, "new")
  /\ spi_config' = [spi_config EXCEPT ![g] = SpiNoConfig]
  /\ spi_reqs' = [spi_reqs EXCEPT ![g] = <<>>]
  /\ spi_answers' = [spi_answers EXCEPT ![g] = <<>>]
  /\ spi_used' = [spi_used EXCEPT ![g] = 0]
  /\ spi_saved' = [spi_saved EXCEPT ![g] = {}]
  /\ spi_probe' = [spi_probe EXCEPT ![g] = 0]
  /\ spi_done' = [spi_done EXCEPT ![g] = FALSE] /\ spi_moved' = [spi_moved EXCEPT ![g] = FALSE]
  /\ UNCHANGED <<spi_has, spi_mode, spi_speed>>

-----------------------------------------------------------------------------
\* A chain: the bytes to read (a header of 32 of them) and those to write (a
\* status behind them).
SpiWellFormed(c) ==
  /\ c.out >= 32 /\ c.in >= 1
  /\ c.out > 32 \/ c.in > 1
  /\ c.out > 32 /\ c.in > 1 => c.out - 32 = c.in - 1

\* process_requests(): one malformed chain loses all that were queued, and ends
\* the thread that serves the ring.
SpiCollect(g) ==
  /\ spi_used[g] = 0
  /\ \E queue \in SpiQueues :
       IF \A i \in DOMAIN queue : SpiWellFormed(queue[i])
       THEN SpiStep(g, "idle", "check") /\ spi_reqs' = [spi_reqs EXCEPT ![g] = queue]
       ELSE SpiStep(g, "idle", "dead") /\ UNCHANGED spi_reqs
  /\ spi_answers' = [spi_answers EXCEPT ![g] = <<>>]
  /\ spi_done' = [spi_done EXCEPT ![g] = FALSE]
  /\ UNCHANGED <<spi_has, spi_mode, spi_speed, spi_probe, spi_saved, spi_config, spi_moved, spi_used>>

\* check_trans_params().  Two devices can be selected, 0 and 1.
SpiLines(n, direction) ==
  CASE n \in {0, 1} -> {} [] n = 2 -> {direction \o "_DUAL"} [] n = 4 -> {direction \o "_QUAD"}
    [] n = 8 -> {direction \o "_OCTAL"} [] OTHER -> {"none such"}

SpiNeeds(r) ==
  SpiLines(r.tx, "TX") \cup SpiLines(r.rx, "RX")
    \cup UNION {SpiNames(bit, bit \in r.flags) : bit \in SpiFlags \cap SpiTried}

SpiWordFits(words, bpw) == words = {} \/ ((bpw + 31) % 32) + 1 \in words

SpiValid(config, r) ==
  /\ r.cs <= 1
  /\ SpiWordFits(config.words, r.bpw)
  /\ SpiNeeds(r) \subseteq config.bits
  /\ config.speed = 0 \/ r.speed <= config.speed

\* A word length of 0 (the default) or above 32 is outside the shift: a build with
\* overflow checks panics, another one looks at the bit of the length modulo 32.
SpiShiftPanics(config, r) == config.words # {} /\ r.bpw \notin 1 .. 32

SpiAllValid(g) == \A i \in DOMAIN spi_reqs[g] : SpiValid(spi_config[g], spi_reqs[g][i])

SpiAnswer(g, answers) ==
  /\ spi_answers' = [spi_answers EXCEPT ![g] = answers]
  /\ spi_used' = [spi_used EXCEPT ![g] = @ + Len(answers)]
  /\ spi_reqs' = [spi_reqs EXCEPT ![g] = <<>>]

\* If one of the requests is not valid none is transferred; the valid ones are
\* answered OK nevertheless.
SpiRefuse(g) ==
  /\ ~SpiAllValid(g)
  /\ SpiStep(g, "check", "idle")
  /\ SpiAnswer(g, [i \in DOMAIN spi_reqs[g] |->
       IF SpiValid(spi_config[g], spi_reqs[g][i]) THEN "OK" ELSE "PARAM_ERR"])
  /\ UNCHANGED <<spi_has, spi_mode, spi_speed, spi_probe, spi_saved, spi_config, spi_done, spi_moved>>

SpiPanic(g) ==
  /\ SpiStep(g, "check", "dead")
  /\ \E i \in DOMAIN spi_reqs[g] : SpiShiftPanics(spi_config[g], spi_reqs[g][i])
  /\ UNCHANGED <<spi_has, spi_mode, spi_speed, spi_probe, spi_saved, spi_config, spi_reqs, spi_answers, spi_done, spi_moved, spi_used>>

\* SpiController::transfer() looks which mode is set ...
SpiSave(g) ==
  /\ SpiStep(g, "check", "set") /\ SpiAllValid(g)
  /\ spi_saved' = [spi_saved EXCEPT ![g] = spi_mode]
  /\ spi_moved' = [spi_moved EXCEPT ![g] = FALSE]
  /\ UNCHANGED <<spi_has, spi_mode, spi_speed, spi_probe, spi_config, spi_reqs, spi_answers, spi_done, spi_used>>

\* ... sets the flags to those of the last request, for all of them ...
SpiTransMode(g) == (spi_saved[g] \ SpiFlags) \cup (Last(spi_reqs[g]).flags \cap SpiTried)

SpiSet(g) ==
  /\ SpiStep(g, "set", "rdwr")
  /\ SpiTakes(SpiTransMode(g)) /\ SpiSetMode(g, SpiTransMode(g))
  /\ UNCHANGED <<spi_has, spi_speed, spi_probe, spi_saved, spi_config, spi_reqs, spi_answers, spi_done, spi_used>>

\* ... transfers, and sets the mode back, ...  External: a call whose size field
\* holds no message transfers none and succeeds.
SpiRdwr(g) ==
  /\ SpiStep(g, "rdwr", "restore")
  /\ spi_done' = [spi_done EXCEPT ![g] = Len(spi_reqs[g]) < SpiMessageLimit]
  /\ UNCHANGED <<spi_has, spi_mode, spi_speed, spi_probe, spi_saved, spi_config, spi_reqs, spi_answers, spi_moved, spi_used>>

\* Mistake: the mode of the transfer stays set.
BugSpiRestore(g) ==
  /\ SpiStep(g, "restore", "idle")
  /\ SpiAnswer(g, [i \in DOMAIN spi_reqs[g] |-> "OK"])
  /\ UNCHANGED <<spi_has, spi_mode, spi_speed, spi_moved, spi_probe, spi_saved, spi_config, spi_done>>

SpiRestore(g) ==
  /\ SpiStep(g, "restore", "idle")
  /\ SpiTakes(spi_saved[g]) /\ SpiSetMode(g, spi_saved[g])
  /\ SpiAnswer(g, [i \in DOMAIN spi_reqs[g] |-> "OK"])
  /\ UNCHANGED <<spi_has, spi_speed, spi_probe, spi_saved, spi_config, spi_done>>

\* ... unless a call fails: then the mode stays as it is, and the status is written
\* to the first byte that the guest can read, not to the last.
SpiTransErr(g) ==
  /\ \E from \in {"check", "set", "rdwr", "restore"} : SpiStep(g, from, "idle")
  /\ SpiAllValid(g)
  /\ SpiAnswer(g, [i \in DOMAIN spi_reqs[g] |-> IF spi_reqs[g][i].in = 1 THEN "TRANS_ERR" ELSE "none"])
  /\ UNCHANGED <<spi_has, spi_mode, spi_speed, spi_probe, spi_saved, spi_config, spi_done, spi_moved>>

\* signal_used_queue(): the guest is told of all the answers at once, before more
\* chains are taken.
SpiSignal(g) ==
  /\ SpiStep(g, "idle", "idle") /\ spi_used[g] > 0
  /\ spi_used' = [spi_used EXCEPT ![g] = 0]
  /\ UNCHANGED <<spi_has, spi_mode, spi_speed, spi_probe, spi_saved, spi_config, spi_reqs, spi_answers, spi_done, spi_moved>>

\* handle_event(), again and again until no chain is left.
SpiHandleEvent(g) ==
  \/ SpiCollect(g) \/ SpiSignal(g) \/ SpiRefuse(g) \/ SpiPanic(g)
  \/ SpiSave(g) \/ SpiSet(g) \/ SpiRdwr(g) \/ SpiRestore(g) \/ SpiTransErr(g)

SpiThread(g) ==
  \/ SpiOpen(g) \/ SpiDetect(g) \/ SpiTry(g) \/ SpiLook(g) \/ SpiDetected(g) \/ SpiLost(g) \/ SpiServed(g)
  \/ SpiHandleEvent(g)

\* A thread that is gone ends the daemon.
SpiNext ==
  \/ \E h \in SpiHardware : SpiPlug(h)
  \/ (\A g \in SpiGuests : spi_pc[g] # "gone") /\ \E g \in SpiGuests : SpiThread(g)

SpiSpec == SpiInit /\ [][SpiNext]_SpiVars

-----------------------------------------------------------------------------
SpiTypeOK ==
  /\ spi_mode \subseteq SpiTried
  /\ spi_pc \in [SpiGuests -> {"new", "speed", "try", "look", "idle", "check", "set", "rdwr", "restore", "dead", "gone"}]
  /\ spi_probe \in [SpiGuests -> 0 .. Len(SpiProbes) + 1]
  /\ spi_saved \in [SpiGuests -> SUBSET SpiTried]
  /\ spi_done \in [SpiGuests -> BOOLEAN] /\ spi_moved \in [SpiGuests -> BOOLEAN]
  /\ spi_used \in [SpiGuests -> Nat]
  /\ \A g \in SpiGuests : Range(spi_answers[g]) \subseteq {"OK", "PARAM_ERR", "TRANS_ERR", "none"}

\* What the trying finds, whatever mode the device was left in, is what it can do,
\* unless another thread set the device between a try and the look at its result.
SpiAbilities ==
  spi_has.wide \cup (spi_has.flags \ {"CPHA", "CPOL"})
    \cup (UNION {SpiNames(bit, FALSE) : bit \in {"CPHA", "CPOL"} \cap SpiTried})
    \cup (UNION {SpiNames(bit, TRUE) : bit \in {"CPHA", "CPOL"} \cap spi_has.flags})

SpiFindsOut ==
  \A g \in SpiGuests : spi_pc[g] = "idle" /\ spi_answers[g] = <<>> /\ ~spi_moved[g] =>
    spi_config[g] = [bits |-> SpiAbilities, words |-> spi_has.words, speed |-> spi_has.speed]

\* A transfer is made in the mode that its request asks for, however the last
\* one, or an attempt that failed, left the device; not so if another guest's
\* thread sets the mode in between.
SpiModeAsked ==
  \A g \in SpiGuests : spi_pc[g] = "rdwr" /\ ~spi_moved[g] =>
    spi_mode \cap SpiFlags = Last(spi_reqs[g]).flags \cap SpiTried

\* After a transfer that succeeded, and after the abilities are found out, the
\* device is in the mode that it was in before.
SpiModeKept ==
  \A g \in SpiGuests : spi_pc[g] = "idle" /\ ~spi_moved[g] /\ (\A i \in DOMAIN spi_answers[g] : spi_answers[g][i] = "OK") =>
    spi_mode = spi_saved[g]

\* A request answered OK was transferred, unless one queued with it was refused,
\* or so many were queued that the call's size field holds none.
SpiOkMeansDone ==
  \A g \in SpiGuests : spi_pc[g] = "idle" /\ "OK" \in Range(spi_answers[g]) =>
    spi_done[g] \/ "PARAM_ERR" \in Range(spi_answers[g]) \/ Len(spi_answers[g]) >= SpiMessageLimit

\* A guest has been told of every answer before its next chains are taken, and
\* before a chain or a panic ends the thread that serves it.
SpiTold ==
  \A g \in SpiGuests : spi_pc[g] \in {"check", "set", "rdwr", "restore", "dead"} => spi_used[g] = 0

\* The mode of the device is the one asked for, and is restored, with two
\* guests at it; and what is answered is told (spi.rs, vhu_spi.rs).
SpiInv == SpiTypeOK /\ SpiFindsOut /\ SpiModeAsked /\ SpiModeKept /\ SpiOkMeansDone /\ SpiTold

=============================================================================
