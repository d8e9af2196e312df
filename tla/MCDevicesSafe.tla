---------------------------- MODULE MCDevicesSafe -----------------------------
(***************************************************************************)
(* Instances of the larger daemons for TLC, one of which runs, and of the  *)
(* vsock daemon's sibling guests.  Requests are the ones that take         *)
(* different paths.                                                        *)
(***************************************************************************)
EXTENDS VsockSiblings, Can, Sound, Scmi, Iio, Scsi, ScsiChain, Video, Spi,
        Media

VARIABLE device \* the daemon that runs

-----------------------------------------------------------------------------
\* Vsock siblings: one guest sends to the other, both of one group.
OneGroup == [v \in VMs |-> {1}]
OneWay   == {<<3, 4>>}

\* CAN: a frame of the bus and an error frame; a short and a long frame of
\* the guest, the long one with flags it may not have negotiated.
OnBus(error) ==
  [extended |-> FALSE, id |-> 0, fd |-> FALSE, rtr |-> FALSE, error |-> error, len |-> 8]
BusFrames == {OnBus("none"), OnBus("busoff")}
TxFrames  ==
  {[type |-> "TX", flags |-> {}, id |-> 0, len |-> 8],
   [type |-> "TX", flags |-> {"EXTENDED", "FD"}, id |-> 1, len |-> 48]}

\* SCMI: sensors on the command line, good ones and one for each refusal.
OnHost(channels, scalar, format, name, axisname) ==
  [channels |-> channels, scalar |-> scalar, format |-> format, name |-> name, axisname |-> axisname]
IioSensor(props, name, host) == [kind |-> "iio", props |-> props, name |-> name, host |-> host]
FakeSensor(props, name)      == [kind |-> "fake", props |-> props, name |-> name]
OtherSensor                  == [kind |-> "else", props |-> {}, name |-> "none"]
Good == FakeSensor({"name"}, "fits")
Required == {"path", "channel"}
Sensors ==
  {<<IioSensor(Required, "none", OnHost(2, FALSE, "le16s", "none", "fits"))>>,
   <<Good, IioSensor(Required \cup {"name"}, "fits", OnHost(1, TRUE, "other", "none", "fits"))>>,
   <<IioSensor(Required, "none", OnHost(1, FALSE, "le8", "fits", "long"))>>,
   <<IioSensor({"path"}, "none", OnHost(1, TRUE, "nodev", "none", "fits"))>>,
   <<IioSensor(Required, "none", OnHost(0, TRUE, "nodev", "none", "fits"))>>,
   <<FakeSensor({}, "none")>>, <<FakeSensor({"name"}, "long")>>, <<FakeSensor({"path"}, "none")>>,
   <<Good, Good>>, <<OtherSensor>>}
ScmiMessage(msg, index, arg, room) ==
  [command |-> TRUE, shape |-> "ok", msg |-> msg, index |-> index, arg |-> arg, room |-> room]
ScmiInputs ==
  {[ScmiMessage("version", 0, 0, 9) EXCEPT !.command = FALSE],
   [ScmiMessage("version", 0, 0, 9) EXCEPT !.shape = "bad"],
   [ScmiMessage("config_set", 0, 1, 9) EXCEPT !.shape = "readable"],
   ScmiMessage("version", 0, 0, 1), ScmiMessage("list", 0, 0, 9), ScmiMessage("vendor", 0, 0, 2),
   ScmiMessage("attributes", 0, "reading", 9), ScmiMessage("axis", 0, 0, 30),
   ScmiMessage("continuous", 0, 1, 2)}
    \cup {ScmiMessage(m, i, 0, 30) : m \in {"description", "reading"}, i \in {0, 1}}
    \cup {ScmiMessage(m, 0, a, 4) : m \in {"config_set", "continuous"}, a \in {0, 1}}

\* Iio: files of one channel with one or several axes, or of another channel;
\* scales <<digits, exponent>> around the range of the exponent, of one digit
\* and of several, below one and above; raw values around that of a byte.
Files ==
  {[raw |-> TRUE, axis |-> a, name |-> ""] : a \in {1, 2, 3, -1}}
    \cup {[raw |-> FALSE, axis |-> 1, name |-> ""], [raw |-> FALSE, axis |-> 0, name |-> "acc"]}
Scales    == {<<1, -2>>, <<598, -5>>, <<456, 0>>, <<2, 1>>, <<3, -1>>, <<4, -5>>, <<12, -7>>}
Exponents == {-3, 0, 3}
RawValues == {-8, -3, 0, 5, 127}
Lowest    == -4

\* SCSI: an image of two blocks and an empty one; requests of every command
\* and, for most, one it refuses.
Images == <<2, 0>>
ScsiCommand(op, lun) ==
  [op |-> op, addr |-> "unit", lun |-> lun, short |-> FALSE, odd |-> "no field", naca |-> FALSE,
   alloc |-> 999, room |-> 100, lba |-> 0, n |-> 1, fua |-> FALSE, val |-> 0, anchor |-> FALSE,
   page |-> "standard", rctd |-> FALSE, mode |-> "all", code |-> "Read10", action |-> FALSE]
Read(lba, n)          == [ScsiCommand("Read10", 1) EXCEPT !.lba = lba, !.n = n]
Write(lba, n, v, fua) == [ScsiCommand("Write10", 1) EXCEPT !.lba = lba, !.n = n, !.val = v, !.fua = fua]
Same(lba, n, v)       == [ScsiCommand("WriteSame16", 1) EXCEPT !.lba = lba, !.n = n, !.val = v]
Paged(op, lun, page)  == [ScsiCommand(op, lun) EXCEPT !.page = page]
Odd(op, field)        == [ScsiCommand(op, 1) EXCEPT !.odd = field]
OpCodes(mode, rctd)   ==
  [ScsiCommand("ReportSupportedOperationCodes", 1) EXCEPT !.mode = mode, !.rctd = rctd]
ScsiCommands ==
  {Read(0, 2), [Read(1, 1) EXCEPT !.fua = TRUE], [Read(0, 1) EXCEPT !.room = 3], [Read(1, 1) EXCEPT !.lun = 2],
   Write(0, 2, 1, TRUE), Write(1, 1, 0, FALSE), Write(1, 2, 0, FALSE),
   [Write(0, 1, 1, TRUE) EXCEPT !.lun = 2],
   Same(0, 2, 0), Same(15, 2, 1), [Same(0, 1, 0) EXCEPT !.lun = 2, !.anchor = TRUE], [Same(1, 1, 0) EXCEPT !.lun = 2],
   ScsiCommand("SynchronizeCache10", 1), ScsiCommand("TestUnitReady", 3), ScsiCommand("unknown", 1),
   ScsiCommand("ReportLuns", 3), [ScsiCommand("ReportLuns", 3) EXCEPT !.alloc = 10],
   [ScsiCommand("Inquiry", 3) EXCEPT !.alloc = 36], Paged("Inquiry", 1, "LogicalBlockProvisioning"),
   Paged("Inquiry", 1, "Ata"), Paged("ModeSense6", 1, "current"), Paged("ModeSense6", 1, "changeable"),
   Paged("ModeSense6", 1, "saved"), ScsiCommand("ReadCapacity10", 2),
   [ScsiCommand("ReadCapacity16", 1) EXCEPT !.alloc = 12], [ScsiCommand("TestUnitReady", 1) EXCEPT !.naca = TRUE],
   Odd("Inquiry", "page code"), Odd("TestUnitReady", "flags"), Odd("Write10", "protection"),
   Paged("RequestSense", 1, "descriptor"), ScsiCommand("RequestSense", 3),
   [ScsiCommand("TestUnitReady", 1) EXCEPT !.addr = "no target"],
   [ScsiCommand("TestUnitReady", 1) EXCEPT !.addr = "unparsable"],
   OpCodes("all", FALSE), OpCodes("either", FALSE), OpCodes("command", TRUE), OpCodes("action", FALSE)}

\* Video: batches of one or two commands for one stream, a few malformed.
VideoOne(c, id) ==
  [cmd |-> c, q |-> "output", id |-> id, odd |-> "", bytes |-> VideoBodyBytes[c]]
VideoInputs ==
  {<<VideoOne(c, 1)>> : c \in {"StreamCreate", "StreamDestroy", "StreamDrain", "ResourceDestroyAll", "QueueClear"}}
    \cup {<<VideoOne("ResourceCreate", i)>> : i \in VideoIds}
    \cup {<<VideoOne("ResourceQueue", 1)>>,
          <<VideoOne("ResourceQueue", 2), VideoOne("GetControl", 1)>>,
          <<[VideoOne("ResourceQueue", 1) EXCEPT !.odd = "planes"], VideoOne("GetParams", 1),
            [VideoOne("QueueClear", 1) EXCEPT !.odd = "value"], [VideoOne("QueryControl", 1) EXCEPT !.bytes = 8],
            [VideoOne("ResourceCreate", 1) EXCEPT !.odd = "entry"]>>,
          <<[VideoOne("ResourceQueue", 1) EXCEPT !.odd = "descriptors"]>>,
          <<[VideoOne("QueueClear", 1) EXCEPT !.odd = "descriptors"]>>}

\* SPI: one controller; queues of two requests, one of which may be refused.
SpiMessage(flags, tx) ==
  [flags |-> flags, cs |-> 0, bpw |-> 8, tx |-> tx, rx |-> 0, speed |-> 5, out |-> 34, in |-> 3]
Controllers == {[flags |-> {"CPHA"}, wide |-> {"TX_DUAL"}, words |-> {8, 16}, speed |-> 10]}
Probes == <<"TX_DUAL", "CPHA">>
SpiBatches ==
  {<<SpiMessage({"CPHA"}, 1), [SpiMessage({}, 2) EXCEPT !.in = 1]>>,
   <<SpiMessage({"CPHA"}, 4), SpiMessage({}, 0)>>,
   <<[SpiMessage({}, 0) EXCEPT !.bpw = 0, !.cs = 1]>>, <<[SpiMessage({}, 0) EXCEPT !.in = 2]>>}

\* Media: sessions, ioctls and mappings of the host's memory.
MediaCommand(cmd, id, offset, len) ==
  [cmd |-> cmd, id |-> id, offset |-> offset, len |-> len, in |-> <<2>>, out |-> <<1, 1>>]
MediaRequests ==
  {MediaCommand("open", 1, 0, 0), MediaCommand("close", 1, 0, 0),
   [MediaCommand("ioctl", 1, 0, 0) EXCEPT !.out = <<1, 0, 1>>], [MediaCommand("ioctl", 1, 0, 0) EXCEPT !.in = <<1>>],
   MediaCommand("mmap", 1, 10, 1), MediaCommand("mmap", 1, 20, 3), MediaCommand("mmap", 1, 30, 2)}
    \cup {MediaCommand("munmap", 0, offset, 0) : offset \in {0, 2, 5}}

-----------------------------------------------------------------------------
\* One daemon runs, the others have not been started.
Devices == {"siblings", "can", "sound", "scmi", "iio", "scsi", "chain", "video", "spi", "media"}

Others ==
  /\ IF device = "siblings" THEN TRUE ELSE UNCHANGED vars
  /\ IF device = "can" THEN TRUE ELSE UNCHANGED CanVars
  /\ IF device = "sound" THEN TRUE ELSE UNCHANGED SndVars
  /\ IF device = "scmi" THEN TRUE ELSE UNCHANGED ScmiVars
  /\ IF device = "iio" THEN TRUE ELSE UNCHANGED IioVars
  /\ IF device = "scsi" THEN TRUE ELSE UNCHANGED ScsiVars
  /\ IF device = "chain" THEN TRUE ELSE UNCHANGED ChainVars
  /\ IF device = "video" THEN TRUE ELSE UNCHANGED VideoVars
  /\ IF device = "spi" THEN TRUE ELSE UNCHANGED SpiVars
  /\ IF device = "media" THEN TRUE ELSE UNCHANGED MediaVars

MCInit ==
  /\ device \in Devices
  /\ Init
  /\ CanInit
  /\ SndInit
  /\ ScmiInit
  /\ IioInit
  /\ ScsiInit /\ (device # "scsi" => ~scsi_wp)
  /\ ChainInit /\ (device # "chain" => chain_in = <<0>> /\ chain_out = <<0>>)
  /\ VideoInit
  /\ SpiInit
  /\ MediaInit

MCNext ==
  /\ Others /\ UNCHANGED device
  /\ \/ device = "siblings" /\ Next
     \/ device = "can" /\ CanNext
     \/ device = "sound" /\ SndNext
     \/ device = "scmi" /\ ScmiNext
     \/ device = "iio" /\ IioNext
     \/ device = "scsi" /\ ScsiNext
     \/ device = "chain" /\ ChainNext
     \/ device = "video" /\ VideoNext
     \/ device = "spi" /\ SpiNext
     \/ device = "media" /\ MediaNext

MCSpec == MCInit /\ [][MCNext]_<<device, vars, CanVars, SndVars, ScmiVars,
          IioVars, ScsiVars, ChainVars, VideoVars, SpiVars, MediaVars>>

\* Bounds.  No host talks to the vsock guest that sends to its sibling, which it
\* does three times.  A video worker that has ended, or whose backend has refused
\* a buffer, is not followed any further, commands are given to one that has
\* nothing else to do, events are offered while no future waits, and one future
\* waits while a stream drains.  Of sound, either all the control messages come or
\* all the buffers; a buffer for the sensors' events comes while no command is under
\* way.  A write-protected image is followed while it is synced.  An SPI thread
\* that was misled about the device, or whose worker has ended, is not followed.
\* Requests that change nothing, or that cannot be read, come while all is quiet: no
\* future waits, no sensor is enabled, all the images are synced.
Pending(q) == ToSet(q.avail \o q.batch)
ScmiSwitching   == {"config_set", "continuous", "reading", "description"}
ScsiReadsWrites == {"Read10", "Write10", "WriteSame16", "SynchronizeCache10"}

DevicesBound ==
  /\ device = "siblings" => \A p \in Talks : std[p[1]] = 0 /\ sent[p[1]][p[2]] <= 3
  /\ device = "video" => /\ ~video_refused /\ video_worker = "run"
                         /\ video_todo = {} \/ Outstanding(video_ring) = 0
                         /\ \A r \in Pending(video_ring) : r.odd # "" => video_tasks = {}
                         /\ video_offered = 0 \/ video_tasks = {}
                         /\ video_stream.state = "Draining" => Cardinality(video_tasks) <= 1
  /\ device = "sound" => snd_count.controls + snd_count.transfers <= 4
  /\ device = "scmi" =>
       /\ scmi_event.avail = <<>> \/ Outstanding(scmi_cmd) = 0
       /\ (\A r \in Pending(scmi_cmd) : r.msg \in ScmiSwitching) \/ \A i \in DOMAIN scmi_devs : ~scmi_devs[i].enabled
  /\ device = "scsi" =>
       scsi_image = scsi_disk \/ (~scsi_wp /\ \A r \in Pending(scsi_ring) : r.op \in ScsiReadsWrites)
  /\ device = "spi" => \A g \in SpiGuests :
       /\ spi_pc[g] = "try" => spi_config[g].speed = spi_has.speed
       /\ spi_pc[g] = "idle" => spi_config[g].bits = SpiAbilities
       /\ spi_pc[g] # "dead"

\* What the two modules of the SCMI daemon promise.
ScmiBothInv == ScmiInv /\ IioInv

=============================================================================
