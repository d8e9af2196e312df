------------------------------ MODULE DaemonArgs ------------------------------
(***************************************************************************)
(* What each daemon makes of its command line: the jobs it starts, one for *)
(* each socket, with the device each serves, or none when it refuses.      *)
(* The arguments are a record:                                             *)
(*   count    --socket-count                                               *)
(*   devices  the list of devices, events, images, capsets or VMs          *)
(*   mode     the backend, or where the vsock daemon's VMs come from       *)
(*   value    --max-bytes of rng, the GLES flag of gpu                     *)
(*   valid    the period, the parent directory, the file are good          *)
(* A file name is its number: socket_path with the index at its end.       *)
(***************************************************************************)
EXTENDS Integers, Sequences, FiniteSetsExt

CONSTANT DaemonInterfaces \* the CAN interfaces of the host

ASSUME DaemonInterfacesAssumption == DaemonInterfaces \subseteq STRING

DaemonRefused == << >>
DaemonJob(device, share) == [device |-> device, share |-> share]

\* generate_socket_paths() and spawning a thread for each.
DaemonEach(n, device) == [i \in 1 .. n |-> DaemonJob(device, 0)]
DaemonListed(devices) == [i \in DOMAIN devices |-> DaemonJob(devices[i], 0)]

\* The bandwidth is divided among the guests.
DaemonRngShare(a) == a.value \div a.count
DaemonRng(a) ==
  IF ~a.valid \/ a.count = 0 THEN DaemonRefused
  ELSE [i \in 1 .. a.count |-> DaemonJob("random", DaemonRngShare(a))]

\* The adapters are shared: every guest gets all of them.
DaemonI2c(a) ==
  IF a.count = 0 \/ ~a.valid \/ "bad" \in Range(a.devices) THEN DaemonRefused
  ELSE DaemonEach(a.count, "adapters")

\* A physical chip goes to one guest; simulated ones are made for each.
DaemonSimulated == {"sim"}
DaemonDuplicate(devices) ==
  \E i, j \in DOMAIN devices : i < j /\ devices[i] = devices[j] /\ devices[i] \notin DaemonSimulated
DaemonGpio(a) ==
  IF \/ a.count = 0
     \/ "bad" \in Range(a.devices) \/ DaemonDuplicate(a.devices)
     \/ Len(a.devices) # a.count
  THEN DaemonRefused
  ELSE DaemonListed(a.devices)

DaemonSpi(a) == IF a.count = 0 THEN DaemonRefused ELSE DaemonEach(a.count, "spidev")

DaemonInput(a) == DaemonListed(a.devices)

\* Only one guest can have the terminal; the others get a port each.
DaemonConsole(a) ==
  IF a.count = 0 \/ (a.mode = "nested" /\ a.count # 1) THEN DaemonRefused
  ELSE IF a.mode = "nested" THEN DaemonEach(1, "terminal")
  ELSE [i \in 1 .. a.count |-> DaemonJob(a.value + i - 1, 0)]

DaemonCan(a) ==
  IF \/ a.count = 0 \/ Len(a.devices) # a.count
     \/ ~(Range(a.devices) \subseteq DaemonInterfaces)
  THEN DaemonRefused
  ELSE DaemonListed(a.devices)

DaemonScmi(a) == IF "bad" \in Range(a.devices) THEN DaemonRefused ELSE DaemonEach(1, "sensors")

\* What a capset needs of the mode and of the flags.
DaemonCapsets(mode) ==
  CASE mode = "virgl" -> {"virgl", "virgl2"}
    [] mode = "gfxstream" -> {"gfxstream-vulkan", "gfxstream-gles"}
    [] mode = "null" -> {}
\* DEFAULT_GFXSTREAM_CAPSET_MASK has gles in it.
DaemonGpuAsks(a) == IF a.devices = << >> THEN DaemonCapsets(a.mode) ELSE Range(a.devices)
DaemonGpu(a) ==
  IF \/ ~(DaemonGpuAsks(a) \subseteq DaemonCapsets(a.mode))
     \/ "gfxstream-gles" \in DaemonGpuAsks(a) /\ a.value = 0
     \/ ~a.valid \* --gpu-device with another mode, or one that does not open
  THEN DaemonRefused
  ELSE DaemonEach(1, a.mode)

\* The library takes a device per VM, from a file, from --vm or from the
\* single-VM options, with a Unix socket or with AF_VSOCK on the host's side.
DaemonVsockBackend(vm) == CASE vm = "uds" -> "uds" [] vm = "forward" -> "proxy" [] OTHER -> "bad"
DaemonVsockFile(a) == IF a.valid THEN a.devices ELSE << >>
DaemonVsockParams(a) ==
  CASE a.mode = "config" -> DaemonVsockFile(a)
    [] a.mode = "vm" -> a.devices
    [] a.mode = "param" -> SubSeq(a.devices, 1, 1)
    [] a.mode = "nothing" -> << >>
DaemonVsock(a) ==
  LET vms == DaemonVsockParams(a)
  IN IF \E i \in DOMAIN vms : DaemonVsockBackend(vms[i]) = "bad" THEN DaemonRefused
     ELSE [i \in DOMAIN vms |-> DaemonJob(DaemonVsockBackend(vms[i]), 0)]

\* TooManyLUNs is 256 in the code, the images are in value here; the others
\* have one device, whatever their arguments are.
DaemonScsi(a) == IF a.value > 256 THEN DaemonRefused ELSE DaemonEach(1, "target")
DaemonRtc(a) == DaemonEach(1, "clocks")
DaemonSound(a) == DaemonEach(1, "audio")
DaemonVideo(a) == DaemonEach(1, "decoder")
DaemonMedia(a) == DaemonEach(1, "capture")
DaemonTemplate(a) == DaemonEach(1, "foo")

DaemonJobs(program, a) ==
  CASE program = "rng" -> DaemonRng(a)       [] program = "i2c" -> DaemonI2c(a)
    [] program = "gpio" -> DaemonGpio(a)     [] program = "spi" -> DaemonSpi(a)
    [] program = "input" -> DaemonInput(a)   [] program = "console" -> DaemonConsole(a)
    [] program = "can" -> DaemonCan(a)       [] program = "scmi" -> DaemonScmi(a)
    [] program = "gpu" -> DaemonGpu(a)       [] program = "vsock" -> DaemonVsock(a)
    [] program = "scsi" -> DaemonScsi(a)     [] program = "rtc" -> DaemonRtc(a)
    [] program = "sound" -> DaemonSound(a)   [] program = "video" -> DaemonVideo(a)
    [] program = "media" -> DaemonMedia(a)   [] program = "template" -> DaemonTemplate(a)
===============================================================================
