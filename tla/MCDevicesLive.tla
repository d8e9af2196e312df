---------------------------- MODULE MCDevicesLive -----------------------------
(***************************************************************************)
(* Instances of the smaller daemons for TLC, one of which runs: daemons    *)
(* are processes that share nothing, so one run explores them side by      *)
(* side.                                                                   *)
(***************************************************************************)
EXTENDS Gpio, Rtc, VsockTxBuf, Rng, Input, Console, GpuFence, I2c,
        Daemons, Template

VARIABLE device \* the daemon that runs

-----------------------------------------------------------------------------
\* Console: what is typed, output, and the control messages, one at a time.
ConsoleScopes ==
  {[bytes |-> 2, chunks |-> 1, control |-> FALSE], [bytes |-> 0, chunks |-> 2, control |-> FALSE],
   [bytes |-> 0, chunks |-> 0, control |-> TRUE]}

\* I2C: buffers <<header, data, status>>; w is device-writable.
Buffer(writable, len) == [w |-> writable, len |-> len]
Transfer(addr, rd, len) ==
  [addr |-> addr, rd |-> rd, descs |-> <<Buffer(FALSE, 8), Buffer(rd, len), Buffer(TRUE, 1)>>]
Probe(addr, rd) == [addr |-> addr, rd |-> rd, descs |-> <<Buffer(FALSE, 8), Buffer(TRUE, 1)>>]
Headless(addr)  == [addr |-> addr, rd |-> FALSE, descs |-> <<Buffer(FALSE, 8)>>]
Client(adapter, addr) == [adapter |-> adapter, addr |-> addr]
AdapterKinds == [a \in 1 .. 3 |-> <<"smbus", "i2c", "none">>[a]]
DeviceLists ==
  {<<Client(1, <<10, 11>>), Client(2, <<20>>)>>, <<Client(1, <<10>>), Client(1, <<20>>)>>,
   <<Client(1, <<10>>), Client(2, <<10>>)>>, <<Client(1, <<10, 10>>)>>, <<Client(1, <<33>>)>>}
    \cup {<<Client(1, <<a>>)>> : a \in {128, 129}} \cup {<<Client(n, <<10>>)>> : n \in {3, 4}}
Batches ==
  {<<Transfer(10, FALSE, 2)>>, <<Transfer(11, FALSE, 1), Transfer(11, TRUE, 1)>>,
   <<Transfer(10, FALSE, 1), Probe(10, TRUE)>>, <<Transfer(20, FALSE, 65536)>>,
   <<Transfer(20, FALSE, 5), Transfer(20, TRUE, 4)>>, <<Transfer(10, FALSE, 1), Transfer(11, TRUE, 2)>>,
   <<Transfer(20, FALSE, 1), Transfer(99, FALSE, 1)>>, <<Probe(99, FALSE)>>, <<Probe(10, FALSE)>>,
   <<Transfer(10, FALSE, 4)>>, [i \in 1 .. 3 |-> Transfer(10, FALSE, 1)],
   <<Transfer(20, FALSE, 1), Headless(20)>>}

\* Daemons: command lines: good ones, and for each refusal one that meets it.
Args(count, devices, mode, value, valid) ==
  [count |-> count, devices |-> devices, mode |-> mode, value |-> value, valid |-> valid]
CommandLines == [p \in DaemonPrograms |->
  CASE p = "rng" -> {Args(c, <<>>, "", 3, v) : c \in 0 .. 2, v \in BOOLEAN}
    [] p = "i2c" -> {Args(c, d, "", 0, v) : c \in {0, 2}, d \in {<<"a">>, <<"bad">>}, v \in BOOLEAN}
    [] p = "gpio" -> {Args(c, d, "", 0, TRUE) : c \in {0, 2},
         d \in {<<"0", "1">>, <<"0", "0">>, <<"sim", "sim">>, <<"bad", "0">>, <<"0">>}}
    [] p = "spi" -> {Args(2, <<>>, "", 0, TRUE)}
    [] p = "input" -> {Args(1, <<"e0", "e1">>, "", 0, TRUE)}
    [] p = "console" -> {Args(c, <<>>, m, 7, TRUE) : c \in 0 .. 2, m \in {"nested", "network"}}
    [] p = "can" -> {Args(c, d, "", 0, TRUE) : c \in {0, 2},
         d \in {<<"can0", "can0">>, <<"can0", "can9">>, <<"can0">>}}
    [] p = "scmi" -> {Args(1, d, "", 0, TRUE) : d \in {<<"iio">>, <<"bad">>}}
    [] p = "gpu" -> {Args(1, d, m, v, ok) : d \in {<<>>, <<"virgl">>, <<"gfxstream-gles">>},
         m \in {"virgl", "gfxstream", "null"}, v \in 0 .. 1, ok \in BOOLEAN}
    [] p = "vsock" -> {Args(1, d, m, 0, ok) : d \in {<<"uds", "forward">>, <<"both">>},
         m \in {"config", "vm", "param", "nothing"}, ok \in BOOLEAN}
    [] p = "scsi" -> {Args(1, <<>>, "", v, TRUE) : v \in {1, 257}}
    [] OTHER -> {Args(1, <<>>, "", 0, TRUE)}]

-----------------------------------------------------------------------------
\* One daemon runs, the others have not been started.
Devices == {"gpio", "rtc", "txbuf", "rng", "input", "console", "fence", "gpu", "i2c", "daemons",
            "template"}

Others ==
  /\ IF device = "gpio" THEN TRUE ELSE UNCHANGED vars
  /\ IF device = "rtc" THEN TRUE ELSE UNCHANGED RtcVars
  /\ IF device = "txbuf" THEN TRUE ELSE UNCHANGED TxBufVars
  /\ IF device = "rng" THEN TRUE ELSE UNCHANGED RngVars
  /\ IF device = "input" THEN TRUE ELSE UNCHANGED InputVars
  /\ IF device = "console" THEN TRUE ELSE UNCHANGED ConVars
  /\ IF device = "fence" THEN TRUE ELSE UNCHANGED GpuFenceVars
  /\ IF device = "gpu" THEN TRUE ELSE UNCHANGED GpuVars
  /\ IF device = "i2c" THEN TRUE ELSE UNCHANGED I2cVars
  /\ IF device = "daemons" THEN TRUE ELSE UNCHANGED DaemonVars
  /\ IF device = "template" THEN TRUE ELSE UNCHANGED FooVars

MCInit ==
  /\ device \in Devices
  /\ Init
  /\ RtcInit
  /\ TxBufInit /\ (device # "txbuf" => txbuf[0] = 0)
  /\ RngInit
  /\ InputInit
  /\ ConInit
  /\ GpuFenceInit
  /\ GpuInit
  /\ I2cInit
  /\ DaemonInit /\ (device # "daemons" => daemon_program = "rtc")
  /\ FooInit

MCNext ==
  /\ Others /\ UNCHANGED device
  /\ \/ device = "gpio" /\ Next
     \/ device = "rtc" /\ RtcNext
     \/ device = "txbuf" /\ TxBufNext
     \/ device = "rng" /\ RngNext
     \/ device = "input" /\ InputNext
     \/ device = "console" /\ ConNext
     \/ device = "fence" /\ GpuFenceNext
     \/ device = "gpu" /\ GpuNext
     \/ device = "i2c" /\ I2cNext
     \/ device = "daemons" /\ DaemonNext
     \/ device = "template" /\ FooNext

MCSpec == MCInit /\ [][MCNext]_<<device, vars, RtcVars, TxBufVars, RngVars,
          InputVars, ConVars, GpuFenceVars, GpuVars, I2cVars, DaemonVars,
          FooVars>>

\* The fairness of the daemons with liveness properties; the others have none.
MCFairSpec == MCSpec /\ Fairness /\ RtcFairness /\ DaemonFairness

=============================================================================
