\* GPIO: one line, as lines share only the worker; enabling the interrupt does
\* not fail, see ValidMeansEnabled in the README.  The tx buffer's size divides
\* the range of its counters, as the default 64 KiB divides 2^32.
CONSTANTS
  Lines = {l1}
  Failing = {"GET_VALUE", "SET_VALUE", "DIR_IN", "DIR_OUT", "WAIT", "READ"}
  MaxEvents = 2
  RtcNames = {utc, tai, none}
  RtcClocks = {utc, tai}
  RtcUtc = utc
  RtcBuffers = 2
  RtcThreads = 2
  RtcHorizon = 1
  TxBufRange = 8
  TxBufSize = 4
  TxBufBytes = {0, 1}
  RngSizes = {1, 3}
  RngPeriod = 2
  RngMaxBytes = 2
  RngQueueSize = 2
  RngHorizon = 4
  InputEvents = 6
  InputSyn = {2, 3, 6}
  InputQueueSize = 3
  ConBuffers = 2
  ConScopes <- ConsoleScopes
  GpuModes = {"virgl", "gfxstream", "null"}
  GpuResources = {1, 2}
  GpuScanouts = {0, 1}
  GpuContexts = {1}
  GpuFenceModes = {"virgl", "gfxstream", "null"}
  GpuFences = 3
  I2cGuests = {1, 2}
  I2cLists <- DeviceLists
  I2cKinds <- AdapterKinds
  I2cBusy = {33}
  I2cQueues <- Batches
  DaemonPrograms = {"rng", "i2c", "gpio", "spi", "input", "console", "can", "scmi",
                    "gpu", "vsock", "scsi", "rtc", "sound", "video", "media", "template"}
  DaemonInterfaces = {"can0"}
  DaemonArguments <- CommandLines
  DaemonFaults = 2
  FooQueueSize = 2
  FooRequests = 4
SPECIFICATION MCFairSpec
INVARIANTS GpioInv RtcInv RngInv InputInv ConInv GpuBothInv I2cInv DaemonInv FooInv
PROPERTIES ValidMeansEnabled LinesServed RtcExpirationTold DaemonErrorHeard
           TxBufImplementsQueue
CHECK_DEADLOCK FALSE
