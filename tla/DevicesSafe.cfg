CONSTANTS
  VMs = {3, 4}
  Groups <- OneGroup
  Talks <- OneWay
  Numbers = 5
  TxCap = 2
  RxCap = 1
  MaxRaw = 1
  MaxStd = 1
  MayRestart = TRUE
  EarlySend = FALSE
  CanBusFrames <- BusFrames
  CanTxFrames <- TxFrames
  CanBuffers = 2
  CanBusLimit = 2
  CanRequests = 2
  SndBackends = {"null", "alsa", "pipewire", "gstreamer"}
  SndTransfers = 2
  SndControls = 3
  ScmiConfigs <- Sensors
  ScmiRequests <- ScmiInputs
  ScmiMaxReturn = 1
  ScmiBuffers = 1
  ScmiRooms = {0, 20}
  ScmiPending = 1
  IioFiles <- Files
  IioScales <- Scales
  IioParam = ""
  IioUnits <- Exponents
  IioOffsets = {0, 3, 7}
  IioRaw <- RawValues
  IioWidth = 4
  IioPower = 5
  IioLow <- Lowest
  IioHigh = 3
  ScsiImages <- Images
  ScsiRequests <- ScsiCommands
  ScsiValues = {0, 1}
  ScsiBlock = 4
  ScsiTop = 16
  ChainBuffer = 4
  ChainDescriptors = 3
  ChainRequestSize = 2
  ChainHeaderSize = 1
  ChainSenseSize = 1
  ChainData = 2
  VideoBackends = {"null", "v4l2"}
  VideoIds = {1, 2}
  VideoBatches <- VideoInputs
  VideoEventBuffers = 1
  SpiGuests = {1, 2}
  SpiHardware <- Controllers
  SpiOrigin = {"CPHA"}
  SpiOriginSpeed = 5
  SpiMessageLimit = 2
  SpiProbes <- Probes
  SpiQueues <- SpiBatches
  MediaBackends = {"null", "v4l2"}
  MediaSpace = 6
  MediaAlign = 2
  MediaIds = {1}
  MediaCommands <- MediaRequests
  MediaEvents = 1
  MediaFailures = 1
SPECIFICATION MCSpec
CONSTRAINT DevicesBound
INVARIANTS OrderKept NoLostWakeup CanInv SndInv ScmiBothInv ScsiBothInv VideoInv SpiInv MediaInv
CHECK_DEADLOCK FALSE
