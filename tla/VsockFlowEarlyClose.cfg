SPECIFICATION Spec
CONSTANTS
  Wrap = 3
  TxBufSize = 1
  GuestBufSizes = {1}
  GuestChunks = {}
  HostChunks = {}
  SockCap = 1
  TxCap = 1
  RxCap = 1
  RxBusy = {0}
  GuestInitiated = {FALSE}
  MayShrink = FALSE
  GuestAsks = FALSE
  GuestCloses = FALSE
  HostCloses = {"early"}
  EventIdx = FALSE
  MaxKeys = 5
CHECK_DEADLOCK FALSE
INVARIANT NoPanic
