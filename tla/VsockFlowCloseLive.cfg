SPECIFICATION FairSpec
CONSTANTS
  Wrap = 3
  TxBufSize = 2
  GuestBufSizes = {1}
  GuestChunks = {}
  HostChunks = {1}
  SockCap = 1
  TxCap = 1
  RxCap = 1
  RxBusy = {0}
  GuestInitiated = {TRUE, FALSE}
  MayShrink = FALSE
  GuestAsks = FALSE
  GuestCloses = TRUE
  HostCloses = {"drained"}
  EventIdx = FALSE
  MaxKeys = 5
CHECK_DEADLOCK FALSE
PROPERTIES HostDataTaken CloseReachesGuest GuestCloseRemoves
