SPECIFICATION FairSpec
CONSTANTS
  Wrap = 5
  TxBufSize = 4
  GuestBufSizes = {1}
  GuestChunks = {1, 3}
  HostChunks = {}
  SockCap = 1
  TxCap = 2
  RxCap = 1
  RxBusy = {0}
  GuestInitiated = {TRUE, FALSE}
  MayShrink = FALSE
  GuestAsks = FALSE
  GuestCloses = FALSE
  HostCloses = {}
  EventIdx = TRUE
  MaxKeys = 5
CHECK_DEADLOCK FALSE
PROPERTIES CreditReturns TxBufFlushed
