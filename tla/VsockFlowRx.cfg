SPECIFICATION Spec
CONSTANTS
  Wrap = 5
  TxBufSize = 4
  GuestBufSizes = {1, 2}
  GuestChunks = {}
  HostChunks = {1, 2}
  SockCap = 2
  TxCap = 1
  RxCap = 2
  RxBusy = {0, 1, 2}
  GuestInitiated = {TRUE, FALSE}
  MayShrink = FALSE
  GuestAsks = FALSE
  GuestCloses = TRUE
  HostCloses = {"early", "unread", "drained"}
  EventIdx = FALSE
  MaxKeys = 5
CHECK_DEADLOCK FALSE
INVARIANTS ReceiveKept NoResetOnceAnswered ReadNotForgotten
