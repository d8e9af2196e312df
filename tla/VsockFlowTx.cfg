SPECIFICATION Spec
CONSTANTS
  Wrap = 5
  TxBufSize = 3
  GuestBufSizes = {4}
  GuestChunks = {1,2}
  HostChunks = {}
  SockCap = 2
  TxCap = 2
  RxCap = 1
  RxBusy = {0}
  GuestInitiated = {TRUE, FALSE}
  MayShrink = FALSE
  GuestAsks = TRUE
  GuestCloses = TRUE
  HostCloses = {"unread", "drained"}
  EventIdx = TRUE
  MaxKeys = 5
CHECK_DEADLOCK FALSE
INVARIANTS TxBufNeverFull CreditKept
PROPERTY TransmitKept
