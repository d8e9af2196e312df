CONSTANTS
  Streams = {s1, s2}
  PortRange = 2
  HostPorts = {1}
  Served = {1}
  Listening = {80}
  Ephemeral = {7}
  HostCloses = {"silent"}
  GuestCloses = FALSE
  TxCap = 1
  RxCap = 1
  EventIdx = TRUE
  MaxRxq = 1
SPECIFICATION FairSpec
PROPERTIES AskAnswered WriteRead
CHECK_DEADLOCK FALSE
