CONSTANTS
  Streams = {s1, s2}
  PortRange = 2
  HostPorts = {1}
  Served = {1}
  Listening = {80}
  Ephemeral = {7, 8}
  HostCloses = {"told"}
  GuestCloses = TRUE
  TxCap = 1
  RxCap = 1
  EventIdx = TRUE
  MaxRxq = 1
SPECIFICATION Spec
INVARIANT PortsAllocated
CHECK_DEADLOCK FALSE
