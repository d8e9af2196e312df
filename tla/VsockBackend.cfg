CONSTANTS
  Streams = {s1, s2}
  PortRange = 1
  HostPorts = {0}
  Served = {0}
  Listening = {80}
  Ephemeral = {7}
  HostCloses = {"silent", "told"}
  GuestCloses = TRUE
  TxCap = 1
  RxCap = 1
  EventIdx = TRUE
  MaxRxq = 1
SPECIFICATION Spec
SYMMETRY StreamSymmetry
INVARIANTS BooksKept NoPanic PortsGivenBack 
CHECK_DEADLOCK FALSE
