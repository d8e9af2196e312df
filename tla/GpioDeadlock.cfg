\* A worker and a waiter that wait for each other.
CONSTANTS
  Lines = {l1}
  Failing = {"GET_VALUE", "SET_VALUE", "DIR_IN", "DIR_OUT", "WAIT", "READ"}
  MaxEvents = 2
SPECIFICATION Spec
INVARIANT NoDeadlock
CHECK_DEADLOCK FALSE
