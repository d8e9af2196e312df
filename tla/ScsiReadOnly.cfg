CONSTANTS
  ScsiImages <- OneImage
  ScsiRequests <- OneWrite
  ScsiValues = {0, 1}
  ScsiBlock = 4
  ScsiTop = 16
SPECIFICATION ScsiSpec
PROPERTY ScsiReadOnlyKept
CHECK_DEADLOCK FALSE
