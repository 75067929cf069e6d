CONSTANTS
  SECTOR_SIZE = 2
  None = None
  Arrays <- MCArrays
  Lengths <- MCLengths
  DeviceSize = 11
  MaxRuns = 1
  MaxSwaps = 0
SPECIFICATION Spec
INVARIANT MaximumIsReadable
CHECK_DEADLOCK FALSE
