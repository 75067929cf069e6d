CONSTANTS
  SECTOR_SIZE = 2
  None = None
  Arrays <- MCSwapArrays
  Lengths <- MCSwapLengths
  DeviceSize = 11
  MaxRuns = 1
  MaxSwaps = 1
SPECIFICATION Spec
INVARIANT OutputIsVolume
CHECK_DEADLOCK FALSE
