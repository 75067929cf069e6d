CONSTANTS
  SECTOR_SIZE = 2
  None = None
  Arrays <- MCArrays
  Lengths <- MCLengths
  DeviceSize = 11
  MaxRuns = 2
  MaxSwaps = 1
SPECIFICATION Spec
INVARIANTS OutputIsPrefix DoneIsComplete LeftoverExplained WholeChunksNeverShort Inv
PROPERTIES ExistingOutputKept BlockWritesApproved RecoverySpec CallAdvances Terminates
CHECK_DEADLOCK FALSE
