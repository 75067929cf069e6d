CONSTANTS
  SECTOR_SIZE = 2
  None = None
  Arrays <- MCArrays
  MaxChanges = 2
SPECIFICATION Spec
INVARIANTS MappingReadsVolume WritesReachEveryCopy WholeRowsFit
CHECK_DEADLOCK FALSE
