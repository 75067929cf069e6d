CONSTANTS
  SECTOR_SIZE = 2
  DataStart = 8
  AllocationUnit = 2
  None = None
  Names <- MCNames
  Benches <- MCBenches
  MaxSwaps = 0
SPECIFICATION LoopSpec
INVARIANT LoopFollowsGpt
CHECK_DEADLOCK FALSE
