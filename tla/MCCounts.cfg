CONSTANTS
  SECTOR_SIZE = 2
  DataStart = 8
  AllocationUnit = 2
  None = None
  Names <- MCNames
  Benches <- MCBenches
  Paths <- MCPaths
  Selectors <- MCSelectors
  MaxSwaps = 0
SPECIFICATION Spec
INVARIANT UnknownCountsRejected
CHECK_DEADLOCK FALSE
