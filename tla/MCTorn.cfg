CONSTANTS
  SECTOR_SIZE = 2
  DataStart = 8
  AllocationUnit = 2
  None = None
  Names <- MCNames
  Benches <- MCBenches
  Paths <- MCPaths
  Selectors <- MCSelectors
  MaxSwaps = 1
SPECIFICATION Spec
INVARIANT TornMembersRefused
CHECK_DEADLOCK FALSE
