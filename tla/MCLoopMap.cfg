CONSTANTS
  SECTOR_SIZE = 2
  DataStart = 8
  AllocationUnit = 2
  None = None
  Names <- MCNames
  Benches <- MCBenches
  MaxSwaps = 1
SPECIFICATION LoopSpec
INVARIANTS LoopAgreesWithArray
CHECK_DEADLOCK FALSE
