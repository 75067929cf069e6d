CONSTANTS
  None = None
  Old = Old
  Torn = Torn
  DeviceSectors = 4
  SectorBytes = 2
  ChunkSectors = 2
  MaxLba = 3
  ByteCounts = {0, 2, 5, 6, 10}
  Bases <- MCBases
  Starts <- MCStarts
  MaxCommands = 3
SPECIFICATION WriteSpec
INVARIANTS WriteInv PlacedRight DoneIsDurable WrittenVerifies
PROPERTY OutputSpec
CHECK_DEADLOCK FALSE
