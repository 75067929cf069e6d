CONSTANTS
  None = None
  Images <- MCImages
  SectorBytes = 2
  Offsets <- MCOffsets
  Lengths <- MCLengths
SPECIFICATION Spec
INVARIANTS RunsAreReal RunsAreMaximal NothingMissed
CHECK_DEADLOCK FALSE
