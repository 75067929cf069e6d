CONSTANTS
  SECTOR_SIZE = 2
  None = None
  Arrays <- MCPartialRow
  MaxChanges = 0
SPECIFICATION Spec
INVARIANT TableWithinMembers
CHECK_DEADLOCK FALSE
