CONSTANTS
  None = None
  Devices <- MCDevices
  Cells = {1, 2, 3}
  Worlds <- MCOneWorld
  Inputs = {m1}
  MaxChanges = 1
SPECIFICATION Spec
INVARIANT MountedRejected
CHECK_DEADLOCK FALSE
