CONSTANTS
  None = None
  Devices <- MCDevices
  Cells = {1, 2, 3}
  Worlds <- MCWorlds
  Inputs = {m1, m2}
  MaxChanges = 1
SPECIFICATION Spec
INVARIANTS InputsSpared MountedSpared DevicesNeedAck
CHECK_DEADLOCK FALSE
