CONSTANTS
  s1 = s1
  s2 = s2
  sda = sda
  sdb = sdb
  None = None
  Sids <- MCSids
  Devices <- MCDevices
  Polls = 2
  Luns = 1
  MaxChanges = 1
SPECIFICATION Spec
INVARIANT FreshKeepsLimits
CHECK_DEADLOCK FALSE
