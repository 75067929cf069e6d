CONSTANTS
  s1 = s1
  s2 = s2
  sda = sda
  sdb = sdb
  None = None
  Sids <- MCSids
  Devices <- MCDevices
  Polls = 2
  Luns = 1
  MaxChanges = 2
SPECIFICATION FairSpec
INVARIANTS OnlyOwnDevices DoneIsLimited FreshIsNegotiated
PROPERTIES ScriptAdvances Terminates
CHECK_DEADLOCK FALSE
