SPECIFICATION Spec
CONSTANTS
  ip1 = ip1
  ip2 = ip2
  Sources <- MCSources
  NoIp = noip
  NoData = nodata
  NoCounter = nocounter
  Mod = 7
  MaxStack = 2
  Window = 2
  MaxSent <- MCMaxSent
  MaxLost = 0
  MaxDuplicated = 0
INVARIANT OnlyEarlyAreKept
CHECK_DEADLOCK FALSE
