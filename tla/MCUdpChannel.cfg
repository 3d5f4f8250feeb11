SPECIFICATION Spec
CONSTANTS
  ip1 = ip1
  ip2 = ip2
  Sources <- MCSources
  NoIp = noip
  NoData = nodata
  NoCounter = nocounter
  Mod = 7
  MaxStack = 2
  Window = 2
  MaxSent <- MCMaxSent
  MaxLost = 1
  MaxDuplicated = 1
INVARIANTS TypeOK StackBounded NextEventIsRead InOrder
PROPERTY LoopEnds
CHECK_DEADLOCK FALSE
