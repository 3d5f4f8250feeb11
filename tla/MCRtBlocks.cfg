SPECIFICATION Spec
CONSTANTS
  upLow = upLow
  downLow = downLow
  upHigh = upHigh
  downHigh = downHigh
  Blocks = 2
  Channels <- MCChannels
  Threads <- MCThreads
  Links <- MCLinks
  Inputs <- MCInputs
  Env = env
  Stop = stop
  Priority <- MCPriority
  AtInit <- MCAtInit
  MaxSize = 1
  MaxPushes = 2
  MaxArrivals = 1
INVARIANTS TypeOK NoCyclicWait PoppedIsProcessed
PROPERTIES MessagesAreProcessed StopEnds
CHECK_DEADLOCK FALSE
