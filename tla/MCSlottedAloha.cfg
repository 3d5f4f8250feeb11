SPECIFICATION Spec
CONSTANTS
  t1 = t1
  t2 = t2
  Terminals = {t1}
  PduSize = 1
  MaxFifo = 2
  SlotsNumber = 2
  PastSlots = 1
  Replicas = 1
  MaxPackets = 2
  Timeout = 2
  MaxRetries = 1
  SfPerSaf = 2
  FrameSize = 1
  CwMax = 2
  Multiple = 2
  MaxNoise = 1
  Bursts = 2
  MaxBursts <- MCBursts
  MaxLost = 1
INVARIANTS TypeOK HeldOnce AckedWasAccepted
PROPERTY EveryPacketLeaves
