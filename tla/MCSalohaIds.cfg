SPECIFICATION Spec
CONSTANTS
  t1 = t1
  t2 = t2
  Terminals = {t1}
  PduSize = 3
  MaxFifo = 1
  SlotsNumber = 2
  PastSlots = 1
  Replicas = 1
  MaxPackets = 1
  Timeout = 2
  MaxRetries = 1
  SfPerSaf = 2
  FrameSize = 2
  CwMax = 2
  Multiple = 2
  MaxNoise = 0
  Bursts = 2
  MaxBursts <- MCBursts
  MaxLost = 0
INVARIANT IdsAreUnique
