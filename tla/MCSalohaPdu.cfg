SPECIFICATION Spec
CONSTANTS
  t1 = t1
  t2 = t2
  Terminals = {t1, t2}
  PduSize = 2
  MaxFifo = 2
  SlotsNumber = 2
  PastSlots = 1
  Replicas = 1
  MaxPackets = 2
  Timeout = 2
  MaxRetries = 1
  SfPerSaf = 2
  FrameSize = 2
  CwMax = 2
  Multiple = 2
  MaxNoise = 0
  Bursts = 1
  MaxBursts <- MCBursts
  MaxLost = 0
INVARIANT CompleteIsPropagated
