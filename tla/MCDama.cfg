SPECIFICATION Spec
CONSTANTS
  t1 = t1
  t2 = t2
  Tals <- MCTals
  Access <- MCAccess
  Slot <- MCSlot
  Cra <- MCCra
  MaxRbdc <- MCMaxRbdc
  MaxVbdc <- MCMaxVbdc
  PepRequests <- MCPepRequests
  Fca = 10
  Capacity = 2
  Word = 65536
  FrameMs = 50
  SlotBits = 1200
  Num = 3
  Den = 4
  Sync = 2
  Msl = 2
  Grain = 1
  PepTimeout = 4
  MacSize <- MCMacSize
  SfMod = 4
  MaxTimer = 2
  MaxNew = 1
  MaxCredit = 19
  MaxBehind = 0
  MaxSac = 0
  MaxLost = 1
  MaxPep = 1
INVARIANTS TypeOK CarrierIsNotOversold PlanCoversSlots OneLossKeepsThePlan
PROPERTIES RbdcIsGivenBack VbdcIsServed
