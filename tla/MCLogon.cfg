SPECIFICATION Spec
CONSTANTS
  t1 = t1
  Nobody = nobody
  Terminals = {t1}
  SfnMod = 5
  MaxShared = 2
  MaxReboots = 1
  MaxTalReboots = 1
  MaxLost = 1
  MaxDelay = 1
  MaxInFlight = 2
INVARIANTS TypeOK RunningIsRegistered DamaIsKnownToFmt SofFindsFmt AlarmsAreAccounted
PROPERTIES LogonEnds RebootIsRepaired
