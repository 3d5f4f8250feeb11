SPECIFICATION Spec
CONSTANTS
  Producers = {p1, p2}
  Consumer = c
  Nobody = nobody
  MaxSize = 3
  Numbers = 5
  MaxFailures = 1
INVARIANTS TypeOK ShouldNotHappen NoLostWakeup
PROPERTIES ImplementsBoundedFifo HeadIsTaken
