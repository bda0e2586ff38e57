SPECIFICATION FairSpec
CONSTANTS
  Wakers = {w1, w2}
  NoWaker = NoWaker
CHECK_DEADLOCK FALSE
INVARIANTS
  TypeOK WakersHeld ValueUsedOnce NoLostWakeup
PROPERTIES
  WokenWakerStays Implements
