SPECIFICATION LinkedFairSpec
CONSTANTS
  Futures = {f1, f2, f3}
  Wakers = {w1, w2}
  NoWaker = NoWaker
  Null = Null
  Threads = {t1, t2}
  MaxOnes = 3
INVARIANTS
  TypeOK QueuedIffPending StoredOnlyWhenIdle NotifiedPrefix NoLostWakeup
  ListIsWaiters EmptyUnlessLeaked
PROPERTIES
  NotifyAllReachesWaiters Implements
CHECK_DEADLOCK FALSE
