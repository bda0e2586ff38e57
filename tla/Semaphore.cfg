SPECIFICATION FairSpec
CONSTANTS
  Futures = {f1, f2}
  Wakers = {w1, w2}
  NoWaker = NoWaker
  Threads = {t1, t2}
  Sizes = {1, 2}
  InitPermits = 1
  Modulus = 3
  MaxSupply = 3
  MaxZero = 1
INVARIANTS
  TypeOK QueuedIffWaiting PermitsConserved NoMissedWakeup
PROPERTIES
  FrontProgress
