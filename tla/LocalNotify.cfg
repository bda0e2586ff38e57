SPECIFICATION TameFairSpec
CONSTANTS
  Futures = {f1, f2, f3}
  Wakers = {w1, w2}
  NoWaker = NoWaker
  Null = Null
  MaxWalks = 1
INVARIANTS
  TypeOK ListIsPending StoredOnlyWhenIdle NoLostWakeup IterAlive EveryoneReached
PROPERTIES
  EveryoneComesUp
