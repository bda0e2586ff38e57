SPECIFICATION Spec
CONSTANTS
  Futures = {f1, f2, f3}
  Wakers = {w1}
  NoWaker = NoWaker
  Null = Null
  MaxWalks = 2
INVARIANTS EveryoneReached
