SPECIFICATION LinkedSpec
CONSTANTS
  Futures = {f1, f2, f3}
  Wakers = {w1, w2}
  NoWaker = NoWaker
  Null = Null
  Threads = {t1, t2}
  MaxOnes = 3
PROPERTIES NotifyAllAloneDoesNothing
CHECK_DEADLOCK FALSE
