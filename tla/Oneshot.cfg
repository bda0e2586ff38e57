SPECIFICATION FairSpec
CONSTANTS
  Wakers = {w1, w2}
  NoWaker = NoWaker
  TxTask = TxTask
CHECK_DEADLOCK FALSE
INVARIANTS
  TypeOK ValueUsedOnce ClosedAfterValue NoOtherLostWakeup
PROPERTIES
  RxClosedIsFinal ClosedIsFinal SendCompletesReceiver
