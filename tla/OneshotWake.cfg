SPECIFICATION Spec
CONSTANTS
  Wakers = {w1, w2}
  NoWaker = NoWaker
  TxTask = TxTask
CHECK_DEADLOCK FALSE
INVARIANTS SentMessageNotifies
