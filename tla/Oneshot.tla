------------------------------ MODULE Oneshot -------------------------------
(***************************************************************************)
(* The thread-safe channel of src/src/channel/oneshot.rs: one Sender and   *)
(* one Receiver that live on different threads and share the atomic state, *)
(* the value cell and two waker slots, each with a mutex of its own.       *)
(*                                                                         *)
(* Every access to shared memory is an action: `tx' and `rx' say where in  *)
(* its call each half is.  The three bits of the state are a set.  The     *)
(* cell is not atomic; it only remembers whether a value is in it.         *)
(***************************************************************************)
EXTENDS Naturals

CONSTANTS
  Wakers,     \* the wakers tasks poll the Receiver with
  NoWaker,    \* Option::None in rx_waker and tx_waker
  TxTask      \* the waker of the task that polls Closed

ASSUME OneshotAssumption == NoWaker \notin Wakers /\ TxTask # NoWaker

VARIABLES
  state,      \* Inner::state, the set of bits that are on
  cell,       \* Inner::value
  rxWaker,    \* Inner::rx_waker
  txWaker,    \* Inner::tx_waker
  tx,         \* where the thread of the Sender is
  sent,       \* what send returned
  closed,     \* what the last poll of a Closed returned
  rx,         \* where the thread of the Receiver is
  seen,       \* the state that poll_recv or try_recv loaded
  cx,         \* external: waker of the task that now awaits the Receiver
  parked,     \* the last poll of the Receiver returned Pending
  woken,      \* external: its task was woken since that poll began
  res,        \* what the last poll or try_recv returned
  received,   \* history: what came out of the cell
  uses,       \* history: how often a value was moved out of the cell or dropped in it
  missed      \* history: a wake_rx came between the load and the registration of
              \* a waker that was not registered before

sharedVars == <<state, cell, rxWaker, txWaker>>
txVars == <<tx, sent, closed>>
rxVars == <<rx, seen, cx, parked, res, received>>
vars == <<sharedVars, txVars, rxVars, woken, uses, missed>>

Bits == {"HAS_VALUE", "TX_CLOSED", "RX_CLOSED"}

Init ==
  /\ state = {} /\ cell = "Uninit" /\ rxWaker = NoWaker /\ txWaker = NoWaker
  /\ tx = "open" /\ sent = "no" /\ closed = "no"
  /\ rx = "idle" /\ seen = {} /\ cx = NoWaker /\ parked = FALSE
  /\ res = "None" /\ received = "no"
  /\ woken = FALSE /\ uses = 0 /\ missed = FALSE

\* wake_rx and wake_tx: a waker of a task that no longer awaits is no use.
WakeRx ==
  /\ woken' = (woken \/ (rxWaker # NoWaker /\ rxWaker = cx))
  /\ missed' = (missed \/ (rx = "register" /\ rxWaker # cx))

WakeTx == closed' = IF txWaker # NoWaker /\ closed = "pending" THEN "woken" ELSE closed

\* Fault: Inner has no Drop of its own.
DropInnerNever(other) == UNCHANGED <<cell, uses>>

\* Drop for the Arc: the last half to go drops a value that nobody took.
DropInner(other) ==
  IF other = "gone" /\ "HAS_VALUE" \in state
  THEN cell' = "Dropped" /\ uses' = uses + 1
  ELSE UNCHANGED <<cell, uses>>

TxStep(from, to) == tx = from /\ tx' = to
RxStep(from, to) == rx = from /\ rx' = to

-----------------------------------------------------------------------------
(* Sender                                                                  *)

\* send, when the compare_exchange finds an open, empty channel.
SendClaim ==
  /\ TxStep("open", "write")
  /\ state = {}
  /\ state' = {"HAS_VALUE"}
  /\ UNCHANGED <<cell, rxWaker, txWaker, sent, closed, rxVars, woken, uses, missed>>

\* send otherwise: the value goes back to the caller; self is dropped.
SendErr ==
  /\ TxStep("open", "close")
  /\ state # {}
  /\ sent' = "err"
  /\ UNCHANGED <<sharedVars, closed, rxVars, woken, uses, missed>>

SendWrite ==
  /\ TxStep("write", "wake")
  /\ cell' = "Full"
  /\ UNCHANGED <<state, rxWaker, txWaker, sent, closed, rxVars, woken, uses, missed>>

\* Fault: send leaves the wake to the drop of the Sender.
SendNoWake ==
  /\ TxStep("wake", "close")
  /\ sent' = "ok"
  /\ UNCHANGED <<sharedVars, closed, rxVars, woken, uses, missed>>

\* The Receiver is woken, send returns and drops self.
SendWake ==
  /\ TxStep("wake", "close")
  /\ WakeRx
  /\ sent' = "ok"
  /\ UNCHANGED <<sharedVars, closed, rxVars, uses>>

\* A Sender that is dropped without a send.
DropSender ==
  /\ TxStep("open", "close")
  /\ UNCHANGED <<sharedVars, sent, closed, rxVars, woken, uses, missed>>

\* close_tx, the bit.
TxClose ==
  /\ TxStep("close", "closeWake")
  /\ state' = state \union {"TX_CLOSED"}
  /\ UNCHANGED <<cell, rxWaker, txWaker, sent, closed, rxVars, woken, uses, missed>>

\* close_tx, the wake.
TxCloseWake ==
  /\ TxStep("closeWake", "release")
  /\ WakeRx
  /\ UNCHANGED <<sharedVars, sent, closed, rxVars, uses>>

TxRelease ==
  /\ TxStep("release", "gone")
  /\ DropInner(rx)
  /\ UNCHANGED <<state, rxWaker, txWaker, sent, closed, rxVars, woken, missed>>

\* Closed::poll, on a Sender that lives: it looks at the bit of the Sender.
PollClosed ==
  /\ tx = "open"
  /\ closed' = IF "TX_CLOSED" \notin state THEN "ready" ELSE "pending"
  /\ txWaker' = IF "TX_CLOSED" \notin state THEN txWaker ELSE TxTask
  /\ UNCHANGED <<state, cell, rxWaker, tx, sent, rxVars, woken, uses, missed>>

-----------------------------------------------------------------------------
(* Receiver                                                                *)

\* Fault: the bit of the Sender is looked at before the value bit.
LoadClosedFirst ==
  /\ seen' = state
  /\ \/ "TX_CLOSED" \in state /\ rx' = rx /\ res' = "Closed"
     \/ "TX_CLOSED" \notin state /\ "HAS_VALUE" \in state /\ rx' = "store" /\ UNCHANGED res

\* The load that poll_recv and try_recv begin with, and what they do when there
\* is a value to take or the Sender is gone.
Load ==
  /\ seen' = state
  /\ \/ "HAS_VALUE" \in state /\ rx' = "store" /\ UNCHANGED res
     \/ "HAS_VALUE" \notin state /\ "TX_CLOSED" \in state /\ rx' = rx /\ res' = "Closed"

Nothing == state \intersect {"HAS_VALUE", "TX_CLOSED"} = {}

\* poll_recv: Ready, with a value (that is still to be taken) or an error.
PollReady ==
  /\ rx = "idle"
  /\ Load
  /\ cx' = NoWaker
  /\ parked' = FALSE
  /\ woken' = FALSE
  /\ missed' = FALSE
  /\ UNCHANGED <<sharedVars, txVars, received, uses>>

\* poll_recv by a task with waker w: nothing to take, it goes on to register.
PollEmpty(w) ==
  /\ RxStep("idle", "register")
  /\ Nothing
  /\ seen' = state
  /\ cx' = w
  /\ parked' = FALSE
  /\ woken' = FALSE
  /\ missed' = FALSE
  /\ UNCHANGED <<sharedVars, txVars, res, received, uses>>

\* Fault: a waker that is there already is kept.
RegisterOnce ==
  /\ RxStep("register", "idle")
  /\ rxWaker' = IF rxWaker = NoWaker THEN cx ELSE rxWaker
  /\ parked' = TRUE
  /\ UNCHANGED <<state, cell, txWaker, txVars, seen, cx, res, received, woken, uses, missed>>

\* poll_recv: the waker is stored, the poll returns Pending without a second look
\* at the state.
Register ==
  /\ RxStep("register", "idle")
  /\ rxWaker' = cx
  /\ parked' = TRUE
  /\ UNCHANGED <<state, cell, txWaker, txVars, seen, cx, res, received, woken, uses, missed>>

TryRecvReady ==
  /\ rx = "idle"
  /\ Load
  /\ UNCHANGED <<sharedVars, txVars, cx, parked, woken, received, uses, missed>>

TryRecvEmpty ==
  /\ rx = "idle"
  /\ Nothing
  /\ seen' = state
  /\ res' = "Empty"
  /\ UNCHANGED <<sharedVars, txVars, rx, cx, parked, woken, received, uses, missed>>

\* Fault: the whole state is reset.
StoreZero ==
  /\ RxStep("store", "read")
  /\ state' = {}
  /\ UNCHANGED <<cell, rxWaker, txWaker, txVars, seen, cx, parked, res, received, woken, uses, missed>>

\* Fault: the value bit stays on.
StoreKeeps ==
  /\ RxStep("store", "read")
  /\ state' = seen
  /\ UNCHANGED <<cell, rxWaker, txWaker, txVars, seen, cx, parked, res, received, woken, uses, missed>>

\* The state that was loaded is stored without its value bit: a bit that the
\* Sender has set since is lost.
Store ==
  /\ RxStep("store", "read")
  /\ state' = seen \ {"HAS_VALUE"}
  /\ UNCHANGED <<cell, rxWaker, txWaker, txVars, seen, cx, parked, res, received, woken, uses, missed>>

\* read_value: whatever is in the cell comes out.  A read that races with the
\* write of send has no defined result: it counts as garbage, like a read before.
ReadValue ==
  /\ RxStep("read", "idle")
  /\ res' = "Value"
  /\ received' = IF cell = "Full" THEN "value" ELSE "garbage"
  /\ cell' = IF cell = "Full" THEN "Moved" ELSE cell
  /\ uses' = IF cell = "Uninit" THEN uses ELSE uses + 1
  /\ UNCHANGED <<state, rxWaker, txWaker, txVars, seen, cx, parked, woken, missed>>

\* Fault: the bit is stored over the others.
RxCloseStores(then) ==
  /\ RxStep("idle", then)
  /\ state' = {"RX_CLOSED"}
  /\ UNCHANGED <<cell, rxWaker, txWaker, txVars, seen, cx, parked, res, received, woken, uses, missed>>

\* close_rx, the bit: by close, after which the Receiver lives on, or by drop.
RxClose(then) ==
  /\ RxStep("idle", then)
  /\ state' = state \union {"RX_CLOSED"}
  /\ UNCHANGED <<cell, rxWaker, txWaker, txVars, seen, cx, parked, res, received, woken, uses, missed>>

\* close_rx, the wake.
RxCloseWake(from, to) ==
  /\ RxStep(from, to)
  /\ WakeTx
  /\ UNCHANGED <<sharedVars, tx, sent, seen, cx, parked, res, received, woken, uses, missed>>

RxRelease ==
  /\ RxStep("release", "gone")
  /\ DropInner(tx)
  /\ parked' = FALSE
  /\ UNCHANGED <<state, rxWaker, txWaker, txVars, seen, cx, res, received, woken, missed>>

-----------------------------------------------------------------------------
SenderStep == SendWrite \/ SendWake \/ TxClose \/ TxCloseWake \/ TxRelease

PollRecv == PollReady \/ \E w \in Wakers : PollEmpty(w)

ReceiverStep ==
  \/ Register \/ Store \/ ReadValue
  \/ RxCloseWake("closeWake", "idle") \/ RxCloseWake("dropWake", "release")
  \/ RxRelease

Next ==
  \/ SendClaim \/ SendErr \/ DropSender \/ PollClosed \/ SenderStep
  \/ PollRecv \/ TryRecvReady \/ TryRecvEmpty
  \/ RxClose("closeWake") \/ RxClose("dropWake") \/ ReceiverStep

Spec == Init /\ [][Next]_vars

\* A call that has begun goes on.  A woken task polls: strong fairness, because
\* the Receiver is not idle while its task is in another call, but comes back.
Fairness ==
  /\ WF_vars(SenderStep)
  /\ WF_vars(ReceiverStep)
  /\ SF_vars(parked /\ woken /\ PollRecv)

FairSpec == Spec /\ Fairness

-----------------------------------------------------------------------------
(* Properties                                                              *)

TypeOK ==
  /\ state \subseteq Bits
  /\ cell \in {"Uninit", "Full", "Moved", "Dropped"}
  /\ rxWaker \in Wakers \union {NoWaker}
  /\ txWaker \in {NoWaker, TxTask}
  /\ tx \in {"open", "write", "wake", "close", "closeWake", "release", "gone"}
  /\ sent \in {"no", "ok", "err"}
  /\ closed \in {"no", "pending", "woken", "ready"}
  /\ rx \in {"idle", "register", "store", "read", "closeWake", "dropWake", "release", "gone"}
  /\ seen \subseteq Bits
  /\ cx \in Wakers \union {NoWaker}
  /\ parked \in BOOLEAN /\ woken \in BOOLEAN /\ missed \in BOOLEAN
  /\ res \in {"None", "Value", "Closed", "Empty"}
  /\ received \in {"no", "value", "garbage"}
  /\ uses \in {0, 1}

\* A value that was written is moved out or dropped at most once, in whatever
\* order the halves go; and once both are gone, exactly once (unless the Receiver
\* read the cell before the value was in it).
ValueUsedOnce ==
  /\ uses <= 1
  /\ tx = "gone" /\ rx = "gone" /\ sent = "ok" /\ received # "garbage" => uses = 1

\* The Receiver is told Closed only after it took what was sent -- unless what it
\* took was read before the value was in the cell (run oneshot_read): then the value
\* that is written later has no bit that leads to it, and is lost.
ClosedAfterValue ==
  res = "Closed" /\ sent = "ok" /\ received # "garbage" => received = "value"

\* Once the Receiver has been told Closed it is never told anything else: nothing
\* comes after that, and the bit of the Sender is never lost again, whatever the
\* Receiver stores or closes later (oneshot.rs:207-209).
ClosedIsFinal == [][res = "Closed" => res' = "Closed"]_vars

\* Once a channel is closed by its Receiver it stays closed, although the
\* Receiver overwrites the state when it takes a value.
RxClosedIsFinal == [][state \intersect {"RX_CLOSED"} \subseteq state']_vars

\* A task that awaits the Receiver has been woken, or will be by the wake_rx that
\* is due, when a value has arrived or the Sender is gone -- unless a wake came
\* in the window between the load and the registration.
NoOtherLostWakeup ==
  parked /\ ~Nothing /\ ~missed => woken \/ tx \in {"write", "wake", "closeWake"}

\* A task that awaits the Receiver when send claims the channel ends its wait
\* with what is in the cell.
SendCompletesReceiver ==
  parked /\ tx = "write" ~> received # "no" \/ rx = "gone"

\* oneshot.rs:404-405 says of read_value: it is only called when the value has
\* been written.  (send sets the bit before it writes the value.)
ValueIsWrittenWhenRead == received # "garbage"

\* oneshot.rs:257 says of rx_waker: it is used to notify a sent message.  So a
\* task that awaits the Receiver when the value has been sent and the Sender is
\* gone has been notified.
SentMessageNotifies == parked /\ tx = "gone" /\ "HAS_VALUE" \in state => woken

\* oneshot.rs:207-209 says of try_recv: without a value, and with the Sender
\* dropped, it returns Closed.
ClosedWhenSenderGone ==
  tx = "gone" /\ rx = "idle" /\ "HAS_VALUE" \notin state => "TX_CLOSED" \in state
=============================================================================
