---------------------------- MODULE LocalOneshot ----------------------------
(***************************************************************************)
(* The channel of src/src/local/channel/oneshot.rs: both halves on one     *)
(* thread.  Nothing runs beside a call, but a wake may run any other code  *)
(* of the thread before it returns.  A wake is the last thing the code     *)
(* does before the call returns or the half gives up its Rc, so a call is  *)
(* an action up to its wake, and Return is what comes after; `calls' is    *)
(* the stack of the calls that are inside their wake.                      *)
(*                                                                         *)
(* Cloning or dropping a waker and dropping the value do not call back     *)
(* into the channel and do not panic.                                      *)
(***************************************************************************)
EXTENDS Naturals, SequencesExt

CONSTANTS
  Wakers,     \* the wakers tasks poll with
  NoWaker     \* a waker cell that is not initialized

ASSUME LocalOneshotAssumption == NoWaker \notin Wakers

VARIABLES
  state,      \* Inner::state, the set of bits that are on
  cell,       \* Inner::value
  rxWaker,    \* Inner::rx_waker
  txWaker,    \* Inner::tx_waker
  gone,       \* the halves that have released the Rc
  calls,      \* the calls inside their wake, innermost last
  sent,       \* what send returned
  rxCx,       \* external: waker of the task that awaits the Receiver
  txCx,       \* external: waker of the task that awaits a Closed
  woken,      \* external: the halves whose task was woken since its last poll
  uses,       \* history: how often a value was moved out of the cell or dropped in it
  live        \* history: wakers that were cloned into a cell and not dropped

vars == <<state, cell, rxWaker, txWaker, gone, calls, sent, rxCx, txCx, woken, uses, live>>

Bits == {"HAS_VALUE", "TX_CLOSED", "RX_CLOSED", "TX_WAKER_INIT", "RX_WAKER_INIT"}

Init ==
  /\ state = {} /\ cell = "Uninit" /\ rxWaker = NoWaker /\ txWaker = NoWaker
  /\ gone = {} /\ calls = << >> /\ sent = "none"
  /\ rxCx = NoWaker /\ txCx = NoWaker /\ woken = {}
  /\ uses = 0 /\ live = 0

\* Other code runs outside every call, or inside the wake of the innermost one.
Runs ==
  calls # << >> => (IF Last(calls) = "dropTx" THEN "RX_WAKER_INIT" ELSE "TX_WAKER_INIT") \in state

\* A half that is in a call of its own, which borrows it, can do nothing else.
TxFree == Runs /\ "tx" \notin gone /\ ~Contains(calls, "dropTx")

RxFree == Runs /\ "rx" \notin gone /\ ~Contains(calls, "dropRx") /\ ~Contains(calls, "close")

\* Fault: the Receiver is left asleep when the Sender goes with its value sent.
RxIsWokenIfEmpty ==
  "RX_WAKER_INIT" \in state /\ rxWaker = rxCx /\ "HAS_VALUE" \notin state'

\* The wake of close_tx reaches the task that awaits the Receiver.
RxIsWoken == "RX_WAKER_INIT" \in state /\ rxWaker = rxCx

\* The wake of close_rx reaches the task that awaits a Closed.
TxIsWoken == "TX_WAKER_INIT" \in state /\ txWaker = txCx

-----------------------------------------------------------------------------
(* Sender                                                                  *)

\* close_tx, up to the return of its wake; the value bit has been set before.
CloseTx(value) ==
  /\ TxFree
  /\ state' = state \union value \union {"TX_CLOSED"}
  /\ calls' = Append(calls, "dropTx")
  /\ woken' = (IF RxIsWoken THEN woken \union {"rx"} ELSE woken) \ {"tx"}
  /\ txCx' = NoWaker
  /\ UNCHANGED <<rxWaker, txWaker, gone, rxCx, uses, live>>

\* send on an open channel, and the drop of self with which it ends.
Send ==
  /\ "RX_CLOSED" \notin state
  /\ CloseTx({"HAS_VALUE"})
  /\ cell' = "Full"
  /\ sent' = "ok"

\* send on a closed channel returns the value.
SendErr ==
  /\ "RX_CLOSED" \in state
  /\ CloseTx({})
  /\ sent' = "err"
  /\ UNCHANGED cell

DropSender == CloseTx({}) /\ UNCHANGED <<cell, sent>>

\* Closed::poll, when the Receiver is closed.
ClosedReady ==
  /\ TxFree
  /\ "RX_CLOSED" \in state
  /\ txCx' = NoWaker
  /\ woken' = woken \ {"tx"}
  /\ UNCHANGED <<state, cell, rxWaker, txWaker, gone, calls, sent, rxCx, uses, live>>

\* Fault: the bit of the Sender is looked at.
SenderIsOpen == "TX_CLOSED" \notin state

ReceiverIsOpen == "RX_CLOSED" \notin state

\* Closed::poll, when it is not: the waker replaces the one in the cell, which is
\* dropped, or initializes it.
ClosedPending(w) ==
  /\ TxFree
  /\ ReceiverIsOpen
  /\ state' = state \union {"TX_WAKER_INIT"}
  /\ txWaker' = w
  /\ live' = IF "TX_WAKER_INIT" \in state THEN live ELSE live + 1
  /\ txCx' = w
  /\ woken' = woken \ {"tx"}
  /\ UNCHANGED <<cell, rxWaker, gone, calls, sent, rxCx, uses>>

-----------------------------------------------------------------------------
(* Receiver                                                                *)

\* What every poll of the Receiver that returns Ready leaves alone.
PollReady ==
  /\ RxFree
  /\ rxCx' = NoWaker
  /\ woken' = woken \ {"rx"}
  /\ UNCHANGED <<rxWaker, txWaker, gone, calls, sent, txCx, live>>

\* Fault: the value bit stays on.
TakeKeeps == cell' = "Moved" /\ uses' = uses + 1 /\ UNCHANGED state

\* The value is moved out of the cell.
Take ==
  /\ cell' = "Moved" /\ uses' = uses + 1
  /\ state' = state \ {"HAS_VALUE"}

PollValue == "HAS_VALUE" \in state /\ Take /\ PollReady

PollErr ==
  /\ "HAS_VALUE" \notin state /\ "TX_CLOSED" \in state
  /\ PollReady
  /\ UNCHANGED <<state, cell, uses>>

Empty == state \intersect {"HAS_VALUE", "TX_CLOSED"} = {}

\* Fault: a waker that is in the cell is overwritten without being dropped.
StoreRxLeaks(w) == rxWaker' = w /\ live' = live + 1

\* Fault: a waker that is in the cell is kept.
StoreRxOnce(w) ==
  IF "RX_WAKER_INIT" \in state THEN UNCHANGED <<rxWaker, live>>
  ELSE rxWaker' = w /\ live' = live + 1

\* The waker replaces the one in the cell, which is dropped, or initializes it.
StoreRx(w) ==
  /\ rxWaker' = w
  /\ live' = IF "RX_WAKER_INIT" \in state THEN live ELSE live + 1

\* The poll of a Receiver that has nothing to see.
PollPending(w) ==
  /\ RxFree /\ Empty
  /\ StoreRx(w)
  /\ state' = state \union {"RX_WAKER_INIT"}
  /\ rxCx' = w
  /\ woken' = woken \ {"rx"}
  /\ UNCHANGED <<cell, txWaker, gone, calls, sent, txCx, uses>>

PollRecv == PollValue \/ PollErr \/ \E w \in Wakers : PollPending(w)

\* close_rx, up to the return of its wake.
CloseRx(call) ==
  /\ RxFree
  /\ state' = state \union {"RX_CLOSED"}
  /\ calls' = Append(calls, call)
  /\ UNCHANGED <<cell, rxWaker, txWaker, gone, sent, txCx, uses, live>>

\* Receiver::close: the Receiver lives on, also one that a task awaits.
Close ==
  /\ CloseRx("close")
  /\ woken' = IF TxIsWoken THEN woken \union {"tx"} ELSE woken
  /\ UNCHANGED rxCx

DropReceiver ==
  /\ CloseRx("dropRx")
  /\ woken' = (IF TxIsWoken THEN woken \union {"tx"} ELSE woken) \ {"rx"}
  /\ rxCx' = NoWaker

-----------------------------------------------------------------------------
(* The end of the innermost call                                           *)

CloseReturns ==
  /\ calls # << >> /\ Last(calls) = "close"
  /\ calls' = Front(calls)
  /\ UNCHANGED <<state, cell, rxWaker, txWaker, gone, sent, rxCx, txCx, woken, uses, live>>

\* Fault: the wakers are left to MaybeUninit, which drops nothing.
DropInnerValue ==
  /\ cell' = IF "HAS_VALUE" \in state THEN "Dropped" ELSE cell
  /\ uses' = IF "HAS_VALUE" \in state THEN uses + 1 ELSE uses
  /\ UNCHANGED <<txWaker, rxWaker, live>>

\* Drop for Inner: what the bits say is there is dropped.
DropInner ==
  /\ cell' = IF "HAS_VALUE" \in state THEN "Dropped" ELSE cell
  /\ uses' = IF "HAS_VALUE" \in state THEN uses + 1 ELSE uses
  /\ txWaker' = IF "TX_WAKER_INIT" \in state THEN NoWaker ELSE txWaker
  /\ rxWaker' = IF "RX_WAKER_INIT" \in state THEN NoWaker ELSE rxWaker
  /\ live' = live - Cardinality(state \intersect {"TX_WAKER_INIT", "RX_WAKER_INIT"})

\* A half that was dropped releases the Rc; the last one drops Inner.
Release(half, call, other) ==
  /\ calls # << >> /\ Last(calls) = call
  /\ calls' = Front(calls)
  /\ gone' = gone \union {half}
  /\ IF other \in gone THEN DropInner ELSE UNCHANGED <<cell, uses, txWaker, rxWaker, live>>
  /\ UNCHANGED <<state, sent, rxCx, txCx, woken>>

Return == CloseReturns \/ Release("tx", "dropTx", "rx") \/ Release("rx", "dropRx", "tx")

-----------------------------------------------------------------------------
Next ==
  \/ Send \/ SendErr \/ DropSender \/ ClosedReady \/ \E w \in Wakers : ClosedPending(w)
  \/ PollRecv \/ Close \/ DropReceiver
  \/ Return

Spec == Init /\ [][Next]_vars

\* A wake returns, and a woken task is polled: strong fairness, because close
\* borrows the Receiver and Closed::poll waits for nobody.
Fairness ==
  /\ WF_vars(Return)
  /\ SF_vars("rx" \in woken /\ PollRecv)
  /\ WF_vars("tx" \in woken /\ ClosedReady)

FairSpec == Spec /\ Fairness

-----------------------------------------------------------------------------
(* Properties                                                              *)

TypeOK ==
  /\ state \subseteq Bits
  /\ cell \in {"Uninit", "Full", "Moved", "Dropped"}
  /\ {rxWaker, txWaker, rxCx, txCx} \subseteq Wakers \union {NoWaker}
  /\ gone \subseteq {"tx", "rx"} /\ woken \subseteq {"tx", "rx"}
  /\ calls \in Seq({"dropTx", "dropRx", "close"}) /\ Len(calls) <= 2
  /\ sent \in {"none", "ok", "err"}
  /\ uses \in {0, 1} /\ live \in 0..2

Freed == gone = {"tx", "rx"}

\* The two init bits tell which cells hold a waker, so that wake, replacement and
\* drop never touch one that is not there (the SAFETY comments at lines 142, 157,
\* 184, 268, 276); no waker is lost in a cell, and with Inner the last is dropped.
WakersHeld ==
  LET held == {c \in {"TX_WAKER_INIT", "RX_WAKER_INIT"} :
                 (IF c = "TX_WAKER_INIT" THEN txWaker ELSE rxWaker) # NoWaker}
  IN  /\ live = Cardinality(held)
      /\ held = IF Freed THEN {} ELSE state \intersect {"TX_WAKER_INIT", "RX_WAKER_INIT"}

\* A value is moved out or dropped at most once, whichever half goes first and
\* from inside whichever wake; once both are gone, exactly once if it was sent.
ValueUsedOnce ==
  /\ uses <= 1
  /\ Freed /\ sent = "ok" => uses = 1

\* A task that awaits the Receiver is awake once there is something to see, and
\* one that awaits a Closed once the Receiver is closed, also if the future moved
\* to another task between two polls.
NoLostWakeup ==
  /\ rxCx # NoWaker /\ ~Empty => "rx" \in woken
  /\ txCx # NoWaker /\ "RX_CLOSED" \in state => "tx" \in woken

\* While a wake runs, by reference to the cell, nobody drops or replaces the waker
\* in that cell, although the woken task may poll inside: by then the bit that
\* makes its poll return Ready is on.
WokenWakerStays ==
  [][/\ Contains(calls, "dropTx") /\ Contains(calls', "dropTx") => rxWaker' = rxWaker
     /\ \A c \in {"dropRx", "close"} :
          Contains(calls, c) /\ Contains(calls', c) => txWaker' = txWaker]_vars

Abs == INSTANCE OneshotSpec WITH
  value <- [Uninit |-> "none", Full |-> "sent", Moved |-> "received", Dropped |-> "dropped"][cell],
  result <- sent,
  sender <- IF "TX_CLOSED" \in state THEN "gone" ELSE "open",
  receiver <- IF "rx" \in gone \/ Contains(calls, "dropRx") THEN "gone"
              ELSE IF "RX_CLOSED" \in state THEN "closed" ELSE "open",
  awaiting <- {h \in {"sender", "receiver"} : (IF h = "sender" THEN txCx ELSE rxCx) # NoWaker}

\* The bits and cells implement the promise of OneshotSpec, with its liveness:
\* send leaves the wake to the drop of the Sender, and that is enough.
Implements == Abs!Spec
=============================================================================
