--------------------------- MODULE OneshotProofs ----------------------------
(***************************************************************************)
(* The safety of Oneshot for any set of wakers.  IInv is inductive; each   *)
(* of its parts is proved by cases on the step.                            *)
(***************************************************************************)
EXTENDS Oneshot, TLAPS

\* The Sender has won the channel for its value; the Receiver has given up the
\* value bit for it; the value is in the cell, or was.
Claimed == tx \in {"write", "wake"} \/ sent = "ok"
Taken == rx = "read" \/ received # "no"
Written == tx = "wake" \/ sent = "ok"

Closing == {"closeWake", "release", "gone"}

\* The value bit is on from the claim to the Store, and never again.
ValueBit ==
  /\ "HAS_VALUE" \in state <=> Claimed /\ ~Taken
  /\ Taken => Claimed
  /\ rx = "store" => "HAS_VALUE" \in state
  /\ rx = "read" => received = "no"
  /\ sent # "no" => tx \in Closing \union {"close"}

\* The bit of the Sender is on, and Closed is said, only after send is over.
TxBit == "TX_CLOSED" \in state \/ res = "Closed" => tx \in Closing

\* When Closed has been said, the Receiver had taken what was sent, and the bit of the
\* Sender is on.
ClosedSaid ==
  res = "Closed" => "TX_CLOSED" \in state /\ (sent = "ok" => received # "no")

\* Between its load and its store the Receiver is the only one to set its bit or
\* to turn a bit off.
LoadIsRecent ==
  rx = "store" => seen \subseteq state /\ ("RX_CLOSED" \in state => "RX_CLOSED" \in seen)

\* What the cell holds, by what the two halves have done.
CellHolds ==
  /\ cell = IF tx = "gone" /\ rx = "gone" /\ "HAS_VALUE" \in state THEN "Dropped"
            ELSE IF received = "value" THEN "Moved"
            ELSE IF Written THEN "Full" ELSE "Uninit"
  /\ received = "value" => Written
  /\ uses = IF cell \in {"Moved", "Dropped"} THEN 1 ELSE 0

\* A task that awaits is registered; one that registers has seen nothing, and
\* what came since has woken it, or will, or was missed.
WakeIsDue ==
  /\ parked => rxWaker = cx
  /\ parked \/ rx = "register" => cx \in Wakers
  /\ (parked \/ rx = "register") /\ ~Nothing /\ ~missed =>
       woken \/ tx \in {"write", "wake", "closeWake"}

IInv ==
  /\ TypeOK /\ ValueBit /\ TxBit /\ LoadIsRecent /\ CellHolds /\ WakeIsDue
  /\ ClosedSaid

-----------------------------------------------------------------------------
\* Types.  A value is moved out or dropped only while it is in the cell, so `uses'
\* stays below two.
LEMMA TypeStep ==
  ASSUME OneshotAssumption, IInv, [Next]_vars
  PROVE  TypeOK'
<1> USE DEF IInv, TypeOK, Bits, sharedVars, txVars, rxVars
<1>1. ASSUME SendClaim PROVE TypeOK'
  BY <1>1 DEF SendClaim, TxStep
<1>2. ASSUME SendErr PROVE TypeOK'
  BY <1>2 DEF SendErr, TxStep
<1>3. ASSUME DropSender PROVE TypeOK'
  BY <1>3 DEF DropSender, TxStep
<1>4. ASSUME PollClosed PROVE TypeOK'
  BY <1>4 DEF PollClosed
<1>5. ASSUME SendWrite PROVE TypeOK'
  BY <1>5 DEF SendWrite, TxStep
<1>6. ASSUME SendWake PROVE TypeOK'
  BY <1>6 DEF SendWake, WakeRx, TxStep
<1>7. ASSUME TxClose PROVE TypeOK'
  BY <1>7 DEF TxClose, TxStep
<1>8. ASSUME TxCloseWake PROVE TypeOK'
  BY <1>8 DEF TxCloseWake, WakeRx, TxStep
<1>9. ASSUME TxRelease PROVE TypeOK'
  <2>1. cell' \in {cell, "Dropped"} /\ uses' \in {0, 1}
    BY <1>9 DEF TxRelease, TxStep, DropInner, CellHolds, ValueBit, Taken, Claimed, Written
  <2> QED BY <1>9, <2>1 DEF TxRelease, TxStep
<1>10. ASSUME PollReady PROVE TypeOK'
  <2>1. parked' \in BOOLEAN /\ woken' \in BOOLEAN /\ missed' \in BOOLEAN
    BY <1>10 DEF PollReady
  <2>2. seen' = state /\ rx' \in {rx, "store"} /\ res' \in {res, "Closed"} /\ cx' = NoWaker
    BY <1>10 DEF PollReady, Load
  <2> QED BY <1>10, <2>1, <2>2 DEF PollReady
<1>11. ASSUME NEW w \in Wakers, PollEmpty(w) PROVE TypeOK'
  <2>1. parked' \in BOOLEAN /\ woken' \in BOOLEAN /\ missed' \in BOOLEAN
    BY <1>11 DEF PollEmpty
  <2> QED BY <1>11, <2>1 DEF PollEmpty, RxStep
<1>12. ASSUME TryRecvReady PROVE TypeOK'
  BY <1>12 DEF TryRecvReady, Load
<1>13. ASSUME TryRecvEmpty PROVE TypeOK'
  BY <1>13 DEF TryRecvEmpty
<1>14. ASSUME Register PROVE TypeOK'
  BY <1>14 DEF Register, RxStep
<1>15. ASSUME Store PROVE TypeOK'
  BY <1>15 DEF Store, RxStep
<1>16. ASSUME ReadValue PROVE TypeOK'
  <2>1. uses' \in {0, 1}
    BY <1>16 DEF ReadValue, RxStep, CellHolds, ValueBit, Taken, Claimed
  <2>2. cell' \in {cell, "Moved"} /\ received' \in {"value", "garbage"}
    BY <1>16 DEF ReadValue
  <2> QED BY <1>16, <2>1, <2>2 DEF ReadValue, RxStep
<1>17. ASSUME NEW then \in {"closeWake", "dropWake"}, RxClose(then) PROVE TypeOK'
  BY <1>17 DEF RxClose, RxStep
<1>18. ASSUME NEW from \in {"closeWake", "dropWake"}, NEW to \in {"idle", "release"},
              RxCloseWake(from, to)
      PROVE  TypeOK'
  BY <1>18 DEF RxCloseWake, RxStep, WakeTx
<1>19. ASSUME RxRelease PROVE TypeOK'
  <2>1. cell' \in {cell, "Dropped"} /\ uses' \in {0, 1}
    BY <1>19 DEF RxRelease, RxStep, DropInner, CellHolds, ValueBit, Taken, Claimed, Written
  <2>2. parked' \in BOOLEAN
    BY <1>19 DEF RxRelease
  <2> QED BY <1>19, <2>1, <2>2 DEF RxRelease, RxStep
<1>20. ASSUME UNCHANGED vars PROVE TypeOK'
  BY <1>20 DEF vars
<1> QED
  BY [Next]_vars, <1>1, <1>2, <1>3, <1>4, <1>5, <1>6, <1>7, <1>8, <1>9, <1>10, <1>11,
     <1>12, <1>13, <1>14, <1>15, <1>16, <1>17, <1>18, <1>19, <1>20
  DEF Next, SenderStep, PollRecv, ReceiverStep

\* The bits: the halves set each its own, and what the Receiver stores over the
\* state differs from it in the value bit and, at most, the Sender's.
LEMMA BitStep ==
  ASSUME OneshotAssumption, IInv, [Next]_vars
  PROVE  (ValueBit /\ TxBit /\ LoadIsRecent)'
<1> USE DEF IInv, TypeOK, Bits, ValueBit, TxBit, LoadIsRecent, Claimed, Taken,
            Closing, Nothing, sharedVars, txVars, rxVars
<1>1. ASSUME SendClaim PROVE (ValueBit /\ TxBit /\ LoadIsRecent)'
  BY <1>1 DEF SendClaim, TxStep
<1>2. ASSUME SendErr PROVE (ValueBit /\ TxBit /\ LoadIsRecent)'
  BY <1>2 DEF SendErr, TxStep
<1>3. ASSUME DropSender PROVE (ValueBit /\ TxBit /\ LoadIsRecent)'
  BY <1>3 DEF DropSender, TxStep
<1>4. ASSUME PollClosed PROVE (ValueBit /\ TxBit /\ LoadIsRecent)'
  BY <1>4 DEF PollClosed
<1>5. ASSUME SendWrite PROVE (ValueBit /\ TxBit /\ LoadIsRecent)'
  BY <1>5 DEF SendWrite, TxStep
<1>6. ASSUME SendWake PROVE (ValueBit /\ TxBit /\ LoadIsRecent)'
  BY <1>6 DEF SendWake, WakeRx, TxStep
<1>7. ASSUME TxClose PROVE (ValueBit /\ TxBit /\ LoadIsRecent)'
  BY <1>7 DEF TxClose, TxStep
<1>8. ASSUME TxCloseWake PROVE (ValueBit /\ TxBit /\ LoadIsRecent)'
  BY <1>8 DEF TxCloseWake, WakeRx, TxStep
<1>9. ASSUME TxRelease PROVE (ValueBit /\ TxBit /\ LoadIsRecent)'
  BY <1>9 DEF TxRelease, DropInner, TxStep
<1>10. ASSUME PollReady PROVE (ValueBit /\ TxBit /\ LoadIsRecent)'
  BY <1>10 DEF PollReady, Load
<1>11. ASSUME NEW w \in Wakers, PollEmpty(w)
      PROVE  (ValueBit /\ TxBit /\ LoadIsRecent)'
  BY <1>11 DEF PollEmpty, RxStep
<1>12. ASSUME TryRecvReady PROVE (ValueBit /\ TxBit /\ LoadIsRecent)'
  BY <1>12 DEF TryRecvReady, Load
<1>13. ASSUME TryRecvEmpty PROVE (ValueBit /\ TxBit /\ LoadIsRecent)'
  BY <1>13 DEF TryRecvEmpty
<1>14. ASSUME Register PROVE (ValueBit /\ TxBit /\ LoadIsRecent)'
  BY <1>14 DEF Register, RxStep
<1>15. ASSUME Store PROVE (ValueBit /\ TxBit /\ LoadIsRecent)'
  BY <1>15 DEF Store, RxStep
<1>16. ASSUME ReadValue PROVE (ValueBit /\ TxBit /\ LoadIsRecent)'
  BY <1>16 DEF ReadValue, RxStep
<1>17. ASSUME NEW then \in {"closeWake", "dropWake"}, RxClose(then)
      PROVE  (ValueBit /\ TxBit /\ LoadIsRecent)'
  BY <1>17 DEF RxClose, RxStep
<1>18. ASSUME NEW from \in {"closeWake", "dropWake"}, NEW to \in {"idle", "release"},
              RxCloseWake(from, to)
      PROVE  (ValueBit /\ TxBit /\ LoadIsRecent)'
  BY <1>18 DEF RxCloseWake, RxStep, WakeTx
<1>19. ASSUME RxRelease PROVE (ValueBit /\ TxBit /\ LoadIsRecent)'
  BY <1>19 DEF RxRelease, DropInner, RxStep
<1>20. ASSUME UNCHANGED vars PROVE (ValueBit /\ TxBit /\ LoadIsRecent)'
  BY <1>20 DEF vars
<1> QED
  BY [Next]_vars, <1>1, <1>2, <1>3, <1>4, <1>5, <1>6, <1>7, <1>8, <1>9, <1>10, <1>11,
     <1>12, <1>13, <1>14, <1>15, <1>16, <1>17, <1>18, <1>19, <1>20
  DEF Next, SenderStep, PollRecv, ReceiverStep

\* The cell: written after the claim, emptied by the read or by the last half to go.
LEMMA CellStep ==
  ASSUME OneshotAssumption, IInv, [Next]_vars
  PROVE  CellHolds'
<1> USE DEF IInv, TypeOK, ValueBit, TxBit, CellHolds, Claimed, Taken, Written,
            Closing, sharedVars, txVars, rxVars
<1>1. ASSUME SendClaim PROVE CellHolds'
  BY <1>1 DEF SendClaim, TxStep
<1>2. ASSUME SendErr PROVE CellHolds'
  BY <1>2 DEF SendErr, TxStep
<1>3. ASSUME DropSender PROVE CellHolds'
  BY <1>3 DEF DropSender, TxStep
<1>4. ASSUME PollClosed PROVE CellHolds'
  BY <1>4 DEF PollClosed
<1>5. ASSUME SendWrite PROVE CellHolds'
  BY <1>5 DEF SendWrite, TxStep
<1>6. ASSUME SendWake PROVE CellHolds'
  BY <1>6 DEF SendWake, WakeRx, TxStep
<1>7. ASSUME TxClose PROVE CellHolds'
  BY <1>7 DEF TxClose, TxStep
<1>8. ASSUME TxCloseWake PROVE CellHolds'
  BY <1>8 DEF TxCloseWake, WakeRx, TxStep
<1>9. ASSUME TxRelease PROVE CellHolds'
  BY <1>9 DEF TxRelease, DropInner, TxStep
<1>10. ASSUME PollReady PROVE CellHolds'
  BY <1>10 DEF PollReady, Load
<1>11. ASSUME NEW w \in Wakers, PollEmpty(w) PROVE CellHolds'
  BY <1>11 DEF PollEmpty, RxStep
<1>12. ASSUME TryRecvReady PROVE CellHolds'
  BY <1>12 DEF TryRecvReady, Load
<1>13. ASSUME TryRecvEmpty PROVE CellHolds'
  BY <1>13 DEF TryRecvEmpty
<1>14. ASSUME Register PROVE CellHolds'
  BY <1>14 DEF Register, RxStep
<1>15. ASSUME Store PROVE CellHolds'
  BY <1>15 DEF Store, RxStep
<1>16. ASSUME ReadValue PROVE CellHolds'
  BY <1>16 DEF ReadValue, RxStep
<1>17. ASSUME NEW then \in {"closeWake", "dropWake"}, RxClose(then) PROVE CellHolds'
  BY <1>17 DEF RxClose, RxStep
<1>18. ASSUME NEW from \in {"closeWake", "dropWake"}, NEW to \in {"idle", "release"},
              RxCloseWake(from, to)
      PROVE  CellHolds'
  BY <1>18 DEF RxCloseWake, RxStep, WakeTx
<1>19. ASSUME RxRelease PROVE CellHolds'
  BY <1>19 DEF RxRelease, DropInner, RxStep
<1>20. ASSUME UNCHANGED vars PROVE CellHolds'
  BY <1>20 DEF vars
<1> QED
  BY [Next]_vars, <1>1, <1>2, <1>3, <1>4, <1>5, <1>6, <1>7, <1>8, <1>9, <1>10, <1>11,
     <1>12, <1>13, <1>14, <1>15, <1>16, <1>17, <1>18, <1>19, <1>20
  DEF Next, SenderStep, PollRecv, ReceiverStep

\* The Receiver looks at the Sender's bit after the value bit, and the Sender sets
\* its bit after send is over.
LEMMA ClosedStep ==
  ASSUME OneshotAssumption, IInv, [Next]_vars
  PROVE  ClosedSaid'
<1> USE DEF IInv, TypeOK, ValueBit, TxBit, ClosedSaid, Claimed, Taken,
            Closing, Nothing, sharedVars, txVars, rxVars
<1>1. ASSUME SendClaim PROVE ClosedSaid'
  BY <1>1 DEF SendClaim, TxStep
<1>2. ASSUME SendErr PROVE ClosedSaid'
  BY <1>2 DEF SendErr, TxStep
<1>3. ASSUME DropSender PROVE ClosedSaid'
  BY <1>3 DEF DropSender, TxStep
<1>4. ASSUME PollClosed PROVE ClosedSaid'
  BY <1>4 DEF PollClosed
<1>5. ASSUME SendWrite PROVE ClosedSaid'
  BY <1>5 DEF SendWrite, TxStep
<1>6. ASSUME SendWake PROVE ClosedSaid'
  BY <1>6 DEF SendWake, WakeRx, TxStep
<1>7. ASSUME TxClose PROVE ClosedSaid'
  BY <1>7 DEF TxClose, TxStep
<1>8. ASSUME TxCloseWake PROVE ClosedSaid'
  BY <1>8 DEF TxCloseWake, WakeRx, TxStep
<1>9. ASSUME TxRelease PROVE ClosedSaid'
  BY <1>9 DEF TxRelease, DropInner, TxStep
<1>10. ASSUME PollReady PROVE ClosedSaid'
  BY <1>10 DEF PollReady, Load
<1>11. ASSUME NEW w \in Wakers, PollEmpty(w) PROVE ClosedSaid'
  BY <1>11 DEF PollEmpty, RxStep
<1>12. ASSUME TryRecvReady PROVE ClosedSaid'
  BY <1>12 DEF TryRecvReady, Load
<1>13. ASSUME TryRecvEmpty PROVE ClosedSaid'
  BY <1>13 DEF TryRecvEmpty
<1>14. ASSUME Register PROVE ClosedSaid'
  BY <1>14 DEF Register, RxStep
<1>15. ASSUME Store PROVE ClosedSaid'
  BY <1>15 DEF Store, RxStep
<1>16. ASSUME ReadValue PROVE ClosedSaid'
  BY <1>16 DEF ReadValue, RxStep
<1>17. ASSUME NEW then \in {"closeWake", "dropWake"}, RxClose(then)
      PROVE  ClosedSaid'
  BY <1>17 DEF RxClose, RxStep
<1>18. ASSUME NEW from \in {"closeWake", "dropWake"}, NEW to \in {"idle", "release"},
              RxCloseWake(from, to)
      PROVE  ClosedSaid'
  BY <1>18 DEF RxCloseWake, RxStep, WakeTx
<1>19. ASSUME RxRelease PROVE ClosedSaid'
  BY <1>19 DEF RxRelease, DropInner, RxStep
<1>20. ASSUME UNCHANGED vars PROVE ClosedSaid'
  BY <1>20 DEF vars
<1> QED
  BY [Next]_vars, <1>1, <1>2, <1>3, <1>4, <1>5, <1>6, <1>7, <1>8, <1>9, <1>10, <1>11,
     <1>12, <1>13, <1>14, <1>15, <1>16, <1>17, <1>18, <1>19, <1>20
  DEF Next, SenderStep, PollRecv, ReceiverStep

\* Each wake finds the awaiting task registered, or it comes in the window between
\* load and registration and wakes it or counts as missed.
LEMMA WakeStep ==
  ASSUME OneshotAssumption, IInv, [Next]_vars
  PROVE  WakeIsDue'
<1> USE DEF IInv, TypeOK, WakeIsDue, LoadIsRecent, Nothing, sharedVars, txVars, rxVars
<1>1. ASSUME SendClaim PROVE WakeIsDue'
  BY <1>1 DEF SendClaim, TxStep
<1>2. ASSUME SendErr PROVE WakeIsDue'
  BY <1>2 DEF SendErr, TxStep
<1>3. ASSUME DropSender PROVE WakeIsDue'
  BY <1>3 DEF DropSender, TxStep
<1>4. ASSUME PollClosed PROVE WakeIsDue'
  BY <1>4 DEF PollClosed
<1>5. ASSUME SendWrite PROVE WakeIsDue'
  BY <1>5 DEF SendWrite, TxStep
<1>6. ASSUME SendWake PROVE WakeIsDue'
  BY <1>6 DEF SendWake, WakeRx, TxStep
<1>7. ASSUME TxClose PROVE WakeIsDue'
  BY <1>7 DEF TxClose, TxStep
<1>8. ASSUME TxCloseWake PROVE WakeIsDue'
  BY <1>8 DEF TxCloseWake, WakeRx, TxStep
<1>9. ASSUME TxRelease PROVE WakeIsDue'
  BY <1>9 DEF TxRelease, DropInner, TxStep
<1>10. ASSUME PollReady PROVE WakeIsDue'
  BY <1>10 DEF PollReady, Load
<1>11. ASSUME NEW w \in Wakers, PollEmpty(w) PROVE WakeIsDue'
  BY <1>11, OneshotAssumption DEF PollEmpty, RxStep
<1>12. ASSUME TryRecvReady PROVE WakeIsDue'
  BY <1>12 DEF TryRecvReady, Load
<1>13. ASSUME TryRecvEmpty PROVE WakeIsDue'
  BY <1>13 DEF TryRecvEmpty
<1>14. ASSUME Register PROVE WakeIsDue'
  BY <1>14 DEF Register, RxStep
<1>15. ASSUME Store PROVE WakeIsDue'
  BY <1>15 DEF Store, RxStep
<1>16. ASSUME ReadValue PROVE WakeIsDue'
  BY <1>16 DEF ReadValue, RxStep
<1>17. ASSUME NEW then \in {"closeWake", "dropWake"}, RxClose(then) PROVE WakeIsDue'
  BY <1>17 DEF RxClose, RxStep
<1>18. ASSUME NEW from \in {"closeWake", "dropWake"}, NEW to \in {"idle", "release"},
              RxCloseWake(from, to)
      PROVE  WakeIsDue'
  BY <1>18 DEF RxCloseWake, RxStep, WakeTx
<1>19. ASSUME RxRelease PROVE WakeIsDue'
  BY <1>19 DEF RxRelease, DropInner, RxStep
<1>20. ASSUME UNCHANGED vars PROVE WakeIsDue'
  BY <1>20 DEF vars
<1> QED
  BY [Next]_vars, <1>1, <1>2, <1>3, <1>4, <1>5, <1>6, <1>7, <1>8, <1>9, <1>10, <1>11,
     <1>12, <1>13, <1>14, <1>15, <1>16, <1>17, <1>18, <1>19, <1>20
  DEF Next, SenderStep, PollRecv, ReceiverStep
-----------------------------------------------------------------------------
\* A new channel.
LEMMA InitInv ==
  ASSUME OneshotAssumption, Init
  PROVE  IInv
<1>1. TypeOK
  BY DEF Init, TypeOK
<1>2. ValueBit /\ TxBit /\ LoadIsRecent /\ CellHolds /\ WakeIsDue /\ ClosedSaid
  BY DEF Init, ValueBit, TxBit, LoadIsRecent, CellHolds, WakeIsDue, ClosedSaid,
         Claimed, Taken, Written
<1> QED BY <1>1, <1>2 DEF IInv

\* The inductive invariant holds in every interleaving of the two halves' accesses
\* to the shared state, cell and waker slots.
THEOREM OneshotInvariant == Spec => []IInv
<1>1. Init => IInv
  BY InitInv, OneshotAssumption
<1>2. IInv /\ [Next]_vars => IInv'
  BY TypeStep, BitStep, CellStep, ClosedStep, WakeStep, OneshotAssumption DEF IInv
<1> QED BY <1>1, <1>2, PTL DEF Spec

\* Type correctness, in which uses is 0 or 1: no value is used twice.
THEOREM OneshotTypes == Spec => []TypeOK
<1>1. IInv => TypeOK
  BY DEF IInv
<1> QED BY <1>1, OneshotInvariant, PTL

\* However the halves end, a value that was sent is moved out or dropped exactly
\* once (oneshot.rs:362-399, 407-424), unless it was read too early.
THEOREM OneshotUsesOnce == Spec => []ValueUsedOnce
<1>1. IInv => ValueUsedOnce
  BY DEF IInv, TypeOK, ValueBit, CellHolds, ValueUsedOnce, Claimed, Taken, Closing
<1> QED BY <1>1, OneshotInvariant, PTL

\* The Receiver is told Closed only after it took what was sent, unless it had read
\* the cell too early.
THEOREM OneshotClosedAfterValue == Spec => []ClosedAfterValue
<1>1. IInv => ClosedAfterValue
  BY DEF IInv, TypeOK, ClosedSaid, ClosedAfterValue
<1> QED BY <1>1, OneshotInvariant, PTL

\* Once the Receiver has been told Closed, no later try_recv or poll says otherwise
\* (oneshot.rs:207-209).
THEOREM OneshotStaysEnded == Spec => ClosedIsFinal
<1>1. IInv /\ [Next]_vars => [res = "Closed" => res' = "Closed"]_vars
  <2> SUFFICES ASSUME IInv, Next, res = "Closed" PROVE res' = "Closed"
    OBVIOUS
  <2> USE DEF sharedVars, txVars, rxVars
  <2>1. rx # "read" /\ "HAS_VALUE" \notin state /\ "TX_CLOSED" \in state
    BY DEF IInv, TypeOK, ClosedSaid, TxBit, ValueBit, Claimed, Taken, Closing
  <2>2. CASE PollRecv \/ TryRecvReady
    BY <2>1, <2>2 DEF PollRecv, PollReady, PollEmpty, TryRecvReady, Load
  <2>3. CASE TryRecvEmpty \/ ReadValue
    BY <2>1, <2>3 DEF TryRecvEmpty, ReadValue, Nothing, RxStep
  <2>4. CASE SendClaim \/ SendErr \/ DropSender \/ PollClosed \/ SenderStep
    BY <2>4 DEF SendClaim, SendErr, DropSender, PollClosed, SenderStep, SendWrite, SendWake,
                TxClose, TxCloseWake, TxRelease
  <2>5. CASE RxClose("closeWake") \/ RxClose("dropWake") \/ Register \/ Store \/ RxRelease
             \/ RxCloseWake("closeWake", "idle") \/ RxCloseWake("dropWake", "release")
    BY <2>5 DEF RxClose, Register, Store, RxRelease, RxCloseWake
  <2> QED BY <2>2, <2>3, <2>4, <2>5 DEF Next, ReceiverStep
<1> QED BY <1>1, OneshotInvariant, PTL DEF Spec, ClosedIsFinal

\* The one window in which a wakeup can be lost is the one that `missed' records.
THEOREM OneshotWakes == Spec => []NoOtherLostWakeup
<1>1. IInv => NoOtherLostWakeup
  BY DEF IInv, WakeIsDue, NoOtherLostWakeup
<1> QED BY <1>1, OneshotInvariant, PTL

\* The store of a state that was loaded earlier never reopens a closed channel.
THEOREM OneshotStaysClosed == Spec => RxClosedIsFinal
<1>1. IInv /\ [Next]_vars => [state \intersect {"RX_CLOSED"} \subseteq state']_vars
  <2> SUFFICES ASSUME IInv, Next PROVE state \intersect {"RX_CLOSED"} \subseteq state'
    OBVIOUS
  <2> USE DEF sharedVars, txVars, rxVars
  <2>1. CASE Store
    BY <2>1 DEF IInv, LoadIsRecent, Store, RxStep
  <2>2. CASE SendClaim
    BY <2>2 DEF SendClaim
  <2>3. CASE TxClose \/ RxClose("closeWake") \/ RxClose("dropWake")
    BY <2>3 DEF TxClose, RxClose
  <2>4. CASE UNCHANGED state
    BY <2>4
  <2>5. CASE SendErr \/ DropSender \/ PollClosed \/ SendWrite \/ SendWake \/ TxCloseWake \/ TxRelease
    BY <2>4, <2>5 DEF SendErr, DropSender, PollClosed, SendWrite, SendWake, TxCloseWake, TxRelease
  <2>6. CASE PollRecv \/ TryRecvReady \/ TryRecvEmpty \/ Register \/ ReadValue \/ RxRelease
             \/ RxCloseWake("closeWake", "idle") \/ RxCloseWake("dropWake", "release")
    BY <2>4, <2>6 DEF PollRecv, PollReady, PollEmpty, TryRecvReady, TryRecvEmpty, Register,
                      ReadValue, RxRelease, RxCloseWake
  <2> QED BY <2>1, <2>2, <2>3, <2>5, <2>6 DEF Next, SenderStep, ReceiverStep
<1> QED BY <1>1, OneshotInvariant, PTL DEF Spec, RxClosedIsFinal
=============================================================================
