------------------------- MODULE LocalOneshotProofs -------------------------
(***************************************************************************)
(* The safety of LocalOneshot for any set of wakers, and the refinement of *)
(* OneshotSpec.  IInv is inductive; each of its parts is proved by cases   *)
(* on the step.                                                            *)
(***************************************************************************)
EXTENDS LocalOneshot, FiniteSetTheorems, SequenceTheorems, TLAPS

Call == {"dropTx", "dropRx", "close"}

\* The stacks of calls: one call of each half at most.
Stacks ==
  {s \in Seq(Call) : Len(s) <= 2 /\ (Len(s) = 2 => (s[1] = "dropTx" <=> s[2] # "dropTx"))}

\* Where each half is in its life, by its bits and calls.
Halves ==
  /\ calls \in Stacks
  /\ Freed => calls = << >>
  /\ "tx" \in gone => ~Contains(calls, "dropTx")
  /\ "rx" \in gone => ~Contains(calls, "dropRx") /\ ~Contains(calls, "close")
  /\ "TX_CLOSED" \in state <=> "tx" \in gone \/ Contains(calls, "dropTx")
  /\ "rx" \in gone \/ Contains(calls, "dropRx") \/ Contains(calls, "close") =>
       "RX_CLOSED" \in state

\* What the cell holds, by the value bit and what send returned.
CellHolds ==
  /\ "HAS_VALUE" \in state => cell = IF Freed THEN "Dropped" ELSE "Full"
  /\ "HAS_VALUE" \notin state => cell = IF sent = "ok" THEN "Moved" ELSE "Uninit"
  /\ "HAS_VALUE" \in state => sent = "ok"
  /\ sent # "none" => "TX_CLOSED" \in state
  /\ uses = IF cell \in {"Moved", "Dropped"} THEN 1 ELSE 0

\* What the waker cells hold, by the init bits.
Held(w) == IF w # NoWaker THEN 1 ELSE 0

CellsHoldWakers ==
  /\ rxWaker # NoWaker <=> ~Freed /\ "RX_WAKER_INIT" \in state
  /\ txWaker # NoWaker <=> ~Freed /\ "TX_WAKER_INIT" \in state
  /\ live = Held(rxWaker) + Held(txWaker)

\* A task that awaits a half is registered there, and the half lives.
AwaitersRegistered ==
  /\ rxCx # NoWaker =>
       /\ "RX_WAKER_INIT" \in state /\ rxWaker = rxCx
       /\ "rx" \notin gone /\ ~Contains(calls, "dropRx")
  /\ txCx # NoWaker =>
       /\ "TX_WAKER_INIT" \in state /\ txWaker = txCx
       /\ "TX_CLOSED" \notin state

IInv ==
  /\ TypeOK /\ Halves /\ CellHolds /\ CellsHoldWakers /\ AwaitersRegistered
  /\ NoLostWakeup
-----------------------------------------------------------------------------
(* The stack of calls                                                      *)

\* What a stack is made of.
LEMMA StackShape ==
  ASSUME NEW s \in Stacks
  PROVE  /\ s \in Seq(Call) /\ Len(s) \in 0..2
         /\ s # << >> => Len(s) \in 1..2
         /\ \A i \in 1..Len(s) : s[i] \in Call
         /\ ~Contains(s, "dropRx") \/ ~Contains(s, "close")
         /\ s # << >> => \E c \in Call : Contains(s, c)
<1>1. s \in Seq(Call) /\ Len(s) <= 2
  BY DEF Stacks
<1>2. Len(s) \in Nat /\ (s # << >> => Len(s) # 0)
  BY <1>1, LenProperties, EmptySeq
<1>3. Len(s) \in 0..2 /\ (s # << >> => Len(s) \in 1..2)
  <2>1. \A n \in Nat : n <= 2 => n \in 0..2 /\ (n # 0 => n \in 1..2)
    OBVIOUS
  <2> QED BY <1>1, <1>2, <2>1
<1>4. \A i \in 1..Len(s) : s[i] \in Call
  BY <1>1, ElementOfSeq
<1>5. s # << >> => \E c \in Call : Contains(s, c)
  BY <1>3, <1>4 DEF Contains
<1>6. ~Contains(s, "dropRx") \/ ~Contains(s, "close")
  <2> SUFFICES ASSUME NEW i \in 1..Len(s), NEW j \in 1..Len(s), s[i] = "dropRx", s[j] = "close"
               PROVE  FALSE
    BY DEF Contains
  <2>1. Len(s) = 2
    BY <1>3
  <2> QED BY <2>1 DEF Stacks
<1> QED BY <1>1, <1>3, <1>4, <1>5, <1>6

\* A half that is in no call begins one.
LEMMA Pushed ==
  ASSUME NEW s \in Stacks, NEW c \in Call, ~Contains(s, c),
         c # "dropTx" => ~Contains(s, "dropRx") /\ ~Contains(s, "close")
  PROVE  /\ Append(s, c) \in Stacks /\ Append(s, c) # << >>
         /\ \A d : Contains(Append(s, c), d) <=> Contains(s, d) \/ d = c
<1> DEFINE t == Append(s, c)
<1>1. /\ t \in Seq(Call) /\ t # << >> /\ Len(t) = Len(s) + 1
      /\ \A i \in 1..Len(s) : t[i] = s[i]
      /\ t[Len(s) + 1] = c
  BY StackShape, AppendProperties
<1> HIDE DEF t
<1>2. Len(s) # 2
  BY StackShape DEF Stacks, Call, Contains
<1>3. t \in Stacks
  BY <1>1, <1>2, StackShape DEF Stacks, Call, Contains
<1>4. \A d : Contains(t, d) <=> Contains(s, d) \/ d = c
  BY <1>1, StackShape DEF Contains
<1> QED BY <1>1, <1>3, <1>4 DEF t

\* The innermost call returns.
LEMMA Popped ==
  ASSUME NEW s \in Stacks, s # << >>
  PROVE  /\ Front(s) \in Stacks /\ Last(s) \in Call
         /\ Contains(s, Last(s)) /\ ~Contains(Front(s), Last(s))
         /\ \A c : Contains(s, c) <=> Contains(Front(s), c) \/ c = Last(s)
<1> DEFINE t == Front(s)
<1>1. /\ t \in Seq(Call) /\ Len(t) = Len(s) - 1
      /\ \A i \in 1..(Len(s) - 1) : t[i] = s[i]
  <2>1. PICK n \in 1..2 : n = Len(s)
    BY StackShape
  <2>2. \A i \in 1..(n - 1) : s[i] \in Call
    BY <2>1, StackShape
  <2>3. /\ SubSeq(s, 1, n - 1) \in Seq(Call)
        /\ Len(SubSeq(s, 1, n - 1)) = IF 1 <= n - 1 THEN n - 1 - 1 + 1 ELSE 0
        /\ \A i \in 1..(n - 1 - 1 + 1) : SubSeq(s, 1, n - 1)[i] = s[1 + i - 1]
    BY <2>1, <2>2, SubSeqProperties
  <2> QED BY <2>1, <2>3 DEF Front
<1> HIDE DEF t
<1>2. Last(s) = s[Len(s)] /\ Len(s) \in 1..2
  BY StackShape DEF Last
<1>3. t \in Stacks /\ Last(s) \in Call
  BY <1>1, <1>2, StackShape DEF Stacks
<1>4. \A c : Contains(s, c) <=> Contains(t, c) \/ c = Last(s)
  BY <1>1, <1>2, StackShape DEF Contains
<1>5. ~Contains(t, Last(s))
  BY <1>1, <1>2, StackShape DEF Stacks, Contains
<1> QED BY <1>2, <1>3, <1>4, <1>5 DEF t

\* The calls after a step, by what they were.
LEMMA CallsAfter ==
  ASSUME IInv
  PROVE  /\ \A value : CloseTx(value) =>
              /\ calls' \in Stacks /\ calls' # << >>
              /\ \A c : Contains(calls', c) <=> Contains(calls, c) \/ c = "dropTx"
         /\ \A call \in {"close", "dropRx"} : CloseRx(call) =>
              /\ calls' \in Stacks /\ calls' # << >>
              /\ \A c : Contains(calls', c) <=> Contains(calls, c) \/ c = call
         /\ calls # << >> /\ calls' = Front(calls) =>
              /\ calls' \in Stacks /\ ~Contains(calls', Last(calls))
              /\ \A c : Contains(calls, c) <=> Contains(calls', c) \/ c = Last(calls)
<1>1. calls \in Stacks
  BY DEF IInv, Halves
<1>2. ASSUME NEW value, CloseTx(value)
      PROVE  /\ calls' \in Stacks /\ calls' # << >>
             /\ \A c : Contains(calls', c) <=> Contains(calls, c) \/ c = "dropTx"
  BY <1>1, <1>2, Pushed DEF CloseTx, TxFree, Call
<1>3. ASSUME NEW call \in {"close", "dropRx"}, CloseRx(call)
      PROVE  /\ calls' \in Stacks /\ calls' # << >>
             /\ \A c : Contains(calls', c) <=> Contains(calls, c) \/ c = call
  BY <1>1, <1>3, Pushed DEF CloseRx, RxFree, Call
<1>4. ASSUME calls # << >>, calls' = Front(calls)
      PROVE  /\ calls' \in Stacks /\ ~Contains(calls', Last(calls))
             /\ \A c : Contains(calls, c) <=> Contains(calls', c) \/ c = Last(calls)
  BY <1>1, <1>4, Popped
<1> QED BY <1>2, <1>3, <1>4

\* A half that goes leaves its call; when it is the last, no call is left.
LEMMA Released ==
  ASSUME IInv, NEW half \in {"tx", "rx"}, NEW other \in {"tx", "rx"}, other # half,
         NEW call \in {"dropTx", "dropRx"}, call = "dropTx" <=> half = "tx",
         Release(half, call, other)
  PROVE  /\ calls' \in Stacks /\ ~Contains(calls', call)
         /\ \A c : Contains(calls, c) <=> Contains(calls', c) \/ c = call
         /\ half = "rx" => ~Contains(calls', "close")
         /\ half \notin gone /\ ~Freed
         /\ Freed' <=> other \in gone
         /\ Freed' => calls' = << >>
<1>1. /\ calls' \in Stacks /\ ~Contains(calls', call)
      /\ \A c : Contains(calls, c) <=> Contains(calls', c) \/ c = call
  BY CallsAfter DEF Release
<1>2. half \notin gone
  BY <1>1 DEF IInv, Halves
<1>5. half = "rx" => ~Contains(calls', "close")
  BY <1>1, StackShape DEF IInv, Halves
<1>3. ~Freed /\ (Freed' <=> other \in gone)
  BY <1>2 DEF Release, Freed, IInv, TypeOK
<1>4. ASSUME Freed' PROVE calls' = << >>
  <2>1. \A c \in Call : ~Contains(calls', c)
    BY <1>1, <1>3, <1>4, <1>5 DEF IInv, Halves, Call
  <2> QED BY <1>1, <2>1, StackShape
<1> QED BY <1>1, <1>2, <1>3, <1>4, <1>5

\* How many of two things are in a set.
LEMMA TwoCounted ==
  ASSUME NEW s, NEW a, NEW b, a # b
  PROVE  Cardinality(s \intersect {a, b}) =
           (IF a \in s THEN 1 ELSE 0) + (IF b \in s THEN 1 ELSE 0)
<1>1. Cardinality({a}) = 1 /\ Cardinality({b}) = 1 /\ IsFiniteSet({a})
  BY FS_Singleton
<1>2. Cardinality({a, b}) = 2
  <2>1. Cardinality({a} \union {b}) = Cardinality({a}) + 1
    BY <1>1, FS_AddElement
  <2>2. {a} \union {b} = {a, b}
    OBVIOUS
  <2> QED BY <1>1, <2>1, <2>2
<1>3. Cardinality({}) = 0
  BY FS_EmptySet
<1>4. s \intersect {a, b} = IF a \in s THEN (IF b \in s THEN {a, b} ELSE {a})
                            ELSE (IF b \in s THEN {b} ELSE {})
  OBVIOUS
<1> DEFINE both == s \intersect {a, b}
<1> HIDE DEF both
<1>5. Cardinality(both) = (IF a \in s THEN 1 ELSE 0) + (IF b \in s THEN 1 ELSE 0)
  <2>1. CASE both = {a, b} /\ a \in s /\ b \in s
    BY <1>2, <2>1
  <2>2. CASE both = {a} /\ a \in s /\ b \notin s
    BY <1>1, <2>2
  <2>3. CASE both = {b} /\ a \notin s /\ b \in s
    BY <1>1, <2>3
  <2>4. CASE both = {} /\ a \notin s /\ b \notin s
    BY <1>3, <2>4
  <2> QED BY <1>4, <2>1, <2>2, <2>3, <2>4 DEF both
<1> QED BY <1>5 DEF both

\* How many of the init bits are on.
LEMMA InitBits ==
  ASSUME NEW s
  PROVE  Cardinality(s \intersect {"TX_WAKER_INIT", "RX_WAKER_INIT"}) =
           (IF "TX_WAKER_INIT" \in s THEN 1 ELSE 0) + (IF "RX_WAKER_INIT" \in s THEN 1 ELSE 0)
BY TwoCounted

-----------------------------------------------------------------------------
\* Each half goes from living to its last call to being gone, and its closed bit is
\* on from that call.
LEMMA HalvesStep ==
  ASSUME LocalOneshotAssumption, IInv, [Next]_vars
  PROVE  Halves'
<1> USE DEF IInv, TypeOK, Bits, Halves, Freed
<1>1. ASSUME Send PROVE Halves'
  BY <1>1, CallsAfter DEF Send, CloseTx, TxFree, RxIsWoken
<1>2. ASSUME SendErr PROVE Halves'
  BY <1>2, CallsAfter DEF SendErr, CloseTx, TxFree, RxIsWoken
<1>3. ASSUME DropSender PROVE Halves'
  BY <1>3, CallsAfter DEF DropSender, CloseTx, TxFree, RxIsWoken
<1>4. ASSUME ClosedReady PROVE Halves'
  BY <1>4, CallsAfter DEF ClosedReady, TxFree
<1>5. ASSUME NEW w \in Wakers, ClosedPending(w) PROVE Halves'
  BY <1>5, CallsAfter DEF ClosedPending, TxFree, ReceiverIsOpen
<1>6. ASSUME PollValue PROVE Halves'
  BY <1>6, CallsAfter DEF PollValue, Take, PollReady, RxFree
<1>7. ASSUME PollErr PROVE Halves'
  BY <1>7, CallsAfter DEF PollErr, PollReady, RxFree
<1>8. ASSUME NEW w \in Wakers, PollPending(w) PROVE Halves'
  BY <1>8, CallsAfter DEF PollPending, StoreRx, RxFree, Empty
<1>9. ASSUME Close PROVE Halves'
  BY <1>9, CallsAfter DEF Close, CloseRx, RxFree, TxIsWoken
<1>10. ASSUME DropReceiver PROVE Halves'
  BY <1>10, CallsAfter DEF DropReceiver, CloseRx, RxFree, TxIsWoken
<1>11. ASSUME CloseReturns PROVE Halves'
  BY <1>11, CallsAfter DEF CloseReturns
<1>12. ASSUME Release("tx", "dropTx", "rx") PROVE Halves'
  BY <1>12, Released DEF Release
<1>13. ASSUME Release("rx", "dropRx", "tx") PROVE Halves'
  BY <1>13, Released DEF Release
<1>14. ASSUME UNCHANGED vars PROVE Halves'
  BY <1>14, CallsAfter DEF vars
<1> QED
  BY <1>1, <1>2, <1>3, <1>4, <1>5, <1>6, <1>7, <1>8, <1>9, <1>10, <1>11, <1>12, <1>13,
     <1>14
  DEF Next, PollRecv, Return

\* The cell.
LEMMA CellStep ==
  ASSUME LocalOneshotAssumption, IInv, [Next]_vars
  PROVE  CellHolds'
<1> USE DEF IInv, TypeOK, Bits, Halves, CellHolds, Freed
<1>1. ASSUME Send PROVE CellHolds'
  BY <1>1, CallsAfter DEF Send, CloseTx, TxFree, RxIsWoken
<1>2. ASSUME SendErr PROVE CellHolds'
  BY <1>2, CallsAfter DEF SendErr, CloseTx, TxFree, RxIsWoken
<1>3. ASSUME DropSender PROVE CellHolds'
  BY <1>3, CallsAfter DEF DropSender, CloseTx, TxFree, RxIsWoken
<1>4. ASSUME ClosedReady PROVE CellHolds'
  BY <1>4 DEF ClosedReady, TxFree
<1>5. ASSUME NEW w \in Wakers, ClosedPending(w) PROVE CellHolds'
  BY <1>5 DEF ClosedPending, TxFree, ReceiverIsOpen
<1>6. ASSUME PollValue PROVE CellHolds'
  BY <1>6 DEF PollValue, Take, PollReady, RxFree
<1>7. ASSUME PollErr PROVE CellHolds'
  BY <1>7 DEF PollErr, PollReady, RxFree
<1>8. ASSUME NEW w \in Wakers, PollPending(w) PROVE CellHolds'
  BY <1>8 DEF PollPending, StoreRx, RxFree, Empty
<1>9. ASSUME Close PROVE CellHolds'
  BY <1>9 DEF Close, CloseRx, RxFree, TxIsWoken
<1>10. ASSUME DropReceiver PROVE CellHolds'
  BY <1>10 DEF DropReceiver, CloseRx, RxFree, TxIsWoken
<1>11. ASSUME CloseReturns PROVE CellHolds'
  BY <1>11 DEF CloseReturns
<1>12. ASSUME Release("tx", "dropTx", "rx") PROVE CellHolds'
  <2>1. CASE "rx" \in gone
    BY <1>12, <2>1, Released DEF Release, DropInner
  <2>2. CASE "rx" \notin gone
    BY <1>12, <2>2, Released DEF Release
  <2> QED BY <2>1, <2>2
<1>13. ASSUME Release("rx", "dropRx", "tx") PROVE CellHolds'
  <2>1. CASE "tx" \in gone
    BY <1>13, <2>1, Released DEF Release, DropInner
  <2>2. CASE "tx" \notin gone
    BY <1>13, <2>2, Released DEF Release
  <2> QED BY <2>1, <2>2
<1>14. ASSUME UNCHANGED vars PROVE CellHolds'
  BY <1>14 DEF vars
<1> QED
  BY <1>1, <1>2, <1>3, <1>4, <1>5, <1>6, <1>7, <1>8, <1>9, <1>10, <1>11, <1>12, <1>13,
     <1>14
  DEF Next, PollRecv, Return

\* The wakers: a cell is filled with its init bit, replaced under it, and emptied by
\* the last half to go.
LEMMA WakersStep ==
  ASSUME LocalOneshotAssumption, IInv, [Next]_vars
  PROVE  CellsHoldWakers'
<1> USE DEF IInv, TypeOK, Bits, Halves, CellsHoldWakers, Freed, Held,
            LocalOneshotAssumption
<1>1. ASSUME Send PROVE CellsHoldWakers'
  BY <1>1 DEF Send, CloseTx, TxFree, RxIsWoken
<1>2. ASSUME SendErr PROVE CellsHoldWakers'
  BY <1>2 DEF SendErr, CloseTx, TxFree, RxIsWoken
<1>3. ASSUME DropSender PROVE CellsHoldWakers'
  BY <1>3 DEF DropSender, CloseTx, TxFree, RxIsWoken
<1>4. ASSUME ClosedReady PROVE CellsHoldWakers'
  BY <1>4 DEF ClosedReady, TxFree
<1>5. ASSUME NEW w \in Wakers, ClosedPending(w) PROVE CellsHoldWakers'
  BY <1>5 DEF ClosedPending, TxFree, ReceiverIsOpen
<1>6. ASSUME PollValue PROVE CellsHoldWakers'
  BY <1>6 DEF PollValue, Take, PollReady, RxFree
<1>7. ASSUME PollErr PROVE CellsHoldWakers'
  BY <1>7 DEF PollErr, PollReady, RxFree
<1>8. ASSUME NEW w \in Wakers, PollPending(w) PROVE CellsHoldWakers'
  BY <1>8 DEF PollPending, StoreRx, RxFree, Empty
<1>9. ASSUME Close PROVE CellsHoldWakers'
  BY <1>9 DEF Close, CloseRx, RxFree, TxIsWoken
<1>10. ASSUME DropReceiver PROVE CellsHoldWakers'
  BY <1>10 DEF DropReceiver, CloseRx, RxFree, TxIsWoken
<1>11. ASSUME CloseReturns PROVE CellsHoldWakers'
  BY <1>11 DEF CloseReturns
<1>12. ASSUME Release("tx", "dropTx", "rx") PROVE CellsHoldWakers'
  <2>1. CASE "rx" \in gone
    <3>1. live' = 0
      BY <1>12, <2>1, Released, InitBits DEF Release, DropInner
    <3> QED BY <1>12, <2>1, <3>1, Released DEF Release, DropInner
  <2>2. CASE "rx" \notin gone
    BY <1>12, <2>2, Released DEF Release
  <2> QED BY <2>1, <2>2
<1>13. ASSUME Release("rx", "dropRx", "tx") PROVE CellsHoldWakers'
  <2>1. CASE "tx" \in gone
    <3>1. live' = 0
      BY <1>13, <2>1, Released, InitBits DEF Release, DropInner
    <3> QED BY <1>13, <2>1, <3>1, Released DEF Release, DropInner
  <2>2. CASE "tx" \notin gone
    BY <1>13, <2>2, Released DEF Release
  <2> QED BY <2>1, <2>2
<1>14. ASSUME UNCHANGED vars PROVE CellsHoldWakers'
  BY <1>14 DEF vars
<1> QED
  BY <1>1, <1>2, <1>3, <1>4, <1>5, <1>6, <1>7, <1>8, <1>9, <1>10, <1>11, <1>12, <1>13,
     <1>14
  DEF Next, PollRecv, Return

\* A wait begins with its waker in the cell and ends with the poll that is ready or
\* with the half; the bit that it waits for comes with a wake through that cell.
LEMMA AwaitStep ==
  ASSUME LocalOneshotAssumption, IInv, [Next]_vars
  PROVE  (AwaitersRegistered /\ NoLostWakeup)'
<1> USE DEF IInv, TypeOK, Halves, AwaitersRegistered, NoLostWakeup, Empty,
            LocalOneshotAssumption
<1>1. ASSUME Send PROVE (AwaitersRegistered /\ NoLostWakeup)'
  BY <1>1, CallsAfter DEF Send, CloseTx, TxFree, RxIsWoken
<1>2. ASSUME SendErr PROVE (AwaitersRegistered /\ NoLostWakeup)'
  BY <1>2, CallsAfter DEF SendErr, CloseTx, TxFree, RxIsWoken
<1>3. ASSUME DropSender PROVE (AwaitersRegistered /\ NoLostWakeup)'
  BY <1>3, CallsAfter DEF DropSender, CloseTx, TxFree, RxIsWoken
<1>4. ASSUME ClosedReady PROVE (AwaitersRegistered /\ NoLostWakeup)'
  BY <1>4 DEF ClosedReady, TxFree
<1>5. ASSUME NEW w \in Wakers, ClosedPending(w)
      PROVE  (AwaitersRegistered /\ NoLostWakeup)'
  BY <1>5 DEF ClosedPending, TxFree, ReceiverIsOpen
<1>6. ASSUME PollValue PROVE (AwaitersRegistered /\ NoLostWakeup)'
  BY <1>6 DEF PollValue, Take, PollReady, RxFree
<1>7. ASSUME PollErr PROVE (AwaitersRegistered /\ NoLostWakeup)'
  BY <1>7 DEF PollErr, PollReady, RxFree
<1>8. ASSUME NEW w \in Wakers, PollPending(w)
      PROVE  (AwaitersRegistered /\ NoLostWakeup)'
  BY <1>8 DEF PollPending, StoreRx, RxFree, Empty
<1>9. ASSUME Close PROVE (AwaitersRegistered /\ NoLostWakeup)'
  BY <1>9, CallsAfter DEF Close, CloseRx, RxFree, TxIsWoken
<1>10. ASSUME DropReceiver PROVE (AwaitersRegistered /\ NoLostWakeup)'
  BY <1>10, CallsAfter DEF DropReceiver, CloseRx, RxFree, TxIsWoken
<1>11. ASSUME CloseReturns PROVE (AwaitersRegistered /\ NoLostWakeup)'
  BY <1>11, CallsAfter DEF CloseReturns
<1>12. ASSUME Release("tx", "dropTx", "rx")
      PROVE  (AwaitersRegistered /\ NoLostWakeup)'
  BY <1>12, Released DEF Release, DropInner
<1>13. ASSUME Release("rx", "dropRx", "tx")
      PROVE  (AwaitersRegistered /\ NoLostWakeup)'
  BY <1>13, Released DEF Release, DropInner
<1>14. ASSUME UNCHANGED vars PROVE (AwaitersRegistered /\ NoLostWakeup)'
  BY <1>14 DEF vars
<1> QED
  BY <1>1, <1>2, <1>3, <1>4, <1>5, <1>6, <1>7, <1>8, <1>9, <1>10, <1>11, <1>12, <1>13,
     <1>14
  DEF Next, PollRecv, Return

-----------------------------------------------------------------------------
\* Types: the stack, the two counters and the waker cells by the parts of IInv that
\* hold after the step, the rest by the step.
LEMMA TypeStep ==
  ASSUME LocalOneshotAssumption, IInv, [Next]_vars
  PROVE  TypeOK'
<1>1. Halves' /\ CellHolds' /\ CellsHoldWakers'
  BY HalvesStep, CellStep, WakersStep
<1>2. calls' \in Seq({"dropTx", "dropRx", "close"}) /\ Len(calls') <= 2
  <2>1. calls' \in Stacks
    BY <1>1 DEF Halves
  <2> QED BY <2>1, StackShape DEF Stacks, Call
<1>3. uses' \in {0, 1} /\ live' \in 0..2
  BY <1>1 DEF CellHolds, CellsHoldWakers, Held
<1> DEFINE Rest ==
       /\ state \subseteq Bits
       /\ cell \in {"Uninit", "Full", "Moved", "Dropped"}
       /\ {rxWaker, txWaker, rxCx, txCx} \subseteq Wakers \union {NoWaker}
       /\ gone \subseteq {"tx", "rx"} /\ woken \subseteq {"tx", "rx"}
       /\ sent \in {"none", "ok", "err"}
<1>4. Rest'
  <2> USE DEF IInv, TypeOK, Bits
  <2>1. ASSUME Send PROVE Rest'
    BY <2>1 DEF Send, CloseTx, TxFree, RxIsWoken
  <2>2. ASSUME SendErr PROVE Rest'
    BY <2>2 DEF SendErr, CloseTx, TxFree, RxIsWoken
  <2>3. ASSUME DropSender PROVE Rest'
    BY <2>3 DEF DropSender, CloseTx, TxFree, RxIsWoken
  <2>4. ASSUME ClosedReady PROVE Rest'
    BY <2>4 DEF ClosedReady, TxFree
  <2>5. ASSUME NEW w \in Wakers, ClosedPending(w) PROVE Rest'
    BY <2>5 DEF ClosedPending, TxFree, ReceiverIsOpen
  <2>6. ASSUME PollValue PROVE Rest'
    BY <2>6 DEF PollValue, Take, PollReady, RxFree
  <2>7. ASSUME PollErr PROVE Rest'
    BY <2>7 DEF PollErr, PollReady, RxFree
  <2>8. ASSUME NEW w \in Wakers, PollPending(w) PROVE Rest'
    BY <2>8 DEF PollPending, StoreRx, RxFree, Empty
  <2>9. ASSUME Close PROVE Rest'
    BY <2>9 DEF Close, CloseRx, RxFree, TxIsWoken
  <2>10. ASSUME DropReceiver PROVE Rest'
    BY <2>10 DEF DropReceiver, CloseRx, RxFree, TxIsWoken
  <2>11. ASSUME CloseReturns PROVE Rest'
    BY <2>11 DEF CloseReturns
  <2>12. ASSUME Release("tx", "dropTx", "rx") PROVE Rest'
    BY <2>12 DEF Release, DropInner
  <2>13. ASSUME Release("rx", "dropRx", "tx") PROVE Rest'
    BY <2>13 DEF Release, DropInner
  <2>14. ASSUME UNCHANGED vars PROVE Rest'
    BY <2>14 DEF vars
  <2> QED
    BY <2>1, <2>2, <2>3, <2>4, <2>5, <2>6, <2>7, <2>8, <2>9, <2>10, <2>11, <2>12, <2>13,
       <2>14
    DEF Next, PollRecv, Return
<1> QED
  BY <1>2, <1>3, <1>4 DEF TypeOK

\* Initially no half has begun anything.
LEMMA InitInv ==
  ASSUME LocalOneshotAssumption, Init
  PROVE  IInv
<1>1. << >> \in Stacks /\ \A c : ~Contains(<< >>, c)
  BY DEF Stacks, Contains
<1> QED
  BY <1>1 DEF Init, IInv, TypeOK, Halves, CellHolds, CellsHoldWakers, AwaitersRegistered,
     NoLostWakeup, Freed, Held, Empty, Bits, LocalOneshotAssumption

-----------------------------------------------------------------------------
\* IInv holds in every state.
THEOREM LocalOneshotInvariant == Spec => []IInv
<1>1. Init => IInv
  BY InitInv, LocalOneshotAssumption
<1>2. IInv /\ [Next]_vars => IInv'
  BY LocalOneshotAssumption, TypeStep, HalvesStep, CellStep, WakersStep, AwaitStep DEF IInv
<1> QED BY <1>1, <1>2, PTL DEF Spec

\* Every variable has its type, for any set of wakers; at most one call of each half
\* is inside its wake.
THEOREM LocalOneshotTypes == Spec => []TypeOK
<1>1. IInv => TypeOK
  BY DEF IInv
<1> QED BY <1>1, LocalOneshotInvariant, PTL

\* The init bits tell which cells hold a waker, until Inner is dropped with the last.
THEOREM LocalOneshotWakers == Spec => []WakersHeld
<1>1. IInv => WakersHeld
  <2> SUFFICES ASSUME IInv PROVE WakersHeld
    OBVIOUS
  <2> DEFINE held == {c \in {"TX_WAKER_INIT", "RX_WAKER_INIT"} :
                       (IF c = "TX_WAKER_INIT" THEN txWaker ELSE rxWaker) # NoWaker}
  <2>1. /\ "TX_WAKER_INIT" \in held <=> txWaker # NoWaker
        /\ "RX_WAKER_INIT" \in held <=> rxWaker # NoWaker
        /\ held \intersect {"TX_WAKER_INIT", "RX_WAKER_INIT"} = held
    OBVIOUS
  <2>2. held = IF Freed THEN {} ELSE state \intersect {"TX_WAKER_INIT", "RX_WAKER_INIT"}
    BY <2>1 DEF IInv, CellsHoldWakers
  <2> HIDE DEF held
  <2>3. Cardinality(held) = (IF txWaker # NoWaker THEN 1 ELSE 0)
                            + (IF rxWaker # NoWaker THEN 1 ELSE 0)
    BY <2>1, InitBits
  <2>4. live = Cardinality(held)
    BY <2>3 DEF IInv, CellsHoldWakers, Held
  <2> QED BY <2>2, <2>4 DEF WakersHeld, held
<1> QED BY <1>1, LocalOneshotInvariant, PTL

\* A value is moved out or dropped at most once, and exactly once if it was sent and
\* both halves are gone.
THEOREM LocalOneshotUsesOnce == Spec => []ValueUsedOnce
<1>1. IInv => ValueUsedOnce
  BY DEF IInv, TypeOK, CellHolds, ValueUsedOnce, Freed
<1> QED BY <1>1, LocalOneshotInvariant, PTL

\* A task that awaits a half is awake once there is something to see.
THEOREM LocalOneshotWakes == Spec => []NoLostWakeup
<1>1. IInv => NoLostWakeup
  BY DEF IInv
<1> QED BY <1>1, LocalOneshotInvariant, PTL

-----------------------------------------------------------------------------
\* While a wake runs, the waker in its cell is neither dropped nor replaced: a poll
\* that would replace it finds the bit of the half that wakes, and Inner is dropped
\* only outside of all calls.
LEMMA WakerStaysStep ==
  ASSUME IInv, [Next]_vars
  PROVE  /\ Contains(calls, "dropTx") /\ Contains(calls', "dropTx") => rxWaker' = rxWaker
         /\ \A c \in {"dropRx", "close"} :
              Contains(calls, c) /\ Contains(calls', c) => txWaker' = txWaker
<1> DEFINE Same == rxWaker' = rxWaker /\ txWaker' = txWaker
<1>1. ASSUME Send \/ SendErr \/ DropSender \/ ClosedReady PROVE Same
  BY <1>1 DEF Send, SendErr, DropSender, CloseTx, ClosedReady
<1>2. ASSUME NEW w \in Wakers, ClosedPending(w)
      PROVE  /\ rxWaker' = rxWaker
             /\ ~Contains(calls, "dropRx") /\ ~Contains(calls, "close")
  BY <1>2 DEF ClosedPending, ReceiverIsOpen, IInv, Halves
<1>3. ASSUME PollValue \/ PollErr \/ Close \/ DropReceiver PROVE Same
  BY <1>3 DEF PollValue, PollErr, PollReady, Close, DropReceiver, CloseRx
<1>4. ASSUME NEW w \in Wakers, PollPending(w)
      PROVE  txWaker' = txWaker /\ ~Contains(calls, "dropTx")
  BY <1>4 DEF PollPending, Empty, IInv, Halves
<1>5. ASSUME CloseReturns PROVE Same
  BY <1>5 DEF CloseReturns
<1>6. ASSUME NEW half \in {"tx", "rx"}, NEW other \in {"tx", "rx"}, other # half,
             NEW call \in {"dropTx", "dropRx"}, call = "dropTx" <=> half = "tx",
             Release(half, call, other)
      PROVE  Same \/ \A c : ~Contains(calls', c)
  <2>1. CASE other \in gone
    <3>1. calls' = << >>
      BY <1>6, <2>1, Released
    <3> QED BY <3>1 DEF Contains
  <2>2. CASE other \notin gone
    BY <1>6, <2>2 DEF Release
  <2> QED BY <2>1, <2>2
<1>7. ASSUME UNCHANGED vars PROVE Same
  BY <1>7 DEF vars
<1> QED
  BY <1>1, <1>2, <1>3, <1>4, <1>5, <1>6, <1>7 DEF Next, PollRecv, Return

\* A wake by reference never has its waker replaced or dropped under it.
THEOREM LocalOneshotWakerStays == Spec => WokenWakerStays
<1>1. IInv /\ [Next]_vars =>
        [/\ Contains(calls, "dropTx") /\ Contains(calls', "dropTx") => rxWaker' = rxWaker
         /\ \A c \in {"dropRx", "close"} :
              Contains(calls, c) /\ Contains(calls', c) => txWaker' = txWaker]_vars
  BY WakerStaysStep
<1> QED BY <1>1, LocalOneshotInvariant, PTL DEF Spec, WokenWakerStays

-----------------------------------------------------------------------------
\* Every step is a step of OneshotSpec or changes nothing that it speaks of.
LEMMA AbsStep ==
  ASSUME LocalOneshotAssumption, IInv, [Next]_vars
  PROVE  [Abs!Next]_(Abs!vars)
<1> USE DEF IInv, TypeOK, Halves, CellHolds, AwaitersRegistered, LocalOneshotAssumption
<1>1. ASSUME Send PROVE Abs!Send
  BY <1>1, CallsAfter DEF Send, CloseTx, TxFree, RxIsWoken, Abs!Send, Abs!Leave
<1>2. ASSUME SendErr PROVE Abs!Refuse
  BY <1>2, CallsAfter DEF SendErr, CloseTx, TxFree, RxIsWoken, Abs!Refuse, Abs!Leave
<1>3. ASSUME DropSender PROVE Abs!DropSender
  BY <1>3, CallsAfter DEF DropSender, CloseTx, TxFree, RxIsWoken, Abs!DropSender,
     Abs!Leave
<1>4. ASSUME ClosedReady PROVE Abs!SeeReceiverClosed
  BY <1>4 DEF ClosedReady, TxFree, Abs!SeeReceiverClosed, Abs!End
<1>5. ASSUME NEW w \in Wakers, ClosedPending(w) PROVE Abs!AwaitClose
  BY <1>5 DEF ClosedPending, TxFree, ReceiverIsOpen, Abs!AwaitClose, Abs!Wait
<1>6. ASSUME PollValue PROVE Abs!Receive
  <2>1. /\ cell = "Full" /\ cell' = "Moved" /\ rxCx' = NoWaker
        /\ UNCHANGED <<gone, calls, sent, txCx>>
        /\ "rx" \notin gone /\ ~Contains(calls, "dropRx")
    BY <1>6 DEF PollValue, Take, PollReady, RxFree, Freed
  <2>2. \A b \in Bits \ {"HAS_VALUE"} : b \in state' <=> b \in state
    BY <1>6 DEF PollValue, Take
  <2> QED BY <2>1, <2>2 DEF Bits, Abs!Receive, Abs!End
<1>7. ASSUME PollErr PROVE Abs!SeeClosed
  BY <1>7 DEF PollErr, PollReady, RxFree, Abs!SeeClosed, Abs!End
<1>8. ASSUME NEW w \in Wakers, PollPending(w) PROVE Abs!Await
  BY <1>8 DEF PollPending, StoreRx, RxFree, Empty, Abs!Await, Abs!Wait
<1>9. ASSUME Close PROVE Abs!Close
  BY <1>9, CallsAfter DEF Close, CloseRx, RxFree, TxIsWoken, Abs!Close
<1>10. ASSUME DropReceiver PROVE Abs!DropReceiver
  BY <1>10, CallsAfter DEF DropReceiver, CloseRx, RxFree, TxIsWoken, Abs!DropReceiver
<1>11. ASSUME CloseReturns PROVE UNCHANGED Abs!vars
  BY <1>11, CallsAfter DEF CloseReturns, Abs!vars
<1>12. ASSUME Release("tx", "dropTx", "rx")
      PROVE  Abs!Discard \/ UNCHANGED Abs!vars
  <2>1. CASE "rx" \in gone /\ "HAS_VALUE" \in state
    BY <1>12, <2>1, Released DEF Release, DropInner, Freed, Abs!Discard
  <2>2. CASE ~("rx" \in gone /\ "HAS_VALUE" \in state)
    BY <1>12, <2>2, Released DEF Release, DropInner, Freed, Abs!vars
  <2> QED BY <2>1, <2>2
<1>13. ASSUME Release("rx", "dropRx", "tx")
      PROVE  Abs!Discard \/ UNCHANGED Abs!vars
  <2>1. CASE "tx" \in gone /\ "HAS_VALUE" \in state
    BY <1>13, <2>1, Released DEF Release, DropInner, Freed, Abs!Discard
  <2>2. CASE ~("tx" \in gone /\ "HAS_VALUE" \in state)
    BY <1>13, <2>2, Released DEF Release, DropInner, Freed, Abs!vars
  <2> QED BY <2>1, <2>2
<1>14. ASSUME UNCHANGED vars PROVE UNCHANGED Abs!vars
  BY <1>14 DEF vars, Abs!vars
<1> QED
  BY <1>1, <1>2, <1>3, <1>4, <1>5, <1>6, <1>7, <1>8, <1>9, <1>10, <1>11, <1>12, <1>13,
     <1>14
  DEF Next, PollRecv, Return, Abs!Next

\* The bits and cells keep the promise of OneshotSpec; its liveness is left to TLC.
THEOREM LocalOneshotImplements == Spec => Abs!Safety
<1>1. Init => Abs!Init
  <2> SUFFICES ASSUME Init PROVE Abs!Init
    OBVIOUS
  <2>1. ~Contains(calls, "dropRx")
    BY DEF Init, Contains
  <2> QED BY <2>1 DEF Init, Abs!Init
<1>2. IInv /\ [Next]_vars => [Abs!Next]_(Abs!vars)
  BY LocalOneshotAssumption, AbsStep
<1> QED BY <1>1, <1>2, LocalOneshotInvariant, PTL DEF Spec, Abs!Safety

=============================================================================
