---------------------------- MODULE NotifyProofs ----------------------------
(***************************************************************************)
(* The safety of Notify for any number of futures, wakers, threads and     *)
(* calls.  IInv (in Notify) is inductive; its parts are proved one by one, *)
(* each by cases on the action.                                            *)
(***************************************************************************)
EXTENDS Notify, WaitListLemmas

\* The disjuncts of Next, one case each.
LEMMA NextCases ==
  ASSUME Next, NEW P,
         NotifyFront => P,
         NotifyStore => P,
         \A t \in Threads : NotifyAllStore(t) => P,
         \A t \in Threads : NotifyAllLock(t) => P,
         \A f \in Futures : NewNotified(f) => P,
         \A f \in Futures : PollInitReady(f) => P,
         \A f \in Futures, w \in Wakers : PollInitPending(f, w) => P,
         \A f \in Futures : PollNotified(f) => P,
         \A f \in Futures, w \in Wakers : PollPending(f, w) => P,
         \A f \in Futures : PollDone(f) => P,
         \A f \in Futures : Drop(f) => P,
         \A f \in Futures : Leak(f) => P
  PROVE  P
BY DEF Next, Poll

\* What the list is after a pending future is unlinked.
LEMMA Unlinked ==
  ASSUME IInv, NEW f \in Futures, fut[f] = "Pending"
  PROVE  /\ f \in ToSet(waiters)
         /\ RemoveFirst(waiters, f) \in Seq(Futures)
         /\ IsInjective(RemoveFirst(waiters, f))
         /\ ToSet(RemoveFirst(waiters, f)) = LinkedFutures \ {f}
BY RemoveFirstContents DEF IInv, TypeOK, QueuedIffPending, LinkedFutures

\* What it is after a new one is linked.
LEMMA Linked ==
  ASSUME IInv, NEW f \in Futures, fut[f] = "Init"
  PROVE  /\ Append(waiters, f) \in Seq(Futures)
         /\ IsInjective(Append(waiters, f))
         /\ ToSet(Append(waiters, f)) = LinkedFutures \union {f}
         /\ Len(Append(waiters, f)) = Len(waiters) + 1
         /\ \A i \in 1..Len(waiters) : Append(waiters, f)[i] = waiters[i]
         /\ Append(waiters, f)[Len(waiters) + 1] = f
BY AppendContents DEF IInv, TypeOK, QueuedIffPending, LinkedFutures

-----------------------------------------------------------------------------
LEMMA TypeStep ==
  ASSUME NotifyAssumption, IInv, [Next]_vars
  PROVE  TypeOK'
<1> USE DEF TypeOK, FutState
<1>0. TypeOK
  BY DEF IInv
<1>1. ASSUME NotifyFront PROVE TypeOK'
  <2>1. Head(waiters) \in Futures
    BY <1>0, <1>1, HeadTailProperties DEF NotifyFront
  <2>2. ones' \in 0..MaxOnes
    BY <1>0, <1>1, NotifyAssumption DEF NotifyFront, NotifyAssumption
  <2> QED BY <1>0, <1>1, <2>1, <2>2 DEF NotifyFront, Wake
<1>2. ASSUME NotifyStore PROVE TypeOK'
  BY <1>0, <1>2, NotifyAssumption DEF NotifyStore, NotifyAssumption
<1>3. ASSUME NEW t \in Threads, NotifyAllStore(t) PROVE TypeOK'
  BY <1>0, <1>3 DEF NotifyAllStore
<1>4. ASSUME NEW t \in Threads, NotifyAllLock(t) PROVE TypeOK'
  <2>1. ToSet(waiters) \subseteq Futures
    BY <1>0, LenProperties DEF ToSet
  <2> QED BY <1>0, <1>4, <2>1 DEF NotifyAllLock, Wake
<1>5. ASSUME NEW f \in Futures, NewNotified(f) PROVE TypeOK'
  BY <1>0, <1>5 DEF NewNotified
<1>6. ASSUME NEW f \in Futures, PollInitReady(f) PROVE TypeOK'
  BY <1>0, <1>6 DEF PollInitReady
<1>7. ASSUME NEW f \in Futures, NEW w \in Wakers, PollInitPending(f, w) PROVE TypeOK'
  <2>1. waiters' \in Seq(Futures)
    BY <1>7, Linked DEF PollInitPending
  <2> QED BY <1>0, <1>7, <2>1 DEF PollInitPending
<1>8. ASSUME NEW f \in Futures, PollNotified(f) PROVE TypeOK'
  <2>1. waiters' \in Seq(Futures)
    BY <1>8, Unlinked DEF PollNotified
  <2> QED BY <1>0, <1>8, <2>1 DEF PollNotified
<1>9. ASSUME NEW f \in Futures, NEW w \in Wakers, PollPending(f, w) PROVE TypeOK'
  BY <1>0, <1>9 DEF PollPending
<1>10. ASSUME NEW f \in Futures, Drop(f) PROVE TypeOK'
  <2>1. waiters' \in Seq(Futures)
    BY <1>0, <1>10, Unlinked DEF Drop
  <2> QED BY <1>0, <1>10, <2>1 DEF Drop
<1>11. ASSUME UNCHANGED vars PROVE TypeOK'
  BY <1>0, <1>11 DEF vars
<1>12. ASSUME NEW f \in Futures, Leak(f) PROVE TypeOK'
  BY <1>0, <1>12 DEF Leak
<1> QED
  BY <1>1, <1>2, <1>3, <1>4, <1>5, <1>6, <1>7, <1>8, <1>9, <1>10, <1>11, <1>12, NextCases
  DEF PollDone

\* The list and the futures that are linked change together: the same future enters
\* or leaves both.
LEMMA QueueStep ==
  ASSUME NotifyAssumption, IInv, [Next]_vars
  PROVE  QueuedIffPending'
<1> DEFINE Same == waiters' = waiters /\ LinkedFutures' = LinkedFutures
<1>0. TypeOK /\ QueuedIffPending
  BY DEF IInv
<1>1. ASSUME Same PROVE QueuedIffPending'
  BY <1>0, <1>1 DEF QueuedIffPending
<1>2. NotifyFront => Same
  BY DEF NotifyFront, LinkedFutures
<1>3. NotifyStore => Same
  BY DEF NotifyStore, LinkedFutures
<1>4. \A t \in Threads : NotifyAllStore(t) => Same
  BY DEF NotifyAllStore, LinkedFutures
<1>5. \A t \in Threads : NotifyAllLock(t) => Same
  BY DEF NotifyAllLock, LinkedFutures
<1>6. \A f \in Futures : NewNotified(f) => Same
  BY <1>0 DEF NewNotified, LinkedFutures, TypeOK
<1>7. \A f \in Futures : PollInitReady(f) => Same
  BY <1>0 DEF PollInitReady, LinkedFutures, TypeOK
<1>8. \A f \in Futures, w \in Wakers : PollPending(f, w) => Same
  BY DEF PollPending, LinkedFutures
<1>9. \A f \in Futures : PollDone(f) => Same
  BY DEF PollDone, vars, LinkedFutures
<1>10. UNCHANGED vars => Same
  BY DEF vars, LinkedFutures
<1>11. ASSUME NEW f \in Futures, NEW w \in Wakers, PollInitPending(f, w)
       PROVE  QueuedIffPending'
  <2>1. LinkedFutures' = LinkedFutures \union {f}
    BY <1>0, <1>11 DEF PollInitPending, LinkedFutures, TypeOK
  <2>2. fut[f] = "Init"
    BY <1>11 DEF PollInitPending
  <2>3. waiters' = Append(waiters, f)
    BY <1>11 DEF PollInitPending
  <2> QED BY <2>1, <2>2, <2>3, Linked DEF QueuedIffPending
<1>12. ASSUME NEW f \in Futures, PollNotified(f)
       PROVE  QueuedIffPending'
  <2>1. LinkedFutures' = LinkedFutures \ {f}
    BY <1>0, <1>12 DEF PollNotified, LinkedFutures, TypeOK
  <2>2. fut[f] = "Pending" /\ waiters' = RemoveFirst(waiters, f)
    BY <1>12 DEF PollNotified
  <2> QED BY <2>1, <2>2, Unlinked DEF QueuedIffPending
<1>13. ASSUME NEW f \in Futures, Drop(f)
       PROVE  QueuedIffPending'
  <2>1. LinkedFutures' = LinkedFutures \ {f}
    BY <1>0, <1>13 DEF Drop, LinkedFutures, TypeOK
  <2>2. CASE fut[f] = "Pending"
    <3>1. waiters' = RemoveFirst(waiters, f)
      BY <1>13, <2>2 DEF Drop
    <3> QED BY <2>1, <2>2, <3>1, Unlinked DEF QueuedIffPending
  <2>3. CASE fut[f] # "Pending"
    <3>1. waiters' = waiters /\ LinkedFutures \ {f} = LinkedFutures
      BY <1>13, <2>3 DEF Drop, LinkedFutures
    <3> QED BY <1>1, <2>1, <3>1
  <2> QED BY <2>2, <2>3
<1>14. \A f \in Futures : Leak(f) => Same
  BY <1>0 DEF Leak, LinkedFutures, TypeOK
<1> QED
  BY <1>1, <1>2, <1>3, <1>4, <1>5, <1>6, <1>7, <1>8, <1>9, <1>10, <1>11, <1>12,
     <1>13, <1>14, NextCases

\* A notification is stored only by a notify_one that finds the list empty, and
\* the list grows only when a poll finds none stored.
LEMMA StoredStep ==
  ASSUME NotifyAssumption, IInv, [Next]_vars
  PROVE  StoredOnlyWhenIdle'
<1> DEFINE Safe == state' = 0 \/ waiters' = << >> \/ (state' = state /\ waiters' = waiters)
<1>0. TypeOK /\ QueuedIffPending /\ StoredOnlyWhenIdle
  BY DEF IInv
<1>1. ASSUME Safe PROVE StoredOnlyWhenIdle'
  BY <1>0, <1>1 DEF StoredOnlyWhenIdle
<1>2. NotifyFront => Safe
  BY DEF NotifyFront
<1>3. NotifyStore => Safe
  BY DEF NotifyStore
<1>4. \A t \in Threads : NotifyAllStore(t) => Safe
  BY DEF NotifyAllStore
<1>5. \A t \in Threads : NotifyAllLock(t) => Safe
  BY DEF NotifyAllLock
<1>6. \A f \in Futures : NewNotified(f) => Safe
  BY DEF NewNotified
<1>7. \A f \in Futures : PollInitReady(f) => Safe
  BY DEF PollInitReady
<1>8. \A f \in Futures, w \in Wakers : PollInitPending(f, w) => Safe
  BY <1>0 DEF PollInitPending, TypeOK
<1>9. \A f \in Futures, w \in Wakers : PollPending(f, w) => Safe
  BY DEF PollPending
<1>10. \A f \in Futures : PollDone(f) => Safe
  BY DEF PollDone, vars
<1>11. UNCHANGED vars => Safe
  BY DEF vars
<1>12. ASSUME NEW f \in Futures, fut[f] = "Pending" PROVE state = 0
  <2>1. f \in ToSet(waiters)
    BY <1>12, Unlinked
  <2>2. waiters # << >>
    BY <2>1 DEF ToSet
  <2> QED BY <1>0, <2>2 DEF StoredOnlyWhenIdle, TypeOK
<1>13. \A f \in Futures : PollNotified(f) => Safe
  BY <1>12 DEF PollNotified
<1>14. \A f \in Futures : Drop(f) => Safe
  BY <1>12 DEF Drop
<1>15. \A f \in Futures : Leak(f) => Safe
  BY DEF Leak
<1> QED
  BY <1>1, <1>2, <1>3, <1>4, <1>5, <1>6, <1>7, <1>8, <1>9, <1>10, <1>11, <1>13,
     <1>14, <1>15, NextCases

\* The front part that is notified stays a front part: when an element leaves,
\* those behind it keep their order.
LEMMA PrefixStep ==
  ASSUME NotifyAssumption, IInv, [Next]_vars
  PROVE  NotifiedPrefix'
<1> DEFINE Same == waiters' = waiters /\ notified' = notified
<1>0. TypeOK /\ QueuedIffPending /\ NotifiedPrefix /\ NotifiedWasLinked
  BY DEF IInv
<1>a. Len(waiters) \in Nat /\ DOMAIN waiters = 1..Len(waiters)
  BY <1>0, LenProperties DEF TypeOK
<1>1. ASSUME Same PROVE NotifiedPrefix'
  BY <1>0, <1>1 DEF NotifiedPrefix
<1>2. ASSUME NotifyFront PROVE NotifiedPrefix'
  <2>1. waiters' = waiters /\ notified' = notified \union {waiters[1]} /\ 1 \in 1..Len(waiters)
    BY <1>0, <1>2, FrontIsLinked DEF NotifyFront, TypeOK
  <2>2. \A j \in 1..Len(waiters) : waiters[j] = waiters[1] => j = 1
    BY <1>0, <1>a, <2>1 DEF QueuedIffPending, IsInjective
  <2> QED BY <1>0, <1>a, <2>1, <2>2 DEF NotifiedPrefix
<1>3. ASSUME NEW t \in Threads, NotifyAllLock(t) PROVE NotifiedPrefix'
  BY <1>a, <1>3 DEF NotifyAllLock, NotifiedPrefix, ToSet
<1>4. ASSUME NEW f \in Futures, NEW w \in Wakers, PollInitPending(f, w)
      PROVE  NotifiedPrefix'
  <2>1. f \notin notified /\ notified' = notified /\ waiters' = Append(waiters, f)
    BY <1>0, <1>4 DEF PollInitPending, NotifiedWasLinked
  <2>2. /\ waiters' \in Seq(Futures) /\ Len(waiters') = Len(waiters) + 1
        /\ \A i \in 1..Len(waiters) : waiters'[i] = waiters[i]
        /\ waiters'[Len(waiters) + 1] = f
    BY <1>4, <2>1, Linked DEF PollInitPending
  <2>3. DOMAIN waiters' = 1..(Len(waiters) + 1)
    BY <2>2, LenProperties
  <2>4. ASSUME NEW j \in 1..(Len(waiters) + 1), waiters'[j] \in notified, NEW i \in 1..j
        PROVE  waiters'[i] \in notified
    <3>1. j \in 1..Len(waiters)
      BY <1>a, <2>1, <2>2, <2>4
    <3> QED BY <1>0, <1>a, <2>2, <2>4, <3>1 DEF NotifiedPrefix
  <2> QED BY <2>1, <2>3, <2>4 DEF NotifiedPrefix
<1>5. ASSUME NEW f \in Futures, fut[f] = "Pending", waiters' = RemoveFirst(waiters, f),
             notified \ {f} \subseteq notified', notified' \subseteq notified
      PROVE  NotifiedPrefix'
  <2>1. /\ waiters' \in Seq(Futures) /\ f \in ToSet(waiters)
        /\ ToSet(waiters') = LinkedFutures \ {f}
    BY <1>5, Unlinked
  <2>2. PICK k \in 1..Len(waiters) :
             /\ Len(waiters') = Len(waiters) - 1
             /\ \A i \in 1..(Len(waiters) - 1) :
                  waiters'[i] = IF i < k THEN waiters[i] ELSE waiters[i + 1]
    <3>1. waiters \in Seq(Futures) /\ IsInjective(waiters)
      BY <1>0 DEF TypeOK, QueuedIffPending
    <3>2. \E k \in 1..Len(waiters) :
            /\ waiters[k] = f
            /\ RemoveFirst(waiters, f) \in Seq(Futures)
            /\ Len(RemoveFirst(waiters, f)) = Len(waiters) - 1
            /\ \A i \in 1..(Len(waiters) - 1) :
                 RemoveFirst(waiters, f)[i] = IF i < k THEN waiters[i] ELSE waiters[i + 1]
      BY <2>1, <3>1, RemoveFirstShape
    <3> QED BY <1>5, <3>2
  <2>3. DOMAIN waiters' = 1..(Len(waiters) - 1)
    BY <2>1, <2>2, LenProperties
  <2>4. \A i \in 1..(Len(waiters) - 1) : waiters'[i] # f
    BY <2>1, <2>3 DEF ToSet
  <2>5. ASSUME NEW j \in 1..(Len(waiters) - 1), waiters'[j] \in notified',
               NEW i \in 1..j
        PROVE  waiters'[i] \in notified'
    <3> DEFINE at(n) == IF n < k THEN n ELSE n + 1
    <3>1. /\ at(j) \in 1..Len(waiters) /\ at(i) \in 1..at(j)
          /\ i \in 1..(Len(waiters) - 1)
      BY <1>a
    <3>2. waiters'[j] = waiters[at(j)] /\ waiters'[i] = waiters[at(i)]
      BY <2>2, <3>1
    <3>3. waiters[at(j)] \in notified
      BY <1>5, <2>5, <3>2
    <3>4. waiters[at(i)] \in notified
      BY <1>0, <1>a, <3>1, <3>3 DEF NotifiedPrefix
    <3> QED BY <1>5, <2>4, <3>1, <3>2, <3>4
  <2> QED BY <2>3, <2>5 DEF NotifiedPrefix
<1>6. \A f \in Futures : PollNotified(f) => NotifiedPrefix'
  BY <1>5 DEF PollNotified
<1>7. ASSUME NEW f \in Futures, Drop(f) PROVE NotifiedPrefix'
  <2>1. CASE fut[f] = "Pending"
    BY <1>5, <1>7, <2>1 DEF Drop
  <2>2. CASE fut[f] # "Pending"
    <3>1. waiters' = waiters /\ notified' = notified \ {f}
      BY <1>7, <2>2 DEF Drop
    <3>2. \A i \in 1..Len(waiters) : waiters[i] # f
      BY <1>0, <1>a, <1>7, <2>2 DEF Drop, QueuedIffPending, LinkedFutures, ToSet
    <3> QED BY <1>0, <1>a, <3>1, <3>2 DEF NotifiedPrefix
  <2> QED BY <2>1, <2>2
<1>8. NotifyStore => Same
  BY DEF NotifyStore
<1>9. \A t \in Threads : NotifyAllStore(t) => Same
  BY DEF NotifyAllStore
<1>10. \A f \in Futures : NewNotified(f) => Same
  BY DEF NewNotified
<1>11. \A f \in Futures : PollInitReady(f) => Same
  BY DEF PollInitReady
<1>12. \A f \in Futures, w \in Wakers : PollPending(f, w) => Same
  BY DEF PollPending
<1>13. \A f \in Futures : PollDone(f) => Same
  BY DEF PollDone, vars
<1>14. UNCHANGED vars => Same
  BY DEF vars
<1>15. \A f \in Futures : Leak(f) => Same
  BY DEF Leak
<1> QED
  BY <1>1, <1>2, <1>3, <1>4, <1>6, <1>7, <1>8, <1>9, <1>10, <1>11, <1>12, <1>13,
     <1>14, <1>15, NextCases

\* A notified waiter was woken through the waker of the task that awaits it, and
\* that task polls it (and ends the wait) or drops it before it is forgotten.
LEMMA WakeStep ==
  ASSUME NotifyAssumption, IInv, [Next]_vars
  PROVE  NoLostWakeup' /\ NotifiedWasLinked' /\ WakerIsCurrent'
<1> DEFINE Goal == NoLostWakeup' /\ NotifiedWasLinked' /\ WakerIsCurrent'
<1> USE DEF PendingFutures, LinkedFutures, FutState
<1>0. /\ TypeOK /\ QueuedIffPending
      /\ NoLostWakeup /\ NotifiedWasLinked /\ WakerIsCurrent
  BY DEF IInv
<1>1. ASSUME NEW F, F \subseteq LinkedFutures, notified' = notified \union F, Wake(F),
             UNCHANGED <<fut, waker, cx>>
      PROVE  Goal
  BY <1>0, <1>1 DEF Wake, NoLostWakeup, NotifiedWasLinked, WakerIsCurrent
<1>2. ASSUME NotifyFront PROVE Goal
  <2>1. Head(waiters) \in LinkedFutures
    BY <1>0, <1>2, FrontIsLinked DEF NotifyFront, TypeOK, QueuedIffPending
  <2> QED BY <1>1, <1>2, <2>1 DEF NotifyFront
<1>3. ASSUME NEW t \in Threads, NotifyAllLock(t) PROVE Goal
  BY <1>0, <1>1, <1>3 DEF NotifyAllLock, QueuedIffPending
<1>4. ASSUME UNCHANGED <<fut, notified, waker, cx, woken>> PROVE Goal
  BY <1>0, <1>4 DEF NoLostWakeup, NotifiedWasLinked, WakerIsCurrent
<1>5. NotifyStore => Goal
  BY <1>4 DEF NotifyStore
<1>6. \A t \in Threads : NotifyAllStore(t) => Goal
  BY <1>4 DEF NotifyAllStore
<1>7. \A f \in Futures : PollDone(f) => Goal
  BY <1>4 DEF PollDone, vars
<1>8. UNCHANGED vars => Goal
  BY <1>4 DEF vars
<1>9. ASSUME NEW f \in Futures, NewNotified(f) PROVE Goal
  BY <1>0, <1>9 DEF NewNotified, TypeOK, NoLostWakeup, NotifiedWasLinked, WakerIsCurrent
<1>10. ASSUME NEW f \in Futures, PollInitReady(f) PROVE Goal
  BY <1>0, <1>10 DEF PollInitReady, TypeOK, NoLostWakeup, NotifiedWasLinked, WakerIsCurrent
<1>11. ASSUME NEW f \in Futures, NEW w \in Wakers, PollInitPending(f, w) PROVE Goal
  <2>1. w # NoWaker /\ f \notin notified
    BY <1>0, <1>11 DEF NotifyAssumption, PollInitPending, NotifiedWasLinked
  <2> QED
    BY <1>0, <1>11, <2>1
    DEF PollInitPending, TypeOK, NoLostWakeup, NotifiedWasLinked, WakerIsCurrent
<1>12. ASSUME NEW f \in Futures, PollNotified(f) PROVE Goal
  BY <1>0, <1>12 DEF PollNotified, TypeOK, NoLostWakeup, NotifiedWasLinked, WakerIsCurrent
<1>13. ASSUME NEW f \in Futures, NEW w \in Wakers, PollPending(f, w) PROVE Goal
  <2>1. w # NoWaker
    BY DEF NotifyAssumption
  <2> QED
    BY <1>0, <1>13, <2>1
    DEF PollPending, TypeOK, NoLostWakeup, NotifiedWasLinked, WakerIsCurrent
<1>14. ASSUME NEW f \in Futures, Drop(f) PROVE Goal
  BY <1>0, <1>14 DEF Drop, TypeOK, NoLostWakeup, NotifiedWasLinked, WakerIsCurrent
<1>15. ASSUME NEW f \in Futures, Leak(f) PROVE Goal
  BY <1>0, <1>15 DEF Leak, TypeOK, NoLostWakeup, NotifiedWasLinked, WakerIsCurrent
<1> QED
  BY <1>2, <1>3, <1>5, <1>6, <1>7, <1>8, <1>9, <1>10, <1>11, <1>12, <1>13, <1>14,
     <1>15, NextCases

-----------------------------------------------------------------------------
LEMMA InitInv ==
  ASSUME NotifyAssumption, Init
  PROVE  IInv
<1>1. TypeOK
  BY EmptySeq DEF NotifyAssumption, Init, TypeOK, FutState
<1>2. QueuedIffPending /\ StoredOnlyWhenIdle /\ NotifiedPrefix
  BY DEF Init, QueuedIffPending, StoredOnlyWhenIdle, NotifiedPrefix, LinkedFutures,
         IsInjective, ToSet
<1>3. NoLostWakeup /\ NotifiedWasLinked /\ WakerIsCurrent
  BY DEF Init, NoLostWakeup, NotifiedWasLinked, WakerIsCurrent, PendingFutures
<1> QED BY <1>1, <1>2, <1>3 DEF IInv

\* The inductive invariant: whatever interleaving of polls, drops, notify_one and
\* notify_all the threads of a Notify go through, all its parts hold.
THEOREM NotifyInvariant == Spec => []IInv
<1>1. Init => IInv
  BY InitInv, NotifyAssumption
<1>2. IInv /\ [Next]_vars => IInv'
  BY TypeStep, QueueStep, StoredStep, PrefixStep, WakeStep, NotifyAssumption DEF IInv
<1> QED BY <1>1, <1>2, PTL DEF Spec

\* Type correctness of the state of a Notify (notify.rs:41-47, 117-124).
THEOREM NotifyTypes == Spec => []TypeOK
<1>1. IInv => TypeOK
  BY DEF IInv
<1> QED BY <1>1, NotifyInvariant, PTL

\* The unsafe contract of the wait list: it links exactly the futures that are
\* pending or were leaked pending, each once, so that poll and drop remove what is in it and nothing dangles.
THEOREM NotifyListSound == Spec => []QueuedIffPending
<1>1. IInv => QueuedIffPending
  BY DEF IInv
<1> QED BY <1>1, NotifyInvariant, PTL

\* No notification is stored while a task waits.
THEOREM NotifyStoredIdle == Spec => []StoredOnlyWhenIdle
<1>1. IInv => StoredOnlyWhenIdle
  BY DEF IInv
<1> QED BY <1>1, NotifyInvariant, PTL

\* Notifications reach waiters in the order in which they were linked.
THEOREM NotifyInOrder == Spec => []NotifiedPrefix
<1>1. IInv => NotifiedPrefix
  BY DEF IInv
<1> QED BY <1>1, NotifyInvariant, PTL

\* No wakeup is lost: the task of every notified waiter has been woken.
THEOREM NotifyWakes == Spec => []NoLostWakeup
<1>1. IInv => NoLostWakeup
  BY DEF IInv
<1> QED BY <1>1, NotifyInvariant, PTL

-----------------------------------------------------------------------------
(* The refinement of NotifySpec: each action is a step of it or a stutter.  *)

LEMMA AbsStep ==
  ASSUME NotifyAssumption, IInv, [Next]_vars
  PROVE  [Abs!Next]_(Abs!vars)
<1> DEFINE Goal == [Abs!Next]_(Abs!vars)
           Frame == UNCHANGED <<state, ones, clearing>>
           Only(f, p) == \A g \in Futures : Phase(g)' = IF g = f THEN p ELSE Phase(g)
<1> USE DEF FutState
<1>0. /\ TypeOK /\ QueuedIffPending /\ StoredOnlyWhenIdle /\ NotifiedWasLinked
  BY DEF IInv
<1>1. ASSUME Frame, \A g \in Futures : Phase(g)' = Phase(g) PROVE Goal
  BY <1>1 DEF Abs!vars
<1>2. ASSUME NEW f \in Futures, NEW p, Only(f, p)
      PROVE  [g \in Futures |-> Phase(g)]' = [[g \in Futures |-> Phase(g)] EXCEPT ![f] = p]
  BY <1>2
<1>3. ASSUME waiters = << >> PROVE LinkedFutures = {}
  BY <1>0, <1>3 DEF QueuedIffPending, ToSet
<1>4. ASSUME NotifyFront PROVE Goal
  <2> DEFINE h == Head(waiters)
  <2>1. h \in Futures /\ fut[h] \in {"Pending", "Leaked"}
    BY <1>0, <1>4, FrontIsLinked DEF NotifyFront, TypeOK, QueuedIffPending, LinkedFutures
  <2>2. CASE h \in notified \/ fut[h] = "Leaked"
    <3>1. \A g \in Futures : Phase(g)' = Phase(g)
      BY <1>4, <2>2 DEF NotifyFront, Phase
    <3>2. h \in Abs!In("Notified") \union Abs!In("Leaked")
      BY <2>1, <2>2 DEF Abs!In, Phase
    <3>3. Abs!NotifyOne
      BY <1>4, <3>1, <3>2 DEF NotifyFront, Abs!NotifyOne
    <3> QED BY <3>3 DEF Abs!Next
  <2>3. CASE h \notin notified /\ fut[h] = "Pending"
    <3>1. Only(h, "Notified") /\ Phase(h) = "Waiting"
      BY <1>4, <2>1, <2>3 DEF NotifyFront, Phase
    <3>2. Abs!Move(h, "Waiting", "Notified")
      BY <1>2, <2>1, <3>1 DEF Abs!Move
    <3>3. Abs!NotifyOne
      BY <1>4, <2>1, <3>2 DEF NotifyFront, Abs!NotifyOne
    <3> QED BY <3>3 DEF Abs!Next
  <2> QED BY <2>1, <2>2, <2>3
<1>5. ASSUME NotifyStore PROVE Goal
  <2>1. \A g \in Futures : Phase(g)' = Phase(g)
    BY <1>5 DEF NotifyStore, Phase
  <2>2. Abs!In("Notified") \union Abs!In("Waiting") \union Abs!In("Leaked") = {}
    BY <1>0, <1>3, <1>5 DEF NotifyStore, Abs!In, Phase, LinkedFutures, TypeOK
  <2>3. Abs!NotifyOne
    BY <1>5, <2>1, <2>2 DEF NotifyStore, Abs!NotifyOne
  <2> QED BY <2>3 DEF Abs!Next
<1>6. ASSUME NEW t \in Threads, NotifyAllStore(t) PROVE Goal
  <2>1. \A g \in Futures : Phase(g)' = Phase(g)
    BY <1>6 DEF NotifyAllStore, Phase
  <2>2. Abs!BeginAll(t)
    BY <1>0, <1>6, <2>1 DEF NotifyAllStore, Abs!BeginAll, TypeOK
  <2> QED BY <2>2 DEF Abs!Next
<1>7. ASSUME NEW t \in Threads, NotifyAllLock(t) PROVE Goal
  <2>1. \A g \in Futures :
          Phase(g)' = IF Phase(g) = "Waiting" THEN "Notified" ELSE Phase(g)
    BY <1>0, <1>7 DEF NotifyAllLock, Phase, QueuedIffPending, LinkedFutures, TypeOK
  <2>2. Abs!EndAll(t)
    BY <1>7, <2>1 DEF NotifyAllLock, Abs!EndAll
  <2> QED BY <2>2 DEF Abs!Next
<1>8. ASSUME NEW f \in Futures, NewNotified(f) PROVE Goal
  <2>1. Only(f, "Init") /\ Phase(f) = "None"
    BY <1>0, <1>8 DEF NewNotified, Phase, TypeOK
  <2>2. Abs!Create(f)
    BY <1>2, <1>8, <2>1 DEF NewNotified, Abs!Create, Abs!Move
  <2> QED BY <2>2 DEF Abs!Next
<1>9. ASSUME NEW f \in Futures, PollInitReady(f) PROVE Goal
  <2>1. Only(f, "Done") /\ Phase(f) = "Init"
    BY <1>0, <1>9 DEF PollInitReady, Phase, TypeOK
  <2>2. Abs!TakeToken(f)
    BY <1>2, <1>9, <2>1 DEF PollInitReady, Abs!TakeToken, Abs!Move
  <2> QED BY <2>2 DEF Abs!Next
<1>10. ASSUME NEW f \in Futures, NEW w \in Wakers, PollInitPending(f, w) PROVE Goal
  <2>1. f \notin notified
    BY <1>0, <1>10 DEF PollInitPending, NotifiedWasLinked
  <2>2. Only(f, "Waiting") /\ Phase(f) = "Init"
    BY <1>0, <1>10, <2>1 DEF PollInitPending, Phase, TypeOK
  <2>3. Abs!Wait(f)
    BY <1>2, <1>10, <2>2 DEF PollInitPending, Abs!Wait, Abs!Move
  <2> QED BY <2>3 DEF Abs!Next
<1>11. ASSUME NEW f \in Futures, PollNotified(f) PROVE Goal
  <2>1. Only(f, "Done") /\ Phase(f) = "Notified"
    BY <1>0, <1>11 DEF PollNotified, Phase, TypeOK
  <2>2. Abs!Finish(f)
    BY <1>2, <1>11, <2>1 DEF PollNotified, Abs!Finish, Abs!Move
  <2> QED BY <2>2 DEF Abs!Next
<1>12. ASSUME NEW f \in Futures, NEW w \in Wakers, PollPending(f, w) PROVE Goal
  BY <1>1, <1>12 DEF PollPending, Phase
<1>13. ASSUME NEW f \in Futures, Drop(f) PROVE Goal
  <2>1. Only(f, "None") /\ Phase(f) \notin {"None", "Leaked"}
    BY <1>0, <1>13 DEF Drop, Phase, TypeOK
  <2>2. Abs!Cancel(f)
    BY <1>2, <1>13, <2>1 DEF Drop, Abs!Cancel
  <2> QED BY <2>2 DEF Abs!Next
<1>14. ASSUME UNCHANGED vars PROVE Goal
  BY <1>1, <1>14 DEF vars, Phase
<1>15. ASSUME NEW f \in Futures, Leak(f) PROVE Goal
  <2>1. Only(f, "Leaked") /\ (Phase(f) = "Waiting" \/ Phase(f) = "Notified")
    BY <1>0, <1>15 DEF Leak, Phase, TypeOK
  <2>2. Abs!Leak(f)
    BY <1>2, <1>15, <2>1 DEF Leak, Abs!Leak, Abs!Move
  <2> QED BY <2>2 DEF Abs!Next
<1> QED
  BY <1>4, <1>5, <1>6, <1>7, <1>8, <1>9, <1>10, <1>11, <1>12, <1>13, <1>14, <1>15,
     NextCases DEF PollDone

\* The wait list, the lock and the wakers implement what NotifySpec promises of
\* safety, for every number of futures (the run `notify' adds its liveness).
THEOREM NotifyRefines == Spec => Abs!Safety
<1>1. Init => Abs!Init
  BY DEF Init, Abs!Init, Phase
<1>2. IInv /\ [Next]_vars => [Abs!Next]_(Abs!vars)
  BY AbsStep, NotifyAssumption
<1> QED BY <1>1, <1>2, NotifyInvariant, PTL DEF Spec, Abs!Safety
=============================================================================
