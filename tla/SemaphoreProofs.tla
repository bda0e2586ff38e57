-------------------------- MODULE SemaphoreProofs ---------------------------
(***************************************************************************)
(* The safety of Semaphore for any number of futures, wakers and threads,  *)
(* any permit sizes and any width of the counter.  IInv (in Semaphore) is  *)
(* inductive; its parts are proved one by one, each by cases on the action.*)
(***************************************************************************)
EXTENDS Semaphore, WaitListLemmas

\* The disjuncts of Next, one case each.
LEMMA NextCases ==
  ASSUME Next, NEW P,
         \A t \in Threads : AddWake(t) => P,
         \A t \in Threads, n \in Sizes : AddPermits(t, n) => P,
         \A t \in Threads, n \in PermitSizes : PermitDrop(t, n) => P,
         \A f \in Futures, n \in Sizes : Acquire(f, n) => P,
         \A f \in Futures : PollInitReady(f) => P,
         \A f \in Futures : PollWaitingReady(f) => P,
         \A f \in Futures : PollDone(f) => P,
         \A f \in Futures, w \in Wakers : PollInitPending(f, w) => P,
         \A f \in Futures, w \in Wakers : PollWaitingPending(f, w) => P,
         \A f \in Futures : DropAcquire(f) => P,
         \A n \in Sizes : TryAcquire(n) => P,
         \A n \in PermitSizes : Forget(n) => P
  PROVE  P
BY DEF Next, Poll

\* The list after a waiting future is unlinked.
LEMMA Unlinked ==
  ASSUME IInv, NEW f \in Futures, fut[f] = "Waiting"
  PROVE  /\ f \in ToSet(waiters)
         /\ RemoveFirst(waiters, f) \in Seq(Futures)
         /\ IsInjective(RemoveFirst(waiters, f))
         /\ ToSet(RemoveFirst(waiters, f)) = WaitingFutures \ {f}
BY RemoveFirstContents DEF IInv, TypeOK, QueuedIffWaiting, WaitingFutures

\* The list after a new one is linked.
LEMMA Linked ==
  ASSUME IInv, NEW f \in Futures, fut[f] # "Waiting"
  PROVE  /\ Append(waiters, f) \in Seq(Futures)
         /\ IsInjective(Append(waiters, f))
         /\ ToSet(Append(waiters, f)) = WaitingFutures \union {f}
         /\ Len(Append(waiters, f)) = Len(waiters) + 1
         /\ \A i \in 1..Len(waiters) : Append(waiters, f)[i] = waiters[i]
         /\ Append(waiters, f)[Len(waiters) + 1] = f
BY AppendContents DEF IInv, TypeOK, QueuedIffWaiting, WaitingFutures

\* The sizes of permits are numbers that the counter can hold.
LEMMA SizesFit ==
  ASSUME SemaphoreAssumption
  PROVE  /\ Modulus \in Nat /\ Modulus > 0
         /\ \A n \in PermitSizes : n \in Nat /\ n < Modulus
BY DEF SemaphoreAssumption, PermitSizes

\* The first waiter of a list that is not empty waits.
LEMMA FrontWaits ==
  ASSUME IInv, waiters # << >>
  PROVE  Head(waiters) \in WaitingFutures /\ Head(waiters) \in Futures
BY FrontIsLinked DEF IInv, TypeOK, QueuedIffWaiting, WaitingFutures

-----------------------------------------------------------------------------
\* The addition leaves the counter and the sum that the thread keeps in range.
LEMMA AdditionFits ==
  ASSUME SemaphoreAssumption, TypeOK, NEW t \in Threads, NEW n \in PermitSizes,
         AddFetch(t, n) \/ AddOverflow(t, n)
  PROVE  /\ permits' \in 0..(Modulus - 1)
         /\ snap' \in [Threads -> 0..(Modulus - 1)]
         /\ adding' \subseteq Threads
<1>1. Wrap(permits + n) \in 0..(Modulus - 1)
  BY SizesFit DEF TypeOK, Wrap
<1>2. CASE AddFetch(t, n)
  BY <1>1, <1>2 DEF TypeOK, AddFetch
<1>3. CASE AddOverflow(t, n)
  <2>1. permits' = Wrap(permits + n) /\ snap' = snap /\ adding' = adding
    BY <1>3 DEF AddOverflow, callVars
  <2> QED BY <1>1, <2>1 DEF TypeOK
<1> QED BY <1>2, <1>3

LEMMA TypeStep ==
  ASSUME SemaphoreAssumption, IInv, [Next]_vars
  PROVE  TypeOK'
<1> USE DEF TypeOK, FutState
<1>0. TypeOK
  BY DEF IInv
<1>a. ASSUME NEW n \in PermitSizes, Hold(n) PROVE held' \in [PermitSizes -> Nat]
  <2>1. IF n = 0 /\ held[n] >= MaxZero THEN held[n] \in Nat ELSE held[n] + 1 \in Nat
    BY <1>0, <1>a
  <2> QED BY <1>0, <1>a, <2>1 DEF Hold
<1>b. ASSUME NEW n \in PermitSizes, Take(n) PROVE permits' \in 0..(Modulus - 1)
  BY <1>0, <1>b, SizesFit DEF Take
<1>c. ASSUME NEW n \in PermitSizes, held[n] > 0, held' = [held EXCEPT ![n] = @ - 1]
      PROVE  held' \in [PermitSizes -> Nat]
  <2>1. held[n] - 1 \in Nat
    BY <1>0, <1>c
  <2> QED BY <1>0, <1>c, <2>1
<1>d. ASSUME NEW f \in Futures, fut[f] = "Waiting", Unlink(f)
      PROVE  waiters' \in Seq(Futures) /\ moved' \subseteq Futures
  <2>1. waiters' \in Seq(Futures)
    BY <1>d, Unlinked DEF Unlink
  <2>2. Len(waiters) > 1 => waiters[2] \in Futures
    BY <1>0, LenProperties, ElementOfSeq
  <2> QED BY <1>0, <1>d, <2>1, <2>2 DEF Unlink
<1>e. Sizes \subseteq PermitSizes
  BY DEF PermitSizes
<1>1. ASSUME NEW t \in Threads, AddWake(t) PROVE TypeOK'
  <2>1. Walked(t) \subseteq Futures
    BY <1>0, LenProperties, ElementOfSeq DEF Walked
  <2>2. 0 \in 0..(Modulus - 1)
    BY SizesFit
  <2> QED BY <1>0, <1>1, <2>1, <2>2 DEF AddWake
<1>2. ASSUME NEW t \in Threads, NEW n \in Sizes, AddPermits(t, n) PROVE TypeOK'
  <2>1. n \in PermitSizes /\ supply' \in Int
    BY <1>0, <1>2, <1>e, SizesFit DEF AddPermits
  <2> QED BY <1>0, <1>2, <2>1, AdditionFits DEF AddPermits
<1>3. ASSUME NEW t \in Threads, NEW n \in PermitSizes, PermitDrop(t, n) PROVE TypeOK'
  BY <1>0, <1>3, <1>c, AdditionFits DEF PermitDrop
<1>4. ASSUME NEW f \in Futures, NEW n \in Sizes, Acquire(f, n) PROVE TypeOK'
  BY <1>0, <1>4, <1>e DEF Acquire
<1>5. ASSUME NEW f \in Futures, PollInitReady(f) PROVE TypeOK'
  BY <1>0, <1>5, <1>a, <1>b DEF PollInitReady
<1>6. ASSUME NEW f \in Futures, PollWaitingReady(f) PROVE TypeOK'
  BY <1>0, <1>6, <1>a, <1>b, <1>d DEF PollWaitingReady
<1>7. ASSUME NEW f \in Futures, PollDone(f) PROVE TypeOK'
  BY <1>0, <1>7, <1>a DEF PollDone, PermitSizes
<1>8. ASSUME NEW f \in Futures, NEW w \in Wakers, PollInitPending(f, w) PROVE TypeOK'
  <2>1. waiters' \in Seq(Futures)
    BY <1>8, Linked DEF PollInitPending
  <2> QED BY <1>0, <1>8, <2>1 DEF PollInitPending
<1>9. ASSUME NEW f \in Futures, NEW w \in Wakers, PollWaitingPending(f, w) PROVE TypeOK'
  BY <1>0, <1>9 DEF PollWaitingPending
<1>10. ASSUME NEW f \in Futures, DropAcquire(f) PROVE TypeOK'
  <2>1. waiters' \in Seq(Futures) /\ moved' \subseteq Futures
    BY <1>0, <1>10, <1>d DEF DropAcquire
  <2> QED BY <1>0, <1>10, <2>1 DEF DropAcquire, PermitSizes
<1>11. ASSUME NEW n \in Sizes, TryAcquire(n) PROVE TypeOK'
  BY <1>0, <1>11, <1>a, <1>b, <1>e DEF TryAcquire
<1>12. ASSUME NEW n \in PermitSizes, Forget(n) PROVE TypeOK'
  <2>1. supply' \in Int
    BY <1>0, <1>12, SizesFit DEF Forget
  <2> QED BY <1>0, <1>12, <1>c, <2>1 DEF Forget
<1>13. ASSUME UNCHANGED vars PROVE TypeOK'
  BY <1>0, <1>13 DEF vars
<1> QED
  BY <1>1, <1>2, <1>3, <1>4, <1>5, <1>6, <1>7, <1>8, <1>9, <1>10, <1>11, <1>12, <1>13,
     NextCases

\* The list and the waiting futures change together.
LEMMA QueueStep ==
  ASSUME SemaphoreAssumption, IInv, [Next]_vars
  PROVE  QueuedIffWaiting'
<1> DEFINE Same == waiters' = waiters /\ WaitingFutures' = WaitingFutures
<1>0. TypeOK /\ QueuedIffWaiting
  BY DEF IInv
<1>1. ASSUME Same PROVE QueuedIffWaiting'
  BY <1>0, <1>1 DEF QueuedIffWaiting
<1>2. ASSUME NEW f \in Futures, NEW w \in Wakers, PollInitPending(f, w)
      PROVE  QueuedIffWaiting'
  <2>1. WaitingFutures' = WaitingFutures \union {f}
    BY <1>0, <1>2 DEF PollInitPending, WaitingFutures, TypeOK
  <2>2. fut[f] # "Waiting" /\ waiters' = Append(waiters, f)
    BY <1>2 DEF PollInitPending
  <2> QED BY <2>1, <2>2, Linked DEF QueuedIffWaiting
<1>3. ASSUME NEW f \in Futures, fut[f] = "Waiting", Unlink(f),
             NEW s \in {"Done", "None"}, fut' = [fut EXCEPT ![f] = s]
      PROVE  QueuedIffWaiting'
  <2>1. WaitingFutures' = WaitingFutures \ {f}
    BY <1>0, <1>3 DEF WaitingFutures, TypeOK
  <2>2. waiters' = RemoveFirst(waiters, f)
    BY <1>3 DEF Unlink
  <2> QED BY <1>3, <2>1, <2>2, Unlinked DEF QueuedIffWaiting
<1>4. \A f \in Futures : PollWaitingReady(f) => QueuedIffWaiting'
  BY <1>3 DEF PollWaitingReady
<1>5. ASSUME NEW f \in Futures, DropAcquire(f) PROVE QueuedIffWaiting'
  <2>1. CASE fut[f] = "Waiting"
    BY <1>3, <1>5, <2>1 DEF DropAcquire
  <2>2. CASE fut[f] # "Waiting"
    BY <1>0, <1>1, <1>5, <2>2 DEF DropAcquire, WaitingFutures, TypeOK
  <2> QED BY <2>1, <2>2
<1>6. \A t \in Threads : AddWake(t) => Same
  BY DEF AddWake, WaitingFutures
<1>7. \A t \in Threads, n \in Sizes : AddPermits(t, n) => Same
  BY DEF AddPermits, WaitingFutures
<1>8. \A t \in Threads, n \in PermitSizes : PermitDrop(t, n) => Same
  BY DEF PermitDrop, WaitingFutures
<1>9. \A f \in Futures, n \in Sizes : Acquire(f, n) => Same
  BY <1>0 DEF Acquire, WaitingFutures, TypeOK
<1>10. \A f \in Futures : PollInitReady(f) => Same
  BY DEF PollInitReady, WaitingFutures
<1>11. \A f \in Futures : PollDone(f) => Same
  BY DEF PollDone, WaitingFutures
<1>12. \A f \in Futures, w \in Wakers : PollWaitingPending(f, w) => Same
  BY DEF PollWaitingPending, WaitingFutures
<1>13. \A n \in Sizes : TryAcquire(n) => Same
  BY DEF TryAcquire, WaitingFutures
<1>14. \A n \in PermitSizes : Forget(n) => Same
  BY DEF Forget, WaitingFutures
<1>15. UNCHANGED vars => Same
  BY DEF vars, WaitingFutures
<1> QED
  BY <1>1, <1>2, <1>4, <1>5, <1>6, <1>7, <1>8, <1>9, <1>10, <1>11, <1>12, <1>13,
     <1>14, <1>15, NextCases

\* A linked waiter has the waker of the task that awaits it: every poll that
\* leaves the future waiting stores both.
LEMMA WakerStep ==
  ASSUME SemaphoreAssumption, IInv, [Next]_vars
  PROVE  WakerIsCurrent'
<1> DEFINE Same == UNCHANGED <<fut, waker, cx>>
<1> USE DEF WaitingFutures
<1>0. TypeOK /\ WakerIsCurrent
  BY DEF IInv
<1>1. ASSUME Same PROVE WakerIsCurrent'
  BY <1>0, <1>1 DEF WakerIsCurrent
<1>2. ASSUME NEW f \in Futures, NEW n \in Sizes, Acquire(f, n) PROVE WakerIsCurrent'
  BY <1>0, <1>2 DEF Acquire, WakerIsCurrent, TypeOK
<1>3. ASSUME NEW f \in Futures, PollWaitingReady(f) PROVE WakerIsCurrent'
  BY <1>0, <1>3 DEF PollWaitingReady, WakerIsCurrent, TypeOK
<1>4. ASSUME NEW f \in Futures, DropAcquire(f) PROVE WakerIsCurrent'
  BY <1>0, <1>4 DEF DropAcquire, WakerIsCurrent, TypeOK
<1>5. ASSUME NEW f \in Futures, NEW w \in Wakers,
             PollInitPending(f, w) \/ PollWaitingPending(f, w)
      PROVE  WakerIsCurrent'
  <2>1. w # NoWaker
    BY DEF SemaphoreAssumption
  <2>2. \A g \in Futures : g # f => fut'[g] = fut[g] /\ waker'[g] = waker[g] /\ cx'[g] = cx[g]
    BY <1>0, <1>5 DEF PollInitPending, PollWaitingPending, TypeOK
  <2>3. waker'[f] = w /\ cx'[f] = w
    BY <1>0, <1>5 DEF PollInitPending, PollWaitingPending, TypeOK
  <2> QED BY <1>0, <2>1, <2>2, <2>3 DEF WakerIsCurrent
<1>6. \A t \in Threads : AddWake(t) => Same
  BY DEF AddWake
<1>7. \A t \in Threads, n \in Sizes : AddPermits(t, n) => Same
  BY DEF AddPermits
<1>8. \A t \in Threads, n \in PermitSizes : PermitDrop(t, n) => Same
  BY DEF PermitDrop
<1>9. \A f \in Futures : PollInitReady(f) => Same
  BY DEF PollInitReady
<1>10. \A f \in Futures : PollDone(f) => Same
  BY DEF PollDone
<1>11. \A n \in Sizes : TryAcquire(n) => Same
  BY DEF TryAcquire
<1>12. \A n \in PermitSizes : Forget(n) => Same
  BY DEF Forget
<1>13. UNCHANGED vars => Same
  BY DEF vars
<1> QED
  BY <1>1, <1>2, <1>3, <1>4, <1>5, <1>6, <1>7, <1>8, <1>9, <1>10, <1>11, <1>12, <1>13,
     NextCases

-----------------------------------------------------------------------------
\* The walk of add_permits reaches the front waiter when the sum is enough for it.
LEMMA WalkReachesFront ==
  ASSUME SemaphoreAssumption, TypeOK, waiters # << >>, NEW t \in Threads,
         need[Head(waiters)] <= snap[t]
  PROVE  Head(waiters) \in Walked(t)
<1>1. Len(waiters) \in Nat /\ DOMAIN waiters = 1..Len(waiters)
  BY LenProperties DEF TypeOK
<1>2. Head(waiters) = waiters[1] /\ 1 \in DOMAIN waiters
  BY <1>1, FrontIsLinked DEF TypeOK
<1>3. Ahead(1) = 0
  <2>1. 1..(1 - 1) = {}
    OBVIOUS
  <2> QED BY <2>1, SumOfNone DEF Ahead
<1>4. need[waiters[1]] \in Nat
  BY <1>1, <1>2, ElementOfSeq, SizesFit DEF TypeOK
<1>5. Ahead(1) + need[waiters[1]] <= snap[t]
  BY <1>2, <1>3, <1>4
<1> QED BY <1>2, <1>5 DEF Walked

\* When the permits at the front suffice for a waiter that was not moved there,
\* its task was woken or a thread with such a sum is on its way to the lock.
LEMMA MissedStep ==
  ASSUME SemaphoreAssumption, IInv, [Next]_vars
  PROVE  NoMissedWakeup'
<1> DEFINE Quiet == /\ UNCHANGED <<waiters, need, woken, adding, snap, moved>>
                    /\ permits' \in Nat /\ permits' <= permits
<1>0. TypeOK /\ QueuedIffWaiting /\ NoMissedWakeup /\ WakerIsCurrent
  BY DEF IInv
<1>a. TypeOK'
  BY TypeStep
<1>b. /\ permits \in Nat /\ permits' \in Nat
      /\ \A f \in Futures : need[f] \in Nat
      /\ \A f \in Futures : need'[f] \in Nat
      /\ \A t \in adding : t \in Threads /\ snap[t] \in Nat
  <2>1. permits \in Nat /\ permits' \in Nat
    BY <1>0, <1>a DEF TypeOK
  <2>2. \A f \in Futures : need[f] \in Nat /\ need'[f] \in Nat
    BY <1>0, <1>a, SizesFit DEF TypeOK
  <2>3. \A t \in adding : t \in Threads /\ snap[t] \in Nat
    BY <1>0, SizesFit DEF TypeOK
  <2> QED BY <2>1, <2>2, <2>3
<1>1. ASSUME Quiet PROVE NoMissedWakeup'
  <2> SUFFICES ASSUME NEW f \in Futures, FrontCanTake(f)', f \notin moved'
               PROVE  f \in woken' \/ \E t \in adding' : snap'[t] >= permits'
    BY DEF NoMissedWakeup
  <2>1. FrontCanTake(f) /\ f \notin moved
    BY <1>1, <1>b DEF FrontCanTake
  <2>2. CASE f \in woken
    BY <1>1, <2>2
  <2>3. CASE \E t \in adding : snap[t] >= permits
    BY <1>1, <1>b, <2>3
  <2> QED BY <1>0, <2>1, <2>2, <2>3 DEF NoMissedWakeup
<1>2. ASSUME NEW n \in PermitSizes, Take(n),
             UNCHANGED <<waiters, need, woken, adding, snap, moved>>
      PROVE  NoMissedWakeup'
  <2>1. Quiet
    BY <1>2, <1>b, SizesFit DEF Take
  <2> QED BY <1>1, <2>1
<1>3. ASSUME NEW t \in Threads, NEW n \in PermitSizes, AddFetch(t, n) \/ AddOverflow(t, n),
             UNCHANGED <<waiters, need, woken, moved>>
      PROVE  NoMissedWakeup'
  <2>1. CASE AddFetch(t, n)
    <3>1. t \in adding' /\ snap'[t] = permits'
      BY <1>0, <2>1 DEF AddFetch, TypeOK
    <3>2. snap'[t] >= permits'
      BY <1>b, <3>1
    <3> QED BY <3>1, <3>2 DEF NoMissedWakeup
  <2>2. CASE AddOverflow(t, n)
    <3>1. permits' <= permits
      BY <1>b, <2>2, SizesFit DEF AddOverflow, Wrap
    <3>2. adding' = adding /\ snap' = snap
      BY <2>2 DEF AddOverflow, callVars
    <3> QED BY <1>1, <1>3, <1>b, <3>1, <3>2
  <2> QED BY <1>3, <2>1, <2>2
<1>4. ASSUME NEW t \in Threads, AddWake(t) PROVE NoMissedWakeup'
  <2> SUFFICES ASSUME NEW f \in Futures, FrontCanTake(f)', f \notin moved'
               PROVE  f \in woken' \/ \E u \in adding' : snap'[u] >= permits'
    BY DEF NoMissedWakeup
  <2>1. FrontCanTake(f) /\ permits' = permits /\ f = Head(waiters) /\ waiters # << >>
    BY <1>4 DEF AddWake, FrontCanTake
  <2>2. CASE f \in Walked(t)
    <3>1. waker[f] # NoWaker /\ waker[f] = cx[f]
      BY <1>0, <2>1, FrontWaits DEF WakerIsCurrent
    <3> QED BY <1>4, <2>2, <3>1 DEF AddWake
  <2>3. CASE f \notin Walked(t)
    <3>1. f \notin moved
      BY <1>4, <2>3 DEF AddWake
    <3>2. ~ (need[f] <= snap[t])
      BY <1>0, <2>1, <2>3, WalkReachesFront
    <3>3. need[f] <= permits
      BY <2>1 DEF FrontCanTake
    <3>4. CASE f \in woken
      BY <1>4, <3>4 DEF AddWake
    <3>5. ASSUME NEW u \in adding, snap[u] >= permits
          PROVE  u \in adding' /\ snap'[u] >= permits'
      <4>1. snap[t] \in Nat
        BY <1>0, SizesFit DEF TypeOK
      <4>2. u # t
        BY <1>b, <3>2, <3>3, <3>5, <4>1
      <4> QED BY <1>0, <1>4, <2>1, <3>5, <4>2 DEF AddWake, TypeOK
    <3> QED BY <1>0, <2>1, <3>1, <3>4, <3>5 DEF NoMissedWakeup
  <2> QED BY <2>2, <2>3
<1>5. ASSUME NEW f \in Futures, NEW n \in Sizes, Acquire(f, n) PROVE NoMissedWakeup'
  <2> SUFFICES ASSUME NEW g \in Futures, FrontCanTake(g)', g \notin moved'
               PROVE  g \in woken' \/ \E u \in adding' : snap'[u] >= permits'
    BY DEF NoMissedWakeup
  <2>1. waiters # << >> /\ g = Head(waiters) /\ g \notin moved
    BY <1>5 DEF Acquire, FrontCanTake
  <2>2. g # f
    BY <1>5, <2>1, FrontWaits DEF Acquire, WaitingFutures
  <2>3. FrontCanTake(g)
    BY <1>0, <1>5, <2>1, <2>2 DEF Acquire, FrontCanTake, TypeOK
  <2> QED BY <1>0, <1>5, <2>1, <2>3 DEF NoMissedWakeup, Acquire
<1>6. ASSUME NEW f \in Futures, NEW w \in Wakers, PollInitPending(f, w)
      PROVE  NoMissedWakeup'
  <2> SUFFICES ASSUME NEW g \in Futures, FrontCanTake(g)', g \notin moved'
               PROVE  g \in woken' \/ \E u \in adding' : snap'[u] >= permits'
    BY DEF NoMissedWakeup
  <2>1. waiters' = Append(waiters, f) /\ waiters \in Seq(Futures)
    BY <1>0, <1>6 DEF PollInitPending, TypeOK
  <2>2. CASE waiters = << >>
    <3>1. Head(waiters') = f
      BY <2>1, <2>2
    <3> QED BY <1>6, <1>b, <2>2, <3>1 DEF PollInitPending, FrontCanTake
  <2>3. CASE waiters # << >>
    <3>1. Head(waiters') = Head(waiters)
      BY <2>1, <2>3, HeadTailAppend
    <3>2. FrontCanTake(g) /\ g \notin moved
      BY <1>6, <2>3, <3>1 DEF PollInitPending, FrontCanTake
    <3> QED BY <1>0, <1>6, <3>2 DEF NoMissedWakeup, PollInitPending
  <2> QED BY <2>2, <2>3
<1>7. ASSUME NEW f \in Futures, fut[f] = "Waiting", Unlink(f), permits' <= permits,
             \A g \in Futures \ {f} : need'[g] = need[g],
             woken' = woken \ {f}, UNCHANGED <<adding, snap>>
      PROVE  NoMissedWakeup'
  <2> SUFFICES ASSUME NEW g \in Futures, FrontCanTake(g)', g \notin moved'
               PROVE  g \in woken' \/ \E u \in adding' : snap'[u] >= permits'
    BY DEF NoMissedWakeup
  <2>1. waiters' = RemoveFirst(waiters, f) /\ waiters' # << >> /\ g = Head(waiters')
    BY <1>7 DEF Unlink, FrontCanTake
  <2>2. /\ f \in ToSet(waiters) /\ waiters' \in Seq(Futures)
        /\ ToSet(waiters') = WaitingFutures \ {f}
    BY <1>7, <2>1, Unlinked
  <2>3. g # f
    BY <2>1, <2>2, FrontIsLinked
  <2>4. waiters \in Seq(Futures) /\ IsInjective(waiters)
    BY <1>0 DEF TypeOK, QueuedIffWaiting
  <2>5. /\ waiters # << >>
        /\ f = Head(waiters) => Len(waiters) > 1 /\ g = waiters[2]
        /\ f # Head(waiters) => g = Head(waiters)
    BY <2>1, <2>2, <2>4, RemoveFirstFront
  <2>6. f # Head(waiters)
    BY <1>7, <2>5 DEF Unlink
  <2>7. FrontCanTake(g) /\ g \notin moved
    BY <1>7, <1>b, <2>3, <2>5, <2>6 DEF FrontCanTake, Unlink
  <2>8. CASE g \in woken
    BY <1>7, <2>3, <2>8
  <2>9. CASE \E u \in adding : snap[u] >= permits
    BY <1>7, <1>b, <2>9
  <2> QED BY <1>0, <2>7, <2>8, <2>9 DEF NoMissedWakeup
<1>8. ASSUME NEW f \in Futures, PollWaitingReady(f) PROVE NoMissedWakeup'
  <2>1. permits' <= permits
    BY <1>8, <1>b DEF PollWaitingReady, Take
  <2> QED BY <1>7, <1>8, <2>1 DEF PollWaitingReady
<1>9. ASSUME NEW f \in Futures, DropAcquire(f) PROVE NoMissedWakeup'
  <2>1. /\ \A g \in Futures \ {f} : need'[g] = need[g]
        /\ permits' = permits /\ permits' <= permits
        /\ woken' = woken \ {f}
        /\ UNCHANGED <<adding, snap>>
    BY <1>0, <1>9, <1>b DEF DropAcquire, TypeOK
  <2>2. CASE fut[f] = "Waiting"
    BY <1>7, <1>9, <2>1, <2>2 DEF DropAcquire
  <2>3. CASE fut[f] # "Waiting"
    <3> SUFFICES ASSUME NEW g \in Futures, FrontCanTake(g)', g \notin moved'
                 PROVE  g \in woken' \/ \E u \in adding' : snap'[u] >= permits'
      BY DEF NoMissedWakeup
    <3>1. waiters' = waiters /\ moved' = moved
      BY <1>9, <2>3 DEF DropAcquire
    <3>2. g # f
      BY <2>3, <3>1, FrontWaits DEF FrontCanTake, WaitingFutures
    <3>3. FrontCanTake(g) /\ g \notin moved
      BY <2>1, <3>1, <3>2 DEF FrontCanTake
    <3> QED BY <1>0, <2>1, <3>2, <3>3 DEF NoMissedWakeup
  <2> QED BY <2>2, <2>3
<1>10. ASSUME NEW f \in Futures, NEW w \in Wakers, PollWaitingPending(f, w)
       PROVE  NoMissedWakeup'
  <2> SUFFICES ASSUME NEW g \in Futures, FrontCanTake(g)', g \notin moved'
               PROVE  g \in woken' \/ \E u \in adding' : snap'[u] >= permits'
    BY DEF NoMissedWakeup
  <2>1. FrontCanTake(g) /\ g \notin moved /\ g # f
    BY <1>10, <1>b DEF PollWaitingPending, FrontCanTake
  <2> QED BY <1>0, <1>10, <2>1 DEF NoMissedWakeup, PollWaitingPending
<1>11. \A f \in Futures : PollInitReady(f) => NoMissedWakeup'
  <2>1. \A f \in Futures : need[f] \in PermitSizes
    BY <1>0 DEF TypeOK
  <2> QED BY <1>2, <2>1 DEF PollInitReady
<1>12. \A n \in Sizes : TryAcquire(n) => NoMissedWakeup'
  BY <1>2 DEF TryAcquire, PermitSizes
<1>13. \A f \in Futures : PollDone(f) => NoMissedWakeup'
  BY <1>1, <1>b DEF PollDone
<1>14. \A n \in PermitSizes : Forget(n) => NoMissedWakeup'
  BY <1>1, <1>b DEF Forget
<1>15. \A t \in Threads, n \in Sizes : AddPermits(t, n) => NoMissedWakeup'
  BY <1>3 DEF AddPermits, PermitSizes
<1>16. \A t \in Threads, n \in PermitSizes : PermitDrop(t, n) => NoMissedWakeup'
  BY <1>3 DEF PermitDrop
<1>17. UNCHANGED vars => NoMissedWakeup'
  BY <1>1, <1>b DEF vars
<1> QED
  BY <1>4, <1>5, <1>6, <1>8, <1>9, <1>10, <1>11, <1>12, <1>13, <1>14, <1>15, <1>16,
     <1>17, NextCases

-----------------------------------------------------------------------------
(* The balance of permits                                                  *)

\* What the live Permits hold, and the balance without the remainder operator:
\* the counter has wrapped k times more often than it would have borrowed.
InUse(h) == SumFunctionOnSet([n \in PermitSizes |-> n * h[n]], PermitSizes)

Balanced == \E k \in Int : permits + InUse(held) - supply = k * Modulus

\* There are finitely many sizes.
LEMMA SizesFinite ==
  ASSUME SemaphoreAssumption
  PROVE  IsFiniteSet(PermitSizes)
<1>1. Modulus - 1 \in Int
  BY SizesFit
<1>2. IsFiniteSet(0..(Modulus - 1))
  BY <1>1, FS_Interval
<1>3. PermitSizes \subseteq 0..(Modulus - 1)
  BY SizesFit
<1> QED BY <1>2, <1>3, FS_Subset

\* One more or one less live Permit of a size.
LEMMA InUseChanges ==
  ASSUME SemaphoreAssumption, NEW h \in [PermitSizes -> Nat], NEW n \in PermitSizes,
         NEW d \in Nat
  PROVE  /\ InUse(h) \in Int
         /\ InUse([h EXCEPT ![n] = d]) = InUse(h) + (n * d - n * h[n])
<1> DEFINE f == [m \in PermitSizes |-> m * h[m]]
           g == [m \in PermitSizes |-> m * [h EXCEPT ![n] = d][m]]
<1>1. IsFiniteSet(PermitSizes)
  BY SizesFinite
<1>2. \A m \in PermitSizes : m \in Nat
  BY SizesFit
<1>3. f \in [PermitSizes -> Int] /\ g \in [PermitSizes -> Int]
  <2>1. \A a, b \in Nat : a * b \in Int
    OBVIOUS
  <2>2. \A m \in PermitSizes : h[m] \in Nat /\ [h EXCEPT ![n] = d][m] \in Nat
    OBVIOUS
  <2> QED BY <1>2, <2>1, <2>2
<1>4. /\ \A m \in PermitSizes \ {n} : g[m] = f[m]
      /\ f[n] = n * h[n] /\ g[n] = n * d
  OBVIOUS
<1>5. InUse(h) = SumFunctionOnSet(f, PermitSizes)
  BY DEF InUse
<1>6. InUse([h EXCEPT ![n] = d]) = SumFunctionOnSet(g, PermitSizes)
  BY DEF InUse
<1> HIDE DEF f, g
<1>7. /\ SumFunctionOnSet(f, PermitSizes) \in Int
      /\ SumFunctionOnSet(g, PermitSizes) = SumFunctionOnSet(f, PermitSizes) + (g[n] - f[n])
  BY <1>1, <1>3, <1>4, SumChanges
<1> QED BY <1>4, <1>5, <1>6, <1>7

\* What the actions do to it: a Permit comes to life, or it goes.
LEMMA InUseSteps ==
  ASSUME SemaphoreAssumption, TypeOK, NEW n \in PermitSizes
  PROVE  /\ InUse(held) \in Int
         /\ Hold(n) => InUse(held') = InUse(held) + n
         /\ held[n] > 0 /\ held' = [held EXCEPT ![n] = @ - 1] =>
              InUse(held') = InUse(held) - n
<1>1. held \in [PermitSizes -> Nat] /\ held[n] \in Nat /\ n \in Nat
  BY SizesFit DEF TypeOK
<1>2. InUse(held) \in Int
  BY <1>1, InUseChanges
<1>3. ASSUME NEW d \in Nat, held' = [held EXCEPT ![n] = d]
      PROVE  InUse(held') = InUse(held) + (n * d - n * held[n])
  BY <1>1, <1>3, InUseChanges
<1>4. ASSUME Hold(n) PROVE InUse(held') = InUse(held) + n
  <2>1. CASE n = 0 /\ held[n] >= MaxZero
    <3>1. held' = [held EXCEPT ![n] = held[n]]
      BY <1>4, <2>1 DEF Hold
    <3>2. InUse(held') = InUse(held) + (n * held[n] - n * held[n])
      BY <1>1, <1>3, <3>1
    <3>3. n * held[n] - n * held[n] = n
      BY <1>1, <2>1
    <3> QED BY <3>2, <3>3
  <2>2. CASE ~ (n = 0 /\ held[n] >= MaxZero)
    <3>1. held' = [held EXCEPT ![n] = held[n] + 1]
      BY <1>4, <2>2 DEF Hold
    <3>2. n * (held[n] + 1) - n * held[n] = n
      BY <1>1
    <3>3. held[n] + 1 \in Nat
      BY <1>1
    <3>4. InUse(held') = InUse(held) + (n * (held[n] + 1) - n * held[n])
      BY <1>3, <3>1, <3>3
    <3> QED BY <3>2, <3>4
  <2> QED BY <2>1, <2>2
<1>5. ASSUME held[n] > 0, held' = [held EXCEPT ![n] = @ - 1]
      PROVE  InUse(held') = InUse(held) - n
  <2>1. held[n] - 1 \in Nat
    BY <1>1, <1>5
  <2>2. n * (held[n] - 1) - n * held[n] = 0 - n
    BY <1>1
  <2>3. held' = [held EXCEPT ![n] = held[n] - 1]
    BY <1>5
  <2>4. InUse(held') = InUse(held) + (n * (held[n] - 1) - n * held[n])
    BY <1>3, <2>1, <2>3
  <2>5. InUse(held') = InUse(held) + (0 - n)
    BY <2>2, <2>4
  <2> QED BY <1>1, <1>2, <2>5
<1> QED BY <1>2, <1>4, <1>5

\* The addition of add_permits, with both outcomes of an overflow.
LEMMA AdditionBalanced ==
  ASSUME SemaphoreAssumption, TypeOK, Balanced, NEW t \in Threads, NEW n \in PermitSizes,
         AddFetch(t, n) \/ AddOverflow(t, n),
         InUse(held') - supply' = InUse(held) - supply - n, InUse(held') \in Int,
         supply' \in Int
  PROVE  Balanced'
<1>1. /\ permits \in Int /\ supply \in Int /\ n \in Int /\ Modulus \in Int
      /\ InUse(held) \in Int
  BY SizesFit, InUseSteps DEF TypeOK
<1>2. PICK k \in Int : permits + InUse(held) - supply = k * Modulus
  BY DEF Balanced
<1>3. permits' = permits + n \/ permits' = permits + n - Modulus
  BY <1>1 DEF AddFetch, AddOverflow, Wrap
<1>4. (k - 1) * Modulus = k * Modulus - Modulus /\ k * Modulus \in Int /\ k - 1 \in Int
  BY <1>1, <1>2
<1> DEFINE u == InUse(held)
           v == InUse(held')
<1> HIDE DEF u, v
<1>5. permits' + v - supply' = k * Modulus \/ permits' + v - supply' = (k - 1) * Modulus
  BY <1>1, <1>2, <1>3, <1>4 DEF u, v
<1> QED BY <1>2, <1>4, <1>5 DEF Balanced, v

\* Every step keeps the balance: what leaves the counter is held by a Permit, and
\* what no Permit holds any more is added to it or leaves the supply.
LEMMA BalancedStep ==
  ASSUME SemaphoreAssumption, IInv, Balanced, [Next]_vars
  PROVE  Balanced'
<1> DEFINE Same == UNCHANGED <<permits, held, supply>>
<1>0. TypeOK /\ TypeOK'
  BY TypeStep DEF IInv
<1>1. ASSUME Same PROVE Balanced'
  BY <1>1 DEF Balanced
<1>2. ASSUME NEW n \in PermitSizes, Take(n), Hold(n), supply' = supply PROVE Balanced'
  <2>1. InUse(held') = InUse(held) + n /\ InUse(held) \in Int
    BY <1>0, <1>2, InUseSteps
  <2>2. permits \in Int /\ n \in Int /\ supply \in Int /\ permits' = permits - n
    BY <1>0, <1>2, SizesFit DEF TypeOK, Take
  <2>3. permits' + InUse(held') - supply' = permits + InUse(held) - supply
    BY <1>2, <2>1, <2>2
  <2> QED BY <2>3 DEF Balanced
<1>3. ASSUME NEW t \in Threads, NEW n \in Sizes, AddPermits(t, n) PROVE Balanced'
  <2>1. n \in PermitSizes /\ n \in Int /\ supply \in Int /\ supply' = supply + n /\ held' = held
    BY <1>0, <1>3, SizesFit DEF AddPermits, PermitSizes, TypeOK
  <2>2. InUse(held') = InUse(held) /\ InUse(held) \in Int
    BY <1>0, <2>1, InUseSteps
  <2>3. InUse(held') - supply' = InUse(held) - supply - n
    BY <2>1, <2>2
  <2> QED BY <1>0, <1>3, <2>1, <2>2, <2>3, AdditionBalanced DEF AddPermits
<1>4. ASSUME NEW t \in Threads, NEW n \in PermitSizes, PermitDrop(t, n) PROVE Balanced'
  <2>1. n \in Int /\ supply \in Int /\ supply' = supply
    BY <1>0, <1>4, SizesFit DEF PermitDrop, TypeOK
  <2>2. InUse(held') = InUse(held) - n /\ InUse(held) \in Int
    BY <1>0, <1>4, InUseSteps DEF PermitDrop
  <2>3. InUse(held') - supply' = InUse(held) - supply - n /\ InUse(held') \in Int
    BY <2>1, <2>2
  <2> QED BY <1>0, <1>4, <2>1, <2>3, AdditionBalanced DEF PermitDrop
<1>5. ASSUME NEW n \in PermitSizes, Forget(n) PROVE Balanced'
  <2>1. /\ n \in Int /\ permits \in Int /\ supply \in Int
        /\ supply' = supply - n /\ permits' = permits
    BY <1>0, <1>5, SizesFit DEF Forget, TypeOK
  <2>2. InUse(held') = InUse(held) - n /\ InUse(held) \in Int
    BY <1>0, <1>5, InUseSteps DEF Forget
  <2>3. permits' + InUse(held') - supply' = permits + InUse(held) - supply
    BY <2>1, <2>2
  <2> QED BY <2>3 DEF Balanced
<1>6. \A f \in Futures : PollInitReady(f) \/ PollWaitingReady(f) => Balanced'
  <2>1. \A f \in Futures : need[f] \in PermitSizes
    BY <1>0 DEF TypeOK
  <2> QED BY <1>2, <2>1 DEF PollInitReady, PollWaitingReady
<1>7. ASSUME NEW f \in Futures, PollDone(f) PROVE Balanced'
  <2>1. InUse(held') = InUse(held) + 0 /\ InUse(held) \in Int
    BY <1>0, <1>7, InUseSteps DEF PollDone, PermitSizes
  <2>2. InUse(held') = InUse(held) /\ permits' = permits /\ supply' = supply
    BY <1>7, <2>1 DEF PollDone
  <2> QED BY <2>2 DEF Balanced
<1>8. \A n \in Sizes : TryAcquire(n) => Balanced'
  BY <1>2 DEF TryAcquire, PermitSizes
<1>9. \A t \in Threads : AddWake(t) => Same
  BY DEF AddWake
<1>10. \A f \in Futures, n \in Sizes : Acquire(f, n) => Same
  BY DEF Acquire
<1>11. \A f \in Futures, w \in Wakers :
         PollInitPending(f, w) \/ PollWaitingPending(f, w) => Same
  BY DEF PollInitPending, PollWaitingPending
<1>12. \A f \in Futures : DropAcquire(f) => Same
  BY DEF DropAcquire
<1>13. UNCHANGED vars => Same
  BY DEF vars
<1> QED
  BY <1>1, <1>3, <1>4, <1>5, <1>6, <1>7, <1>8, <1>9, <1>10, <1>11, <1>12, <1>13, NextCases

\* Balanced says what PermitsConserved says.
LEMMA BalancedConserves ==
  ASSUME SemaphoreAssumption, Balanced
  PROVE  PermitsConserved
<1>1. PICK k \in Int : permits + InUse(held) - supply = k * Modulus
  BY DEF Balanced
<1>2. \A m \in Nat, i \in Int : m > 0 => (i * m) % m = 0
  OBVIOUS
<1>3. (k * Modulus) % Modulus = 0
  BY <1>2, SizesFit
<1>4. SumFunction([n \in PermitSizes |-> n * held[n]]) = InUse(held)
  BY DEF SumFunction, InUse
<1> QED BY <1>1, <1>3, <1>4 DEF PermitsConserved

-----------------------------------------------------------------------------
\* Nothing is linked, held or under way at first.
LEMMA InitInv ==
  ASSUME SemaphoreAssumption, Init
  PROVE  IInv
<1>1. TypeOK
  BY EmptySeq, SizesFit DEF SemaphoreAssumption, Init, TypeOK, FutState, PermitSizes
<1>2. QueuedIffWaiting /\ NoMissedWakeup /\ WakerIsCurrent
  BY DEF Init, QueuedIffWaiting, NoMissedWakeup, WakerIsCurrent, FrontCanTake,
         WaitingFutures, IsInjective, ToSet
<1> QED BY <1>1, <1>2 DEF IInv

\* The inductive invariant holds in every interleaving of polls, drops,
\* try_acquire_many, add_permits and dropped or forgotten Permits.
THEOREM SemaphoreInvariant == Spec => []IInv
<1>1. Init => IInv
  BY InitInv, SemaphoreAssumption
<1>2. IInv /\ [Next]_vars => IInv'
  BY TypeStep, QueueStep, WakerStep, MissedStep, SemaphoreAssumption DEF IInv
<1> QED BY <1>1, <1>2, PTL DEF Spec

\* Type correctness: among others the counter stays a usize, whatever wraps.
THEOREM SemaphoreTypes == Spec => []TypeOK
<1>1. IInv => TypeOK
  BY DEF IInv
<1> QED BY <1>1, SemaphoreInvariant, PTL

\* The unsafe contract of the wait list (semaphore.rs:269-273, 308-314): it links
\* exactly the waiting futures, each once.
THEOREM SemaphoreListSound == Spec => []QueuedIffWaiting
<1>1. IInv => QueuedIffWaiting
  BY DEF IInv
<1> QED BY <1>1, SemaphoreInvariant, PTL

\* No wakeup of the front waiter is missed, unless it came to the front when
\* another waiter left (semaphore.rs:79-104, 246-300).
THEOREM SemaphoreWakes == Spec => []NoMissedWakeup
<1>1. IInv => NoMissedWakeup
  BY DEF IInv
<1> QED BY <1>1, SemaphoreInvariant, PTL

\* No interleaving creates or loses a permit: what is free and what the live Permits
\* hold is the supply, modulo the width of the counter (semaphore.rs:87-104, 179-190,
\* 220-299, 340-349).
THEOREM SemaphoreConserves == Spec => []PermitsConserved
<1>1. Init => Balanced
  <2> SUFFICES ASSUME Init PROVE Balanced
    OBVIOUS
  <2> DEFINE zeros == [n \in PermitSizes |-> 0]
  <2>1. IsFiniteSet(PermitSizes)
    BY SizesFinite, SemaphoreAssumption
  <2>2. [n \in PermitSizes |-> n * held[n]] = zeros
    <3>1. \A n \in PermitSizes : n * held[n] = 0
      BY SizesFit, SemaphoreAssumption DEF Init
    <3> QED BY <3>1
  <2>3. InUse(held) = 0
    BY <2>1, <2>2, SumOfZeros DEF InUse
  <2>4. permits + InUse(held) - supply = 0 * Modulus
    BY <2>3, SemaphoreAssumption DEF Init, SemaphoreAssumption
  <2> QED BY <2>4 DEF Balanced
<1>2. IInv /\ Balanced /\ [Next]_vars => Balanced'
  BY BalancedStep, SemaphoreAssumption
<1>3. Balanced => PermitsConserved
  BY BalancedConserves, SemaphoreAssumption
<1> QED BY <1>1, <1>2, <1>3, SemaphoreInvariant, PTL DEF Spec
=============================================================================
