-------------------------- MODULE LocalNotifyProofs --------------------------
(***************************************************************************)
(* The safety of LocalNotify for any number of futures and wakers.  The    *)
(* walk of notify_all is the difficult part: it stands at a node that may  *)
(* have left the list, and follows pointers that nobody keeps up to date.  *)
(* ListInv holds whatever wakes do; the rest of IInv needs tame wakes.     *)
(***************************************************************************)
EXTENDS LocalNotify, WaitListLemmas

\* The lemmas about the list, whose nodes are the futures.
LP == INSTANCE LinkedListProofs WITH Nodes <- Futures

-----------------------------------------------------------------------------
(* The inductive invariant                                                 *)

\* The pointers link the pending futures in the order s.
ListIs(s) == IsInjective(s) /\ ToSet(s) = PendingFutures /\ List!Links(s)

Listed == \E s \in Seq(Futures) : ListIs(s)

Alive(f) == fut[f] \in {"Pending", "Done"}

\* A linked waiter has the waker of the task that awaits it now.
WakerIsCurrent == \A f \in PendingFutures : waker[f] # NoWaker /\ waker[f] = cx[f]

\* Notified, woken by the walk or waiting for it was only who has been linked.
WereLinked ==
  /\ \A f \in notified \union ahead : Alive(f)
  /\ cur # Null => Alive(cur)
  /\ ~running => iter = Null /\ cur = Null /\ ahead = {}

\* The nodes w that the walk may still come to, in the order r in which they were
\* linked: every pointer leads on in that order, past nodes only that are Done; it
\* ends at a node behind which nobody is that the walk has to reach.
Walk(w, r) ==
  /\ iter \in w /\ cur \notin w
  /\ \A f \in w : Alive(f) /\ r[iter] <= r[f]
  /\ \A f, g \in w : r[f] = r[g] => f = g
  /\ ahead \intersect PendingFutures \subseteq w
  /\ \A f \in w : next[f] # Null =>
       /\ next[f] \in w /\ r[f] < r[next[f]]
       /\ \A g \in w : r[f] < r[g] /\ r[g] < r[next[f]] => fut[g] = "Done"
  /\ \A f \in w : next[f] = Null =>
       \A g \in w : r[f] < r[g] /\ fut[g] = "Pending" => g \notin ahead /\ fut[f] = "Done"

WalkGoesOn ==
  IF iter = Null THEN ahead \intersect PendingFutures = {}
  ELSE \E w \in SUBSET Futures : \E n \in Nat : \E r \in [Futures -> 0..n] : Walk(w, r)

ListInv == TypeOK /\ Listed /\ StoredOnlyWhenIdle

IInv ==
  /\ ListInv /\ outer = << >>
  /\ NoLostWakeup /\ WakerIsCurrent /\ WereLinked /\ WalkGoesOn

-----------------------------------------------------------------------------
(* The list                                                                *)

\* The operators on sequences are the same on either side of the instance.
LEMMA SameOperators ==
  ASSUME NEW s, NEW e
  PROVE  /\ LP!ToSet(s) = ToSet(s)
         /\ LP!IsInjective(s) <=> IsInjective(s)
         /\ LP!RemoveFirst(s, e) = RemoveFirst(s, e)
<1>1. LP!ToSet(s) = ToSet(s)
  BY DEF LP!ToSet, ToSet
<1>2. LP!IsInjective(s) <=> IsInjective(s)
  BY DEF LP!IsInjective, IsInjective
<1>3. LP!RemoveFirst(s, e) = RemoveFirst(s, e)
  BY DEF LP!RemoveFirst, RemoveFirst, LP!RemoveAt, RemoveAt, LP!SelectInSeq, SelectInSeq,
         LP!Min, Min
<1> QED BY <1>1, <1>2, <1>3

\* The list in the words of the lemmas about it.
LEMMA ListForm ==
  ASSUME LocalNotifyAssumption, NEW s \in Seq(Futures)
  PROVE  /\ ListIs(s) => /\ LP!ListOf(s) /\ LP!List!Links(s)
                         /\ LP!ToSet(s) = PendingFutures
         /\ List!Links(s)' <=> LP!List!Links(s)'
<1>1. List!Links(s) <=> LP!List!Links(s)
  BY DEF List!Links, LP!List!Links
<1>2. List!Links(s)' <=> LP!List!Links(s)'
  BY DEF List!Links, LP!List!Links
<1> QED BY <1>1, <1>2, SameOperators DEF LocalNotifyAssumption, ListIs, LP!ListOf

\* What the pointers of a pending future lead to.
LEMMA Neighbours ==
  ASSUME LocalNotifyAssumption, Listed
  PROVE  /\ head = Null <=> PendingFutures = {}
         /\ head # Null => head \in PendingFutures
         /\ tail # Null => tail \in PendingFutures
         /\ \A f \in PendingFutures :
              /\ next[f] # Null => next[f] \in PendingFutures /\ prev[next[f]] = f
              /\ prev[f] # Null => prev[f] \in PendingFutures /\ next[prev[f]] = f
              /\ next[f] = Null <=> f = tail
              /\ prev[f] = Null <=> f = head
<1>1. PICK s \in Seq(Futures) : ListIs(s)
  BY DEF Listed
<1>2. LP!ListOf(s) /\ LP!List!Links(s) /\ LP!ToSet(s) = PendingFutures
  BY <1>1, ListForm
<1>3. s = << >> <=> PendingFutures = {}
  <2>1. /\ Len(s) \in Nat
        /\ \A f : f \in PendingFutures <=> \E i \in 1..Len(s) : s[i] = f
    BY <1>2, LP!PlaceOf
  <2> QED BY <1>2, <2>1, EmptySeq
<1> QED BY <1>2, <1>3, LP!Neighbours

\* push_back of a future that begins to wait.
LEMMA Pushed ==
  ASSUME LocalNotifyAssumption, TypeOK, Listed, NEW f \in Futures, fut[f] = "Init",
         List!PushBack(f), fut' = [fut EXCEPT ![f] = "Pending"]
  PROVE  Listed'
<1>1. PICK s \in Seq(Futures) : ListIs(s)
  BY DEF Listed
<1>2. LP!ListOf(s) /\ LP!List!Links(s) /\ LP!ToSet(s) = PendingFutures
  BY <1>1, ListForm
<1>3. LP!List!PushBack(f)
  BY DEF List!PushBack, LP!List!PushBack
<1>4. f \notin ToSet(s)
  BY <1>1 DEF ListIs, PendingFutures
<1>5. LP!List!Links(Append(s, f))'
  BY <1>2, <1>3, <1>4, LP!PushBackLinks, SameOperators
<1>6. /\ Append(s, f) \in Seq(Futures) /\ IsInjective(Append(s, f))
      /\ ToSet(Append(s, f)) = PendingFutures \union {f}
  BY <1>1, <1>4, AppendContents DEF ListIs
<1>7. PendingFutures' = PendingFutures \union {f}
  BY DEF PendingFutures, TypeOK
<1> QED BY <1>5, <1>6, <1>7, ListForm DEF Listed, ListIs

\* remove of a future that stops to wait, whether its node lives on or not.
LEMMA Removed ==
  ASSUME LocalNotifyAssumption, TypeOK, Listed, NEW f \in PendingFutures,
         List!Remove(f) \/ List!RemoveFree(f),
         NEW st \in {"Done", "None"}, fut' = [fut EXCEPT ![f] = st]
  PROVE  Listed'
<1>1. PICK s \in Seq(Futures) : ListIs(s)
  BY DEF Listed
<1>2. LP!ListOf(s) /\ LP!List!Links(s) /\ LP!ToSet(s) = PendingFutures
  BY <1>1, ListForm
<1>3. LP!List!Remove(f) \/ LP!List!RemoveFree(f)
  BY DEF List!Remove, List!RemoveFree, List!NextWithout, List!PrevWithout, List!Ends,
         LP!List!Remove, LP!List!RemoveFree, LP!List!NextWithout, LP!List!PrevWithout,
         LP!List!Ends
<1>4. LP!List!Links(RemoveFirst(s, f))'
  BY <1>2, <1>3, LP!RemoveLinks, SameOperators
<1>5. /\ RemoveFirst(s, f) \in Seq(Futures) /\ IsInjective(RemoveFirst(s, f))
      /\ ToSet(RemoveFirst(s, f)) = PendingFutures \ {f}
  BY <1>1, RemoveFirstContents DEF ListIs
<1>6. PendingFutures' = PendingFutures \ {f}
  BY DEF PendingFutures, TypeOK
<1> QED BY <1>4, <1>5, <1>6, ListForm DEF Listed, ListIs

\* The end of a future that does not wait.
LEMMA Freed ==
  ASSUME LocalNotifyAssumption, TypeOK, Listed, NEW f \in Futures, fut[f] # "Pending",
         List!Free(f), fut' = [fut EXCEPT ![f] = "None"]
  PROVE  Listed'
<1>1. PICK s \in Seq(Futures) : ListIs(s)
  BY DEF Listed
<1>2. LP!ListOf(s) /\ LP!List!Links(s) /\ LP!ToSet(s) = PendingFutures
  BY <1>1, ListForm
<1>3. LP!List!Free(f)
  BY DEF List!Free, LP!List!Free
<1>4. f \notin PendingFutures
  BY DEF PendingFutures
<1>5. /\ next \in [Futures -> Futures \union {Null}]
      /\ prev \in [Futures -> Futures \union {Null}]
  BY DEF TypeOK, Places
<1>6. LP!List!Links(s)'
  BY <1>2, <1>3, <1>4, <1>5, LP!FreeLinks
<1>7. PendingFutures' = PendingFutures
  BY DEF PendingFutures, TypeOK
<1> QED BY <1>1, <1>6, <1>7, ListForm DEF Listed, ListIs

\* Only the first poll that waits, a poll that was notified and a drop of a pending
\* future change the list; each keeps it in step with who is pending.
LEMMA ListedStep ==
  ASSUME LocalNotifyAssumption, ListInv, [Next]_vars
  PROVE  Listed'
<1> DEFINE Same == UNCHANGED listVars /\ PendingFutures' = PendingFutures
<1> USE DEF ListInv
<1>1. ASSUME Same PROVE Listed'
  BY <1>1 DEF Listed, ListIs, List!Links, listVars
<1>2. ASSUME \/ NotifyFront \/ NotifyStore \/ NotifyAllNobody \/ NotifyAllFirst
             \/ LoopStep \/ NotifyAllDangling \/ NotifyAllReturn \/ UNCHANGED vars
      PROVE  Same
  BY <1>2 DEF NotifyFront, NotifyStore, NotifyAllNobody, NotifyAllFirst, NotifyAllNext,
         NotifyAllEnd, NotifyAllDangling, NotifyAllReturn, LoopStep, Yield, NotifyWaiter, vars, futVars, listVars, PendingFutures
<1>3. \A f \in Futures : NewNotified(f) \/ PollInitReady(f) \/ PollDone(f) => Same
  BY DEF NewNotified, PollInitReady, PollDone, vars, futVars, PendingFutures, TypeOK
<1>4. \A f \in Futures, w \in Wakers : PollPending(f, w) => Same
  BY DEF PollPending, PendingFutures
<1>5. \A f \in Futures, w \in Wakers : PollInitPending(f, w) => Listed'
  BY Pushed DEF PollInitPending
<1>6. \A f \in Futures : PollNotified(f) => Listed'
  BY Removed DEF PollNotified, PendingFutures
<1>7. ASSUME NEW f \in Futures, Drop(f) PROVE Listed'
  <2>1. CASE fut[f] = "Pending"
    BY <1>7, <2>1, Removed DEF Drop, Unlink, PendingFutures
  <2>2. CASE fut[f] # "Pending"
    BY <1>7, <2>2, Freed DEF Drop, Unlink
  <2> QED BY <2>1, <2>2
<1> QED BY <1>1, <1>2, <1>3, <1>4, <1>5, <1>6, <1>7 DEF Next, Step, Poll

-----------------------------------------------------------------------------
(* Types, tasks and the stored notification                                *)

\* The list operations keep the types of the pointers.
LEMMA PointerTypes ==
  ASSUME TypeOK, NEW f \in Futures,
         List!PushBack(f) \/ List!Remove(f) \/ List!RemoveFree(f) \/ List!Free(f)
  PROVE  /\ {head', tail'} \subseteq Places
         /\ next' \in [Futures -> Places] /\ prev' \in [Futures -> Places]
<1> USE DEF TypeOK, Places
<1>1. CASE List!PushBack(f)
  BY <1>1 DEF List!PushBack
<1>2. CASE List!Remove(f)
  BY <1>2 DEF List!Remove, List!NextWithout, List!PrevWithout, List!Ends
<1>3. CASE List!RemoveFree(f)
  BY <1>3 DEF List!RemoveFree, List!NextWithout, List!PrevWithout, List!Ends
<1>4. CASE List!Free(f)
  BY <1>4 DEF List!Free
<1> QED BY <1>1, <1>2, <1>3, <1>4

\* Types; the length is a number because the list is one.
LEMMA TypeStep ==
  ASSUME LocalNotifyAssumption, ListInv, [Next]_vars
  PROVE  TypeOK'
<1> DEFINE Walks == [iter : Places, cur : Places, ahead : SUBSET Futures]
           Pointers == /\ {head, tail} \subseteq Places
                       /\ next \in [Futures -> Places] /\ prev \in [Futures -> Places]
           Rest == /\ state \in {0, 1} /\ {iter, cur} \subseteq Places
                   /\ fut \in [Futures -> {"None", "Init", "Pending", "Done"}]
                   /\ waker \in [Futures -> Wakers \union {NoWaker}]
                   /\ cx \in [Futures -> Wakers \union {NoWaker}]
                   /\ notified \subseteq Futures /\ woken \subseteq Futures
                   /\ ahead \subseteq Futures /\ running \in BOOLEAN
                   /\ outer \in Seq(Walks)
<1> USE DEF ListInv
<1>1. len' \in Nat
  BY ListedStep, LenProperties DEF Listed, ListIs, List!Links
<1>2. ASSUME UNCHANGED listVars PROVE Pointers'
  BY <1>2 DEF listVars, TypeOK
<1>3. head # Null => head \in Futures
  BY DEF TypeOK, Places
<1>4. ASSUME NEW f \in Futures, Yield(f) PROVE Pointers' /\ notified' \subseteq Futures /\
             woken' \subseteq Futures /\ {iter', cur'} \subseteq Places /\
             UNCHANGED <<fut, waker, cx>>
  <2>1. UNCHANGED listVars /\ UNCHANGED <<fut, waker, cx>>
    BY <1>4 DEF Yield, NotifyWaiter
  <2> QED BY <1>2, <1>4, <2>1 DEF Yield, NotifyWaiter, TypeOK, Places
<1>5. ASSUME NotifyFront PROVE (Pointers /\ Rest)'
  BY <1>2, <1>3, <1>5 DEF NotifyFront, NotifyWaiter, allVars, TypeOK
<1>6. ASSUME NotifyStore PROVE (Pointers /\ Rest)'
  BY <1>2, <1>6 DEF NotifyStore, Stored, futVars, allVars, TypeOK
<1>7. ASSUME NotifyAllNobody PROVE (Pointers /\ Rest)'
  BY <1>2, <1>7 DEF NotifyAllNobody, futVars, allVars, TypeOK
<1>8. ASSUME NotifyAllFirst PROVE (Pointers /\ Rest)'
  <2>1. ahead' \subseteq Futures
    BY <1>8 DEF NotifyAllFirst, PendingFutures
  <2>2. outer' \in Seq(Walks)
    <3>1. [iter |-> iter, cur |-> cur, ahead |-> ahead] \in Walks
      BY DEF TypeOK
    <3>2. <<[iter |-> iter, cur |-> cur, ahead |-> ahead]>> \o outer \in Seq(Walks)
      BY <3>1 DEF TypeOK
    <3> QED BY <1>8, <3>2 DEF NotifyAllFirst, TypeOK
  <2> QED BY <1>3, <1>4, <1>8, <2>1, <2>2 DEF NotifyAllFirst, TypeOK
<1>9. ASSUME NotifyAllNext PROVE (Pointers /\ Rest)'
  <2>1. iter \in Futures
    BY <1>9 DEF NotifyAllNext, TypeOK, Places
  <2> QED BY <1>4, <1>9, <2>1 DEF NotifyAllNext, TypeOK
<1>10. ASSUME NotifyAllEnd PROVE (Pointers /\ Rest)'
  BY <1>2, <1>10 DEF NotifyAllEnd, futVars, TypeOK, Places
<1>11. outer \in Seq(Walks)
  BY DEF TypeOK
<1>12. ASSUME NotifyAllDangling PROVE (Pointers /\ Rest)'
  BY <1>2, <1>12 DEF NotifyAllDangling, futVars, TypeOK, Places
<1>13. ASSUME NotifyAllReturn PROVE (Pointers /\ Rest)'
  <2>1. Head(outer) \in Walks /\ outer' \in Seq(Walks)
    <3> HIDE DEF Walks
    <3> QED BY <1>13, <1>11 DEF NotifyAllReturn
  <2> QED BY <1>2, <1>13, <2>1 DEF NotifyAllReturn, futVars, TypeOK
<1>14. ASSUME NEW f \in Futures, NewNotified(f) PROVE (Pointers /\ Rest)'
  BY <1>2, <1>14 DEF NewNotified, allVars, TypeOK
<1>15. ASSUME NEW f \in Futures, PollInitReady(f) PROVE (Pointers /\ Rest)'
  BY <1>2, <1>15 DEF PollInitReady, allVars, TypeOK
<1>16. ASSUME NEW f \in Futures, PollNotified(f) PROVE (Pointers /\ Rest)'
  BY <1>16, PointerTypes DEF PollNotified, allVars, TypeOK
<1>17. ASSUME NEW f \in Futures, NEW w \in Wakers, PollInitPending(f, w)
       PROVE  (Pointers /\ Rest)'
  BY <1>17, PointerTypes DEF PollInitPending, allVars, TypeOK
<1>18. ASSUME NEW f \in Futures, NEW w \in Wakers, PollPending(f, w)
       PROVE  (Pointers /\ Rest)'
  BY <1>2, <1>18 DEF PollPending, UpdateWaker, allVars, TypeOK
<1>19. ASSUME NEW f \in Futures, Drop(f) PROVE (Pointers /\ Rest)'
  <2> DEFINE Less(c) == [iter |-> c.iter, cur |-> IF c.cur = f THEN Null ELSE c.cur,
                         ahead |-> c.ahead \ {f}]
  <2>0. \A c \in Walks : Less(c) \in Walks
    BY DEF Places
  <2>1. outer' \in Seq(Walks)
    <3> HIDE DEF Walks
    <3>1. outer' = [i \in 1..Len(outer) |-> Less(outer[i])]
      BY <1>19, <1>11 DEF Drop
    <3>2. \A i \in 1..Len(outer) : outer[i] \in Walks
      BY <1>11
    <3> HIDE DEF Less
    <3>3. outer' \in [1..Len(outer) -> Walks] /\ Len(outer) \in Nat
      BY <1>11, <2>0, <3>1, <3>2
    <3> QED BY <3>3
  <2> QED BY <1>19, <2>1, PointerTypes DEF Drop, Unlink, TypeOK, Places
<1>20. ASSUME UNCHANGED vars PROVE (Pointers /\ Rest)'
  BY <1>2, <1>20 DEF vars, futVars, allVars, TypeOK
<1>21. \A f \in Futures : PollDone(f) => (Pointers /\ Rest)'
  BY <1>20 DEF PollDone
<1>22. (Pointers /\ Rest)'
  BY <1>5, <1>6, <1>7, <1>8, <1>9, <1>10, <1>14, <1>15, <1>16, <1>17, <1>18, <1>19,
     <1>20, <1>21, <1>12, <1>13
  DEF Next, Step, Poll, LoopStep
<1> QED BY <1>1, <1>22 DEF TypeOK

\* A notification is stored only while the list is empty, and an empty list is not
\* changed but by a poll that found nothing stored.
LEMMA StoredStep ==
  ASSUME LocalNotifyAssumption, ListInv, [Next]_vars
  PROVE  StoredOnlyWhenIdle'
<1> USE DEF ListInv, StoredOnlyWhenIdle
<1>1. ASSUME NotifyStore \/ NotifyAllNobody \/ NotifyAllFirst PROVE StoredOnlyWhenIdle'
  BY <1>1 DEF NotifyStore, NotifyAllNobody, NotifyAllFirst, Yield, NotifyWaiter, listVars
<1>2. ASSUME NotifyFront \/ LoopStep \/ NotifyAllDangling \/ NotifyAllReturn
      PROVE  StoredOnlyWhenIdle'
  BY <1>2 DEF NotifyFront, LoopStep, NotifyAllNext, NotifyAllDangling, NotifyAllEnd,
              NotifyAllReturn, Yield, NotifyWaiter, listVars
<1>3. ASSUME NEW f \in Futures, NewNotified(f) \/ PollInitReady(f) PROVE StoredOnlyWhenIdle'
  BY <1>3 DEF NewNotified, PollInitReady, listVars
<1>4. ASSUME NEW f \in Futures, NEW w \in Wakers, PollInitPending(f, w) \/ PollPending(f, w)
      PROVE  StoredOnlyWhenIdle'
  BY <1>4 DEF PollInitPending, NothingStored, PollPending, listVars
<1>5. ASSUME NEW f \in Futures, PollNotified(f) \/ Drop(f) PROVE StoredOnlyWhenIdle'
  <2>1. state' = state
    BY <1>5 DEF PollNotified, Drop
  <2>2. CASE fut[f] = "Pending"
    BY <2>1, <2>2, Neighbours DEF PendingFutures
  <2>3. CASE fut[f] # "Pending"
    BY <1>5, <2>1, <2>3 DEF PollNotified, Drop, Unlink, List!Free
  <2> QED BY <2>2, <2>3
<1>6. ASSUME UNCHANGED vars PROVE StoredOnlyWhenIdle'
  BY <1>6 DEF vars, listVars
<1>7. \A f \in Futures : PollDone(f) => StoredOnlyWhenIdle'
  BY <1>6 DEF PollDone
<1> QED BY <1>1, <1>2, <1>3, <1>4, <1>5, <1>6, <1>7 DEF Next, Step, Poll

\* Only who is or was linked is notified, is woken by the walk or waited for by it:
\* a memory that is reused has been dropped, and drop takes it out of all of these.
LEMMA WereLinkedStep ==
  ASSUME LocalNotifyAssumption, IInv, [Next /\ TameWakes]_vars
  PROVE  WereLinked'
<1> USE DEF IInv, ListInv, TypeOK, WereLinked, Alive
<1>0. /\ head # Null => head \in Futures /\ fut[head] = "Pending"
      /\ iter # Null => iter \in Futures /\ Alive(iter)
  <2>1. iter # Null => Alive(iter)
    BY DEF WalkGoesOn, Walk
  <2> QED BY <2>1, Neighbours DEF PendingFutures, Places
<1>1. ASSUME NotifyFront PROVE WereLinked'
  BY <1>0, <1>1 DEF NotifyFront, NotifyWaiter, allVars
<1>2. ASSUME NotifyStore \/ NotifyAllNobody PROVE WereLinked'
  BY <1>2 DEF NotifyStore, NotifyAllNobody, futVars, allVars
<1>3. ASSUME NotifyAllFirst PROVE WereLinked'
  BY <1>0, <1>3 DEF NotifyAllFirst, Yield, NotifyWaiter, PendingFutures
<1>4. ASSUME NotifyAllNext PROVE WereLinked'
  BY <1>0, <1>4 DEF NotifyAllNext, Yield, NotifyWaiter
<1>5. ASSUME NotifyAllEnd PROVE WereLinked'
  BY <1>5 DEF NotifyAllEnd, futVars
<1>6. ASSUME NEW f \in Futures, NewNotified(f) PROVE WereLinked'
  BY <1>6 DEF NewNotified, allVars
<1>7. ASSUME NEW f \in Futures, PollInitReady(f) PROVE WereLinked'
  BY <1>7 DEF PollInitReady, allVars
<1>8. ASSUME NEW f \in Futures, PollNotified(f) PROVE WereLinked'
  BY <1>8 DEF PollNotified, allVars
<1>9. ASSUME NEW f \in Futures, NEW w \in Wakers, PollInitPending(f, w) PROVE WereLinked'
  BY <1>9 DEF PollInitPending, allVars
<1>10. ASSUME NEW f \in Futures, NEW w \in Wakers, PollPending(f, w) PROVE WereLinked'
  BY <1>10 DEF PollPending, allVars
<1>11. ASSUME NEW f \in Futures, Drop(f) PROVE WereLinked'
  BY <1>11 DEF Drop
<1>12. ASSUME UNCHANGED vars PROVE WereLinked'
  BY <1>12 DEF vars, futVars, allVars
<1>13. \A f \in Futures : PollDone(f) => WereLinked'
  BY <1>12 DEF PollDone
<1> QED
  BY <1>1, <1>2, <1>3, <1>4, <1>5, <1>6, <1>7, <1>8, <1>9, <1>10, <1>11, <1>12, <1>13, <1>0
  DEF Next, Step, Poll, LoopStep, TameWakes, NotifyAllDangling, NotifyAllReturn

\* Every poll that leaves a future pending stores the waker of its task, and a
\* notification wakes the waker it finds.
LEMMA WakeStep ==
  ASSUME LocalNotifyAssumption, IInv, [Next /\ TameWakes]_vars
  PROVE  (WakerIsCurrent /\ NoLostWakeup)'
<1> DEFINE Good == WakerIsCurrent /\ NoLostWakeup
<1> USE DEF IInv, ListInv, TypeOK, WakerIsCurrent, NoLostWakeup, PendingFutures
<1>1. ASSUME NEW f \in Futures, NotifyWaiter(f) PROVE Good'
  BY <1>1 DEF NotifyWaiter
<1>2. NotifyFront \/ NotifyAllFirst \/ NotifyAllNext => Good'
  <2>1. head # Null => head \in Futures
    BY DEF Places
  <2>2. iter # Null => iter \in Futures
    BY DEF Places
  <2> QED BY <1>1, <2>1, <2>2 DEF NotifyFront, NotifyAllFirst, NotifyAllNext, Yield
<1>3. ASSUME NotifyStore \/ NotifyAllNobody \/ NotifyAllEnd \/ NotifyAllDangling \/ NotifyAllReturn
      PROVE Good'
  BY <1>3 DEF NotifyStore, NotifyAllNobody, NotifyAllEnd, NotifyAllDangling, NotifyAllReturn, futVars
<1>4. ASSUME NEW f \in Futures, NewNotified(f) PROVE Good'
  BY <1>4 DEF NewNotified
<1>5. ASSUME NEW f \in Futures, PollInitReady(f) PROVE Good'
  BY <1>5 DEF PollInitReady
<1>6. ASSUME NEW f \in Futures, PollNotified(f) PROVE Good'
  BY <1>6 DEF PollNotified
<1>7. ASSUME NEW f \in Futures, NEW w \in Wakers, PollInitPending(f, w) PROVE Good'
  BY <1>7 DEF PollInitPending, WereLinked, Alive, LocalNotifyAssumption
<1>8. ASSUME NEW f \in Futures, NEW w \in Wakers, PollPending(f, w) PROVE Good'
  BY <1>8 DEF PollPending, UpdateWaker, LocalNotifyAssumption
<1>9. ASSUME NEW f \in Futures, Drop(f) PROVE Good'
  BY <1>9 DEF Drop
<1>10. ASSUME UNCHANGED vars PROVE Good'
  BY <1>10 DEF vars, futVars
<1>11. \A f \in Futures : PollDone(f) => Good'
  BY <1>10 DEF PollDone
<1> QED
  BY <1>2, <1>3, <1>4, <1>5, <1>6, <1>7, <1>8, <1>9, <1>10, <1>11 DEF Next, Step, Poll, LoopStep

-----------------------------------------------------------------------------
(* The walk                                                                *)

\* A walk is not disturbed by what leaves the nodes before it as they are.
LEMMA WalkKept ==
  ASSUME NEW w \in SUBSET Futures, NEW r, Walk(w, r),
         iter' = iter, cur' \notin w,
         ahead' \intersect PendingFutures' \subseteq ahead \intersect PendingFutures,
         \A f \in w : next'[f] = next[f] /\ fut'[f] = fut[f]
  PROVE  Walk(w, r)'
BY DEF Walk, Alive, PendingFutures

\* notify_all begins at the front with everybody who waits before it.
LEMMA WalkBegins ==
  ASSUME LocalNotifyAssumption, TypeOK, Listed, NotifyAllFirst
  PROVE  WalkGoesOn'
<1>1. PICK s \in Seq(Futures) : ListIs(s)
  BY DEF Listed
<1>2. LP!ListOf(s) /\ LP!List!Links(s) /\ LP!ToSet(s) = PendingFutures
  BY <1>1, ListForm
<1>3. PICK n \in Nat : n = Len(s)
  BY <1>2, LP!PlaceOf
<1>4. PICK r \in [Futures -> 0..n] :
        /\ \A f \in PendingFutures : r[f] \in 1..n
        /\ \A f, g \in PendingFutures : r[f] = r[g] => f = g
        /\ \A f \in PendingFutures : IF next[f] = Null THEN r[f] = n
                                     ELSE r[next[f]] = r[f] + 1
        /\ head # Null => r[head] = 1
  BY <1>2, <1>3, LP!PlaceOrder
<1>5. /\ iter' = next[head] /\ cur' = head /\ ahead' = PendingFutures \ {head}
      /\ head \in PendingFutures
      /\ UNCHANGED <<next, fut>> /\ PendingFutures' = PendingFutures
  BY Neighbours DEF NotifyAllFirst, Yield, NotifyWaiter, listVars, PendingFutures
<1>6. CASE iter' = Null
  <2>0. head # Null /\ next[head] = Null
    BY <1>5, <1>6 DEF NotifyAllFirst
  <2>1. n = 1
    BY <1>4, <1>5, <2>0
  <2>2. PendingFutures = {head}
    BY <1>4, <1>5, <2>0, <2>1
  <2> QED BY <1>5, <1>6, <2>2 DEF WalkGoesOn
<1>7. CASE iter' # Null
  <2>0. PICK w \in SUBSET Futures : w = PendingFutures \ {head}
    BY DEF PendingFutures
  <2>1. iter' \in w /\ r[iter'] = 2
    BY <1>3, <1>4, <1>5, <1>7, <2>0, Neighbours DEF NotifyAllFirst
  <2>2. \A f \in w : r[f] \in 1..n /\ r[f] # 1
    BY <1>4, <1>5, <2>0 DEF NotifyAllFirst
  <2>3. \A f \in w : Alive(f)' /\ r[iter'] <= r[f]
    BY <1>3, <1>5, <2>0, <2>1, <2>2 DEF Alive, PendingFutures
  <2>4. ASSUME NEW f \in w, next[f] # Null
        PROVE  /\ next[f] \in w /\ r[f] < r[next[f]]
               /\ \A g \in w : ~(r[f] < r[g] /\ r[g] < r[next[f]])
    <3>1. r[next[f]] = r[f] + 1 /\ next[f] \in PendingFutures
      BY <1>4, <2>0, <2>4, Neighbours
    <3>2. \A g \in w : r[g] \in 1..n
      BY <2>2
    <3>3. r[next[f]] # 1
      BY <2>2, <3>1
    <3>4. next[f] \in w
      BY <1>4, <1>5, <2>0, <3>1, <3>3 DEF NotifyAllFirst
    <3> QED BY <1>3, <2>2, <3>1, <3>2, <3>4
  <2>5. ASSUME NEW f \in w, next[f] = Null
        PROVE  \A g \in w : ~(r[f] < r[g])
    <3>1. r[f] = n
      BY <1>4, <2>0, <2>5
    <3> QED BY <1>3, <2>2, <3>1
  <2>6. cur' \notin w /\ ahead' = w
    BY <1>5, <2>0
  <2>7. \A f, g \in w : r[f] = r[g] => f = g
    BY <1>4, <2>0
  <2>8. Walk(w, r)'
    BY <1>5, <1>7, <2>1, <2>3, <2>4, <2>5, <2>6, <2>7 DEF Walk
  <2> QED BY <1>7, <2>8 DEF WalkGoesOn
<1> QED BY <1>6, <1>7

\* notify_all goes on: the nodes behind the one it yields are left.
LEMMA WalkAdvances ==
  ASSUME LocalNotifyAssumption, TypeOK, WalkGoesOn, NotifyAllNext
  PROVE  WalkGoesOn'
<1>1. /\ iter # Null /\ iter' = next[iter] /\ cur' = iter /\ ahead' = ahead \ {iter}
      /\ UNCHANGED <<next, fut>> /\ PendingFutures' = PendingFutures
  BY DEF NotifyAllNext, Yield, NotifyWaiter, listVars, PendingFutures
<1>w. PICK v \in SUBSET Futures, n \in Nat : \E r \in [Futures -> 0..n] : Walk(v, r)
  BY <1>1 DEF WalkGoesOn
<1>2. PICK r \in [Futures -> 0..n] : Walk(v, r)
  BY <1>w
<1>3. \A f \in v : r[f] \in Nat
  BY <1>2
<1>4. CASE iter' = Null
  <2>1. \A f \in v : f # iter => r[iter] < r[f]
    BY <1>2, <1>3 DEF Walk
  <2>2. ahead' \intersect PendingFutures' \subseteq v \ {iter}
    BY <1>1, <1>2 DEF Walk
  <2>3. \A f \in v : r[iter] < r[f] /\ fut[f] = "Pending" => f \notin ahead
    BY <1>1, <1>2, <1>4 DEF Walk
  <2>4. ahead' \intersect PendingFutures' = {}
    BY <1>1, <2>1, <2>2, <2>3 DEF PendingFutures
  <2> QED BY <1>4, <2>4 DEF WalkGoesOn
<1>5. CASE iter' # Null
  <2> DEFINE x == next[iter]
  <2>1. PICK w \in SUBSET Futures : w = {f \in v : r[x] <= r[f]}
    OBVIOUS
  <2>2. x \in v /\ r[iter] < r[x]
    BY <1>1, <1>2, <1>5 DEF Walk
  <2>3. \A f \in w : f \in v /\ r[x] <= r[f]
    BY <2>1
  <2>4. \A f \in v : r[iter] < r[f] /\ r[f] < r[x] => fut[f] = "Done"
    BY <1>1, <1>2, <1>5 DEF Walk
  <2>5. iter' \in w /\ cur' \notin w
    BY <1>1, <1>2, <1>3, <2>1, <2>2 DEF Walk
  <2>6. \A f \in w : Alive(f)' /\ r[iter'] <= r[f]
    BY <1>1, <1>2, <2>3 DEF Walk, Alive
  <2>7. \A f, g \in w : r[f] = r[g] => f = g
    BY <1>2, <2>3 DEF Walk
  <2>8. ASSUME NEW f \in ahead' \intersect PendingFutures' PROVE f \in w
    <3>1. f \in v /\ f # iter /\ fut[f] = "Pending"
      BY <1>1, <1>2 DEF Walk, PendingFutures
    <3>2. r[iter] < r[f]
      BY <1>2, <1>3, <3>1 DEF Walk
    <3>3. r[x] <= r[f]
      BY <1>3, <2>2, <2>4, <3>1, <3>2
    <3> QED BY <2>1, <3>1, <3>3
  <2>9. ASSUME NEW f \in w, next[f] # Null
        PROVE  /\ next[f] \in w /\ r[f] < r[next[f]]
               /\ \A g \in w : r[f] < r[g] /\ r[g] < r[next[f]] => fut[g] = "Done"
    <3>1. /\ next[f] \in v /\ r[f] < r[next[f]]
          /\ \A g \in v : r[f] < r[g] /\ r[g] < r[next[f]] => fut[g] = "Done"
      BY <1>2, <2>3, <2>9 DEF Walk
    <3>2. r[x] <= r[next[f]]
      BY <1>3, <2>2, <2>3, <3>1
    <3> QED BY <2>1, <3>1, <3>2
  <2>10. ASSUME NEW f \in w, next[f] = Null
         PROVE  \A g \in w : r[f] < r[g] /\ fut[g] = "Pending" =>
                  g \notin ahead /\ fut[f] = "Done"
    BY <1>2, <2>3, <2>10 DEF Walk
  <2>11. \A f \in ahead' : f \in ahead
    BY <1>1
  <2> HIDE DEF x
  <2>12. Walk(w, r)'
    BY <1>1, <2>5, <2>6, <2>7, <2>8, <2>9, <2>10, <2>11 DEF Walk
  <2> QED BY <1>5, <2>12 DEF WalkGoesOn
<1> QED BY <1>4, <1>5

\* A future that is linked last comes last in the walk, if the walk comes to it.
LEMMA WalkLengthens ==
  ASSUME LocalNotifyAssumption, TypeOK, Listed, WereLinked, WalkGoesOn,
         NEW f \in Futures, NEW k \in Wakers, PollInitPending(f, k)
  PROVE  WalkGoesOn'
<1>1. /\ iter' = iter /\ cur' = cur /\ ahead' = ahead /\ fut[f] = "Init"
      /\ fut' = [fut EXCEPT ![f] = "Pending"]
      /\ next' = [m \in Futures |-> IF m = tail THEN f ELSE IF m = f THEN Null ELSE next[m]]
  BY DEF PollInitPending, List!PushBack, allVars
<1>2. /\ f \notin ahead /\ f # cur /\ f # Null
  BY <1>1 DEF WereLinked, Alive, LocalNotifyAssumption
<1>3. ahead' \intersect PendingFutures' = ahead \intersect PendingFutures
  BY <1>1, <1>2 DEF PendingFutures, TypeOK
<1>4. CASE iter = Null
  BY <1>1, <1>3, <1>4 DEF WalkGoesOn
<1>5. CASE iter # Null
  <2>0. PICK v \in SUBSET Futures, n \in Nat : \E r \in [Futures -> 0..n] : Walk(v, r)
    BY <1>5 DEF WalkGoesOn
  <2>1. PICK r \in [Futures -> 0..n] : Walk(v, r)
    BY <2>0
  <2>2. f \notin v /\ \A g \in v : Alive(g) /\ r[g] \in 0..n
    BY <1>1, <2>1 DEF Walk, Alive
  <2>3. PICK w \in SUBSET Futures : w = v \union {f}
    OBVIOUS
  <2>4. PICK q \in [Futures -> 0..(n+1)] : q = [r EXCEPT ![f] = n + 1]
    <3>1. [r EXCEPT ![f] = n + 1] \in [Futures -> 0..(n+1)]
      OBVIOUS
    <3> QED BY <3>1
  <2>5. q[f] = n + 1 /\ \A g \in v : q[g] = r[g] /\ q[g] < n + 1
    BY <2>2, <2>4
  <2>6. fut'[f] = "Pending" /\ \A g \in v : fut'[g] = fut[g]
    BY <1>1, <2>2 DEF TypeOK
  <2>7. tail # f /\ (tail # Null => fut[tail] = "Pending" /\ next[tail] = Null)
    BY <1>1, <1>2, Neighbours DEF PendingFutures
  <2>8. next'[f] = Null /\ \A g \in v : next'[g] = IF g = tail THEN f ELSE next[g]
    BY <1>1, <2>2, <2>7
  <2>9. \A g \in v : next[g] = Null /\ g # tail => fut[g] = "Done"
    BY <2>2, Neighbours DEF Alive, PendingFutures
  <2>10. ASSUME NEW g \in w, next'[g] # Null
         PROVE  /\ next'[g] \in w /\ q[g] < q[next'[g]]
                /\ \A h \in w : q[g] < q[h] /\ q[h] < q[next'[g]] => fut'[h] = "Done"
    <3>1. g \in v
      BY <2>3, <2>8, <2>10
    <3>2. CASE g = tail
      <4>1. next'[g] = f
        BY <2>8, <3>1, <3>2
      <4>2. \A h \in v : r[g] < r[h] => fut[h] = "Done"
        BY <1>2, <2>1, <2>2, <2>7, <3>1, <3>2 DEF Walk, Alive
      <4> QED BY <2>3, <2>5, <2>6, <3>1, <4>1, <4>2
    <3>3. CASE g # tail
      <4>1. next'[g] = next[g]
        BY <2>8, <3>1, <3>3
      <4>2. /\ next[g] \in v /\ r[g] < r[next[g]]
            /\ \A h \in v : r[g] < r[h] /\ r[h] < r[next[g]] => fut[h] = "Done"
        BY <2>1, <2>10, <3>1, <4>1 DEF Walk
      <4> QED BY <2>3, <2>5, <2>6, <3>1, <4>1, <4>2
    <3> QED BY <3>2, <3>3
  <2>11. ASSUME NEW g \in w, next'[g] = Null, NEW h \in w, q[g] < q[h], fut'[h] = "Pending"
         PROVE  h \notin ahead' /\ fut'[g] = "Done"
    <3>1. g \in v
      BY <2>3, <2>5, <2>11
    <3>2. g # tail /\ next[g] = Null
      BY <1>2, <2>8, <2>11, <3>1
    <3>3. fut'[g] = "Done"
      BY <2>6, <2>9, <3>1, <3>2
    <3>4. CASE h = f
      BY <1>1, <1>2, <3>3, <3>4
    <3>5. CASE h \in v
      BY <1>1, <2>1, <2>5, <2>6, <2>11, <3>1, <3>2, <3>3, <3>5 DEF Walk
    <3> QED BY <2>3, <3>4, <3>5
  <2>12. iter \in v /\ cur \notin v /\ ahead \intersect PendingFutures \subseteq v
    BY <2>1 DEF Walk
  <2>13. iter' \in w /\ cur' \notin w /\ ahead' \intersect PendingFutures' \subseteq w
    BY <1>1, <1>2, <1>3, <2>3, <2>12
  <2>14. \A g \in w : Alive(g)' /\ q[iter'] <= q[g]
    BY <1>1, <2>1, <2>2, <2>3, <2>5, <2>6, <2>12 DEF Walk, Alive
  <2>15. \A g, h \in w : q[g] = q[h] => g = h
    BY <2>1, <2>3, <2>5 DEF Walk
  <2>16. Walk(w, q)'
    BY <2>10, <2>11, <2>13, <2>14, <2>15 DEF Walk
  <2> QED BY <1>1, <1>5, <2>16 DEF WalkGoesOn
<1> QED BY <1>4, <1>5

\* A node that leaves the list inside a wake keeps its place in the walk: who led
\* to it leads past it now, and it leads on where it led.
LEMMA WalkPasses ==
  ASSUME LocalNotifyAssumption, TypeOK, Listed, WalkGoesOn,
         NEW f \in Futures, PollNotified(f)
  PROVE  WalkGoesOn'
<1>1. /\ iter' = iter /\ cur' = cur /\ ahead' = ahead /\ fut[f] = "Pending"
      /\ fut' = [fut EXCEPT ![f] = "Done"]
      /\ next' = [m \in Futures |-> IF m = prev[f] THEN next[f] ELSE next[m]]
  BY DEF PollNotified, List!Remove, List!NextWithout, allVars
<1>2. ahead' \intersect PendingFutures' \subseteq ahead \intersect PendingFutures
  BY <1>1 DEF PendingFutures, TypeOK
<1>3. CASE iter = Null
  BY <1>1, <1>2, <1>3 DEF WalkGoesOn
<1>4. CASE iter # Null
  <2>0. PICK w \in SUBSET Futures, n \in Nat : \E r \in [Futures -> 0..n] : Walk(w, r)
    BY <1>4 DEF WalkGoesOn
  <2>1. PICK r \in [Futures -> 0..n] : Walk(w, r)
    BY <2>0
  <2>2. \A g \in w : r[g] \in Nat
    BY <2>1
  <2>3. fut'[f] = "Done" /\ \A g \in w : g # f => fut'[g] = fut[g]
    BY <1>1 DEF TypeOK
  <2>4. \A g \in w : fut[g] = "Done" => fut'[g] = "Done"
    BY <2>3
  <2>5. \A g \in w : fut'[g] = "Pending" => fut[g] = "Pending" /\ g # f
    BY <2>3
  <2>6. \A g \in w : next'[g] = IF g = prev[f] THEN next[f] ELSE next[g]
    BY <1>1
  <2>7. \A g \in w : g = prev[f] => next[g] = f /\ fut[g] = "Pending"
    <3>1. f \in PendingFutures
      BY <1>1 DEF PendingFutures
    <3>2. \A g \in w : g # Null
      BY DEF LocalNotifyAssumption
    <3> QED BY <3>1, <3>2, Neighbours DEF PendingFutures
  <2>8. ASSUME NEW g \in w, g = prev[f]
        PROVE  /\ f \in w /\ r[g] < r[f]
               /\ \A h \in w : r[g] < r[h] /\ r[h] < r[f] => fut[h] = "Done"
    <3>1. f # Null
      BY DEF LocalNotifyAssumption
    <3> QED BY <2>1, <2>7, <2>8, <3>1 DEF Walk
  <2>9. ASSUME NEW g \in w, next'[g] # Null
        PROVE  /\ next'[g] \in w /\ r[g] < r[next'[g]]
               /\ \A h \in w : r[g] < r[h] /\ r[h] < r[next'[g]] => fut'[h] = "Done"
    <3>1. CASE g # prev[f]
      <4>1. next'[g] = next[g]
        BY <2>6, <3>1
      <4>2. /\ next[g] \in w /\ r[g] < r[next[g]]
            /\ \A h \in w : r[g] < r[h] /\ r[h] < r[next[g]] => fut[h] = "Done"
        BY <2>1, <2>9, <4>1 DEF Walk
      <4> QED BY <2>4, <4>1, <4>2
    <3>2. CASE g = prev[f]
      <4>1. next'[g] = next[f]
        BY <2>6, <3>2
      <4>2. /\ next[f] \in w /\ r[f] < r[next[f]]
            /\ \A h \in w : r[f] < r[h] /\ r[h] < r[next[f]] => fut[h] = "Done"
        BY <2>1, <2>8, <2>9, <3>2, <4>1 DEF Walk
      <4>3. \A h \in w : r[h] = r[f] => h = f
        BY <2>1, <2>8, <3>2 DEF Walk
      <4> QED BY <2>2, <2>3, <2>4, <2>8, <3>2, <4>1, <4>2, <4>3
    <3> QED BY <3>1, <3>2
  <2>10. ASSUME NEW g \in w, next'[g] = Null, NEW h \in w, r[g] < r[h], fut'[h] = "Pending"
         PROVE  h \notin ahead' /\ fut'[g] = "Done"
    <3>1. fut[h] = "Pending" /\ h # f
      BY <2>5, <2>10
    <3>2. CASE g # prev[f]
      BY <1>1, <2>1, <2>4, <2>6, <2>10, <3>1, <3>2 DEF Walk
    <3>3. CASE g = prev[f]
      <4>1. next[f] = Null /\ f \in w
        BY <2>6, <2>8, <2>10, <3>3
      <4>2. ~(r[f] < r[h])
        BY <1>1, <2>1, <3>1, <4>1 DEF Walk
      <4>3. r[h] # r[f]
        BY <2>1, <3>1, <4>1 DEF Walk
      <4> QED BY <2>2, <2>8, <2>10, <3>1, <3>3, <4>1, <4>2, <4>3
    <3> QED BY <3>2, <3>3
  <2>11. \A g \in w : Alive(g)'
    BY <2>1, <2>3 DEF Walk, Alive
  <2>12. Walk(w, r)'
    BY <1>1, <1>2, <2>1, <2>9, <2>10, <2>11 DEF Walk
  <2> QED BY <1>1, <1>4, <2>12 DEF WalkGoesOn
<1> QED BY <1>3, <1>4

\* Inside a wake only the woken future is dropped, or one that was never linked, and
\* the walk has no pointer to either.
LEMMA WalkOutlives ==
  ASSUME LocalNotifyAssumption, TypeOK, Listed, WereLinked, WalkGoesOn,
         NEW f \in Futures, Drop(f), TameWakes
  PROVE  WalkGoesOn'
<1>1. /\ iter' = iter /\ cur' \in {cur, Null} /\ ahead' = ahead \ {f}
      /\ fut' = [fut EXCEPT ![f] = "None"] /\ Unlink(f)
      /\ running => f = cur \/ fut[f] = "Init"
  BY DEF Drop, TameWakes, TypeOK
<1>2. ahead' \intersect PendingFutures' \subseteq ahead \intersect PendingFutures
  BY <1>1 DEF PendingFutures, TypeOK
<1>3. CASE iter = Null
  BY <1>1, <1>2, <1>3 DEF WalkGoesOn
<1>4. CASE iter # Null
  <2>1. PICK w \in SUBSET Futures, n \in Nat : \E r \in [Futures -> 0..n] : Walk(w, r)
    BY <1>4 DEF WalkGoesOn
  <2>2. PICK r \in [Futures -> 0..n] : Walk(w, r)
    BY <2>1
  <2>3. f = cur \/ fut[f] = "Init"
    BY <1>1, <1>4 DEF WereLinked
  <2>4. f \notin w
    BY <2>2, <2>3 DEF Walk, Alive
  <2>5. \A g \in w : fut'[g] = fut[g]
    BY <1>1, <2>4 DEF TypeOK
  <2>6. \A g \in w : next'[g] = next[g]
    <3>1. CASE fut[f] = "Pending"
      <4>1. \A g \in w : g # prev[f]
        BY <2>2, <2>4, <3>1, Neighbours DEF Walk, PendingFutures, LocalNotifyAssumption
      <4> QED BY <1>1, <2>4, <3>1, <4>1 DEF Unlink, List!RemoveFree, List!NextWithout
    <3>2. CASE fut[f] # "Pending"
      BY <1>1, <2>4, <3>2 DEF Unlink, List!Free, TypeOK
    <3> QED BY <3>1, <3>2
  <2>7. cur' \notin w
    BY <1>1, <2>2 DEF Walk, LocalNotifyAssumption
  <2>8. Walk(w, r)'
    BY <1>1, <1>2, <2>2, <2>5, <2>6, <2>7, WalkKept
  <2> QED BY <1>1, <1>4, <2>8 DEF WalkGoesOn
<1> QED BY <1>3, <1>4

\* The walk of notify_all goes on, whatever its wakes do.
LEMMA WalkStep ==
  ASSUME LocalNotifyAssumption, IInv, [Next /\ TameWakes]_vars
  PROVE  WalkGoesOn'
<1> DEFINE Kept == /\ UNCHANGED <<iter, cur, ahead, next>>
                   /\ ahead' \intersect PendingFutures' \subseteq ahead \intersect PendingFutures
                   /\ \A f \in Futures : Alive(f) => fut'[f] = fut[f]
<1> USE DEF IInv, ListInv
<1>1. ASSUME Kept PROVE WalkGoesOn'
  <2>1. CASE iter = Null
    BY <1>1, <2>1 DEF WalkGoesOn
  <2>2. CASE iter # Null
    <3>1. PICK w \in SUBSET Futures, n \in Nat : \E r \in [Futures -> 0..n] : Walk(w, r)
      BY <2>2 DEF WalkGoesOn
    <3>2. PICK r \in [Futures -> 0..n] : Walk(w, r)
      BY <3>1
    <3>3. cur' \notin w /\ \A f \in w : next'[f] = next[f] /\ fut'[f] = fut[f]
      BY <1>1, <3>2 DEF Walk
    <3>4. Walk(w, r)'
      BY <1>1, <3>2, <3>3, WalkKept
    <3> QED BY <1>1, <2>2, <3>4 DEF WalkGoesOn
  <2> QED BY <2>1, <2>2
<1>2. ASSUME NotifyFront \/ NotifyStore \/ UNCHANGED vars PROVE Kept
  BY <1>2 DEF NotifyFront, NotifyStore, NotifyWaiter, vars, listVars, futVars, allVars,
              PendingFutures
<1>3. NotifyAllNobody => Kept
  BY DEF NotifyAllNobody, listVars, futVars, allVars, PendingFutures
<1>4. NotifyAllFirst => WalkGoesOn'
  BY WalkBegins
<1>5. NotifyAllNext => WalkGoesOn'
  BY WalkAdvances
<1>6. NotifyAllEnd => WalkGoesOn'
  BY DEF NotifyAllEnd, WalkGoesOn
<1>7. ASSUME NEW f \in Futures, NewNotified(f) \/ PollInitReady(f) PROVE Kept
  BY <1>7 DEF NewNotified, PollInitReady, listVars, allVars, PendingFutures, Alive, TypeOK
<1>8. \A f \in Futures, k \in Wakers : PollPending(f, k) => Kept
  BY DEF PollPending, listVars, allVars, PendingFutures
<1>9. \A f \in Futures : PollDone(f) => Kept
  BY <1>2 DEF PollDone
<1>10. \A f \in Futures, k \in Wakers : PollInitPending(f, k) => WalkGoesOn'
  BY WalkLengthens
<1>11. \A f \in Futures : PollNotified(f) => WalkGoesOn'
  BY WalkPasses
<1>12. \A f \in Futures : Drop(f) /\ TameWakes => WalkGoesOn'
  BY WalkOutlives
<1>13. ~NotifyAllDangling /\ ~NotifyAllReturn
  BY DEF NotifyAllDangling, NotifyAllReturn, WalkGoesOn, Walk, Alive
<1> HIDE DEF Kept
<1> QED
  BY <1>1, <1>2, <1>3, <1>4, <1>5, <1>6, <1>7, <1>8, <1>9, <1>10, <1>11, <1>12, <1>13
  DEF Next, Step, Poll, LoopStep

-----------------------------------------------------------------------------
(* The theorems                                                            *)

\* At the start nothing waits, nothing is stored, and there is no walk.
LEMMA InitInv ==
  ASSUME LocalNotifyAssumption, Init
  PROVE  IInv
<1> USE DEF Init, List!Init
<1>1. TypeOK
  <2>1. outer \in Seq([iter : Places, cur : Places, ahead : SUBSET Futures])
    OBVIOUS
  <2> QED BY <2>1 DEF TypeOK, Places
<1>2. PendingFutures = {}
  BY DEF PendingFutures
<1>3. Listed
  <2>1. << >> \in Seq(Futures) /\ Len(<< >>) = 0 /\ DOMAIN << >> = {}
    OBVIOUS
  <2>2. IsInjective(<< >>) /\ ToSet(<< >>) = PendingFutures
    BY <1>2, <2>1 DEF IsInjective, ToSet
  <2>3. List!Links(<< >>)
    BY <2>1 DEF List!Links
  <2> QED BY <2>1, <2>2, <2>3 DEF Listed, ListIs
<1>4. StoredOnlyWhenIdle /\ NoLostWakeup /\ WakerIsCurrent
  BY <1>2 DEF StoredOnlyWhenIdle, NoLostWakeup, WakerIsCurrent
<1>5. WereLinked /\ WalkGoesOn
  BY <1>2 DEF WereLinked, WalkGoesOn
<1> QED BY <1>1, <1>3, <1>4, <1>5 DEF IInv, ListInv

\* What holds whatever the code that runs inside a wake does: the types, the list, and
\* that nothing is stored while a task waits.
THEOREM LocalNotifyListInvariant == Spec => []ListInv
<1>1. Init => ListInv
  BY InitInv, LocalNotifyAssumption DEF IInv
<1>2. ListInv /\ [Next]_vars => ListInv'
  BY LocalNotifyAssumption, TypeStep, ListedStep, StoredStep DEF ListInv
<1> QED BY <1>1, <1>2, PTL DEF Spec

\* With tame wakes IInv holds, and every step is one of TameNext.
LEMMA TameStep ==
  /\ Init => IInv
  /\ IInv /\ [Next /\ TameWakes]_vars => IInv' /\ [TameNext]_vars
<1>1. Init => IInv
  BY InitInv, LocalNotifyAssumption
<1>2. IInv /\ [Next /\ TameWakes]_vars => IInv'
  <2> SUFFICES ASSUME IInv, [Next /\ TameWakes]_vars PROVE IInv'
    OBVIOUS
  <2>1. ListInv'
    BY LocalNotifyAssumption, TypeStep, ListedStep, StoredStep DEF IInv, ListInv
  <2>2. (WakerIsCurrent /\ NoLostWakeup)' /\ WereLinked' /\ WalkGoesOn'
    BY LocalNotifyAssumption, WakeStep, WereLinkedStep, WalkStep
  <2>3. outer' = << >>
    BY DEF IInv, TameWakes, vars, allVars
  <2> QED BY <2>1, <2>2, <2>3 DEF IInv
<1>3. IInv => ~NotifyAllDangling /\ ~NotifyAllReturn
  BY DEF IInv, NotifyAllDangling, NotifyAllReturn, WalkGoesOn, Walk, Alive
<1> QED BY <1>1, <1>2, <1>3 DEF Next, TameNext

\* TameSpec leaves out no step of the code that tame wakes would let it take: with them
\* no walk follows a pointer to a future that is gone, and none is inside another.
THEOREM LocalNotifyTameSteps == Init /\ [][Next /\ TameWakes]_vars => TameSpec
BY TameStep, PTL DEF TameSpec

\* The inductive invariant of local/notify.rs, on the assumption that wakes are tame.
THEOREM LocalNotifyInvariant == TameSpec => []IInv
<1>1. TameNext => Next /\ TameWakes
  BY DEF TameNext, Next
<1>2. IInv /\ [TameNext]_vars => IInv'
  BY <1>1, TameStep
<1> QED BY <1>2, TameStep, PTL DEF TameSpec

\* The variables have their types.
THEOREM LocalNotifyTypes == Spec => []TypeOK
<1>1. ListInv => TypeOK
  BY DEF ListInv
<1> QED BY <1>1, LocalNotifyListInvariant, PTL

\* The pointers of the intrusive list link exactly the futures that wait, in both
\* directions, whatever is polled, dropped and linked inside the wakes of notify_all,
\* also where these drop futures that the walk still holds a pointer to.
THEOREM LocalNotifyListSound == Spec => []ListIsPending
<1>1. ListInv => ListIsPending
  <2> SUFFICES ASSUME ListInv PROVE ListIsPending
    OBVIOUS
  <2>1. PICK s \in Seq(Futures) : ListIs(s)
    BY DEF ListInv, Listed
  <2>2. s \in SetToSeqs(PendingFutures)
    BY <2>1, InjectiveIsListing DEF ListIs
  <2> QED BY <2>1, <2>2 DEF ListIsPending, ListIs
<1> QED BY <1>1, LocalNotifyListInvariant, PTL

\* notify_one stores its notification only when nobody waits, and nobody starts to
\* wait before a stored notification is taken.
THEOREM LocalNotifyStoredIdle == Spec => []StoredOnlyWhenIdle
<1>1. ListInv => StoredOnlyWhenIdle
  BY DEF ListInv
<1> QED BY <1>1, LocalNotifyListInvariant, PTL

\* With tame wakes, a future that is notified while it waits has its task woken, by
\* the waker of its last poll.
THEOREM LocalNotifyWakes == TameSpec => []NoLostWakeup
<1>1. IInv => NoLostWakeup
  BY DEF IInv
<1> QED BY <1>1, LocalNotifyInvariant, PTL

\* With tame wakes, the pointer that IterMut holds while a wake runs is to a future
\* that still lives.
THEOREM LocalNotifyIterAlive == TameSpec => []IterAlive
<1>1. IInv => IterAlive
  BY DEF IInv, WalkGoesOn, Walk, Alive, IterAlive
<1> QED BY <1>1, LocalNotifyInvariant, PTL

\* With tame wakes, when the walk of notify_all has come to its end, each future that
\* waited when it began has been notified, or waits no more.
THEOREM LocalNotifyReaches == TameSpec => []EveryoneReached
<1>1. IInv => EveryoneReached
  BY DEF IInv, WalkGoesOn, EveryoneReached
<1> QED BY <1>1, LocalNotifyInvariant, PTL
=============================================================================
