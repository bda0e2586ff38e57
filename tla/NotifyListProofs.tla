-------------------------- MODULE NotifyListProofs --------------------------
(***************************************************************************)
(* The pointers of the wait list implement the sequence with which Notify  *)
(* is specified, for any number of futures.                                *)
(***************************************************************************)
EXTENDS NotifyList, NotifyProofs

\* The lemmas about the list, whose nodes are the futures.
LP == INSTANCE LinkedListProofs WITH Nodes <- Futures

\* The operators on sequences are the same on either side of the instance.
LEMMA SameOperators ==
  ASSUME NEW s, NEW e
  PROVE  /\ LP!ToSet(s) = ToSet(s)
         /\ LP!IsInjective(s) <=> IsInjective(s)
         /\ LP!RemoveFirst(s, e) = RemoveFirst(s, e)
<1>1. LP!ToSet(s) = ToSet(s)
  BY DEF LP!ToSet, ToSet
<1>2. LP!IsInjective(s) <=> IsInjective(s)
  BY DEF LP!IsInjective, IsInjective
<1>3. LP!RemoveFirst(s, e) = RemoveFirst(s, e)
  BY DEF LP!RemoveFirst, RemoveFirst, LP!RemoveAt, RemoveAt, LP!SelectInSeq, SelectInSeq,
         LP!Min, Min
<1> QED BY <1>1, <1>2, <1>3

\* The wait list is a list of live nodes.
LEMMA WaitersAreList ==
  ASSUME IInv, NullAssumption
  PROVE  LP!ListOf(waiters)
BY SameOperators DEF IInv, TypeOK, QueuedIffPending, NullAssumption, LP!ListOf

\* push_back of a future that is not linked appends it to the sequence.
LEMMA PushBackStep ==
  ASSUME NullAssumption, IInv, ListIsWaiters,
         NEW f \in Futures, NEW w \in Wakers, PollInitPending(f, w), List!PushBack(f)
  PROVE  ListIsWaiters'
<1>1. PICK s : s = waiters
  OBVIOUS
<1>2. LP!ListOf(s) /\ LP!List!Links(s) /\ LP!List!PushBack(f)
  BY <1>1, WaitersAreList
  DEF ListIsWaiters, List!Links, LP!List!Links, List!PushBack, LP!List!PushBack
<1>3. f \notin ToSet(s) /\ waiters' = Append(s, f)
  BY <1>1 DEF IInv, QueuedIffPending, LinkedFutures, PollInitPending
<1>4. LP!List!Links(Append(s, f))'
  BY <1>2, <1>3, LP!PushBackLinks, SameOperators
<1> QED BY <1>3, <1>4 DEF ListIsWaiters, List!Links, LP!List!Links

\* remove of a linked future takes it from the sequence, wherever it stands.
LEMMA RemoveStep ==
  ASSUME NullAssumption, IInv, ListIsWaiters,
         NEW f \in Futures, fut[f] = "Pending",
         waiters' = RemoveFirst(waiters, f), List!RemoveFree(f)
  PROVE  ListIsWaiters'
<1>1. PICK s : s = waiters
  OBVIOUS
<1>2. LP!ListOf(s) /\ LP!List!Links(s)
  BY <1>1, WaitersAreList DEF ListIsWaiters, List!Links, LP!List!Links
<1>3. LP!List!RemoveFree(f)
  BY DEF List!RemoveFree, List!NextWithout, List!PrevWithout, List!Ends,
         LP!List!RemoveFree, LP!List!NextWithout, LP!List!PrevWithout, LP!List!Ends
<1>4. f \in ToSet(s) /\ waiters' = RemoveFirst(s, f)
  BY <1>1, Unlinked
<1>5. LP!List!Links(RemoveFirst(s, f))'
  BY <1>2, <1>3, <1>4, LP!RemoveLinks, SameOperators
<1> QED BY <1>4, <1>5 DEF ListIsWaiters, List!Links, LP!List!Links

-----------------------------------------------------------------------------
\* Each step with the pointers is a step of Notify.
LEMMA LinkedIsStep ==
  ASSUME [LinkedNext]_linkedVars
  PROVE  [Next]_vars
BY DEF LinkedNext, LiveNext, DropNotify, linkedVars, Next, Poll

\* Notify with its pointers implements Notify: what is proved of the sequence
\* holds of the program that has the list.
THEOREM LinkedRefines == LinkedSpec => Spec
<1>1. LinkedInit => Init
  BY DEF LinkedInit
<1>2. [LinkedNext]_linkedVars => [Next]_vars
  BY LinkedIsStep
<1> QED BY <1>1, <1>2, PTL DEF LinkedSpec, Spec

\* The pointers link exactly the waiters, in both directions (linked_list.rs:
\* 146-197), through every step of Notify.
THEOREM LinkedListIsWaiters == LinkedSpec => []ListIsWaiters
<1>1. LinkedInit => ListIsWaiters
  BY DEF LinkedInit, Init, List!Init, ListIsWaiters, List!Links
<1>2. ASSUME IInv, ListIsWaiters, [LinkedNext]_linkedVars
      PROVE  ListIsWaiters'
  <2>1. ASSUME waiters' = waiters, UNCHANGED listVars
        PROVE  ListIsWaiters'
    BY <1>2, <2>1 DEF listVars, ListIsWaiters, List!Links
  <2>2. CASE UNCHANGED linkedVars
    BY <2>1, <2>2 DEF linkedVars, vars
  <2>3. ASSUME NEW f \in Futures, NEW w \in Wakers, PollInitPending(f, w), List!PushBack(f)
        PROVE  ListIsWaiters'
    BY <1>2, <2>3, NullAssumption, PushBackStep
  <2>4. ASSUME NEW f \in Futures, PollNotified(f), List!RemoveFree(f)
        PROVE  ListIsWaiters'
    BY <1>2, <2>4, NullAssumption, RemoveStep DEF PollNotified
  <2>5. ASSUME NEW f \in Futures, fut[f] = "Pending", Drop(f), List!RemoveFree(f)
        PROVE  ListIsWaiters'
    BY <1>2, <2>5, NullAssumption, RemoveStep DEF Drop
  <2>6. CASE /\ \/ NotifyFront
                \/ NotifyStore
                \/ \E t \in Threads : NotifyAllStore(t) \/ NotifyAllLock(t)
                \/ \E f \in Futures : NewNotified(f) \/ PollInitReady(f) \/ PollDone(f) \/ Leak(f)
                \/ \E f \in Futures, w \in Wakers : PollPending(f, w)
                \/ \E f \in Futures : fut[f] # "Pending" /\ Drop(f)
             /\ UNCHANGED listVars
    <3>1. waiters' = waiters
      BY <2>6 DEF NotifyFront, NotifyStore, NotifyAllStore, NotifyAllLock, NewNotified,
                  PollInitReady, PollDone, PollPending, Drop, Leak, vars
    <3> QED BY <2>1, <2>6, <3>1
  <2>7. CASE LiveNext
    BY <2>3, <2>4, <2>5, <2>6, <2>7 DEF LiveNext
  <2>8. CASE DropNotify
    BY <2>1, <2>8 DEF DropNotify, vars
  <2> QED BY <1>2, <2>2, <2>7, <2>8 DEF LinkedNext
<1> QED BY <1>1, <1>2, LinkedRefines, NotifyInvariant, PTL DEF LinkedSpec

\* When Notify drops, its list is empty and passes the assertions of its drop
\* (linked_list.rs:262-265), unless a future was leaked while it was linked.
THEOREM LinkedEmptyUnlessLeaked == LinkedSpec => []EmptyUnlessLeaked
<1> DEFINE Gone == dropped => \A f \in Futures : fut[f] \in {"None", "Leaked"}
<1>1. LinkedInit => Gone
  BY DEF LinkedInit
<1>2. Gone /\ [LinkedNext]_linkedVars => Gone'
  BY DEF LinkedNext, DropNotify, linkedVars, vars
<1>3. IInv /\ ListIsWaiters /\ Gone => EmptyUnlessLeaked
  <2> SUFFICES ASSUME IInv, ListIsWaiters, Gone, dropped, \A f \in Futures : fut[f] # "Leaked"
               PROVE  List!AssertedOnDrop
    BY DEF EmptyUnlessLeaked
  <2>1. LinkedFutures = {}
    BY DEF LinkedFutures
  <2>2. waiters \in Seq(Futures) /\ ToSet(waiters) = {}
    BY <2>1 DEF IInv, TypeOK, QueuedIffPending
  <2>3. waiters = << >>
    <3>1. ASSUME waiters # << >> PROVE waiters[1] \in ToSet(waiters)
      BY <2>2, <3>1 DEF ToSet
    <3> QED BY <2>2, <3>1
  <2> QED BY <2>3 DEF ListIsWaiters, List!Links, List!AssertedOnDrop
<1> HIDE DEF Gone
<1> QED
  BY <1>1, <1>2, <1>3, LinkedRefines, LinkedListIsWaiters, NotifyInvariant, PTL DEF LinkedSpec
=============================================================================
