----------------------------- MODULE NotifyList -----------------------------
(***************************************************************************)
(* Notify together with its LinkedList: each step that links or unlinks a  *)
(* waiter does so by the pointers, which live in the futures.  The guards  *)
(* stay those on the sequence `waiters'; ListIsWaiters is what makes that  *)
(* the same as asking head.  A waiter that a poll unlinks lives on with    *)
(* its pointers in the code; the lock sees to it that nobody reads them    *)
(* any more (LocalNotify is where somebody does), so they go to None too.  *)
(*                                                                         *)
(* The list is dropped with its Notify, which the borrow in each Notified  *)
(* and in each call puts off until the futures that live are gone.  A      *)
(* leaked future borrows nothing any more.                                 *)
(***************************************************************************)
EXTENDS Notify

CONSTANT Null    \* a pointer that is None

ASSUME NullAssumption == Null \notin Futures

VARIABLES
  head, tail, next, prev, len,
  dropped    \* the Notify has been dropped

List == INSTANCE LinkedList WITH Nodes <- Futures

listVars == <<head, tail, next, prev, len>>
linkedVars == <<vars, listVars, dropped>>

LinkedInit == Init /\ List!Init /\ dropped = FALSE

\* A step while the Notify lives.
LiveNext ==
  \/ /\ \/ NotifyFront
        \/ NotifyStore
        \/ \E t \in Threads : NotifyAllStore(t) \/ NotifyAllLock(t)
        \/ \E f \in Futures : NewNotified(f) \/ PollInitReady(f) \/ PollDone(f) \/ Leak(f)
        \/ \E f \in Futures, w \in Wakers : PollPending(f, w)
        \/ \E f \in Futures : fut[f] # "Pending" /\ Drop(f)
     /\ UNCHANGED listVars
  \/ \E f \in Futures, w \in Wakers : PollInitPending(f, w) /\ List!PushBack(f)
  \/ \E f \in Futures : PollNotified(f) /\ List!RemoveFree(f)
  \/ \E f \in Futures : fut[f] = "Pending" /\ Drop(f) /\ List!RemoveFree(f)

\* The drop of the Notify, and of its list.
DropNotify ==
  /\ clearing = {}
  /\ \A f \in Futures : fut[f] \in {"None", "Leaked"}
  /\ dropped' = TRUE
  /\ UNCHANGED <<vars, listVars>>

LinkedNext ==
  /\ ~dropped
  /\ DropNotify \/ (LiveNext /\ UNCHANGED dropped)

LinkedSpec == LinkedInit /\ [][LinkedNext]_linkedVars

LinkedFairSpec == LinkedSpec /\ Fairness

-----------------------------------------------------------------------------
\* The pointers link exactly the waiters, in their order, forward and backward,
\* whichever of them is polled, leaked or dropped first -- so front_mut, iter_mut and
\* is_empty see what the sequence says, and no pointer that is followed leads into a
\* future that is gone.
ListIsWaiters == List!Links(waiters)

\* When Notify drops, its list is empty and in order (notify.rs:45, and what the drop
\* of the list asserts, linked_list.rs:262-265), in whatever order the futures were
\* linked, notified, polled and dropped before -- if none was leaked while it was
\* linked.  The code says it of all programs; with a leaked waiter the assertion fails.
EmptyUnlessLeaked ==
  dropped /\ (\A f \in Futures : fut[f] # "Leaked") => List!AssertedOnDrop
=============================================================================
