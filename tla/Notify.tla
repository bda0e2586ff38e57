------------------------------- MODULE Notify -------------------------------
(***************************************************************************)
(* The thread-safe Notify of src/src/notify.rs with the tasks that await   *)
(* its Notified futures and the threads that call notify_one and           *)
(* notify_all.                                                             *)
(*                                                                         *)
(* Everything the code does under the waiters mutex is one action: inside  *)
(* such a section the only access to memory that others touch without the  *)
(* lock is at most one atomic operation on `state'.  The store with which  *)
(* notify_all starts is outside the lock, so notify_all is two actions.    *)
(*                                                                         *)
(* The executor is external.  A task polls with a waker; the wake of that  *)
(* waker puts the task in `woken' until it polls again.  Any task may also *)
(* poll for a reason of its own (select, join), and the task that awaits a *)
(* future may change between two polls, so every poll names its waker.     *)
(***************************************************************************)
EXTENDS Naturals, SequencesExt

CONSTANTS
  Futures,    \* the Notified futures, by the memory they occupy
  Wakers,     \* the wakers tasks poll with
  NoWaker,    \* Option::None in waiter.waker
  Threads,    \* the threads that call notify_all
  MaxOnes     \* bound: how often notify_one is called

ASSUME NotifyAssumption ==
  /\ NoWaker \notin Wakers
  /\ MaxOnes \in Nat

VARIABLES
  state,      \* Notify::state, 1 iff a notification is stored
  waiters,    \* Notify::waiters, the futures whose waiter is linked, front first
  fut,        \* Notified::state; "None" where no future lives, "Leaked" where one
              \* lives for ever
  notified,   \* the futures whose waiter.notified is set
  waker,      \* waiter.waker
  cx,         \* external: waker of the task that now awaits the future
  woken,      \* external: futures whose task was woken since its last poll
  clearing,   \* the threads in notify_all between the store and the lock
  ones        \* history: number of notify_one calls so far

vars == <<state, fut, waiters, notified, waker, cx, woken, clearing, ones>>

FutState == {"None", "Init", "Pending", "Done", "Leaked"}

Init ==
  /\ state = 0
  /\ waiters = << >>
  /\ fut = [f \in Futures |-> "None"]
  /\ notified = {}
  /\ waker = [f \in Futures |-> NoWaker]
  /\ cx = [f \in Futures |-> NoWaker]
  /\ woken = {}
  /\ clearing = {}
  /\ ones = 0

-----------------------------------------------------------------------------
(* Waking: waker.wake_by_ref() on the waiters in F.  A waker that is not   *)
(* the one of the task now awaiting the future wakes a task that no longer *)
(* polls it.                                                               *)

Wake(F) == woken' = woken \union {f \in F : waker[f] # NoWaker /\ waker[f] = cx[f]}

-----------------------------------------------------------------------------
(* Notified                                                                *)

\* Notify::notified: a fresh future with a fresh waiter.
NewNotified(f) ==
  /\ fut[f] = "None"
  /\ fut' = [fut EXCEPT ![f] = "Init"]
  /\ UNCHANGED <<state, waiters, notified, waker, cx, woken, clearing, ones>>

\* Fault: the stored notification is read but not reset.
PollInitReadyKeeps(f) ==
  /\ fut[f] = "Init"
  /\ state = 1
  /\ fut' = [fut EXCEPT ![f] = "Done"]
  /\ UNCHANGED <<state, waiters, notified, waker, cx, woken, clearing, ones>>

\* State::Init: the compare_exchange takes a stored notification.
PollInitReady(f) ==
  /\ fut[f] = "Init"
  /\ state = 1
  /\ state' = 0
  /\ fut' = [fut EXCEPT ![f] = "Done"]
  /\ UNCHANGED <<waiters, notified, waker, cx, woken, clearing, ones>>

\* Fault: a waiter is linked without looking for a stored notification.
PollInitPendingBlind(f, w) ==
  /\ fut[f] = "Init"
  /\ waker' = [waker EXCEPT ![f] = w]
  /\ waiters' = Append(waiters, f)
  /\ fut' = [fut EXCEPT ![f] = "Pending"]
  /\ cx' = [cx EXCEPT ![f] = w]
  /\ UNCHANGED <<state, notified, woken, clearing, ones>>

\* Fault: the new waiter is linked at the front of the list.
PollInitPendingFront(f, w) ==
  /\ fut[f] = "Init"
  /\ state # 1
  /\ waker' = [waker EXCEPT ![f] = w]
  /\ waiters' = Cons(f, waiters)
  /\ fut' = [fut EXCEPT ![f] = "Pending"]
  /\ cx' = [cx EXCEPT ![f] = w]
  /\ UNCHANGED <<state, notified, woken, clearing, ones>>

\* State::Init: nothing is stored, the waiter gets the waker and is linked last.
PollInitPending(f, w) ==
  /\ fut[f] = "Init"
  /\ state # 1
  /\ waker' = [waker EXCEPT ![f] = w]
  /\ waiters' = Append(waiters, f)
  /\ fut' = [fut EXCEPT ![f] = "Pending"]
  /\ cx' = [cx EXCEPT ![f] = w]
  /\ UNCHANGED <<state, notified, woken, clearing, ones>>

\* State::Pending, notified: the waiter is unlinked and the future is done.
PollNotified(f) ==
  /\ fut[f] = "Pending"
  /\ f \in notified
  /\ waiters' = RemoveFirst(waiters, f)
  /\ fut' = [fut EXCEPT ![f] = "Done"]
  /\ cx' = [cx EXCEPT ![f] = NoWaker]
  /\ woken' = woken \ {f}
  /\ UNCHANGED <<state, notified, waker, clearing, ones>>

\* Fault: a later poll keeps the waker of the first one.
PollPendingStale(f, w) ==
  /\ fut[f] = "Pending"
  /\ f \notin notified
  /\ cx' = [cx EXCEPT ![f] = w]
  /\ woken' = woken \ {f}
  /\ UNCHANGED <<state, waiters, fut, notified, waker, clearing, ones>>

\* State::Pending, not notified: the waker is replaced unless it would wake the
\* same task.
PollPending(f, w) ==
  /\ fut[f] = "Pending"
  /\ f \notin notified
  /\ waker' = [waker EXCEPT ![f] = w]
  /\ cx' = [cx EXCEPT ![f] = w]
  /\ woken' = woken \ {f}
  /\ UNCHANGED <<state, waiters, fut, notified, clearing, ones>>

\* State::Done: Ready again.
PollDone(f) == fut[f] = "Done" /\ UNCHANGED vars

Poll(f) ==
  \/ PollInitReady(f)
  \/ PollNotified(f)
  \/ PollDone(f)
  \/ \E w \in Wakers : PollInitPending(f, w) \/ PollPending(f, w)

\* Fault: a dropped future stays in the wait list.
DropLinked(f) ==
  /\ fut[f] \notin {"None", "Leaked"}
  /\ fut' = [fut EXCEPT ![f] = "None"]
  /\ waker' = [waker EXCEPT ![f] = NoWaker]
  /\ notified' = notified \ {f}
  /\ cx' = [cx EXCEPT ![f] = NoWaker]
  /\ woken' = woken \ {f}
  /\ UNCHANGED <<state, waiters, clearing, ones>>

\* Drop for Notified: a pending waiter is unlinked; the waiter is gone, and with
\* it a notification it had received.
Drop(f) ==
  /\ fut[f] \notin {"None", "Leaked"}
  /\ waiters' = IF fut[f] = "Pending" THEN RemoveFirst(waiters, f) ELSE waiters
  /\ fut' = [fut EXCEPT ![f] = "None"]
  /\ waker' = [waker EXCEPT ![f] = NoWaker]
  /\ notified' = notified \ {f}
  /\ cx' = [cx EXCEPT ![f] = NoWaker]
  /\ woken' = woken \ {f}
  /\ UNCHANGED <<state, clearing, ones>>

\* A pending future is leaked (mem::forget of a pinned box): it is never polled or
\* dropped again, its memory is never used again, and its waiter stays linked.
Leak(f) ==
  /\ fut[f] = "Pending"
  /\ fut' = [fut EXCEPT ![f] = "Leaked"]
  /\ cx' = [cx EXCEPT ![f] = NoWaker]
  /\ woken' = woken \ {f}
  /\ UNCHANGED <<state, waiters, notified, waker, clearing, ones>>

-----------------------------------------------------------------------------
(* Notify                                                                  *)

\* notify_one with a waiter: the front one is notified and its waker woken,
\* whether or not it was notified before.
NotifyFront ==
  /\ ones < MaxOnes
  /\ waiters # << >>
  /\ notified' = notified \union {Head(waiters)}
  /\ Wake({Head(waiters)})
  /\ ones' = ones + 1
  /\ UNCHANGED <<state, waiters, fut, waker, cx, clearing>>

\* Fault: stored notifications are counted.
NotifyStoreCounting ==
  /\ ones < MaxOnes
  /\ waiters = << >>
  /\ state' = state + 1
  /\ ones' = ones + 1
  /\ UNCHANGED <<waiters, fut, notified, waker, cx, woken, clearing>>

\* notify_one without a waiter: the notification is stored.
NotifyStore ==
  /\ ones < MaxOnes
  /\ waiters = << >>
  /\ state' = 1
  /\ ones' = ones + 1
  /\ UNCHANGED <<waiters, fut, notified, waker, cx, woken, clearing>>

\* notify_all, before the lock: a stored notification is discarded.
NotifyAllStore(t) ==
  /\ t \notin clearing
  /\ state' = 0
  /\ clearing' = clearing \union {t}
  /\ UNCHANGED <<waiters, fut, notified, waker, cx, woken, ones>>

\* Fault: notify_all stops after the front waiter.
NotifyAllLockFront(t) ==
  /\ t \in clearing
  /\ waiters # << >>
  /\ notified' = notified \union {Head(waiters)}
  /\ Wake({Head(waiters)})
  /\ clearing' = clearing \ {t}
  /\ UNCHANGED <<state, waiters, fut, waker, cx, ones>>

\* notify_all, under the lock: every linked waiter is notified and woken.
NotifyAllLock(t) ==
  /\ t \in clearing
  /\ notified' = notified \union ToSet(waiters)
  /\ Wake(ToSet(waiters))
  /\ clearing' = clearing \ {t}
  /\ UNCHANGED <<state, waiters, fut, waker, cx, ones>>

-----------------------------------------------------------------------------
Next ==
  \/ NotifyFront
  \/ NotifyStore
  \/ \E t \in Threads : NotifyAllStore(t) \/ NotifyAllLock(t)
  \/ \E f \in Futures : NewNotified(f) \/ Poll(f) \/ Drop(f) \/ Leak(f)

Spec == Init /\ [][Next]_vars

\* A woken task is polled by its executor, and a thread inside notify_all gets
\* the lock: the sections under it are finite and never wait for another lock.
Fairness ==
  /\ \A f \in Futures : WF_vars(f \in woken /\ Poll(f))
  /\ \A t \in Threads : WF_vars(NotifyAllLock(t))

FairSpec == Spec /\ Fairness

-----------------------------------------------------------------------------
(* Properties                                                              *)

TypeOK ==
  /\ state \in {0, 1}
  /\ waiters \in Seq(Futures)
  /\ fut \in [Futures -> FutState]
  /\ notified \subseteq Futures
  /\ waker \in [Futures -> Wakers \union {NoWaker}]
  /\ cx \in [Futures -> Wakers \union {NoWaker}]
  /\ woken \subseteq Futures
  /\ clearing \subseteq Threads
  /\ ones \in 0..MaxOnes

PendingFutures == {f \in Futures : fut[f] = "Pending"}

LinkedFutures == {f \in Futures : fut[f] \in {"Pending", "Leaked"}}

\* The wait list links exactly the futures that are pending, or were when they were
\* leaked, each once: what the unsafe remove in poll and in drop relies on
\* (notify.rs:121-122, 216), and with it that no link leads into a future that is gone.
QueuedIffPending == IsInjective(waiters) /\ ToSet(waiters) = LinkedFutures

\* A notification is never stored while a task waits: a waiter that is linked
\* has looked for it under the lock, and notify_one stores under the lock.
StoredOnlyWhenIdle == state = 1 => waiters = << >>

\* Notifications reach the waiters in the order they were linked: those that
\* are notified and still linked are the front part of the list, whatever is
\* dropped or polled meanwhile (so the front is the right place to notify).
NotifiedPrefix ==
  \A j \in DOMAIN waiters : waiters[j] \in notified =>
    \A i \in 1..j : waiters[i] \in notified

\* The task that awaits a notified future has been woken and has not polled it
\* since, even if the future moved to another task between two polls.
NoLostWakeup == \A f \in PendingFutures \intersect notified : f \in woken

\* A task that waits when notify_all starts comes to its end (or is dropped or
\* leaked), whatever else is created, notified, polled and leaked while notify_all
\* is under way.
NotifyAllReachesWaiters ==
  \A t \in Threads, f \in Futures :
    (t \in clearing /\ fut[f] = "Pending") ~> fut[f] # "Pending"

\* The strengthening with which the invariants above are inductive: a waiter is
\* notified only while it is linked or after, and a linked waiter has the waker
\* of the task that awaits it now.
NotifiedWasLinked == \A f \in notified : fut[f] \in {"Pending", "Done", "Leaked"}
WakerIsCurrent == \A f \in PendingFutures : waker[f] # NoWaker /\ waker[f] = cx[f]

IInv ==
  /\ TypeOK /\ QueuedIffPending /\ StoredOnlyWhenIdle /\ NotifiedPrefix
  /\ NoLostWakeup /\ NotifiedWasLinked /\ WakerIsCurrent

Phase(f) ==
  IF fut[f] = "Pending" THEN IF f \in notified THEN "Notified" ELSE "Waiting"
  ELSE fut[f]

Abs == INSTANCE NotifySpec WITH
  token <- state = 1, phase <- [f \in Futures |-> Phase(f)], calling <- clearing

\* The wait list, lock and wakers implement the promise of NotifySpec, with its
\* liveness: every notified task finishes unless its future is dropped.
Implements == Abs!Spec

\* What notify.rs:76 says of notify_one: it notifies a single waiting task.  So
\* when a task waits that has no notification yet, a call gives one to somebody.
\* (The code may choose a front waiter that was notified before and has yet to
\* poll: the two notifications become one.)
NotifyOneNotifiesAWaiter ==
  [][ones' = ones + 1 /\ ~ (PendingFutures \subseteq notified) => notified' # notified]_vars

\* What notify.rs:62 says of notify_all: if no tasks are waiting, it does nothing.  So
\* a notification that is stored for the next task stays.
NotifyAllAloneDoesNothing == [][clearing' # clearing /\ waiters = << >> => state' = state]_vars
=============================================================================
