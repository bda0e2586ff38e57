---------------------------- MODULE LocalNotify -----------------------------
(***************************************************************************)
(* The Notify of src/src/local/notify.rs, for tasks of one thread.  There  *)
(* is no lock: a wake may poll, drop and create futures before it returns. *)
(* Each operation but notify_all ends with its wake, if it has one, so it  *)
(* is one action.  notify_all wakes in the middle of its walk: it is one   *)
(* action per node, and the actions between two of them run inside the     *)
(* wake of `cur'.  One of them may be another notify_all: the walks that   *)
(* are suspended then wait in `outer'.                                     *)
(*                                                                         *)
(* The walk follows pointers, so this module is on the pointers of         *)
(* LinkedList, and a waiter that was removed keeps those it had.           *)
(*                                                                         *)
(* Spec lets a wake do whatever the code lets it do.  TameSpec is Spec for *)
(* wakes that drop no polled future but the one they wake and do not call  *)
(* notify_all: an executor whose wakes only queue a task is of that kind.  *)
(* A walk needs it (see NotifyAllDangling).                                *)
(***************************************************************************)
EXTENDS Naturals, SequencesExt

CONSTANTS
  Futures,    \* the Notified futures, by the memory they occupy
  Wakers,     \* the wakers tasks poll with
  NoWaker,    \* Option::None in waiter.waker
  Null,       \* a pointer that is None
  MaxWalks    \* bound: how many calls of notify_all are under way at once

ASSUME LocalNotifyAssumption ==
  /\ NoWaker \notin Wakers /\ Null \notin Futures
  /\ MaxWalks \in Nat

VARIABLES
  state,                           \* Notify::state, 1 iff a notification is stored
  head, tail, next, prev, len,     \* Notify::waiters
  fut,        \* Notified::state; "None" where no future lives
  notified,   \* the futures whose waiter.notified is set
  waker,      \* waiter.waker
  cx,         \* external: waker of the task that now awaits the future
  woken,      \* external: futures whose task was woken since its last poll
  running,    \* notify_all is in its loop
  iter,       \* IterMut::head, the node it yields next
  cur,        \* the future being woken, until it is dropped
  ahead,      \* history: futures that waited when notify_all began, not yet yielded
  outer       \* iter, cur and ahead of the walks this one interrupts, last one first

listVars == <<head, tail, next, prev, len>>
futVars == <<fut, notified, waker, cx>>
allVars == <<running, iter, cur, ahead, outer>>
vars == <<state, listVars, futVars, woken, allVars>>

List == INSTANCE LinkedList WITH Nodes <- Futures

PendingFutures == {f \in Futures : fut[f] = "Pending"}

Init ==
  /\ state = 0 /\ List!Init
  /\ fut = [f \in Futures |-> "None"]
  /\ notified = {} /\ woken = {}
  /\ waker = [f \in Futures |-> NoWaker]
  /\ cx = [f \in Futures |-> NoWaker]
  /\ running = FALSE /\ iter = Null /\ cur = Null /\ ahead = {} /\ outer = << >>

-----------------------------------------------------------------------------
(* Notified                                                                *)

NewNotified(f) ==
  /\ fut[f] = "None"
  /\ fut' = [fut EXCEPT ![f] = "Init"]
  /\ UNCHANGED <<state, listVars, notified, waker, cx, woken, allVars>>

\* State::Init: a stored notification is taken.
PollInitReady(f) ==
  /\ fut[f] = "Init"
  /\ state = 1
  /\ state' = 0
  /\ fut' = [fut EXCEPT ![f] = "Done"]
  /\ UNCHANGED <<listVars, notified, waker, cx, woken, allVars>>

\* Fault: a waiter is linked without looking for a stored notification.
NothingStoredBlind == TRUE

NothingStored == state # 1

\* State::Init: nothing is stored, the waiter gets the waker and is linked last.
PollInitPending(f, w) ==
  /\ fut[f] = "Init"
  /\ NothingStored
  /\ waker' = [waker EXCEPT ![f] = w]
  /\ cx' = [cx EXCEPT ![f] = w]
  /\ List!PushBack(f)
  /\ fut' = [fut EXCEPT ![f] = "Pending"]
  /\ UNCHANGED <<state, notified, woken, allVars>>

\* State::Pending, notified: the waiter is unlinked and lives on in the future.
PollNotified(f) ==
  /\ fut[f] = "Pending"
  /\ f \in notified
  /\ List!Remove(f)
  /\ fut' = [fut EXCEPT ![f] = "Done"]
  /\ cx' = [cx EXCEPT ![f] = NoWaker]
  /\ woken' = woken \ {f}
  /\ UNCHANGED <<state, notified, waker, allVars>>

\* Fault: a later poll keeps the waker of the first one.
KeepWaker(f, w) == UNCHANGED waker

\* The waker is replaced unless it would wake the same task.
UpdateWaker(f, w) == waker' = [waker EXCEPT ![f] = w]

\* State::Pending, not notified.
PollPending(f, w) ==
  /\ fut[f] = "Pending"
  /\ f \notin notified
  /\ UpdateWaker(f, w)
  /\ cx' = [cx EXCEPT ![f] = w]
  /\ woken' = woken \ {f}
  /\ UNCHANGED <<state, listVars, fut, notified, allVars>>

\* State::Done: Ready again.
PollDone(f) == fut[f] = "Done" /\ UNCHANGED vars

Poll(f) ==
  \/ PollInitReady(f) \/ PollNotified(f) \/ PollDone(f)
  \/ \E w \in Wakers : PollInitPending(f, w) \/ PollPending(f, w)

\* A pending waiter is unlinked; its memory is gone.
Unlink(f) == IF fut[f] = "Pending" THEN List!RemoveFree(f) ELSE List!Free(f)

\* Drop for Notified.  No iterator is told.
Drop(f) ==
  /\ fut[f] # "None"
  /\ Unlink(f)
  /\ fut' = [fut EXCEPT ![f] = "None"]
  /\ waker' = [waker EXCEPT ![f] = NoWaker]
  /\ cx' = [cx EXCEPT ![f] = NoWaker]
  /\ notified' = notified \ {f}
  /\ woken' = woken \ {f}
  /\ cur' = IF cur = f THEN Null ELSE cur
  /\ ahead' = ahead \ {f}
  /\ outer' = [i \in DOMAIN outer |-> [iter |-> outer[i].iter,
                                      cur |-> IF outer[i].cur = f THEN Null ELSE outer[i].cur,
                                      ahead |-> outer[i].ahead \ {f}]]
  /\ UNCHANGED <<state, running, iter>>

-----------------------------------------------------------------------------
(* Notify                                                                  *)

\* The waiter of f is notified and its waker woken.
NotifyWaiter(f) ==
  /\ notified' = notified \union {f}
  /\ woken' = IF waker[f] # NoWaker /\ waker[f] = cx[f] THEN woken \union {f} ELSE woken
  /\ UNCHANGED <<listVars, fut, waker, cx>>

NotifyFront ==
  /\ head # Null
  /\ NotifyWaiter(head)
  /\ UNCHANGED <<state, allVars>>

\* Fault: stored notifications are counted.
StoredCounting == state + 1

Stored == 1

\* notify_one without a waiter: the notification is stored.
NotifyStore ==
  /\ head = Null
  /\ state' = Stored
  /\ UNCHANGED <<listVars, futVars, woken, allVars>>

\* Fault: the iterator reads the pointer of a node only after its wake.
YieldLate(f) == NotifyWaiter(f) /\ cur' = f /\ iter' = f

\* IterMut::next and the body of the loop: the iterator goes on to the next node
\* before the loop wakes the waker of this one.
Yield(f) == NotifyWaiter(f) /\ cur' = f /\ iter' = next[f]

\* notify_all: a stored notification is discarded, and there is nobody to wake.
NotifyAllNobody ==
  /\ head = Null
  /\ state' = 0
  /\ UNCHANGED <<listVars, futVars, woken, allVars>>

\* notify_all: a stored notification is discarded, the front waiter is woken.  The
\* walk whose wake has made this call, if any, is suspended.
NotifyAllFirst ==
  /\ head # Null
  /\ running => Len(outer) + 1 < MaxWalks
  /\ state' = 0
  /\ running' = TRUE
  /\ outer' = IF running THEN <<[iter |-> iter, cur |-> cur, ahead |-> ahead]>> \o outer
              ELSE outer
  /\ ahead' = PendingFutures \ {head}
  /\ Yield(head)

\* Fault: the loop asks the list for its front again.
NotifyAllNextFront ==
  /\ running /\ head # Null
  /\ ahead' = ahead \ {head}
  /\ Yield(head)
  /\ UNCHANGED <<state, running, outer>>

\* The wake of `cur' has returned.
NotifyAllNext ==
  /\ running /\ iter # Null /\ fut[iter] # "None"
  /\ ahead' = ahead \ {iter}
  /\ Yield(iter)
  /\ UNCHANGED <<state, running, outer>>

\* The same, when the next node is gone with its future: what is read there as its
\* next pointer has no defined value, and what is written there reaches no future.
NotifyAllDangling ==
  /\ running /\ iter # Null /\ fut[iter] = "None"
  /\ iter' \in Futures \union {Null}
  /\ cur' = Null
  /\ UNCHANGED <<state, listVars, futVars, woken, running, ahead, outer>>

NotifyAllEnd ==
  /\ running /\ iter = Null /\ outer = << >>
  /\ running' = FALSE
  /\ cur' = Null
  /\ ahead' = {}
  /\ UNCHANGED <<state, listVars, futVars, woken, iter, outer>>

\* The end of a call made inside a wake: the walk that was suspended goes on.
NotifyAllReturn ==
  /\ running /\ iter = Null /\ outer # << >>
  /\ iter' = Head(outer).iter /\ cur' = Head(outer).cur /\ ahead' = Head(outer).ahead
  /\ outer' = Tail(outer)
  /\ UNCHANGED <<state, listVars, futVars, woken, running>>

LoopStep == NotifyAllNext \/ NotifyAllEnd

-----------------------------------------------------------------------------
Step ==
  \/ NotifyFront \/ NotifyStore
  \/ NotifyAllNobody \/ NotifyAllFirst \/ LoopStep
  \/ \E f \in Futures : NewNotified(f) \/ Poll(f) \/ Drop(f)

Next == Step \/ NotifyAllDangling \/ NotifyAllReturn

Spec == Init /\ [][Next]_vars

\* Assumption on wakes: inside a walk no future that was polled is dropped but the
\* one being woken, and notify_all is not called again (unless nobody waits).
TameWakes ==
  /\ outer' = << >>
  /\ \A f \in Futures : running /\ fut[f] \in {"Pending", "Done"} /\ fut'[f] = "None" => f = cur

\* There are then no other steps, as iter never dangles and outer stays empty (the
\* theorem LocalNotifyTameSteps).
TameNext == Step /\ TameWakes

TameSpec == Init /\ [][TameNext]_vars

\* A wake returns, so that the walk goes on.
TameFairSpec == TameSpec /\ WF_vars(LoopStep)

-----------------------------------------------------------------------------
(* Properties                                                              *)

Places == Futures \union {Null}

TypeOK ==
  /\ state \in {0, 1}
  /\ {head, tail, iter, cur} \subseteq Places /\ len \in Nat
  /\ next \in [Futures -> Places] /\ prev \in [Futures -> Places]
  /\ fut \in [Futures -> {"None", "Init", "Pending", "Done"}]
  /\ waker \in [Futures -> Wakers \union {NoWaker}]
  /\ cx \in [Futures -> Wakers \union {NoWaker}]
  /\ notified \subseteq Futures /\ woken \subseteq Futures /\ ahead \subseteq Futures
  /\ running \in BOOLEAN
  /\ outer \in Seq([iter : Places, cur : Places, ahead : SUBSET Futures])

\* The pointers link exactly the pending futures, in both directions, whatever a
\* wake polls, links or drops while walks stand in the middle of the list.
ListIsPending == \E s \in SetToSeqs(PendingFutures) : List!Links(s)

\* A notification is never stored while a task waits, also when it is stored
\* inside a walk.
StoredOnlyWhenIdle == state = 1 => head = Null

\* The task of a notified future is awake, through its current waker.
NoLostWakeup == \A f \in PendingFutures \intersect notified : f \in woken

\* The node that the walk yields next is alive, though the woken future may have
\* been dropped and other nodes polled out of the list -- with tame wakes (the run
\* local_notify_drops shows what happens with others).
IterAlive == iter # Null => fut[iter] # "None"

\* local/notify.rs:38 says that notify_all notifies all waiting tasks.  So whoever
\* waited when it began has been notified when the walk is over, even if the walk
\* went through nodes that had left the list.  The code needs tame wakes for it
\* (run local_notify_drops).
EveryoneReached == running /\ iter = Null => ahead \intersect PendingFutures \subseteq notified

\* local/notify.rs:38 again: whoever waits when notify_all is called has its turn at some
\* point of the walk, or waits no more -- also in a walk that never ends, because its
\* wakes link new waiters for ever and it comes to those too.
Owed(f) == f \in ahead /\ fut[f] = "Pending"

EveryoneComesUp == \A f \in Futures : Owed(f) ~> ~Owed(f)
=============================================================================
