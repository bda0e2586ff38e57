----------------------------- MODULE Semaphore ------------------------------
(***************************************************************************)
(* The Semaphore of src/src/semaphore.rs, with the tasks that await its    *)
(* Acquire futures, the Permits they hold and the threads that add permits *)
(* (by add_permits or by dropping a Permit).                               *)
(*                                                                         *)
(* The permit counter is an atomic that try_acquire_many and add_permits   *)
(* change without the lock.  Under the lock a poll does one atomic update  *)
(* of the counter, so it is one action; add_permits is two: it adds, and   *)
(* later walks the list with the sum it saw then.                          *)
(***************************************************************************)
EXTENDS Integers, SequencesExt

CONSTANTS
  Futures,      \* the Acquire futures, by the memory they occupy
  Wakers,       \* the wakers tasks poll with
  NoWaker,      \* Option::None in waiter.waker
  Threads,      \* the threads that add permits
  Sizes,        \* the n of acquire_many(n), try_acquire_many(n), add_permits(n)
  InitPermits,  \* Semaphore::new(permits)
  Modulus,      \* usize::MAX + 1
  MaxSupply,    \* bound: add_permits is called while the supply is below
  MaxZero       \* bound: live permits of size zero are counted up to here

ASSUME SemaphoreAssumption ==
  /\ NoWaker \notin Wakers
  /\ Modulus \in Nat /\ MaxSupply \in Nat /\ MaxZero \in Nat
  /\ InitPermits \in Nat /\ InitPermits < Modulus
  /\ Sizes \subseteq Nat /\ \A n \in Sizes : n < Modulus

VARIABLES
  permits,    \* Semaphore::permits
  waiters,    \* Semaphore::waiters, the futures whose waiter is linked, front first
  fut,        \* Acquire::state; "None" where no future lives
  need,       \* waiter.permits, also the n of State::Init and State::Waiting
  waker,      \* waiter.waker
  cx,         \* external: waker of the task that now awaits the future
  woken,      \* external: futures whose task was woken since its last poll
  adding,     \* the threads in add_permits between the addition and the lock
  snap,       \* add_permits: the local `permits' of those threads
  held,       \* how many Permits of each size are alive
  supply,     \* history: permits created and not forgotten
  moved       \* history: waiters that became the front one when another left,
              \* and that no walk of add_permits has reached since

callVars == <<adding, snap>>
vars == <<permits, waiters, fut, need, waker, cx, woken, adding, snap, held, supply, moved>>

FutState == {"None", "Init", "Waiting", "Done"}
PermitSizes == Sizes \union {0}

Wrap(n) == IF n < Modulus THEN n ELSE n - Modulus

Init ==
  /\ permits = InitPermits
  /\ waiters = << >>
  /\ fut = [f \in Futures |-> "None"]
  /\ need = [f \in Futures |-> 0]
  /\ waker = [f \in Futures |-> NoWaker]
  /\ cx = [f \in Futures |-> NoWaker]
  /\ woken = {}
  /\ adding = {}
  /\ snap = [t \in Threads |-> 0]
  /\ held = [n \in PermitSizes |-> 0]
  /\ supply = InitPermits
  /\ moved = {}

-----------------------------------------------------------------------------
(* Permits                                                                 *)

\* The fetch_update with checked_sub: all of n or nothing.
Take(n) == n <= permits /\ permits' = permits - n

\* A Permit of size n comes to life.
Hold(n) ==
  held' = [held EXCEPT ![n] = IF n = 0 /\ @ >= MaxZero THEN @ ELSE @ + 1]

\* The waiter of f leaves the list.
Unlink(f) ==
  /\ waiters' = RemoveFirst(waiters, f)
  /\ moved' = (moved \ {f}) \union
       IF f = Head(waiters) /\ Len(waiters) > 1 THEN {waiters[2]} ELSE {}

-----------------------------------------------------------------------------
(* add_permits                                                             *)

\* Fault: the sum does not wrap.
AddFetchWide(t, n) ==
  /\ t \notin adding
  /\ permits' = permits + n
  /\ snap' = [snap EXCEPT ![t] = permits']
  /\ adding' = adding \union {t}

\* Before the lock: the addition, whose sum the thread keeps.
AddFetch(t, n) ==
  /\ t \notin adding
  /\ permits' = Wrap(permits + n)
  /\ snap' = [snap EXCEPT ![t] = permits']
  /\ adding' = adding \union {t}

\* The same when the sum exceeds usize in a build with overflow checks: the
\* counter has wrapped, the thread panics before it takes the lock.
AddOverflow(t, n) ==
  /\ t \notin adding
  /\ permits + n >= Modulus
  /\ permits' = Wrap(permits + n)
  /\ UNCHANGED callVars

AddPermits(t, n) ==
  /\ supply + n <= MaxSupply
  /\ AddFetch(t, n) \/ AddOverflow(t, n)
  /\ supply' = supply + n
  /\ UNCHANGED <<waiters, fut, need, waker, cx, woken, held, moved>>

\* Drop for Permit: add_permits with its size.
PermitDrop(t, n) ==
  /\ held[n] > 0
  /\ held' = [held EXCEPT ![n] = @ - 1]
  /\ AddFetch(t, n) \/ AddOverflow(t, n)
  /\ UNCHANGED <<waiters, fut, need, waker, cx, woken, supply, moved>>

\* The permits that the first i - 1 waiters ask for.
Ahead(i) == SumFunctionOnSet([k \in DOMAIN waiters |-> need[waiters[k]]], 1..(i - 1))

\* Fault: the walk stops at a waiter that needs exactly what is left.
WalkedStrict(t) ==
  {waiters[i] : i \in {j \in DOMAIN waiters : Ahead(j) + need[waiters[j]] < snap[t]}}

\* The waiters that the loop reaches: for each the sum, less what those before
\* it ask for, is enough.
Walked(t) ==
  {waiters[i] : i \in {j \in DOMAIN waiters : Ahead(j) + need[waiters[j]] <= snap[t]}}

\* Under the lock: the reached waiters are woken (their tasks still have to take
\* the permits when they poll).
AddWake(t) ==
  /\ t \in adding
  /\ woken' = woken \union {f \in Walked(t) : waker[f] # NoWaker /\ waker[f] = cx[f]}
  /\ moved' = moved \ Walked(t)
  /\ adding' = adding \ {t}
  /\ snap' = [snap EXCEPT ![t] = 0]
  /\ UNCHANGED <<permits, waiters, fut, need, waker, cx, held, supply>>

-----------------------------------------------------------------------------
(* Acquire                                                                 *)

\* acquire_many: a fresh future with a fresh waiter.
Acquire(f, n) ==
  /\ fut[f] = "None"
  /\ fut' = [fut EXCEPT ![f] = "Init"]
  /\ need' = [need EXCEPT ![f] = n]
  /\ UNCHANGED <<permits, waiters, waker, cx, woken, adding, snap, held, supply, moved>>

\* State::Init with an empty list and enough permits.  The state stays Init: the
\* future is not terminated, and a further poll acquires again.
PollInitReady(f) ==
  /\ fut[f] = "Init"
  /\ waiters = << >>
  /\ Take(need[f])
  /\ Hold(need[f])
  /\ UNCHANGED <<waiters, fut, need, waker, cx, woken, adding, snap, supply, moved>>

\* State::Init otherwise: the waiter gets the waker and is linked last.
PollInitPending(f, w) ==
  /\ fut[f] = "Init"
  /\ waiters = << >> => permits < need[f]
  /\ waker' = [waker EXCEPT ![f] = w]
  /\ cx' = [cx EXCEPT ![f] = w]
  /\ waiters' = Append(waiters, f)
  /\ fut' = [fut EXCEPT ![f] = "Waiting"]
  /\ UNCHANGED <<permits, need, woken, adding, snap, held, supply, moved>>

\* State::Waiting, enough permits: they are taken, wherever in the list it is.
PollWaitingReady(f) ==
  /\ fut[f] = "Waiting"
  /\ Take(need[f])
  /\ Unlink(f)
  /\ fut' = [fut EXCEPT ![f] = "Done"]
  /\ Hold(need[f])
  /\ cx' = [cx EXCEPT ![f] = NoWaker]
  /\ woken' = woken \ {f}
  /\ UNCHANGED <<need, waker, adding, snap, supply>>

\* Fault: a later poll keeps the waker of the first one.
PollWaitingStale(f, w) ==
  /\ fut[f] = "Waiting"
  /\ permits < need[f]
  /\ cx' = [cx EXCEPT ![f] = w]
  /\ woken' = woken \ {f}
  /\ UNCHANGED <<permits, waiters, fut, need, waker, adding, snap, held, supply, moved>>

\* State::Waiting, not enough permits: the waker is replaced unless it would
\* wake the same task.
PollWaitingPending(f, w) ==
  /\ fut[f] = "Waiting"
  /\ permits < need[f]
  /\ waker' = [waker EXCEPT ![f] = w]
  /\ cx' = [cx EXCEPT ![f] = w]
  /\ woken' = woken \ {f}
  /\ UNCHANGED <<permits, waiters, fut, need, adding, snap, held, supply, moved>>

\* State::Done: a Permit of size zero.
PollDone(f) ==
  /\ fut[f] = "Done"
  /\ Hold(0)
  /\ UNCHANGED <<permits, waiters, fut, need, waker, cx, woken, adding, snap, supply, moved>>

Poll(f) ==
  \/ PollInitReady(f)
  \/ PollWaitingReady(f)
  \/ PollDone(f)
  \/ \E w \in Wakers : PollInitPending(f, w) \/ PollWaitingPending(f, w)

\* Fault: a dropped future stays in the wait list.
DropAcquireLinked(f) ==
  /\ fut[f] # "None"
  /\ UNCHANGED <<waiters, moved>>
  /\ fut' = [fut EXCEPT ![f] = "None"]
  /\ need' = [need EXCEPT ![f] = 0]
  /\ waker' = [waker EXCEPT ![f] = NoWaker]
  /\ cx' = [cx EXCEPT ![f] = NoWaker]
  /\ woken' = woken \ {f}
  /\ UNCHANGED <<permits, adding, snap, held, supply>>

\* Drop for Acquire: a waiting one is unlinked, and nobody is woken in its place.
DropAcquire(f) ==
  /\ fut[f] # "None"
  /\ IF fut[f] = "Waiting" THEN Unlink(f) ELSE UNCHANGED <<waiters, moved>>
  /\ fut' = [fut EXCEPT ![f] = "None"]
  /\ need' = [need EXCEPT ![f] = 0]
  /\ waker' = [waker EXCEPT ![f] = NoWaker]
  /\ cx' = [cx EXCEPT ![f] = NoWaker]
  /\ woken' = woken \ {f}
  /\ UNCHANGED <<permits, adding, snap, held, supply>>

-----------------------------------------------------------------------------
(* The calls that do not look at the wait list                             *)

\* try_acquire_many: without the lock, whoever waits.
TryAcquire(n) ==
  /\ Take(n)
  /\ Hold(n)
  /\ UNCHANGED <<waiters, fut, need, waker, cx, woken, adding, snap, supply, moved>>

\* Fault: a forgotten permit is returned as well.
ForgetReturns(n) ==
  /\ held[n] > 0
  /\ held' = [held EXCEPT ![n] = @ - 1]
  /\ permits' = Wrap(permits + n)
  /\ supply' = supply - n
  /\ UNCHANGED <<waiters, fut, need, waker, cx, woken, adding, snap, moved>>

\* Permit::forget
Forget(n) ==
  /\ held[n] > 0
  /\ held' = [held EXCEPT ![n] = @ - 1]
  /\ supply' = supply - n
  /\ UNCHANGED <<permits, waiters, fut, need, waker, cx, woken, adding, snap, moved>>

-----------------------------------------------------------------------------
Next ==
  \/ \E t \in Threads : AddWake(t)
  \/ \E t \in Threads, n \in Sizes : AddPermits(t, n)
  \/ \E t \in Threads, n \in PermitSizes : PermitDrop(t, n)
  \/ \E f \in Futures, n \in Sizes : Acquire(f, n)
  \/ \E f \in Futures : Poll(f) \/ DropAcquire(f)
  \/ \E n \in Sizes : TryAcquire(n)
  \/ \E n \in PermitSizes : Forget(n)

Spec == Init /\ [][Next]_vars

\* A woken task is polled by its executor, and a thread inside add_permits gets
\* the lock: the sections under it are finite and never wait for another lock.
Fairness ==
  /\ \A f \in Futures : WF_vars(f \in woken /\ Poll(f))
  /\ \A t \in Threads : WF_vars(AddWake(t))

FairSpec == Spec /\ Fairness

-----------------------------------------------------------------------------
(* Properties                                                              *)

TypeOK ==
  /\ permits \in 0..(Modulus - 1)
  /\ waiters \in Seq(Futures)
  /\ fut \in [Futures -> FutState]
  /\ need \in [Futures -> PermitSizes]
  /\ waker \in [Futures -> Wakers \union {NoWaker}]
  /\ cx \in [Futures -> Wakers \union {NoWaker}]
  /\ woken \subseteq Futures
  /\ adding \subseteq Threads
  /\ snap \in [Threads -> 0..(Modulus - 1)]
  /\ held \in [PermitSizes -> Nat]
  /\ supply \in Int
  /\ moved \subseteq Futures

WaitingFutures == {f \in Futures : fut[f] = "Waiting"}

\* The wait list links exactly the waiting futures, each once: what the unsafe
\* remove in poll and in drop relies on (semaphore.rs:269-273, 308-314).
QueuedIffWaiting == IsInjective(waiters) /\ ToSet(waiters) = WaitingFutures

\* No permit is created or lost by any interleaving of polls, drops, try_acquire
\* and add_permits: what is free and what live Permits hold is the supply,
\* modulo the width of the counter.
PermitsConserved ==
  (permits + SumFunction([n \in PermitSizes |-> n * held[n]]) - supply) % Modulus = 0

\* The front waiter is f, and its permits are there.
FrontCanTake(f) ==
  waiters # << >> /\ f = Head(waiters) /\ need[f] <= permits

\* When there are enough permits for the front waiter, it has been woken or an
\* add_permits call under way will wake it -- for a waiter that was the front one
\* since it was linked, or since the last walk reached it.  This holds whatever
\* is dropped, overtaken, snatched by try_acquire or wrapped in between.
NoMissedWakeup ==
  \A f \in Futures : FrontCanTake(f) /\ f \notin moved =>
    f \in woken \/ \E t \in adding : snap[t] >= permits

\* The strengthening with which the invariants above are inductive: a linked
\* waiter has the waker of the task that awaits it now.
WakerIsCurrent == \A f \in WaitingFutures : waker[f] # NoWaker /\ waker[f] = cx[f]

IInv == TypeOK /\ QueuedIffWaiting /\ NoMissedWakeup /\ WakerIsCurrent

\* The same as progress: such a waiter gets its permits, or somebody else takes
\* them, or it is dropped.
FrontProgress ==
  \A f \in Futures : FrontCanTake(f) /\ f \notin moved ~> ~FrontCanTake(f)

\* What semaphore.rs:21-22 says: a waiter blocks until enough permits are
\* available for it.  So once there are enough for the front one, and the calls
\* that added them are over, its task has been woken.  (A waiter that came to the
\* front when another one was served or dropped is not.)
AvailableWakesFront ==
  \A f \in Futures : FrontCanTake(f) /\ adding = {} => f \in woken
=============================================================================
