# asyncsync in TLA+

A verification development of the `asyncsync` crate: TLA+ modules of its
synchronisation primitives, TLC configurations that check them on small
instances, and TLAPS proofs of what holds for every instance. Source lines refer
to the crate (`notify.rs:80` is `src/src/notify.rs`, line 80).

    tlc -config Notify.cfg MCNotify          # 59 thousand states, a minute
    tlc -config Semaphore.cfg MCSemaphore    # 135 thousand states, a minute
    tlc -config Oneshot.cfg MCOneshot        # 13 thousand states, seconds
    tlc -config LocalNotify.cfg MCLocalNotify    # 72 thousand states, seconds
    tlc -config LocalOneshot.cfg MCLocalOneshot  # 436 states
    tlapm NotifyProofs.tla           # and NotifyListProofs, SemaphoreProofs, OneshotProofs,
                                     # LocalOneshotProofs, LocalNotifyProofs,
                                     # LinkedListProofs, WaitListLemmas

## The system

The crate offers primitives that async tasks share. A task *polls* a future with
a *waker*; a future that is not ready stores the waker and returns Pending; who
makes it ready calls the waker, and the executor polls again. There is no
executor in the crate: which task polls, when, and with which waker is outside,
and so is when a future is dropped.

| Part | State it keeps | Operations | What makes it correct |
|---|---|---|---|
| `Notify` (`notify.rs`) | an atomic (0 or 1 stored notification), a mutex around the wait list; per future: its state and a waiter (waker, notified flag) | `notify_one`, `notify_all`, `notified`, `Notified::poll`, drop | the list links exactly the pending futures; no notification is stored while a task waits; a notified task is awake; `notify_all` reaches everybody who waits |
| `Semaphore` (`semaphore.rs`) | an atomic counter, a mutex around the wait list; per future: state, number asked for, waiter | `add_permits`, `acquire_many`, `Acquire::poll`, drop, `try_acquire_many`, `Permit::drop`, `Permit::forget` | permits are conserved; the list links exactly the waiting futures; a front waiter whose permits are there is awake |
| oneshot channel (`channel/oneshot.rs`) | an atomic with three bits, a value cell that is not synchronised, two waker slots behind a mutex each, all in an `Arc` | `send`, drop of `Sender`, `closed`, `Receiver::poll`, `try_recv`, `close`, drop | a value is used exactly once and never before it is there; Closed means nothing comes; an awaiting task is woken |
| `LinkedList` (`linked_list.rs`) | head and tail, next and prev in nodes that the callers own | `push_back`, `push_front`, `remove`, `front_mut`, `iter_mut`, `is_empty` | the two chains are each other's reverse; only a linked node is removed |
| `local::Notify` (`local/notify.rs`) | as `Notify`, in cells | as `Notify` | the list and the stored notification as in `Notify`, whatever its wakes do; the walk of `notify_all` never goes to a future that is gone and reaches everybody who waited, if its wakes drop nothing that the walk still needs (`TameWakes`) |
| local oneshot (`local/channel/oneshot.rs`) | five bits, value, two wakers with an init bit each, in an `Rc` | as the channel, without `try_recv` | the init bits tell which cells hold a waker; value and wakers are used and dropped once; an awaiting task is woken; a waker stays in its cell while it runs |
| errors, crate root, helpers, benches | none | none | |

**Interactions.** `Notify` and `Semaphore` each own a `LinkedList` whose nodes
live inside their futures: a future links its own node in `poll` and unlinks it in
`poll` or `drop`, under the mutex of the primitive. Both also touch an atomic
without the mutex. The two halves of a channel share one `Inner` and take no
common lock; the atomic is the only thing that orders them. In the local variants there
are no threads and no locks, but a wake is a call into foreign code, which may
poll, drop or call the same primitive before it returns.

**What is hard.** The steps outside the locks (the store of `notify_all`, the
addition of `add_permits`, `try_acquire_many`, every access in the channel) run
between the steps of any other call; a future may be dropped at any moment, also
after it was chosen and woken; it may move to another task between two polls, so
that the waker stored for it is old; the counter of the semaphore may wrap. A
pinned future may be leaked while its waiter is linked. In the local variants
the code holds references to a node or a waker cell while a wake runs.
`PROJECT.json` lists each of these hazards at its line, with the properties that
would catch it going wrong. There are no timeouts, no persistence and no messages
that could be lost in this code.

## Modules

| Module | What it is |
|---|---|
| `NotifySpec` | abstract: what a Notify promises, without list, lock or wakers |
| `Notify` | `notify.rs`, its properties, and the refinement mapping to `NotifySpec` |
| `LinkedList` | `linked_list.rs`: head, tail, next and prev |
| `NotifyList` | `Notify` with each link and unlink done by the pointers of `LinkedList` |
| `Semaphore` | `semaphore.rs` and its properties |
| `Oneshot` | `channel/oneshot.rs` and its properties |
| `LocalNotify` | `local/notify.rs` on the pointers of `LinkedList`, and its properties |
| `OneshotSpec` | abstract: what a channel promises, without bits, cells or wakers |
| `LocalOneshot` | `local/channel/oneshot.rs`, its properties, and the refinement mapping to `OneshotSpec` |
| `MCNotify`, `MCSemaphore`, `MCOneshot`, `MCLocalNotify`, `MCLocalOneshot` | the instances for TLC |
| `WaitListLemmas` | lemmas: what appending and removing do to a sequence without duplicates; what the sum of a function over a finite set is |
| `LinkedListProofs` | lemmas: what the operations of `LinkedList` do to a list of any length |
| `NotifyProofs`, `NotifyListProofs`, `SemaphoreProofs`, `OneshotProofs`, `LocalNotifyProofs`, `LocalOneshotProofs` | inductive invariants, theorems, the refinements |

Definitions whose comment begins with *Fault* are the code with one plausible bug
in it (a dropped guard, an old waker kept, a sum that does not wrap). They are not part
of any specification; each is there to show that a property fails when the code
has that bug.

### How state and steps correspond to the code

*Granularity.* A section under the mutex is one action when it touches at most
one unlocked atomic once; that is so in every locked section of `notify.rs` and
`semaphore.rs`. What is outside a lock is an action of its own. So `notify_all`
is `NotifyAllStore` (the store at line 64) and `NotifyAllLock` (65-74);
`add_permits` is `AddFetch` (88) and `AddWake` (90-103), and the variable `snap` is the sum
that the thread carries from one to the other. In `Oneshot` every access to shared
memory is an action, and `tx` and `rx` are the program counters of the two halves.
All atomics are `SeqCst`, so an interleaving of these
steps is what the code can do.

*Wait list.* A sequence of futures, front first: `push_back` is `Append`,
`remove` is `RemoveFirst`, `front_mut` is `Head`, `iter_mut` goes front to back. A
future stands for the memory it occupies; when it is dropped its place may be used
again by a fresh one. That the sequence is what the pointers hold is not assumed:
`NotifyList` performs each step of `Notify` together with the pointer updates
that the code makes, and `ListIsWaiters` says that head, tail, next and prev link
exactly `waiters`, forward and backward, and that `len` is its length. What the drop of the
list asserts in builds with debug assertions is `AssertedOnDrop` (see *Leaks*).
A node that is removed keeps its pointers in the code.
Under the mutex nobody reads them again, so `NotifyList` puts them back to None
(`RemoveFree`), which keeps the states few; in `LocalNotify` the walk does read them,
and there they stay (`Remove`). The semaphore uses the same list in the same way, and is
modelled on the sequence only.

*Wakers and the executor (external).* `waker[f]` is what the waiter stores, `cx[f]`
the waker of the task that awaits the future now. A wake through `waker[f]` puts
`f` in `woken` only if the two agree: otherwise the wake goes to a task that no
longer polls `f`. Every poll names its waker, so a future may move between tasks
at any poll, and tasks may poll without having been woken (`select`, `join`).
Replacing a waker "unless it would wake the same task" is storing the new one,
since wakers that wake the same task are equal here.

*Leaks.* `Leak` is the environment's: a pending future whose box is forgotten is never
polled or dropped again, its memory is not used again, and its waiter stays linked.
`NotifySpec` says what the others are still promised: a `notify_one` may be spent on
the leaked future (at the front it takes all of them), `notify_all` still reaches everybody.
`NotifyList` also has the drop of the `Notify` itself (`DropNotify`): calls and
living futures borrow it, so it waits for them, but a leaked future borrows nothing. Its
list is then empty unless something was leaked (`EmptyUnlessLeaked`).

*Wakes that call back (local).* One thread runs everything, so a call is one action up
to its wake, and what follows a wake is an action of its own. In `LocalOneshot` a
call has at most a release of the `Rc` left after its wake; `calls` is the stack of
calls that stand inside their wake, and only the innermost returns. A half that is
inside its own drop or `close` is borrowed and does nothing else. In `LocalNotify` only
`notify_all` has work left after a wake, the rest of its walk: `iter` is where the
iterator stands, `cur` the future being woken, and every action between two steps of
the walk is code that the wake runs. That may be another `notify_all`, whose walk
runs to its end first: `outer` holds the walks that are suspended, at most
`MaxWalks` walks at once (a bound). A wake that only queues its task, as most executors do, is the
case where nothing happens in between.

A wake may also drop the future whose node the walk goes to next. No iterator is told,
so `iter` then points into memory that is gone: `NotifyAllDangling` follows it to *any* place, because
what is read there has no defined value, and what is written there reaches no future. (In Rust
this is undefined behaviour and may do worse, such as writing over memory in other use.) Hence there are
two specifications. `Spec` lets a wake do all of this; the list and the stored notification are right
under it. `TameSpec` is the same for wakes of which `TameWakes` is true: inside a
walk a wake drops no polled future but the one it wakes, and it does not start
another walk. Such wakes never make a pointer dangle, so `TameSpec` has no `NotifyAllDangling` and no
`NotifyAllReturn` (`LocalNotifyTameSteps`). What is said about the walk itself holds under `TameSpec`;
that the code needs the assumption is a finding (`local_notify_drops`). `LocalOneshot` assumes that
cloning and dropping wakers, and dropping the value, neither panic nor call back.

*Overflow.* `AddFetch` wraps at `Modulus`, as a build without overflow checks
does; `AddOverflow` is the other build, in which the counter has wrapped
and the thread then panics before it takes the lock. A call at the boundary may
do either.

*The cell of the channel* remembers only whether a value is in it. A read before the
write of `send` is complete yields `"garbage"`: in Rust it has no defined result.

*History variables* (`ones`, `supply`, `moved`, `received`, `uses`, `missed`, `live`, `ahead` and its copies in `outer`)
are read by properties only, `ones` and `supply` also by the bounds. `moved` is the
one that needs a word: it holds the waiters that became the front one because
another waiter left, until a walk of `add_permits` reaches them. Nothing in the
code wakes those (see the findings); about all others `NoMissedWakeup` speaks.

## What is checked

### Passing runs

`notify` (`MCNotify`, `Notify.cfg`) — the composition `NotifyList` with three futures, two wakers, two threads in
`notify_all`, at most three `notify_one` (`MaxOnes`). Three futures give a list a
front, a middle and a back; two `notify_all` may overlap; three `notify_one` reach
two waiters and then merge or are stored. Any of the futures may be leaked while it
is linked. The system stops when the `Notify` is dropped, hence `CHECK_DEADLOCK FALSE`.

* `QueuedIffPending`: the list links exactly the futures that are pending or were
  leaked pending, each once. This is the
  contract of the `unsafe` `remove` and what keeps the list free of links into
  memory that is gone.
* `ListIsWaiters`: the pointers link exactly the waiters, in both directions (see
  *Wait list* above).
* `EmptyUnlessLeaked`: when the `Notify` drops, its list is empty, in whatever order the
  futures came and went, if none was leaked.
* `StoredOnlyWhenIdle`: no notification is stored while a task waits, although
  `notify_all` writes the atomic without the lock.
* `NotifiedPrefix`: notified waiters are always the front part of the list, so
  order of registration is order of notification, under any drops.
* `NoLostWakeup`: the task of a notified waiter is awake, through its current waker.
* `NotifyAllReachesWaiters` (liveness): who waits when `notify_all` starts gets to
  its end, past leaked waiters too.
* `Implements`: refinement of `NotifySpec` with its liveness. A `notify_all` is a call
  with a beginning, at which it may forget a stored notification (a finding), and an end,
  at which everybody who waits is notified.

`semaphore` (`MCSemaphore`, `Semaphore.cfg`) — two futures, two wakers, two
threads that add, requests of one or two permits, one initial permit, a
counter that wraps at three, a supply of up to three (`MaxSupply`). Two futures
of different size give every order of a big and a small request, two threads let two sums be
out of date at once, and the supply exceeds the counter so that it does wrap.
Permits of size zero (from polling a finished future) are counted up to one
(`MaxZero`): they carry nothing. What holds for more futures is
left to the proofs.

* `QueuedIffWaiting`: as above.
* `PermitsConserved`: free permits and those held add up to the supply, modulo the
  width.
* `NoMissedWakeup`: if the permits are there for the front waiter, its task is awake or a
  call of `add_permits` under way has a sum that suffices — unless the waiter came
  to the front when another one left.
* `FrontProgress` (liveness): such a waiter is served, or its permits are taken by
  somebody else, or it is dropped.

`oneshot` (`MCOneshot`, `Oneshot.cfg`) — one channel, the Receiver awaited by
either of two tasks. A channel carries one value and has no counters, so nothing is
bounded and the run covers the whole state space. The program ends when both
halves are gone, hence `CHECK_DEADLOCK FALSE`.

* `ValueUsedOnce`: never moved or dropped twice; exactly once when both halves are gone.
* `ClosedAfterValue`: the Receiver is told Closed only if a value that was sent
  has been received -- or if it read the cell before the value was written, in which case the value is
  lost (see the run `oneshot_read`).
* `ClosedIsFinal`: a Receiver that was told Closed is never told anything else.
* `RxClosedIsFinal`: no step turns the Receiver's bit off, although the Receiver
  stores a state it loaded earlier.
* `NoOtherLostWakeup`: the awaiting task is awake or about to be, except after a wake in
  the one window between load and registration (which a finding is about).
* `SendCompletesReceiver` (liveness): a task that awaits when `send` claims the channel
  ends its wait.

`local_oneshot` (`MCLocalOneshot`, `LocalOneshot.cfg`) — one local channel, each half awaited
by either of two tasks. The state space is small because one thread leaves few orders,
and nothing is bounded. The program ends when both halves are gone, hence
`CHECK_DEADLOCK FALSE`.

* `WakersHeld`: an init bit is on exactly if its cell holds a waker, which the six SAFETY
  comments of the file rely on; no waker is lost in a cell or left when Inner is dropped.
* `ValueUsedOnce`: as above.
* `NoLostWakeup`: a task that awaits a half is awake when there is something to see.
* `WokenWakerStays`: while a waker runs, by reference to its cell, nobody drops or replaces
  it, although the task it wakes may poll the channel at once. (A `poll_closed` that
  tested the Sender's bit, as the thread-safe one does, would.)
* `Implements`: refinement of `OneshotSpec` with its liveness: `send` leaves the wake to the
  drop of the Sender, a value that is sent is received or dropped, Closed is said
  only when nothing more comes.

`local_notify` (`MCLocalNotify`, `LocalNotify.cfg`) — `TameSpec` with fairness: three futures, two
wakers, any number of calls. With three futures the walk may stand at
a node that has left the list while another waits behind it. (`MaxWalks` bounds the walks that are under
way at once, of which tame wakes allow one. The run `local_notify_drops` has two.)

* `ListIsPending`: the pointers link exactly the pending futures, in both directions.
* `StoredOnlyWhenIdle`, `NoLostWakeup`: as for `Notify`, also inside a walk.
* `IterAlive`: the node the walk goes to next is a future that lives. It may have left
  the list: then the walk goes on through the pointers it kept.
* `EveryoneReached`: when a walk is over, whoever waited when it began has been notified,
  has finished or was dropped, also if it was reached through nodes that had left the list.
* `EveryoneComesUp` (liveness): whoever waits when a walk begins has its turn, or waits no more, also
  in a walk that never ends because its wakes link new waiters again and again.

`ListIsPending` and `StoredOnlyWhenIdle` hold for all wakes, by the theorems below.

Each module also has one type invariant, `TypeOK`.

### Fairness

Only what an executor and a mutex give. A *woken* task is polled again (weak
fairness of `f \in woken /\ Poll(f)`): that is the contract of a waker. A thread
inside a call gets the lock and goes on (weak fairness of `NotifyAllLock`,
`AddWake`, the steps of a half of the channel that are in the middle of a call). No fairness for
calls that a program may simply not make: creating, first polling or dropping a
future, `notify_one`, `add_permits`, `send`. In `Oneshot` the poll of a woken task is
strongly fair: the Receiver may be busy with `try_recv` or `close` again and
again, and the poll, which needs it idle, is enabled infinitely often but not for ever.
In the local modules a wake returns (weak fairness of `Return`, and of `LoopStep`, the steps of a
walk). In `LocalOneshot` a woken task is polled; the Receiver's poll is strongly fair for the
reason given, since `close` borrows the Receiver.

### Where code and documentation differ

Each is a run with one property that states what the documentation says, and a
trace of TLC that violates it.

| Run | What the code does |
|---|---|
| `notify_one_merges` | `notify_one` picks the front waiter even when it is notified already; with two tasks waiting, two calls wake one |
| `notify_all_discards` | `notify_all` with nobody waiting discards a stored notification, where the documentation says it does nothing |
| `semaphore_wake` | when the front waiter is served or dropped, the next one is not woken, although its permits are there |
| `oneshot_read` | `send` sets the value bit before the value is written; a Receiver may read in between |
| `oneshot_wake` | a `send` between the load of `poll_recv` and the store of its waker wakes nobody; the task sleeps with the value in the channel |
| `oneshot_try_recv` | the Receiver stores a state it loaded before; the Sender's closed bit, set in between, is lost, and `try_recv` says Empty for ever |
| `local_notify_drops` | a wake may drop the future that the walk of the local `notify_all` goes to next; the walk then follows a dangling pointer and may miss a task that waits |

Five more differences have no run of their own. They show without a search, or are the exception
that a property names; the definitions in brackets say what the code does.

* any poll takes permits wherever its waiter stands in the list (`PollWaitingReady`), where
  `semaphore.rs:19-20` says that they come in the order of the requests;
* `Closed` looks at the Sender's bit and is ready at once (`PollClosed` of `Oneshot`), where `oneshot.rs:103`
  says that it waits for the Receiver to close;
* a value that is written after the Receiver read the cell (`oneshot_read`) is lost, where
  `oneshot.rs:179-180` says that messages already sent stay in the channel (`ClosedAfterValue` excepts it);
* a leaked waiter is still in the list when the `Notify` drops, where `notify.rs:45` says
  that the list is always empty then (`EmptyUnlessLeaked` excepts it);
* the walk of the local `notify_all` comes to waiters that its wakes have linked (`NotifyAllNext`), where
  `local/notify.rs:40` says that it wakes only those waiting now.

## What is proved

Every invariant and every action property that a passing run checks is also a theorem.
The assumptions are those of the modules and no more: `NoWaker` is not a waker, `Null` is
not a future, bounds are numbers, and for the semaphore the initial permits and the sizes
fit the counter; what is said about the walk of the local `notify_all` is said of `TameSpec`.
Futures, wakers and threads are arbitrary sets, also infinite ones.

| Theorem | Statement |
|---|---|
| `NotifyInvariant` | `Spec => []IInv` |
| `NotifyTypes`, `NotifyListSound`, `NotifyStoredIdle`, `NotifyInOrder`, `NotifyWakes` | the invariants `TypeOK`, `QueuedIffPending`, `StoredOnlyWhenIdle`, `NotifiedPrefix`, `NoLostWakeup` |
| `NotifyRefines` | `Spec => Abs!Safety`: every step of the code is a step of `NotifySpec` or a stutter |
| `LinkedRefines`, `LinkedListIsWaiters` | `LinkedSpec => Spec` and `LinkedSpec => []ListIsWaiters`: the pointers are the sequence, so the theorems above hold of the program with its list |
| `LinkedEmptyUnlessLeaked` | `LinkedSpec => []EmptyUnlessLeaked` |
| `SemaphoreInvariant` | `Spec => []IInv` |
| `SemaphoreTypes`, `SemaphoreListSound`, `SemaphoreWakes` | `TypeOK`, `QueuedIffWaiting`, `NoMissedWakeup` |
| `SemaphoreConserves` | `PermitsConserved`, which is not part of `IInv`: by an invariant of its own that rests on it |
| `OneshotInvariant` | `Spec => []IInv` |
| `OneshotTypes`, `OneshotUsesOnce`, `OneshotClosedAfterValue`, `OneshotWakes` | `TypeOK`, `ValueUsedOnce`, `ClosedAfterValue`, `NoOtherLostWakeup` |
| `OneshotStaysClosed`, `OneshotStaysEnded` | the action properties `RxClosedIsFinal`, `ClosedIsFinal` |
| `LocalOneshotInvariant` | `Spec => []IInv` |
| `LocalOneshotTypes`, `LocalOneshotWakers`, `LocalOneshotUsesOnce`, `LocalOneshotWakes` | `TypeOK`, `WakersHeld`, `ValueUsedOnce`, `NoLostWakeup` |
| `LocalOneshotWakerStays` | the action property `WokenWakerStays` |
| `LocalOneshotImplements` | `Spec => Abs!Safety`: every step is a step of `OneshotSpec` or a stutter |
| `LocalNotifyListInvariant` | `Spec => []ListInv`, whatever the wakes do |
| `LocalNotifyTypes`, `LocalNotifyListSound`, `LocalNotifyStoredIdle` | the same for `TypeOK`, `ListIsPending`, `StoredOnlyWhenIdle` |
| `LocalNotifyTameSteps` | `Init /\ [][Next /\ TameWakes]_vars => TameSpec` |
| `LocalNotifyInvariant` | `TameSpec => []IInv` |
| `LocalNotifyWakes`, `LocalNotifyIterAlive`, `LocalNotifyReaches` | for `TameSpec`: `NoLostWakeup`, `IterAlive`, `EveryoneReached` |

**The argument for Notify.** `NoLostWakeup` is not inductive: a notification helps
only if the stored waker is the current one, so `IInv` adds `WakerIsCurrent`
(every poll that leaves a future pending stores the waker it was called with).
`NotifiedPrefix` survives `Append` only if a new waiter is not notified, so `IInv` adds
`NotifiedWasLinked`. `StoredOnlyWhenIdle` is what the refinement needs in the two
places where the atomic is written: the store of 0 by `notify_all`, outside the lock,
is the abstract `BeginAll`, which may forget a token, and its walk under the lock is
`EndAll`. Nobody waits while a token is there, so a forgotten token was owed to no one.

**The argument for the list.** `LinkedListProofs` speaks of the list alone, over any set
of nodes: if the pointers link the sequence `s`, they link `Append(s, n)` after `PushBack(n)`
(`PushBackLinks`), `RemoveFirst(s, n)` after either form of remove (`RemoveLinks`), and `s` still
when a node that is not in it goes (`FreeLinks`). A node stands at one place of `s`, so the
pointers of the node that is removed name its two neighbours and nobody else; the proofs
compare, place by place, what the pointers hold with what the sequence holds.
`NotifyListProofs` and `LocalNotifyProofs` instantiate the module with the futures as nodes.
`LinkedEmptyUnlessLeaked` joins the pointers to the futures: the list links `waiters`
(`ListIsWaiters`), `waiters` are futures that are pending or leaked (`QueuedIffPending`), and when
the `Notify` drops there are none that are pending.

**The argument for Semaphore.** `NoMissedWakeup` is carried by the sum that a
thread keeps. An addition makes a witness (`snap[t] = permits`); later polls
and `try_acquire_many` only lower the counter, so the witness stays good; a later
addition is a witness of its own. When the witness takes the lock, its walk reaches
the front waiter, because nothing is ahead of it (`WalkReachesFront`, with
`SumOfNone`), and the waker found there is the current one (`WakerIsCurrent`). If
its sum is too small for the front waiter there must be another witness, since the
permits suffice. A new front waiter after an `Unlink` is in `moved`
(`RemoveFirstFront`). An addition that overflows only lowers the counter, so the
panicking thread owes no wake. The argument needs no bound on the width.

`PermitsConserved` follows from `Balanced`: free permits plus held ones minus the supply is
*some* multiple of the width, which a wrap changes by one. Each step changes the sum of
the held permits at one size (`InUseChanges`). That a sum changes by what one of its
terms changes by is `SumChanges` in `WaitListLemmas`. It is an induction over the
set summed over, done by hand: of the subsets for which the fold
would not be what it should, there would be a least one (`LeastSubset`, from the
well-foundedness of strict inclusion), and that one contradicts the definition of the fold.

**The argument for Oneshot.** The value bit does not say what is in the cell: `send` sets
it before it writes and the Receiver turns it off before it reads. So `IInv` ties bits and cell to the
program counters. `ValueBit`: the bit is on exactly between the claim of the Sender and the store
of the Receiver, and never again. `CellHolds`: what the cell contains, by what each half has
done. `LoadIsRecent` is what makes the stale store harmless for the Receiver's own bit: between
its load and its store nobody else sets that bit or turns a bit off. (It does not protect the
Sender's bit; a finding is about that.) `TxBit`: Closed is said only when the Sender is past its
`send`, so that nothing can come after it. `ClosedSaid`: once Closed was said the Sender's bit is on and what was
sent has been read, which no later store undoes; hence `ClosedIsFinal`. `WakeIsDue` restates `NoOtherLostWakeup`
for a Receiver that is about to register as well as for one that has.

**The argument for LocalOneshot.** `Halves` says which calls may stand inside a wake
together (the drop of the Sender and one call of the Receiver, in either order), and which bits
are on because of them; hence a waker that runs has no one to replace it. `CellsHoldWakers`
and `CellHolds` give the two cells, the value and the number of live wakers in terms of the bits,
before and after Inner is dropped. `AwaitersRegistered` says that a task that awaits is in
the cell with its current waker. The refinement maps each action to one of `OneshotSpec`, and
returns of wakes to stutters.

**The argument for LocalNotify.** `ListInv` (types, list, stored notification) needs nothing of
the wakes: a step of a walk, also one through a dangling pointer, writes no pointer of the list, and
every link and unlink is one of the lemmas about the list. The rest is for tame wakes.
The walk of `notify_all` may stand at a node that has left
the list. What it can still follow are pointers that nobody updates but by accident: a removed
node keeps the pointer it had, and when the node it points to is removed in turn, only
that node's neighbours *in the list* are told. `WalkGoesOn` is the invariant that survives this. There
is a set `w` of nodes the walk may still come to and a rank `r`, the order in which they were
linked. Every pointer out of a node of `w` leads to a node of `w` of higher rank, and any node of
`w` that it leaps over is Done; a node of `w` without a next pointer has nobody behind
it that the walk owes a wake; every future that waited when the walk began and still waits is in
`w`. Hence the walk is never at a dead future (`IterAlive`) and passes nobody it owes a wake
(`EveryoneReached`). One lemma per kind of step shows that it is kept: `WalkBegins` takes the ranks from the
places of the list, `WalkAdvances` drops the lower ranks, `WalkLengthens` gives a new waiter the highest
rank, `WalkPasses` bends one pointer past a node that is Done, and `WalkOutlives` is where `TameWakes`
is needed: the future that is dropped is outside `w`, and no node in `w` points to it.

**Only model-checked.** Liveness: `NotifyAllReachesWaiters`, `FrontProgress`,
`SendCompletesReceiver`, `EveryoneComesUp` and the fairness part of both `Implements`, because the
prover does not reason about `ENABLED`. The findings are traces, not theorems.

## What is not modelled

* `LinkedList::push_front` (only the tests of the list call it) and `clone`.
* In `Semaphore`, futures that are leaked while linked: `Notify` shows what a leak does
  to the list they share.
* In `LocalNotify`, futures that are leaked and the drop of the `Notify` itself: both are in
  `NotifyList`, for the same list.
* What a walk through a dangling pointer does to memory that is no longer a future's.
* In `LocalOneshot`, wakers whose clone or drop calls back into the channel.
* A waker that polls or drops on the spot in the thread-safe primitives: it is called with the mutex
  held, and would wait for itself.
* Poisoning of a mutex by a panic in foreign code, and panics of `Waker::clone`.
* Memory orders weaker than sequential consistency.
* Error types (values and wording), module declarations, feature gates, benchmarks:
  they change no state.
* `available_permits`, `is_terminated` and other reads that change nothing.

## Plan

1. *Done:* `Notify` with `NotifySpec`, `LinkedList` and `NotifyList`, `Semaphore`,
   `Oneshot`; their runs; proofs of the invariants of `Notify`, its list and
   `Semaphore`, and of the refinement of `NotifySpec`.
2. *Done:* `LocalNotify` on the pointers of the list and `LocalOneshot` with
   `OneshotSpec`, with wakes that call back; leaked futures in `Notify`, its list, its
   abstract specification and their proofs.
3. *Done:* proofs of the invariants of `Oneshot`, `LocalOneshot` and `LocalNotify` and of
   their action properties, of the refinement of `OneshotSpec`, and of `PermitsConserved`;
   the lemmas about the list on their own, so that both variants of `Notify` use them.
4. An abstract specification of the semaphore (a counter and a set of requests), with
   the detailed one refining it, and its proof.
