# A formal model of the concurrency framework

This directory models the framework of this repository in TLA+: a thread pool,
stackful fibers on top of it, and synchronization primitives for threads
(`exe/sync`) and for fibers (`exe/fibers/sync`). TLC checks the models on
small instances; TLAPS proves what they promise, liveness apart, for any number
of threads, workers and fibers.

    tlc -config FutexMutex.cfg MCFutexMutex.tla     # one run
    tlapm FoundationProofs.tla                      # one proof module

`PROJECT.json` has the machine-readable form of what follows: components, runs,
the lines each definition stands for, hazards and theorems.

## 1. The system

Calls go downwards; everything a lower layer does upwards is a callback
(`task->Run()`, `awaiter->RunAwaiter(handle)`) or a return.

    fibers::Mutex  Event  WaitGroup  Strand  BufferedChannel     exe/fibers/sync
        |  LockFreeQueue2, LockFreeStack2                        exe/infra/lockfree
        |  RingQueue, IntrusiveListSimple, SpinLock              exe/infra/queues, exe/sync
    Go  Yield  Suspend   Fiber  Coroutine  Awaiter  FiberHandle  exe/fibers/{sched,core}
    ThreadPool  RunLoop  (IScheduler)                            exe/sched
    IntrusiveMPMCBlockingQueue   sync::WaitGroup                 exe/infra/queues, exe/sync
    sync::CondVar   sync::Mutex                                  exe/sync
    futex Wait, WakeOne, WakeAll   ExecutionContext              syscalls

### Inventory

| component | state | operations | what is hard | what makes it correct |
|---|---|---|---|---|
| futex wrappers | a word, the kernel's sleepers on it | `Wait` (loops until the word changed), `WakeOne`, `WakeAll` | returns for no reason; the word can change and change back | the re-check loop |
| `sync::Mutex` | `busy_`: 0, 1, 2 | `Lock`, `TryLock`, `Unlock` | the gap between `exchange(0)` and the wake; who remembers the sleepers | one owner; no sleeper forgotten; somebody gets a free mutex |
| `sync::CondVar` | `count_` | `Wait`, `NotifyOne`, `NotifyAll` | the count is read before the unlock and compared after it; it wraps | no notification between the two is missed |
| `sync::WaitGroup` | `count_workers_`, `waiters_` under a mutex | `Add`, `Done`, `Wait` | `waiters_` is cleared by `Done`, added to once per `Wait`; the waiter destroys the group | `Wait` returns when the count was 0; nobody touches a destroyed group |
| `sync::SpinLock` | one atomic flag | `lock`, `unlock`, `try_lock` | a fiber locks it, a worker unlocks it | exclusion |
| `IntrusiveMPMCBlockingQueue` | list, `size_`, `availible_` under a mutex | `Push`, `Pop`, `Close` | notification after the unlock; closing under waiting poppers | no lost wake-up, first in first out |
| `ThreadPool` | threads, the queue, a wait group | `Start`, `Submit` (also from tasks), `Stop` | counting before pushing, reporting after running; stopping | each task once, in order; `Stop` returns and leaves nothing behind |
| `RunLoop`, `IntrusiveListSimple` | a list of tasks, linked through them | `Submit`, `RunAtMost`, `RunNext`, `Run` | tasks submit, delete themselves and call the loop from inside | order; each task counted by one call; sound links |
| `Fiber`, `Coroutine` | `awaiter_`, `complete_`, two contexts, a stack | `Schedule`, `Run`, `Switch`, `Suspend`, `Resume` | the fiber is visible to other threads as soon as its awaiter runs | a fiber is in one place, off its stack when reachable, never lost |
| `fibers::Mutex` | `working_`, a queue of awaiters | `Lock`, `TryLock`, `Unlock` | counted but not yet queued; ownership handed to a fiber that is not running | one owner; one popper; every `Lock` granted |
| `LockFreeQueue2`, `LockFreeStack2` | heads of linked lists | `Push`, `TryPush`, `TryPop`, `GetChain`, `GetChainAndInvalidate` | `TryPop` reads `next_` of a node another popper may have freed | first in first out for one popper; nothing lost |
| `fibers::Event` | a stack that can be closed | `Wait`, `Fire` | closing between the look and the push | no early return, no waiter left behind |
| `fibers::WaitGroup` | waiters and count in one word, a queue | `Add`, `Done`, `Wait` | counted but not yet queued; several rounds at once | `Wait` returns when the count was 0; one popper |
| `fibers::Strand` | a count and a stack of callbacks | `Combine` | the leader and its resubmission | callbacks exclude each other and each runs once |
| `fibers::BufferedChannel` | ring, list of waiters, spin lock | `Send`, `Recv` | the spin lock is held across the switch of stacks; senders and receivers share one list | bounded first in first out |
| `RingQueue` | `head_`, `tail_`, a vector | `TryPush`, `TryPop`, `IsEmpty`, `IsFull` | index arithmetic | a bounded queue |
| `ExecutionContext`, `SanitizerContext`, `NewStack` | saved registers; what the sanitizers need; an array | `Setup`, `SwitchTo`, `ExitTo` | assembly; fibers change threads and resume one another; stacks are freed and come back | a switch returns to where its context was left; the sanitizers agree |
| `Body` (`fu2::unique_function`) | a callable in a buffer or a box, two tables | construction, move, assignment, `swap`, call | a move leaves the old bytes behind | one owner per callable |

### Behaviours that are hard to test

`PROJECT.json` lists each one at its line. The recurring ones are: a thread is
*counted* (in `working_`, `count_`, `count_workers_`) before or after it is
*visible* in a queue; a value is read before a lock is released or a stack is
left, and used afterwards; and an object (a fiber, an awaiter on its stack)
dies as soon as somebody else gets to run it.

## 2. The modules

| module | models | extends, uses |
|---|---|---|
| `Ownership` | what a mutex promises (abstract) | |
| `FutexMutex` | `sync::Mutex` and the futex wrappers; implements `Ownership` | `Ownership` |
| `CondVar` | `sync::CondVar`, as step operators for its clients | |
| `SyncWaitGroup` | `sync::WaitGroup` with several waiters and rounds, to its destruction | `CondVar` |
| `TaskPool` | what a thread pool promises (abstract) | |
| `ThreadPool` | `ThreadPool`, `IntrusiveMPMCBlockingQueue` and a `sync::WaitGroup` together; implements `TaskPool` | `CondVar`, `TaskPool` |
| `RunLoop` | `RunLoop` on `IntrusiveListSimple`, with the tasks it runs | |
| `Body` | `fu2::unique_function<void()>`: what its operations do to a value (operators) | |
| `Coroutine` | `Coroutine`, `ExecutionContext` and the assembly under it, both `SanitizerContext`s, stacks, and the `Body` of each fiber | `Body` |
| `FiberRuntime` | `Fiber`, `Coroutine`, `FiberHandle`, `Go`, `Yield`, `Suspend`: the state of the runtime and the effect of its operations | |
| `Fibers` | the suspend and resume protocol with any primitives (abstract for the next ones, and checked on its own) | `FiberRuntime` |
| `FiberMutex` | `fibers::Mutex` with `LockFreeQueue2`; implements `Ownership` and `Fibers` | `FiberRuntime`, `Ownership`, `Fibers` |
| `FiberMutexOrder` | `FiberMutex` with an observer of who came after whom and who was overtaken | `FiberMutex` |
| `FiberEvent` | `fibers::Event` with `LockFreeStack2`; implements `Fibers` | `FiberRuntime`, `Fibers` |
| `FiberWaitGroup` | `fibers::WaitGroup` with `LockFreeQueue2`, round after round; implements `Fibers` | `FiberRuntime`, `Fibers` |
| `Combiner` | what a strand promises (abstract) | |
| `Strand` | `fibers::Strand`, with the leader as a task of the scheduler; implements `Combiner` and `Fibers` | `FiberRuntime`, `Combiner`, `Fibers` |
| `Channel` | what a buffered channel promises (abstract) | |
| `RingQueue` | `RingQueue`: what its calls do to a ring (operators) | |
| `BufferedChannel` | `fibers::BufferedChannel`, its `SpinLock`, its ring and its list of waiters; implements `Channel` and `Fibers` | `FiberRuntime`, `RingQueue`, `Channel`, `Fibers` |
| `NodeStack` | what a lock-free stack promises (abstract) | |
| `LockFreeStack` | `LockFreeStack2` with its links and retry loops; implements `NodeStack` | `NodeStack` |
| `FiberRuntimeProofs` | lemmas for all the proofs: queues, the fiber protocol, least numbers and induction | `FiberRuntime` |
| `FoundationProofs` | theorems and proofs about `FutexMutex`, `Fibers` and `RunLoop` | these three |
| `ThreadProofs` | the same about `ThreadPool`, `SyncWaitGroup` and `Coroutine` with its `Body` objects | these |
| `FiberEventProofs` | the same about `FiberEvent` and `LockFreeStack` | these two |
| `FiberMutexProofs`, `FiberWaitGroupProofs`, `StrandProofs`, `BufferedChannelProofs` | the same about one primitive each; the first with the order of `FiberMutexOrder` | the module of that name |
| `MC*` | constants and symmetry for TLC | the module of that name |

Each model says in its header what one action is and what the labels in `pc`
stand for. Names follow the code (`busy`, `working`, `availible`, `first`,
`second`, `runq` for the scheduler's queue, `after[w]` for the fiber whose
`Run` is behind `Switch()` on worker `w`). Modules that share a proof module
have names of their own for what each of them has, such as `MutexSpec`,
`LoopSpec`, `GroupSpec`, `CoroutineSpec` and `StackSpec`.

Each model also has a few *faulty variants*: a definition with one plausible
slip. They are in no specification. Every property of every run is refuted when
one of them replaces the definition it is a variant of; that shows that the
property depends on the code.

The invariant a run checks is a conjunction of named parts, the type invariant
first (`ExclusionInv`, `CountingInv`, `PlacesInv`, `BatonInv`, `EventInv`,
`RoundsInv`, `LeaderInv`, `WaitersInv`, `LinksInv`, `GroupInv`, `LoopInv`,
`ContextsInv`, `BodiesInv`); invariants
that answer a question of their own stay apart.

### What is atomic, and why

* `FutexMutex`: one atomic operation on `busy_` or one system call. Between two
  of them a thread only touches locals. FUTEX_WAIT compares and sleeps in one
  step, as the kernel promises.
* `ThreadPool`: a critical section of `queue_.mutex_` or `wg_.mutex_` is one
  action. The data in it is touched under that mutex only (`FutexMutex` shows
  that it excludes), with one exception: `count_` of the condition variable
  inside. A critical section touches that at most once, so it can be moved to
  that instant. `NotifyOne` and `NotifyAll` of the queue come after the unlock:
  the `fetch_add` and the futex call are two more actions. In
  `WaitGroup::Done` they come before it; there the futex call is joined to the
  section, since a waiter woken early can do nothing before the section ends
  but block on the mutex.
* Blocking on a `sync::Mutex` is left out of `ThreadPool`: a thread that waits
  for a critical section is one whose action has not happened yet. `FutexMutex`
  shows that waiting there ends as long as owners leave.
* `SyncWaitGroup`: each critical section of `mutex_`, each step of the condition
  variable and the exchange that ends `Unlock` is an action, since what matters
  is who is between them when the count changes or the group is destroyed.
* `RunLoop`: it has no locks and belongs to one thread. An action is what the
  loop does from one call into or return out of a task to the next.
* `Coroutine`: the contexts of a fiber are touched by the one thread that runs
  it. An action is a whole switch, with what the sanitizers are told before and
  after it, up to where the next code of the program begins.
* `FiberMutex`, `FiberEvent`, `FiberWaitGroup`, `Strand`: one atomic operation
  on a counter or on a stack's head, at its successful compare-exchange.
  `LockFreeStack` is why the stacks may be used like that: there the retry
  loops, the reads of `next_` and spurious failures are steps, nodes come back
  as soon as they have been let go of, and the whole is still a `NodeStack`. It
  needs that one thread at a time pops; `OneUnlocker` (proved) and `OnePopper`
  say that the users keep to it. A node moves from `second_` to `first_` in one
  step because nobody else looks at `first_`.
* `FiberWaitGroup`: `Done` and `Wait` read `count_` and change it with one
  compare-exchange that fails if it has changed since: together they are one
  step.
* `BufferedChannel`: taking the spin lock is one action (the exchange that finds
  it free), what is done under it up to its release, or up to `Suspend`, another,
  and the `Schedule` after the release a third. The ring and the list of
  waiters are touched under the lock only. The ring is `RingQueue`, with its
  indices and slots; the list of waiters is a sequence (its links are in
  `RunLoop`).
* `Strand`: a callback has a beginning and an end, and other fibers run in
  between. Those that `Run` calls (`strand.hpp` lines 33 and 85) are outside a
  fiber, where `Suspend` does nothing. The leader's own (line 112) runs on its
  fiber's stack and may yield. `Reverse` touches nothing but the batch, which is
  the worker's own, and is one step with `GetChain`; the reads of `next_` in the
  loop are steps, since an awaiter is gone when its fiber goes on. `batch` is
  history: the properties speak of it, and no guard does.
* `compare_exchange_weak` in `fibers::Mutex::TryLock` can fail although the
  mutex is free. Such a call changes nothing and is no step.
* In the fiber modules a switch of stacks is one step: registers are `saved` or
  some thread is `active` on the stack. `Coroutine` is what makes it one.
* All atomics but `count_` of `fibers::WaitGroup` are sequentially consistent in
  the code, as in the models. That one is a single word changed by
  read-modify-writes only, so its values have one order; what is passed on
  through it (the awaiters) goes through the queue's own atomics.

### What the models leave out of a program

The program around the primitives is nondeterministic: any fiber may call any
operation, yield or complete, in any order the interface allows. Only fibers
call the primitives (`Suspend` outside a fiber returns at
once and the call goes through as if it had been served: listed as a hazard).
Only the owner unlocks. Fibers do not complete while they own the mutex.
A callback of a strand does not call `Combine` on that strand: nothing prevents
it, and a leader that does would wait in the stack for itself.
`fibers::WaitGroup` starts a round (`Add` from 0) only when every `Wait` of the
last one has returned, the usual rule for wait groups. The code does not
enforce it: without it, the last `Done` of the new round pops from the waiter
queue while the last `Done` of the old one still does, and `LockFreeStack2`
allows one popper. A channel has a capacity of at least 1.
Threads outside the pool have left their last `Submit` when `Stop` is called
(until then they submit at any time, also while Main does), tasks in the pool do
not have to; what happens to a wait group when `Add` races those who
wait is in `SyncWaitGroup`. Callables do not throw when they are moved, and no
function object is assigned to itself. Each model has one scheduler, since a fiber stays with the
one it was started on.

## 3. The runs

| run | instance | question |
|---|---|---|
| `futex_mutex` | 4 threads, fair | exclusion; no sleeper without somebody bound to wake it; a wanted mutex is taken; its ownership is that of a mutex |
| `thread_pool` | 2 workers, a client, Main; 3 tasks, fair | the wait group counts what `Stop` waits for; no sleeping worker misses a task; it is a `TaskPool`; tasks run; `Stop` returns |
| `fibers` | 4 fibers, 3 workers, fair | no fiber in two places, reachable before it is off its stack, or lost; a scheduled fiber runs |
| `fiber_mutex` | 4 fibers, 2 workers, fair | exclusion, one popper, exact count, what Unlock spins for; its ownership is that of a mutex; it keeps the fiber protocol; only who slips into a turn-over overtakes; every `Lock` is granted |
| `fiber_event` | 4 fibers, 2 workers, fair | no early return, nobody misses the Fire, each waiter scheduled once; after Fire every Wait returns |
| `fiber_wait_group` | 4 fibers, 2 workers, at most 2 tasks at a time, fair | one popper, every waiter counted once, rounds apart, what Done spins for; every Wait returns |
| `strand` | 4 fibers, 2 workers, fair | one leader, an exact count; callbacks one at a time and in order, `next_` read in time; who waits for the leader returns |
| `channel` | 3 fibers, 2 workers, 4 messages, capacity 2, indices modulo 4, fair | bounded first in first out through a ring that wraps; waiters of one kind; the spin lock is held on a thread; served calls return |
| `lock_free_stack` | 3 threads, 4 nodes | it is a stack; `TryPop` never uses a stale link |
| `sync_wait_group` | 2 threads that add, 2 that wait, fair | who is registered, who can be left asleep, the end of the group; every `Wait` nobody adds behind returns |
| `run_loop` | 3 jobs, 2 lasting tasks, calls 3 deep | sound links; each task counted by one call; first in first out, whatever tasks and nested calls do |
| `coroutine` | 2 threads, 3 coroutines, 3 callables, 2 variables | every switch lands where its context was left, on the right stack; the sanitizers agree; each callable has one owner |

### Bounds, and why they are enough

* Three threads are the least at which somebody takes `sync::Mutex` between an
  unlock and the wake it issues; with four there are also two sleepers behind
  that one.
* Tasks of the pool are submitted once each. Three tasks let a task be queued
  behind one that is running and one that is being submitted by it; two workers
  let one run while the other is between its check and FUTEX_WAIT.
* `WordSize` of `ThreadPool` is the modulus of `count_` (2^32 in the code). An
  execution notifies the queue once per task and once in `Close`, 4 times in
  all, and a load of `count_` misses a notification only if as many as the
  modulus follow it. 8 is therefore as good as 2^32. The loss itself is real and
  listed as a hazard: 2^32 notifications between a load and FUTEX_WAIT. For the
  same reason `SyncWaitGroup` has a modulus above `MaxAdds`: each round notifies
  at most once.
* Four fibers let one own the mutex, one be in the drained stack, one push
  during the drain and one be counted but not yet in the queue; in the wait
  group they let one report while two wait and one is about to, in the strand
  they fill a batch while the next one forms. Two workers let Unlock and Done
  spin against a push.
* `MaxCount` = 2 in `FiberWaitGroup` and `SyncWaitGroup`: a Done that is the last
  one and one that is not. The number of rounds of `FiberWaitGroup` is not
  bounded.
* `MaxAdds` = `MaxWaits` = 2 in `SyncWaitGroup`: a second round can begin, and a
  thread can wait for it, while a waiter of the first is on its way out.
* `MaxSent` = 4 in `BufferedChannel`: two messages fill the ring and two senders
  wait behind them; a receiver that finds the ring empty waits, and two can.
  Messages are numbered by the order of their Sends; nothing looks at them.
  Indices are taken modulo 4, so they wrap. That is a multiple of the capacity,
  as 2^64 is only for capacities that are powers of two; for the others a ring
  breaks after 2^64 pushes (listed as a hazard).
* Four nodes let a popper have seen one, two be pushed behind its back and one
  come back.
* `RunLoop`: `MaxDepth` = 3 is a call inside a task inside a call inside a task
  of the outermost one; `MaxRuns` = 6 submissions reuse each of the 5 tasks. The
  limits are 0, 1 (`RunNext`), 2 and none (`Run`).
* `Coroutine`: three coroutines nest (a fiber that runs a loop that resumes a
  fiber that does), two threads take turns at them. One callable fits into every
  buffer, one into none, one only where the alignment happens to suit it. A
  coroutine's name stands for its memory and is used again after its deletion,
  so nothing bounds the number of fibers.
* The number of calls is not bounded elsewhere, and no counter had to be capped:
  `working_` is bounded by the number of fibers, `count_` of `Strand` by twice
  that (fibers that have been served come back before the leader has
  subtracted them).
* Symmetry is used in three runs without liveness properties (`lock_free_stack`,
  `run_loop`, `coroutine`), over threads, nodes, tasks, coroutines and variables:
  no definition tells one from another.
* Runs of fibers set `CHECK_DEADLOCK FALSE`: the system stops when every fiber
  has completed, or is parked with nobody left to wake it (all fibers in
  `Event::Wait` or in `Recv`, or `Fibers` with a primitive that never wakes),
  and that is what the program does. So does `sync_wait_group`: its calls are
  bounded, and a waiter that was overtaken may sleep for ever.

### Fairness

* Every thread that can take a step takes one at last: weak fairness per
  thread, for the steps of a call it has entered. The operating system gives
  that. Nothing obliges anybody to call `Lock`, `Submit`, `Stop` or `Fire`,
  and spurious wake-ups are not owed.
* Owners unlock: in `FutexMutex` the owner's only step is `Unlock`; in
  `FiberMutex` an owner may yield, so that strong fairness of its `Unlock` is
  needed: it is on a worker again and again and unlocks at last. A program in
  which an owner yields for ever keeps the mutex for ever.
* In `FiberEvent` a fiber may call `Wait` and `Fire` in a loop that never
  suspends, once the event is closed; in `FiberWaitGroup` and `Strand` likewise
  `Wait` on a count of 0 and `Combine` without rivals. Strong fairness of `Leave` says that it
  yields or completes now and then: fibers are cooperative, and a fiber that
  never gives up its worker starves the others in the program too. Strong
  fairness of `LeadEnds` says that the leader's callback returns, however often
  it yields.
* `BufferedChannel`: a spinning thread is owed the lock only while it stays free;
  it can lose every race. `ServedReturns` therefore starts behind the lock.
* `ThreadPool`: tasks return, and Main starts the pool.
* `SyncWaitGroup`: threads in a call go on, and whoever has added calls `Done`.

### What a few of the properties say

* `SleepersAreRemembered` (`sync::Mutex`): as long as a thread sleeps, the owner
  is bound to see the mark 2, or some thread on its way through the mutex will
  look at it again or is about to wake one. Storing a 1 after waking breaks it.
* `WaitGroupCountsTasks` (`ThreadPool`): `count_workers_` is the number of tasks
  between `Add` and `Done`, so that `Stop` cannot overtake a task that a task
  has just submitted.
* `NoTaskIsMissed` (`ThreadPool`): while a worker sleeps, each queued task has a
  worker that will look into the queue or a submitter that has yet to wake one.
  Notifying only when the queue was empty breaks it.
* `ReachableIsSaved` (`Fibers`, part of `PlacesInv`): whoever can find a fiber, in the scheduler's
  queue or in a primitive, finds it off its stack and with `awaiter_` cleared.
* `SpinWaitsForAThread` (`FiberMutex`, part of `ClaimsInv`): when `Unlock` finds the queue empty, the
  awaiter it spins for is being pushed by a thread right now. A fiber that
  could be descheduled between `fetch_add` and `Suspend` would make a pool with
  one worker spin for ever.
* `OvertakenOnce` (`FiberMutexOrder`): a fiber that pushes while `second_` is being
  turned over ends up in front of those that have been turned over by then, of no
  others, and only once. On one worker nobody can, and the order is that of the
  pushes.
* `EveryWaiterIsCounted` (`FiberWaitGroup`, part of `RoundsInv`): the fibers that
  have been counted and not yet popped are as many as the word and the Dones
  that are popping say, so no Done pops too few, or spins for one too many.
* `OneLeader` (`Strand`, part of `LeaderInv`): while somebody is counted there is
  exactly one leader, in its callback, on its way to the scheduler, in the
  scheduler's queue or run by one worker. Deciding by an empty stack instead of
  the count breaks it: a fiber is counted before it is in the stack.
* `ImplementsCombiner` (`Strand`): callbacks run in the order in which they were
  pushed, across batches, although each batch comes out of the stack reversed
  and its links are gone one by one as the fibers go on. Reading `next_` after
  the `Schedule` breaks it, and `ImplementsFibers` with it: the loop ends early,
  and the callbacks that are left are lost.
* `WaitersAreOfAKind` (`BufferedChannel`, part of `WaitersInv`): the list holds
  senders, and the ring is full, or receivers, and it is empty. `Send` and
  `Recv` cast the nodes on the strength of that.
* `HolderIsOnAThread` (`BufferedChannel`, part of `WaitersInv`): the spin lock is held by a fiber that
  runs or by a worker that has yet to run the awaiter of a fiber it has just
  left, and by one of them only. Threads spin for threads.
* `SwingIsSafe` (`LockFreeStack`, part of `LinksInv`): when the compare-exchange
  of `TryPop` finds the head it has seen, the link it has read is still that
  node's. With two poppers it would not be.
* `OnlyOvertakenSleep` and `EveryWaitReturns` (`SyncWaitGroup`): a waiter is added
  to `waiters_` once per `Wait`, and `Done` clears it. If somebody adds before a
  waiter that was released has the mutex back, it goes to sleep again
  unregistered, and may sleep for ever at a count of 0. The properties say that
  this is the only way to be left behind. The pool, with one waiter and no `Add`
  after its count came to 0 for good, is safe from it.
* `DestroyedIsUnused` (`SyncWaitGroup`): who is back from `Wait` may destroy the
  group, since the last `Done` notifies under the mutex. A `Wait` that returned
  on a look at the count without the mutex would break that.
* `CountsAddUp` (`RunLoop`, part of `LoopInv`): a task that calls the loop from
  inside its own `Run` has what ran there counted by the inner call, and itself
  by the outer one.
* `FramesAreWhereTheyWereLeft` (`Coroutine`, part of `ContextsInv`): a context that
  may be switched to has its own frame on top of the stack it was left on, also
  after the fiber has changed threads or its resumer runs on a fiber's stack.
* `RunningIsHere` (`Coroutine`, part of `ContextsInv`): `Self()` is the fiber that
  calls it, because `Switch` puts back the fiber that was running before.
* `BodiesInv` (`Coroutine`): a callable on its way through `Go`, `Fiber` and
  `Coroutine`, by value each time, is destroyed once, and a routine lives until
  its fiber is deleted.

No comment, test or document of the repository was found to disagree with what
the code does.

## 4. The proofs

Every invariant, action property and refinement that a run checks is also a
theorem. They hold for any sets of threads, workers and fibers (finite ones where
something is counted: the threads of the pool and of the wait group, the fibers
of a strand), for any tasks, nodes, callables and kinds of awaiters, any
`MaxCount`, any depth of calls of the run loop, and for channels of any capacity,
any number of messages and any modulus of the indices, within the assumptions
below.

| module | theorems | inductive invariant |
|---|---|---|
| `FiberRuntimeProofs` | lemmas: what Append, Tail and a push at the front do to the elements of a queue; each runtime operation, and each step of the fiber protocol, keeps `InPlace`; `LeastNat`, `InductionOverNat` | `InPlace(P, A)`: `PlacesInv` for any set of parked fibers and any kinds of awaiters |
| `FoundationProofs`, `sync::Mutex` | `MutexTypeCorrect`, `ExclusionHolds`, `MutexExcludes`, `SleepersNotForgotten`, `MutexImplementsOwnership` | `ExclusionInv`: types, exclusion, and `busy_` is 0 exactly while there is no owner |
| `FoundationProofs`, fibers | `PlacesHold`, `TypeCorrect`, `NeverTwice`, `NeverResumedEarly`, `NeverLost` | `PlacesInv`: types, `OneActivation`, and `PlaceShowsState`: where a fiber is tells the state of its coroutine and its awaiter |
| `FoundationProofs`, `RunLoop` | `LoopHolds`, `RunsInOrder` | `LoopKept`: types, `CountsAddUp`, and a sequence that the links spell out (`Listed`), with the calls under the top one waiting for tasks in no list (`CallsKept`) |
| `FiberMutexProofs` | `TypeCorrect`, `MutexExcludes`, `SinglePopper`, `BatonIsHeld`, `BatonHolds`, `MutexImplementsOwnership`, `MutexImplementsFibers`, `ClaimsHold`, `OvertakesOnce` | `BatonInv`: types, and at most one fiber owns or pops, and one does exactly while `working_` is not 0; `MutexInPlace`; `Counted` and `Waiters`; `InLine` |
| `FiberEventProofs`, the event | `TypeCorrect`, `EventHolds`, `EventImplementsFibers` | `EventInPlace`, `Fired` |
| `FiberEventProofs`, the stack | `StackInvHolds`, `LinksHold`, `StackImplementsNodeStack` | `StackInv`: types, `Chains` (from `head_` and from what each thread has taken), `NodesApart`, `Pushers`, `Poppers` |
| `FiberWaitGroupProofs` | `TypeCorrect`, `WaitGroupImplementsFibers`, `RoundsHold` | `GroupInPlace` with the types; `Rounds` |
| `StrandProofs` | `StrandInvHolds`, `LeaderHolds`, `StrandImplementsCombiner`, `StrandImplementsFibers` | `StrandInv`: types, what a worker and a leader hold where they are, `QueuedInv`, `PlaceOfLeader`, `CountIsExact`; `LinksInv` with it |
| `BufferedChannelProofs` | `RingPushes`, `RingPops`, `WaitersInvHolds`, `ChannelImplementsFibers`, `ChannelImplementsChannel` | `ChannelInv` with the types: `Yielders`, `HandlesInPlace`, `Locals`, `Errands`, `LockKept`, `RingKept`, `WaitersAreOfAKind` |
| `ThreadProofs`, the pool | `CountingHolds`, `PoolImplementsTaskPool`, `NoTaskIsMissedHolds` | `Counting`: types, what each thread holds where it is, and what `wg_` counts; `Once`; `CountIsNotifications` and `FreshMissNothing` |
| `ThreadProofs`, `sync::WaitGroup` | `GroupInvHolds` | `GroupKept`: `WorkersAreOwed`, `RoundsAreCounted`, `Released`, `ReleasedWake`, `Settled` |
| `ThreadProofs`, coroutines | `ContextsHold`, `BodiesHold` | `ContextsKept`: `AtOwnStack`, `AtResume`, `BehindSwitch`, `StacksAreOwned`, `RunsAreNested`; `BodiesKept` |

`MutualExclusion` of `sync::Mutex` is not inductive alone: a second owner could
come in through a `busy_` of 0. That an owner keeps it above 0 closes the gap.
`SleepersAreRemembered` needs the exclusion: only then is the thread that
unlocks the one the mark was left for. The same invariant gives the refinement
of `Ownership`: a step changes the owner only through an acquisition from free or a
release by the owner.

For `Fibers`, uniqueness is not inductive without knowing that a fiber behind
`Switch()` is saved or complete and one in a queue has no awaiter left.
`NeverLost` is inductive relative to that.

The primitives share that argument. `FiberRuntimeProofs` states it for a set `P`
of fibers that some primitive has a handle of, and for `ProtocolStep`, the steps
`Fibers` allows. What is left for each primitive is what `P` is (the elements of
its queue, its stack, the lists it is working off), that each fiber is there
once, and that each of its actions is a `ProtocolStep`; the refinement of
`Fibers` follows. `MutexInPlace`, `EventInPlace` and `GroupInPlace` say so. A
fiber that is woken must be known to be suspended (`Waiters`), or scheduling it
would put it into the queue twice.

For `fibers::Mutex` the owner and the fiber inside `Unlock` hold one baton
together. `fetch_add` from 0 creates it, `fetch_sub` to 0 ends it, and
`Grant` passes it on. Exclusion and the single popper are two views of it, and so
is the refinement of `Ownership`. `ClaimsHold` counts: who is counted in `working_`
and neither owns nor is queued is on a thread, before or behind `Switch`. If
`Unlock` finds the queue empty the count says that such a fiber exists.

For `fibers::Event`, `Fired` says that a closed event has no stack. A fiber
suspended in `Wait` is then in the chain of a `Fire` or has its awaiter still to
run, which will find the event closed.

The order of `fibers::Mutex` (`OvertakesOnce`) needs `InLine`. `second_` has the
latest waiter first, so a turn-over, one node at a time, puts the earliest in
front; while nobody is in the loop, all of `first_` came before all of `second_`.
A fiber pushed during the loop came after those that are in `first_` by then and
will be in front of them, and that is what `slipped` records. Who has been
overtaken is in `first_`, with no loop running, and stays there until it is
served; what overtook it would have to come back through `second_` and another
loop, which begins only when `first_` is empty.

For the stack, a `CHOOSE` of a length and a function by recursion on it say which
nodes hang from a link. `ChainIsFound` says that a sequence whose neighbours are
linked is that chain; it and the existence of the recursive function are shown by
induction over the natural numbers, with sets in place of predicates
(`InductionOverNat`, from the well-foundedness of `<`). Then a step is a change of
one link or of `head_`. A popper that has seen a node on top keeps it in the
stack: it is the only one who pops, so the node cannot leave, cannot be pushed
again, and its link cannot change (`Poppers`). With several poppers that fails,
and with it the theorem; `SinglePopper` is how `fibers::Mutex` meets it.

For `fibers::WaitGroup`, that one `Done` pops, that each waiter is counted once
and that rounds stay apart rest on each other. While a `Done` pops, as many
fibers as it has left to pop are in `Wait`; so nobody may start a round, the
count stays 0, and no second `Done` comes. `Rounds` has the three together. It
uses the rule of wait groups, which is the guard of `Add`, and nothing else of
the program.

For the strand, `PlaceOfLeader` lists where the leader can be: a fiber before or
behind `Switch`, a task in the scheduler's queue, or a task that a worker runs
and that may look at the stack; one of these is occupied, once, exactly while
`count_` is above 0. `count_` is what has been counted and not subtracted, with
the callbacks the leader has run (`ran`) not subtracted yet; so when the leader
subtracts and something is left, there is a callback or one is about to be
pushed. For the refinement of `Combiner`, the abstract queue is what is left of
the leader's batch and behind it the stack, reversed. For that of `Fibers`, the
leaders' tasks are filtered out of the scheduler's queue. Both need `LinksInv`:
that `ptr`, `temp` and the links spell out what is left of the batch. It holds
because a batch consists of fibers that are suspended, and only a fiber that
returns from `Combine` takes its awaiter with it.

For the pool, `CountingInv` is inductive only with the labels of the threads in
it (`PoolPlaces`): that the count is 0 tells `Stop` that every worker is in `Pop` and
every client idle, and only workers in `Run` and clients could raise it again.
`Once` adds that a task is in one place, and `TaskPool` follows: `Push` is its
submission, and what a thread has in its hands or in the queue is what the
abstract pool owes. `NoTaskIsMissed` speaks of workers that sleep, so the
invariant has to speak of those that may still fall asleep: a worker whose
ticket equals `count_` has missed only tasks whose submitter has yet to count
its notification (`FreshMissNothing`). A `fetch_add` ends that for everybody at
once, unless the word comes back to an old value; `CountIsNotifications` says
that it does not, and is where `NotificationsAssumption` is used.

For `sync::WaitGroup`, `count_workers_` is what is still owed, so the `Done` that
has brought it to 0 is the only one at work (`WorkersAreOwed`). Each round has an
`Add` of its own and one notification, so `count_` of the condition variable does
not come back to a value a waiter has read as long as the word tells the Adds
apart (`RoundsAreCounted`). A waiter that was released and not overtaken has read
a value that is stale, or the `Done` that will wake it is on its way
(`ReleasedWake`); that gives `OnlyOvertakenSleep`. Nobody is left inside when the
group is destroyed because the last `Done` holds the mutex until it has notified.

For the run loop, `Listed(q)` says that the links spell out the sequence `q`, and
`LineIsFound` that following them finds it. A nested call sees a list that no
call above it works on: only the top call is in its loop. Sums over the calls,
for `CountsAddUp`, go by induction on the number of calls.

For coroutines, `ContextsKept` says of every stack what is on top of it and what
its context remembers: of a fiber that nobody runs, that it is where its last
switch left it (`AtOwnStack`); of a stack that has resumed another, that the
loop's context was left there (`AtResume`). Two threads do not meet on a stack,
since the stacks that wait hang together from each thread's own
(`StacksAreOwned`). For the `Body` objects every operation is shown to leave each
callable with one owner; between a move's two halves there are two, and one of
them is not looked at (`OneOwnerBut`).

For the channel there are three layers. The ring comes first: `RingPushes` and
`RingPops` say that `Contents` is a queue whatever the indices are, by
arithmetic on `%`: fewer than `Capacity` consecutive indices have different
slots, and a turn of the indices at the modulus keeps the slots if the capacity
divides it. If it does not, `RingKept` bounds `tail_` by the messages that have
been in the ring. The handles come next: each fiber the channel knows is in the
list once or about to be scheduled by one other, and where a call is tells what
its locals hold. Then the lock: from `lock()` to the awaiter's push into the
list nobody else sees the ring (`LockKept`), so an awaiter joins the list before
a ring that is still full, or empty. With that, `WaitersAreOfAKind` is
inductive. For the refinement of `Channel`, the messages in line are those of
the ring and behind them those of the senders that wait; a receiver that waits
gets its message past an empty line.

The assumptions are those of the modules:

* names: `Nobody` is no thread; `None` is no fiber, no kind of awaiter, no thread
  and no context; a leader's task is no fiber; `Null` and `Closed` are no nodes;
  "yield" is one of the kinds of awaiters; jobs, lasting tasks and `NoTask` are
  different, and so are workers, clients and Main, those who add to a wait group
  and those who wait on it, threads and coroutines;
* finiteness, where something is counted: workers, clients and tasks of the pool
  (`ThreadsAssumption`), the users of a wait group (`GroupAssumption`), the fibers
  of a strand (`StrandAssumption`), nodes (`NodesAssumption`), tasks of a run loop
  (`LoopAssumption`). `MaxCount` and the other bounds are any natural numbers;
* `NotificationsAssumption`: an execution notifies the queue less often than the
  modulus of `count_`, 2^32; a program that submits more tasks than that is
  outside of what `NoTaskIsMissedHolds` says. `GroupAssumption` has the same for
  the rounds of a wait group;
* `RingAssumption`: a capacity of at least 1, and a modulus above the capacity
  and 1. `ChannelAssumption`: the capacity divides the modulus, 2^64, or fewer
  messages are sent than it has values.

Only model-checked is what speaks of fairness (`SomebodyGetsIt`, `TasksRun`,
`StopReturns`, `ScheduledRuns`, `LockIsGranted`, `EveryWaiterReturns`,
`EveryWaitReturns`, `CombineReturns`, `ServedReturns`): liveness under fairness is
out of the prover's reach.

The inductive invariants were checked by TLC, on the instances of the runs and
for the channel also with a modulus that the capacity does not divide, before
they were proved or along with it (`LoopKept` with the list that `Line` finds).

## 5. What is not modelled, and why

* `SpinLock::TryLock`, `FiberHandle::Switch` and `Release`, `Close` of
  `IntrusiveListSimple`: nothing calls them.
* Which registers `context.S` saves and how the first frame of a stack is laid
  out: `Coroutine` has the frame as a whole. Stack overflow.
* The rest of the vendored `function.hpp`: copyable functions, views, overload
  sets, strong exception guarantees. `Body` is the one instantiation the
  framework has. Moves of `NewStack`, which nothing makes after a fiber exists.
* `fibers::Mutex` and the others on several schedulers at once: a fiber stays
  with the scheduler it was started on, and the primitives look at nothing of it
  but its queue.
* Weak memory: the code asks for sequential consistency almost everywhere.

## 6. Plan

Done, in this order: the futex mutex and the pool on top of it (everything
rests on them), the fiber runtime and its protocol, the primitives from the
most used to the most intricate, the containers under them; then the wait group
of threads, the run loop, coroutines with their contexts, stacks and callables,
and the ring under the channel. Proofs: the futex mutex, the protocol of fibers,
the primitives on it up to `fibers::WaitGroup`, the pool and the channel with its
ring; then the strand, the lock-free stack, the wait group of threads,
coroutines and callables, the run loop, and the order of `fibers::Mutex`.

Next, models:

1. `FiberRuntime` as what `Coroutine` implements: saved and active as a
   projection of the two contexts and the frames.
2. `LockFreeStack` under `FiberMutex` and `Strand` in place of the atomic stacks,
   on smaller instances.

Next, proofs: those two refinements, which would join the theorems about the
containers to those about what is built on them.
