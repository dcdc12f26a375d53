----------------------------- MODULE FiberMutex -----------------------------
(***************************************************************************)
(* exe::fibers::Mutex (exe/fibers/sync/mutex.hpp) with its waiter queue,   *)
(* LockFreeQueue2 (exe/infra/lockfree/lf_queue.hpp), used by fibers on a   *)
(* scheduler.  One action is one atomic operation on working_ or on one of *)
(* the two stacks of the queue, or one step of the fiber runtime.          *)
(*                                                                         *)
(* A stack is a sequence, newest node first, and Push and TryPop take      *)
(* effect at their successful compare-exchange.  That needs at most one    *)
(* popper at a time (a pop reads next_ of a node that another popper could *)
(* free); OneUnlocker says that this is so.  It also lets one action of    *)
(* the drain loop move a node from second_ to first_: nobody else is       *)
(* looking at first_.                                                      *)
(*                                                                         *)
(* pc[f] says where fiber f is, on a stack or not:                         *)
(*   out      not in a call and not the owner                              *)
(*   suspend  in Lock, working_ was not 0, before Suspend(&awaiter)        *)
(*   wait     suspended in Lock                                            *)
(*   cs       the owner, also when it is still in the scheduler's queue    *)
(*   pop      in Unlock, before queue_.TryPop()                            *)
(*   drain    in TryPop, in the loop over second_                          *)
(*   repop    in TryPop, before the last first_.TryPop()                   *)
(***************************************************************************)
EXTENDS FiberRuntime, FiniteSets

ASSUME MutexAssumption == None \notin Fibers \union {"yield", "mutex"}

VARIABLES working,   \* working_
          first,     \* queue_.first_
          second,    \* queue_.second_
          pc

mutex == <<working, first, second, pc>>
vars == <<runtime, mutex>>

Labels == {"out", "suspend", "wait", "cs", "pop", "drain", "repop"}

Popping == {"pop", "drain", "repop"}

Init ==
  /\ RuntimeInit
  /\ working = 0 /\ first = <<>> /\ second = <<>>
  /\ pc = [f \in Fibers |-> "out"]

\* The fiber on w goes from one label to another.
Goto(w, from, to) ==
  /\ running[w] # None /\ pc[running[w]] = from
  /\ pc' = [pc EXCEPT ![running[w]] = to]
-----------------------------------------------------------------------------
\* Faulty variants, one plausible slip each; no specification uses them.
\* Lock loads working_ and then stores it: two fibers can both read 0.
LockUnlocked(w) ==
  /\ Goto(w, "out", IF working <= 1 THEN "cs" ELSE "suspend")
  /\ working' = working + 1
  /\ UNCHANGED <<runtime, first, second>>

\* Lock yields before it suspends, on its way to the queue.
SuspendLater(w) ==
  /\ running[w] # None /\ pc[running[w]] = "suspend"
  /\ \/ Suspend(w, "yield") /\ UNCHANGED pc
     \/ Suspend(w, "mutex") /\ pc' = [pc EXCEPT ![running[w]] = "wait"]
  /\ UNCHANGED <<working, first, second>>

\* Unlock gives up when it finds the queue empty.
RepopOnce(w) ==
  /\ first = <<>>
  /\ Goto(w, "repop", "out")
  /\ UNCHANGED <<runtime, working, first, second>>

\* TryPop takes what the last first_.TryPop() finds without removing it.
GrantTop(w) ==
  /\ first # <<>>
  /\ running[w] # None /\ pc[running[w]] \in {"pop", "repop"}
  /\ pc' = [pc EXCEPT ![running[w]] = "out", ![Head(first)] = "cs"]
  /\ Schedule(Head(first))
  /\ UNCHANGED <<running, after, awaiter, coro, working, first, second>>

\* The drain loop starts although first_ is not empty.
DrainEarly(w) ==
  /\ second # <<>>
  /\ \/ Goto(w, "drain", "drain")
     \/ Goto(w, "pop", "drain")
  /\ first' = <<Head(second)>> \o first
  /\ second' = Tail(second)
  /\ UNCHANGED <<runtime, working>>
-----------------------------------------------------------------------------
\* Lock: working_.fetch_add(1), and return if it was 0.
Lock(w) ==
  /\ Goto(w, "out", IF working = 0 THEN "cs" ELSE "suspend")
  /\ working' = working + 1
  /\ UNCHANGED <<runtime, first, second>>

\* TryLock succeeds.  When it fails nothing changes.
TryLock(w) ==
  /\ working = 0
  /\ Goto(w, "out", "cs")
  /\ working' = 1
  /\ UNCHANGED <<runtime, first, second>>

\* Lock: Suspend(&awaiter).
SuspendInLock(w) ==
  /\ Goto(w, "suspend", "wait")
  /\ Suspend(w, "mutex")
  /\ UNCHANGED <<working, first, second>>

\* MutexAwaiter::RunAwaiter: queue_.Push(this).
RunMutexAwaiter(w) ==
  /\ RunsAwaiter(w, "mutex")
  /\ TakeAwaiter(w)
  /\ second' = <<after[w]>> \o second
  /\ UNCHANGED <<runq, working, first, pc>>

\* Unlock: working_.fetch_sub(1), and return if it was 1.
Unlock(w) ==
  /\ Goto(w, "cs", IF working = 1 THEN "out" ELSE "pop")
  /\ working' = working - 1
  /\ UNCHANGED <<runtime, first, second>>

\* TryPop finds a node in first_, at its beginning or after the drain, and
\* Unlock schedules the waiter: the mutex is handed over.
Grant(w) ==
  /\ first # <<>>
  /\ running[w] # None /\ pc[running[w]] \in {"pop", "repop"}
  /\ pc' = [pc EXCEPT ![running[w]] = "out", ![Head(first)] = "cs"]
  /\ first' = Tail(first)
  /\ Schedule(Head(first))
  /\ UNCHANGED <<running, after, awaiter, coro, working, second>>

\* TryPop: first_ is empty.
PopEmpty(w) ==
  /\ first = <<>>
  /\ Goto(w, "pop", "drain")
  /\ UNCHANGED <<runtime, working, first, second>>

\* TryPop: one round of the loop that moves second_ to first_.
Drain(w) ==
  /\ second # <<>>
  /\ Goto(w, "drain", "drain")
  /\ first' = <<Head(second)>> \o first
  /\ second' = Tail(second)
  /\ UNCHANGED <<runtime, working>>

DrainEnds(w) ==
  /\ second = <<>>
  /\ Goto(w, "drain", "repop")
  /\ UNCHANGED <<runtime, working, first, second>>

\* TryPop returns nullptr: Unlock tries again.
Repop(w) ==
  /\ first = <<>>
  /\ Goto(w, "repop", "pop")
  /\ UNCHANGED <<runtime, working, first, second>>

\* The rest of the program: a fiber, the owner of the mutex or not, yields;
\* one that does not own it may complete; new fibers start.
Yield(w) ==
  /\ running[w] # None /\ pc[running[w]] \in {"out", "cs"}
  /\ Suspend(w, "yield")
  /\ UNCHANGED mutex

Finish(w) ==
  /\ running[w] # None /\ pc[running[w]] = "out"
  /\ Complete(w)
  /\ UNCHANGED mutex

Start(f) == Go(f) /\ UNCHANGED mutex

\* What a worker does on its own stack, and a fiber in a call or outside one.
OnWorker(w) ==
  \/ RunMutexAwaiter(w)
  \/ (Resume(w) \/ Reap(w) \/ RunYield(w)) /\ UNCHANGED mutex

InUnlock(w) == Grant(w) \/ PopEmpty(w) \/ Drain(w) \/ DrainEnds(w) \/ Repop(w)

OnFiber(w) ==
  \/ Lock(w) \/ TryLock(w) \/ SuspendInLock(w) \/ Unlock(w) \/ InUnlock(w)
  \/ Yield(w) \/ Finish(w)

Next ==
  \/ \E f \in Fibers : Start(f)
  \/ \E w \in Workers : OnWorker(w) \/ OnFiber(w)

Spec == Init /\ [][Next]_vars

\* Threads that can run do, and an owner that gets to run again and again
\* unlocks at last.
UnlockBy(f) == \E w \in Workers : running[w] = f /\ Unlock(w)

Fairness ==
  /\ \A w \in Workers : WF_vars(OnWorker(w)) /\ WF_vars(OnFiber(w))
  /\ \A f \in Fibers : SF_vars(UnlockBy(f))
-----------------------------------------------------------------------------
TypeOK ==
  /\ RuntimeTypeOK
  /\ awaiter \in [Fibers -> {None, "yield", "mutex"}]
  /\ working \in Nat
  /\ first \in Seq(Fibers) /\ second \in Seq(Fibers)
  /\ pc \in [Fibers -> Labels]

\* At most one fiber owns the mutex, on whatever thread it runs and however
\* often it has yielded since.
MutualExclusion == \A f, g \in Fibers : pc[f] = "cs" /\ pc[g] = "cs" => f = g

\* At most one fiber pops, and not while another one owns the mutex: what
\* LockFreeStack2::TryPop relies on.
OneUnlocker ==
  \A f, g \in Fibers : pc[f] \in Popping /\ pc[g] \in Popping \union {"cs"} => f = g

\* While working_ is not 0 somebody is there to hand the mutex over: the owner
\* or a fiber in Unlock; and when it is 0 there is nobody.
SomebodyHasTheBaton ==
  working > 0 <=> \E f \in Fibers : pc[f] \in Popping \union {"cs"}

\* The owner and the fiber in Unlock are never two, and there is one of them
\* exactly while working_ is not 0.
BatonInv == TypeOK /\ MutualExclusion /\ OneUnlocker /\ SomebodyHasTheBaton

\* working_ is the owner plus all that wait for a grant, so that Unlock looks
\* into the queue if and only if somebody is or will be there.
WorkingCountsClaims ==
  working = Cardinality({f \in Fibers : pc[f] \in {"suspend", "wait", "cs"}})

\* When Unlock finds the queue empty, the node it spins for is pushed by a
\* thread that is at it right now, never by a fiber that would need the
\* spinning worker first.
SpinWaitsForAThread ==
  \A f \in Fibers :
    pc[f] \in Popping /\ first = <<>> /\ second = <<>> =>
      \E w \in Workers :
        \/ running[w] # None /\ pc[running[w]] = "suspend"
        \/ RunsAwaiter(w, "mutex")

\* Both together: the count is exact, and what Unlock concludes from it and from
\* an empty queue never makes it wait for a fiber that waits for its worker.
ClaimsInv == WorkingCountsClaims /\ SpinWaitsForAThread

\* A fiber that has called Lock gets the mutex.
LockIsGranted ==
  \A f \in Fibers : pc[f] \in {"suspend", "wait"} ~> pc[f] = "cs"

\* The nodes in the queue are parked fibers: Mutex schedules each fiber it
\* was given a handle of, once.
Parking == INSTANCE Fibers WITH
  Awaiters <- {"yield", "mutex"}, parked <- Range(first) \union Range(second)

ImplementsFibers == Parking!Spec

\* fibers::Mutex is a mutex too: owned by one fiber or free, handed over or not.
Owner ==
  IF \E f \in Fibers : pc[f] = "cs" THEN CHOOSE f \in Fibers : pc[f] = "cs" ELSE None

Promise == INSTANCE Ownership WITH Callers <- Fibers, Free <- None, owner <- Owner

ImplementsOwnership == Promise!Contract
=============================================================================
