--------------------------- MODULE FiberWaitGroup ---------------------------
(***************************************************************************)
(* exe::fibers::WaitGroup (exe/fibers/sync/wait_group.hpp) with its waiter *)
(* queue, LockFreeQueue2, used by fibers on a scheduler, round after       *)
(* round.  count_ is one word of two halves, waiters and count; Done and   *)
(* Wait change both with one successful compare-exchange, which is their   *)
(* step.  TryPop of the queue is as in FiberMutex.                         *)
(*                                                                         *)
(* The rule of wait groups: whoever starts a new round with Add has seen   *)
(* all Waits of the last one return.  Nothing in the code enforces it.     *)
(*                                                                         *)
(* pc[f] says where fiber f is:                                            *)
(*   out       not in a call                                               *)
(*   suspend   in Wait, counted as a waiter, before Suspend(&awaiter)      *)
(*   wait      suspended in Wait                                           *)
(*   again     woken in Wait, before the loop looks at count_ again        *)
(*   pop, drain, repop   in Done and there in queue_.TryPop()              *)
(*   wake      in Done, in the loop that schedules the nodes it popped     *)
(***************************************************************************)
EXTENDS FiberRuntime, FiniteSets

CONSTANT MaxCount    \* bound: the tasks of one moment

ASSUME MaxCountAssumption == MaxCount \in Nat

ASSUME WaitGroupAssumption == None \notin Fibers \union {"yield", "waitgroup"}

VARIABLES waiters,   \* the upper half of count_
          count,     \* the lower half of count_
          first,     \* queue_.first_
          second,    \* queue_.second_
          left,      \* left[f]: waiters that the Done of f has yet to pop
          node,      \* node[f]: what it has popped, oldest first
          pc

group == <<waiters, count, first, second, left, node, pc>>
vars == <<runtime, group>>

Popping == {"pop", "drain", "repop"}

InWait == {"suspend", "wait", "again"}

Labels == {"out", "wake"} \union InWait \union Popping

Init ==
  /\ RuntimeInit
  /\ waiters = 0 /\ count = 0
  /\ first = <<>> /\ second = <<>>
  /\ left = [f \in Fibers |-> 0] /\ node = [f \in Fibers |-> <<>>]
  /\ pc = [f \in Fibers |-> "out"]

At(w, labels) == running[w] # None /\ pc[running[w]] \in labels

\* The fiber on w goes from one of these labels to another.
Goto(w, from, to) == At(w, from) /\ pc' = [pc EXCEPT ![running[w]] = to]
-----------------------------------------------------------------------------
\* Faulty variants, one plausible slip each; no specification uses them.

\* Done does not look at waiters_ before it takes them over.
DoneUnchecked(w) ==
  /\ count > 0 /\ count' = count - 1
  /\ IF count = 1
       THEN /\ Goto(w, {"out"}, "pop")
            /\ left' = [left EXCEPT ![running[w]] = waiters]
            /\ waiters' = 0
       ELSE At(w, {"out"}) /\ UNCHANGED <<left, waiters, pc>>
  /\ UNCHANGED <<runtime, first, second, node>>

\* Done pops one waiter only.
DoneWakesOne(w) ==
  /\ count > 0 /\ count' = count - 1
  /\ IF count = 1 /\ waiters # 0
       THEN /\ Goto(w, {"out"}, "pop")
            /\ left' = [left EXCEPT ![running[w]] = 1]
            /\ waiters' = 0
       ELSE At(w, {"out"}) /\ UNCHANGED <<left, waiters, pc>>
  /\ UNCHANGED <<runtime, first, second, node>>

\* TryPop leaves the node where it is.
CollectPeeks(w) ==
  /\ first # <<>>
  /\ LET f == running[w]
     IN  /\ Goto(w, {"pop", "repop"}, IF left[f] = 1 THEN "wake" ELSE "pop")
         /\ left' = [left EXCEPT ![f] = @ - 1]
         /\ node' = [node EXCEPT ![f] = Append(@, Head(first))]
  /\ UNCHANGED <<runtime, waiters, count, first, second>>
-----------------------------------------------------------------------------
\* Add, by a fiber or not.
Add(n) ==
  /\ count + n <= MaxCount
  /\ count = 0 => \A f \in Fibers : pc[f] \notin InWait
  /\ count' = count + n
  /\ UNCHANGED <<runtime, waiters, first, second, left, node, pc>>

\* Done, for a task that was added: the last one takes the waiters over.
Done(w) ==
  /\ count > 0 /\ count' = count - 1
  /\ IF count = 1 /\ waiters # 0
       THEN /\ Goto(w, {"out"}, "pop")
            /\ left' = [left EXCEPT ![running[w]] = waiters]
            /\ waiters' = 0
       ELSE At(w, {"out"}) /\ UNCHANGED <<left, waiters, pc>>
  /\ UNCHANGED <<runtime, first, second, node>>

\* TryPop finds a node in first_, at its beginning or after the drain, and Done
\* adds it to its list.
Collect(w) ==
  /\ first # <<>>
  /\ LET f == running[w]
     IN  /\ Goto(w, {"pop", "repop"}, IF left[f] = 1 THEN "wake" ELSE "pop")
         /\ left' = [left EXCEPT ![f] = @ - 1]
         /\ node' = [node EXCEPT ![f] = Append(@, Head(first))]
  /\ first' = Tail(first)
  /\ UNCHANGED <<runtime, waiters, count, second>>

\* TryPop: first_ is empty.
PopEmpty(w) ==
  /\ first = <<>>
  /\ Goto(w, {"pop"}, "drain")
  /\ UNCHANGED <<runtime, waiters, count, first, second, left, node>>

\* TryPop: one round of the loop that moves second_ to first_, and its end.
Drain(w) ==
  /\ second # <<>>
  /\ At(w, {"drain"})
  /\ first' = <<Head(second)>> \o first
  /\ second' = Tail(second)
  /\ UNCHANGED <<runtime, waiters, count, left, node, pc>>

DrainEnds(w) ==
  /\ second = <<>>
  /\ Goto(w, {"drain"}, "repop")
  /\ UNCHANGED <<runtime, waiters, count, first, second, left, node>>

\* TryPop returns nullptr: Done tries again.
Repop(w) ==
  /\ first = <<>>
  /\ Goto(w, {"repop"}, "pop")
  /\ UNCHANGED <<runtime, waiters, count, first, second, left, node>>

\* One round of the loop in Done: next_ is read, then the waiter is scheduled.
WakeNext(w) ==
  /\ At(w, {"wake"})
  /\ LET f == running[w]
     IN  /\ node[f] # <<>>
         /\ Schedule(Head(node[f]))
         /\ node' = [node EXCEPT ![f] = Tail(@)]
         /\ pc' = [pc EXCEPT ![Head(node[f])] = "again"]
  /\ UNCHANGED <<running, after, awaiter, coro, waiters, count, first, second, left>>

DoneReturns(w) ==
  /\ Goto(w, {"wake"}, "out")
  /\ node[running[w]] = <<>>
  /\ UNCHANGED <<runtime, waiters, count, first, second, left, node>>

\* Wait, on entry or woken: return if the count is 0, or be counted.
Wait(w) ==
  /\ IF count = 0
       THEN Goto(w, {"out", "again"}, "out") /\ UNCHANGED waiters
       ELSE Goto(w, {"out", "again"}, "suspend") /\ waiters' = waiters + 1
  /\ UNCHANGED <<runtime, count, first, second, left, node>>

\* Wait: Suspend(&awaiter).
SuspendInWait(w) ==
  /\ Goto(w, {"suspend"}, "wait")
  /\ Suspend(w, "waitgroup")
  /\ UNCHANGED <<waiters, count, first, second, left, node>>

\* WGAwaiter::RunAwaiter: queue_.Push(this).
RunWGAwaiter(w) ==
  /\ RunsAwaiter(w, "waitgroup")
  /\ TakeAwaiter(w)
  /\ second' = <<after[w]>> \o second
  /\ UNCHANGED <<runq, waiters, count, first, left, node, pc>>

\* The rest of the program: a fiber yields or completes, new ones start.
Yield(w) == At(w, {"out"}) /\ Suspend(w, "yield") /\ UNCHANGED group

Finish(w) == At(w, {"out"}) /\ Complete(w) /\ UNCHANGED group

Leave(w) == Yield(w) \/ Finish(w)

Start(f) == Go(f) /\ UNCHANGED group

OnWorker(w) ==
  \/ RunWGAwaiter(w)
  \/ (Resume(w) \/ Reap(w) \/ RunYield(w)) /\ UNCHANGED group

InTryPop(w) == Collect(w) \/ PopEmpty(w) \/ Drain(w) \/ DrainEnds(w) \/ Repop(w)

OnFiber(w) ==
  \/ Done(w) \/ InTryPop(w) \/ WakeNext(w) \/ DoneReturns(w)
  \/ Wait(w) \/ SuspendInWait(w)
  \/ Leave(w)

Next ==
  \/ \E n \in 1 .. MaxCount : Add(n)
  \/ \E f \in Fibers : Start(f)
  \/ \E w \in Workers : OnWorker(w) \/ OnFiber(w)

Spec == Init /\ [][Next]_vars

\* Threads that can run do, and no fiber stays outside its calls, or in calls
\* that return at once, for ever without leaving its worker now and then.
FairSpec ==
  /\ Spec
  /\ \A w \in Workers :
       WF_vars(OnWorker(w)) /\ WF_vars(OnFiber(w)) /\ SF_vars(Leave(w))
-----------------------------------------------------------------------------
TypeOK ==
  /\ RuntimeTypeOK
  /\ awaiter \in [Fibers -> {None, "yield", "waitgroup"}]
  /\ waiters \in Nat /\ count \in 0 .. MaxCount
  /\ first \in Seq(Fibers) /\ second \in Seq(Fibers)
  /\ left \in [Fibers -> Nat] /\ node \in [Fibers -> Seq(Fibers)]
  /\ pc \in [Fibers -> Labels]

\* By the rule, one Done at a time pops: what LockFreeStack2::TryPop relies on.
OnePopper == \A f, g \in Fibers : pc[f] \in Popping /\ pc[g] \in Popping => f = g

\* Each waiter that is counted is counted once: in the word, or by the Done
\* that has taken the count over and will pop as many nodes.
EveryWaiterIsCounted ==
  LET counted == Cardinality({f \in Fibers : pc[f] \in {"suspend", "wait"}}
                               \ UNION {Range(node[f]) : f \in Fibers})
  IN  /\ \A f \in Fibers : pc[f] \in Popping => left[f] = counted
      /\ (\A f \in Fibers : pc[f] \notin Popping) => waiters = counted

\* A round that is over leaves nobody counted for the next one, and whoever it
\* has woken finds the count at 0 and does not wait again.
RoundsAreSeparate ==
  /\ count = 0 => waiters = 0
  /\ \A f \in Fibers : pc[f] = "again" => count = 0

\* When Done finds the queue empty, the node it spins for is pushed by a thread
\* that is at it right now.
SpinWaitsForAThread ==
  \A f \in Fibers :
    pc[f] \in Popping /\ first = <<>> /\ second = <<>> =>
      \E w \in Workers : At(w, {"suspend"}) \/ RunsAwaiter(w, "waitgroup")

\* One Done per round takes over all waiters of the round and only those, and
\* never spins for a fiber that needs its worker.
RoundsInv ==
  /\ TypeOK
  /\ OnePopper /\ EveryWaiterIsCounted /\ RoundsAreSeparate
  /\ SpinWaitsForAThread

\* Once the count is 0 every Wait returns.
EveryWaitReturns ==
  \A f \in Fibers : (count = 0 /\ pc[f] \in InWait) ~> pc[f] = "out"

\* The nodes in the queue and in the list of a Done are parked fibers.
Parking == INSTANCE Fibers WITH
  Awaiters <- {"yield", "waitgroup"},
  parked <- Range(first) \union Range(second) \union UNION {Range(node[f]) : f \in Fibers}

ImplementsFibers == Parking!Spec
=============================================================================
