------------------------------- MODULE Fibers -------------------------------
(***************************************************************************)
(* The suspend and resume protocol of fibers, with the synchronization     *)
(* primitives reduced to what they have in common: the awaiter of a        *)
(* suspended fiber either schedules it at once or parks it where another   *)
(* party will find it, and who finds it schedules it.  The modules of the  *)
(* primitives implement this specification.                                *)
(***************************************************************************)
EXTENDS FiberRuntime, FiniteSets

CONSTANT Awaiters  \* kinds of awaiters; "yield" is YieldAwaiter

ASSUME FibersAssumption ==
  /\ None \notin Fibers \union Awaiters
  /\ "yield" \in Awaiters

VARIABLE parked    \* the fibers some primitive has a handle of

vars == <<runtime, parked>>

Init == RuntimeInit /\ parked = {}
-----------------------------------------------------------------------------
\* Faulty variants, one plausible slip each; no specification uses them.
\* A primitive that refuses the fiber does not schedule it.
DropRefused(w) ==
  /\ \E a \in Awaiters \ {"yield"} : RunsAwaiter(w, a)
  /\ TakeAwaiter(w)
  /\ parked' \in {parked, parked \union {after[w]}}
  /\ UNCHANGED runq

\* The primitive gets the handle before the fiber is off its stack.
SuspendPublished(w) ==
  \/ \E a \in Awaiters : Suspend(w, a) /\ UNCHANGED parked
  \/ /\ running[w] # None
     /\ parked' = parked \union {running[w]}
     /\ UNCHANGED runtime
-----------------------------------------------------------------------------
\* A running fiber calls a primitive that suspends it.
SuspendIn(w) == \E a \in Awaiters : Suspend(w, a) /\ UNCHANGED parked

\* RunAwaiter of a primitive.
RunAwaiter(w) ==
  /\ \E a \in Awaiters \ {"yield"} : RunsAwaiter(w, a)
  /\ TakeAwaiter(w)
  /\ \/ parked' = parked \union {after[w]} /\ UNCHANGED runq
     \/ Schedule(after[w]) /\ UNCHANGED parked

\* A running fiber, or a thread outside the scheduler, finds f and calls
\* handle.Schedule().
Wake(f) ==
  /\ f \in parked
  /\ parked' = parked \ {f}
  /\ Schedule(f)
  /\ UNCHANGED <<running, after, awaiter, coro>>

\* What a worker does on its own stack, and a fiber on its own.
OnWorker(w) ==
  \/ RunAwaiter(w)
  \/ (Resume(w) \/ Reap(w) \/ RunYield(w)) /\ UNCHANGED parked

OnFiber(w) ==
  \/ SuspendIn(w)
  \/ Complete(w) /\ UNCHANGED parked

Start(f) == Go(f) /\ UNCHANGED parked

Next ==
  \/ \E f \in Fibers : Start(f) \/ Wake(f)
  \/ \E w \in Workers : OnWorker(w) \/ OnFiber(w)

Spec == Init /\ [][Next]_vars

\* Threads that can run do, and no fiber keeps its worker for ever.
FairSpec == Spec /\ \A w \in Workers : WF_vars(OnWorker(w)) /\ WF_vars(OnFiber(w))
-----------------------------------------------------------------------------
TypeOK ==
  /\ RuntimeTypeOK /\ awaiter \in [Fibers -> Awaiters \union {None}]
  /\ parked \subseteq Fibers

\* A fiber is never in two places: twice in the queue, on two threads, parked
\* and queued.  Fiber, its stack and its node in the queue all rely on it.
OneActivation ==
  /\ \A i, j \in DOMAIN runq : runq[i] = runq[j] => i = j
  /\ \A v, w \in Workers :
       /\ running[v] = running[w] /\ running[v] # None => v = w
       /\ after[v] = after[w] /\ after[v] # None => v = w
       /\ running[v] = after[w] => running[v] = None
  /\ parked \intersect Range(runq) = {}
  /\ \A w \in Workers : {running[w], after[w]} \intersect (parked \union Range(runq)) = {}

\* Whoever can schedule or resume a fiber finds its registers saved and no
\* awaiter left over: it is off its stack, alive and through with RunAwaiter.
ReachableIsSaved ==
  \A f \in parked \union Range(runq) : coro[f] = "saved" /\ awaiter[f] = None

\* Where a fiber is tells the state of its coroutine and of awaiter_.
PlaceShowsState ==
  /\ \A w \in Workers : running[w] # None =>
       coro[running[w]] = "active" /\ awaiter[running[w]] = None /\ after[w] = None
  /\ \A w \in Workers : after[w] # None =>
       \/ coro[after[w]] = "complete"
       \/ coro[after[w]] = "saved" /\ awaiter[after[w]] \in Awaiters
  /\ ReachableIsSaved
  /\ \A f \in Fibers : coro[f] = "unborn" => awaiter[f] = None

\* A fiber is in one place, in the state that goes with it.
PlacesInv == TypeOK /\ OneActivation /\ PlaceShowsState

\* No fiber is lost: one that has started and not completed is on a worker,
\* in the queue or parked.
NoFiberIsLost ==
  \A f \in Fibers : coro[f] \notin {"unborn", "deleted"} =>
    \/ f \in parked \union Range(runq)
    \/ \E w \in Workers : f \in {running[w], after[w]}

\* A scheduled fiber gets a worker, however often the others yield.
ScheduledRuns ==
  \A f \in Fibers : f \in Range(runq) ~> \E w \in Workers : running[w] = f
=============================================================================
