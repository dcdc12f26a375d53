---------------------------- MODULE FiberRuntime ----------------------------
(***************************************************************************)
(* Fibers on a scheduler: exe/fibers/core (Fiber, Coroutine, FiberHandle)  *)
(* and exe/fibers/sched (Go, Suspend, Yield).  This module has the state   *)
(* and the effect of each runtime operation; Fibers and the modules of the *)
(* synchronization primitives say when they happen.                        *)
(*                                                                         *)
(* The scheduler is its queue: a ThreadPool (one worker per thread, see    *)
(* ThreadPool) or a RunLoop (one worker).  A worker alternates between its *)
(* own stack, where it takes fibers off the queue and runs what follows    *)
(* Switch in Fiber::Run, and the stack of the fiber it has switched to.    *)
(***************************************************************************)
EXTENDS Sequences, Naturals, Functions

CONSTANTS Fibers, Workers,
          None     \* no fiber, no awaiter: nullptr

VARIABLES runq,    \* the scheduler's queue, oldest first
          running, \* running[w]: the fiber on whose stack w executes; it is
                   \* also running_fiber of that thread
          after,   \* after[w]: the fiber whose Run w is in, behind Switch()
          awaiter, \* awaiter[f]: awaiter_, by the kind of the object
          coro     \* coro[f]: the fiber's coroutine

runtime == <<runq, running, after, awaiter, coro>>

\* unborn: no Fiber object yet; saved: the registers are in task_context_;
\* active: some thread is on the fiber's stack; complete: complete_ is set;
\* deleted: the Fiber object and its stack are gone.
CoroStates == {"unborn", "saved", "active", "complete", "deleted"}

RuntimeInit ==
  /\ runq = <<>>
  /\ running = [w \in Workers |-> None] /\ after = [w \in Workers |-> None]
  /\ awaiter = [f \in Fibers |-> None] /\ coro = [f \in Fibers |-> "unborn"]
-----------------------------------------------------------------------------
\* Faulty variants, one plausible slip each; no specification uses them.
\* The scheduler serves the latest fiber first.
ScheduleFirst(f) == runq' = <<f>> \o runq
-----------------------------------------------------------------------------
\* Fiber::Schedule, FiberHandle::Schedule: Submit to the fiber's scheduler.
Schedule(f) == runq' = Append(runq, f)

\* Go: new Fiber and Submit.  The coroutine is set up to start in Run.
Go(f) ==
  /\ coro[f] = "unborn"
  /\ coro' = [coro EXCEPT ![f] = "saved"]
  /\ Schedule(f)
  /\ UNCHANGED <<running, after, awaiter>>

\* A worker with nothing to do takes a fiber and runs it: Fiber::Run, Switch,
\* Coroutine::Resume, up to the switch of stacks.
Resume(w) ==
  /\ running[w] = None /\ after[w] = None /\ runq # <<>>
  /\ running' = [running EXCEPT ![w] = Head(runq)]
  /\ coro' = [coro EXCEPT ![Head(runq)] = "active"]
  /\ runq' = Tail(runq)
  /\ UNCHANGED <<after, awaiter>>

\* Fiber::Suspend: store the awaiter, switch back to the worker's stack.
Suspend(w, a) ==
  /\ running[w] # None
  /\ awaiter' = [awaiter EXCEPT ![running[w]] = a]
  /\ coro' = [coro EXCEPT ![running[w]] = "saved"]
  /\ after' = [after EXCEPT ![w] = running[w]]
  /\ running' = [running EXCEPT ![w] = None]
  /\ UNCHANGED runq

\* The body returns: Coroutine::Run sets complete_ and leaves for good.
Complete(w) ==
  /\ running[w] # None
  /\ coro' = [coro EXCEPT ![running[w]] = "complete"]
  /\ after' = [after EXCEPT ![w] = running[w]]
  /\ running' = [running EXCEPT ![w] = None]
  /\ UNCHANGED <<runq, awaiter>>

\* Fiber::Run behind Switch(): a completed fiber is deleted.
Reap(w) ==
  /\ after[w] # None /\ coro[after[w]] = "complete"
  /\ coro' = [coro EXCEPT ![after[w]] = "deleted"]
  /\ after' = [after EXCEPT ![w] = None]
  /\ UNCHANGED <<runq, running, awaiter>>

\* Otherwise its awaiter is run: RunsAwaiter says that w is there with an
\* awaiter of kind a, TakeAwaiter that awaiter_ is exchanged for nullptr and
\* w is through with the fiber.  What RunAwaiter does comes in between; it
\* makes the fiber visible to other threads in its last step, if at all.
RunsAwaiter(w, a) ==
  after[w] # None /\ coro[after[w]] # "complete" /\ awaiter[after[w]] = a

TakeAwaiter(w) ==
  /\ awaiter' = [awaiter EXCEPT ![after[w]] = None]
  /\ after' = [after EXCEPT ![w] = None]
  /\ UNCHANGED <<running, coro>>

\* YieldAwaiter::RunAwaiter.
RunYield(w) == RunsAwaiter(w, "yield") /\ TakeAwaiter(w) /\ Schedule(after[w])
-----------------------------------------------------------------------------
RuntimeTypeOK ==
  /\ runq \in Seq(Fibers)
  /\ running \in [Workers -> Fibers \union {None}]
  /\ after \in [Workers -> Fibers \union {None}]
  /\ coro \in [Fibers -> CoroStates]
=============================================================================
