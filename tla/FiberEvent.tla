----------------------------- MODULE FiberEvent -----------------------------
(***************************************************************************)
(* exe::fibers::Event (exe/fibers/sync/event.hpp), a one-shot event, used  *)
(* by fibers on a scheduler.  Its waiters are a LockFreeStack2             *)
(* (exe/infra/lockfree/lf_stack.hpp) with a head of 1 for "closed".        *)
(* One action is one atomic operation on head_, one Schedule, or one step  *)
(* of the fiber runtime.  Nothing is ever popped, so TryPush takes effect  *)
(* at its successful compare-exchange and a node keeps its next_.          *)
(*                                                                         *)
(* pc[f] says where fiber f is:                                            *)
(*   out      not in a call                                                *)
(*   suspend  in Wait, the event was not closed, before Suspend            *)
(*   wait     suspended in Wait                                            *)
(*   back     let go of: Wait returns as soon as the fiber runs            *)
(*   fire     in Fire, with the awaiters from "current" on in chain[f]     *)
(***************************************************************************)
EXTENDS FiberRuntime

ASSUME EventAssumption == None \notin Fibers \union {"yield", "event"}

VARIABLES closed,    \* head_ is 1, the mark of a fired event
          list,      \* otherwise the awaiters from head_ on, newest first
          chain,     \* chain[f]: what f in Fire has yet to schedule
          pc

event == <<closed, list, chain, pc>>
vars == <<runtime, event>>

Labels == {"out", "suspend", "wait", "back", "fire"}

Init ==
  /\ RuntimeInit
  /\ closed = FALSE /\ list = <<>>
  /\ chain = [f \in Fibers |-> <<>>]
  /\ pc = [f \in Fibers |-> "out"]

\* The fiber on w goes from one label to another.
Goto(w, from, to) ==
  /\ running[w] # None /\ pc[running[w]] = from
  /\ pc' = [pc EXCEPT ![running[w]] = to]
-----------------------------------------------------------------------------
\* Faulty variants, one plausible slip each; no specification uses them.
\* RunAwaiter pushes on a stack that may have been closed (Push, not TryPush).
PushBlindly(w) ==
  /\ RunsAwaiter(w, "event")
  /\ TakeAwaiter(w)
  /\ list' = <<after[w]>> \o list
  /\ UNCHANGED <<runq, closed, chain, pc>>

\* RunAwaiter schedules the fiber when TryPush succeeds.
PushThenSchedule(w) ==
  /\ RunsAwaiter(w, "event")
  /\ TakeAwaiter(w)
  /\ Schedule(after[w])
  /\ list' = IF closed THEN list ELSE <<after[w]>> \o list
  /\ pc' = [pc EXCEPT ![after[w]] = "back"]
  /\ UNCHANGED <<closed, chain>>

\* Fire reads next_ after Schedule, when the waiter may have left Wait.
WakeNextLost(w) ==
  /\ running[w] # None /\ pc[running[w]] = "fire"
  /\ LET f == running[w]
     IN  /\ chain[f] # <<>>
         /\ chain' = [chain EXCEPT ![f] = <<>>]
         /\ pc' = [pc EXCEPT ![Head(chain[f])] = "back"]
         /\ Schedule(Head(chain[f]))
  /\ UNCHANGED <<running, after, awaiter, coro, closed, list>>
-----------------------------------------------------------------------------
\* Wait: stack_.IsInvalidate(), and return if it is.
Wait(w) ==
  /\ Goto(w, "out", IF closed THEN "back" ELSE "suspend")
  /\ UNCHANGED <<runtime, closed, list, chain>>

\* Wait: Suspend(&awaiter).
SuspendInWait(w) ==
  /\ Goto(w, "suspend", "wait")
  /\ Suspend(w, "event")
  /\ UNCHANGED <<closed, list, chain>>

\* EventAwaiter::RunAwaiter: push, or schedule when the event has been fired.
RunEventAwaiter(w) ==
  /\ RunsAwaiter(w, "event")
  /\ TakeAwaiter(w)
  /\ \/ /\ ~closed
        /\ list' = <<after[w]>> \o list
        /\ UNCHANGED <<runq, pc>>
     \/ /\ closed
        /\ Schedule(after[w])
        /\ pc' = [pc EXCEPT ![after[w]] = "back"]
        /\ UNCHANGED list
  /\ UNCHANGED <<closed, chain>>

\* Fire: stack_.GetChainAndInvalidate(), nullptr if it was closed before.
Fire(w) ==
  /\ Goto(w, "out", "fire")
  /\ chain' = [chain EXCEPT ![running[w]] = list]
  /\ list' = <<>> /\ closed' = TRUE
  /\ UNCHANGED runtime

\* One round of the loop in Fire: next_ is read, then the waiter is scheduled.
WakeNext(w) ==
  /\ running[w] # None /\ pc[running[w]] = "fire"
  /\ LET f == running[w]
     IN  /\ chain[f] # <<>>
         /\ chain' = [chain EXCEPT ![f] = Tail(@)]
         /\ pc' = [pc EXCEPT ![Head(chain[f])] = "back"]
         /\ Schedule(Head(chain[f]))
  /\ UNCHANGED <<running, after, awaiter, coro, closed, list>>

FireEnds(w) ==
  /\ Goto(w, "fire", "out")
  /\ chain[running[w]] = <<>>
  /\ UNCHANGED <<runtime, closed, list, chain>>

\* Wait returns.
Return(w) ==
  /\ Goto(w, "back", "out")
  /\ UNCHANGED <<runtime, closed, list, chain>>

\* The rest of the program: a fiber yields or completes, new ones start.
Yield(w) ==
  /\ running[w] # None /\ pc[running[w]] = "out"
  /\ Suspend(w, "yield")
  /\ UNCHANGED event

Finish(w) ==
  /\ running[w] # None /\ pc[running[w]] = "out"
  /\ Complete(w)
  /\ UNCHANGED event

Leave(w) == Yield(w) \/ Finish(w)

Start(f) == Go(f) /\ UNCHANGED event

OnWorker(w) ==
  \/ RunEventAwaiter(w)
  \/ (Resume(w) \/ Reap(w) \/ RunYield(w)) /\ UNCHANGED event

OnFiber(w) ==
  \/ Wait(w) \/ SuspendInWait(w) \/ Return(w)
  \/ Fire(w) \/ WakeNext(w) \/ FireEnds(w)
  \/ Leave(w)

Next ==
  \/ \E f \in Fibers : Start(f)
  \/ \E w \in Workers : OnWorker(w) \/ OnFiber(w)

Spec == Init /\ [][Next]_vars

\* Threads that can run do, and no fiber calls Wait and Fire for ever without
\* leaving its worker to the others now and then.
FairSpec ==
  /\ Spec
  /\ \A w \in Workers :
       WF_vars(OnWorker(w)) /\ WF_vars(OnFiber(w)) /\ SF_vars(Leave(w))
-----------------------------------------------------------------------------
TypeOK ==
  /\ RuntimeTypeOK
  /\ awaiter \in [Fibers -> {None, "yield", "event"}]
  /\ closed \in BOOLEAN
  /\ list \in Seq(Fibers) /\ chain \in [Fibers -> Seq(Fibers)]
  /\ pc \in [Fibers -> Labels]

\* No Wait returns, and no waiter is let go of, before Fire.
NoEarlyReturn == (\E f \in Fibers : pc[f] = "back") => closed

\* Fire misses nobody: once the event is closed, a fiber still suspended in
\* Wait is in the chain of a fiber in Fire, or its awaiter has yet to run and
\* will find the event closed.
NoWaiterMissesTheFire ==
  closed =>
    \A f \in Fibers : pc[f] = "wait" =>
      \/ \E g \in Fibers : pc[g] = "fire" /\ f \in Range(chain[g])
      \/ \E w \in Workers : after[w] = f

\* The types, and an event that holds its waiters back until Fire and then
\* leaves none behind.
EventInv == TypeOK /\ NoEarlyReturn /\ NoWaiterMissesTheFire

\* Event schedules each fiber it was given a handle of, once: the awaiters in
\* the stack and in the chains are parked fibers.
Parking == INSTANCE Fibers WITH
  Awaiters <- {"yield", "event"},
  parked <- Range(list) \union UNION {Range(chain[f]) : f \in Fibers}

ImplementsFibers == Parking!Spec

\* Once the event is fired every Wait returns, also one that has only looked.
EveryWaiterReturns ==
  \A f \in Fibers : (closed /\ pc[f] \in {"suspend", "wait"}) ~> pc[f] = "out"
=============================================================================
