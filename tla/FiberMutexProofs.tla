-------------------------- MODULE FiberMutexProofs --------------------------
(***************************************************************************)
(* Proofs about FiberMutex for any set of fibers and any set of workers.   *)
(*                                                                         *)
(* The argument: the fiber that owns the mutex and the fiber in Unlock     *)
(* hold the same baton.  There is one baton while working_ is not 0 and    *)
(* none while it is 0; Lock and TryLock create it when they find 0, Grant  *)
(* passes it on, and Unlock destroys it only when it leaves a 0.  Which    *)
(* fibers the queue holds does not matter for that, only that they are     *)
(* fibers, which is part of the type invariant.  The order they are in is  *)
(* the last part: second_ holds the later ones first, first_ the earlier   *)
(* ones first, and those in first_ came before those in second_, but for   *)
(* what is pushed between two rounds of the loop of TryPop.                *)
(***************************************************************************)
EXTENDS FiberMutexOrder, FiberRuntimeProofs, FiniteSetTheorems

HasBaton(f) == pc[f] \in Popping \union {"cs"}

OneBaton == \A f, g \in Fibers : HasBaton(f) /\ HasBaton(g) => f = g

Baton == OneBaton /\ SomebodyHasTheBaton

\* What a step that is not one of the runtime alone does to the types.
LEMMA CallType ==
  ASSUME TypeOK, NEW w \in Workers, UNCHANGED runtime,
         Lock(w) \/ TryLock(w) \/ PopEmpty(w) \/ Drain(w) \/ DrainEnds(w) \/ Repop(w)
  PROVE  TypeOK'
<1> USE DEF TypeOK, Goto, Labels
<1>1. RuntimeTypeOK' /\ awaiter' = awaiter
  BY DEF runtime, RuntimeTypeOK
<1>2. running[w] # None => running[w] \in Fibers
  BY DEF RuntimeTypeOK
<1>3. CASE Lock(w)
  BY <1>1, <1>2, <1>3 DEF Lock
<1>4. CASE TryLock(w)
  BY <1>1, <1>2, <1>4 DEF TryLock
<1>5. CASE PopEmpty(w) \/ DrainEnds(w) \/ Repop(w)
  BY <1>1, <1>2, <1>5 DEF PopEmpty, DrainEnds, Repop
<1>6. CASE Drain(w)
  <2>1. Head(second) \in Fibers /\ Tail(second) \in Seq(Fibers)
    BY <1>6 DEF Drain
  <2>2. first' \in Seq(Fibers) /\ second' \in Seq(Fibers)
    BY <1>6, <2>1 DEF Drain
  <2> QED
    BY <1>1, <1>2, <1>6, <2>2 DEF Drain
<1> QED
  BY <1>3, <1>4, <1>5, <1>6

\* A fiber unlocks only while working_ counts it.
LEMMA UnlockType ==
  ASSUME TypeOK, SomebodyHasTheBaton, NEW w \in Workers, Unlock(w)
  PROVE  TypeOK'
<1>1. running[w] \in Fibers /\ pc[running[w]] = "cs"
  BY DEF TypeOK, RuntimeTypeOK, Unlock, Goto
<1>2. working - 1 \in Nat
  BY <1>1 DEF TypeOK, SomebodyHasTheBaton
<1> QED
  BY <1>1, <1>2 DEF TypeOK, RuntimeTypeOK, Unlock, Goto, Labels, runtime

LEMMA GrantType ==
  ASSUME TypeOK, NEW w \in Workers, Grant(w)
  PROVE  TypeOK'
<1>1. Head(first) \in Fibers /\ Tail(first) \in Seq(Fibers) /\ running[w] \in Fibers
  BY DEF TypeOK, RuntimeTypeOK, Grant
<1>2. runq' \in Seq(Fibers)
  BY <1>1, ScheduleType DEF TypeOK, Grant
<1> QED
  BY <1>1, <1>2 DEF TypeOK, RuntimeTypeOK, Grant, Labels

\* The steps that suspend a fiber or run an awaiter.
LEMMA SuspendInLockType ==
  ASSUME TypeOK, NEW w \in Workers, SuspendInLock(w)
  PROVE  TypeOK'
<1>1. RuntimeTypeOK'
  BY SuspendType DEF TypeOK, SuspendInLock
<1> QED
  BY <1>1 DEF TypeOK, RuntimeTypeOK, SuspendInLock, Suspend, Goto, Labels

LEMMA RunMutexAwaiterType ==
  ASSUME TypeOK, NEW w \in Workers, RunMutexAwaiter(w)
  PROVE  TypeOK'
<1>1. after[w] \in Fibers
  BY DEF TypeOK, RuntimeTypeOK, RunMutexAwaiter, RunsAwaiter
<1>2. RuntimeTypeOK'
  BY TakeAwaiterType DEF TypeOK, RuntimeTypeOK, RunMutexAwaiter
<1>3. second' \in Seq(Fibers)
  BY <1>1 DEF TypeOK, RunMutexAwaiter
<1> QED
  BY <1>1, <1>2, <1>3 DEF TypeOK, RunMutexAwaiter, TakeAwaiter

LEMMA RuntimeStepType ==
  ASSUME TypeOK, UNCHANGED mutex,
         \/ \E f \in Fibers : Go(f)
         \/ \E w \in Workers : \/ Resume(w) \/ Reap(w) \/ RunYield(w)
                               \/ Suspend(w, "yield") \/ Complete(w)
  PROVE  TypeOK'
<1>1. RuntimeTypeOK'
  BY GoType, ResumeType, ReapType, RunYieldType, SuspendType, CompleteType DEF TypeOK
<1>2. awaiter' \in [Fibers -> {None, "yield", "mutex"}]
  BY DEF TypeOK, RuntimeTypeOK, Go, Resume, Reap, RunYield, RunsAwaiter, TakeAwaiter,
         Suspend, Complete
<1> QED
  BY <1>1, <1>2 DEF TypeOK, mutex
-----------------------------------------------------------------------------
\* A step that leaves working_ and everybody's pc alone keeps the baton.
LEMMA BatonRests ==
  ASSUME Baton, working' = working, pc' = pc
  PROVE  Baton'
  BY DEF Baton, OneBaton, HasBaton, SomebodyHasTheBaton

\* So does one that moves a fiber between two labels with the baton or two
\* labels without.
LEMMA BatonStays ==
  ASSUME TypeOK, Baton, working' = working,
         \A f \in Fibers : HasBaton(f)' <=> HasBaton(f)
  PROVE  Baton'
  BY DEF Baton, OneBaton, HasBaton, SomebodyHasTheBaton

LEMMA BatonStep ==
  ASSUME TypeOK, Baton, TypeOK', NEW w \in Workers, OnFiber(w)
  PROVE  Baton'
<1> DEFINE f == running[w]
<1> USE DEF Popping, HasBaton
<1>0. f # None => f \in Fibers
  BY DEF TypeOK, RuntimeTypeOK
<1>1. CASE Lock(w)
  <2>1. f \in Fibers /\ pc[f] = "out" /\ working' = working + 1
    BY <1>0, <1>1 DEF Lock, Goto
  <2>2. CASE working = 0
    <3>1. \A g \in Fibers : ~HasBaton(g)
      BY <2>2 DEF Baton, SomebodyHasTheBaton
    <3>2. pc' = [pc EXCEPT ![f] = "cs"]
      BY <1>1, <2>2 DEF Lock, Goto
    <3>3. \A g \in Fibers : HasBaton(g)' <=> g = f
      BY <2>1, <3>1, <3>2 DEF TypeOK
    <3> QED
      BY <2>1, <2>2, <3>3 DEF Baton, OneBaton, SomebodyHasTheBaton
  <2>3. CASE working # 0
    <3>1. pc' = [pc EXCEPT ![f] = "suspend"]
      BY <1>1, <2>3 DEF Lock, Goto
    <3>2. \A g \in Fibers : HasBaton(g)' <=> HasBaton(g)
      BY <2>1, <3>1 DEF TypeOK
    <3>3. working > 0 /\ working' > 0
      BY <2>1, <2>3 DEF TypeOK
    <3> QED
      BY <3>2, <3>3 DEF Baton, OneBaton, SomebodyHasTheBaton
  <2> QED
    BY <2>2, <2>3
<1>2. CASE TryLock(w)
  <2>1. f \in Fibers /\ pc' = [pc EXCEPT ![f] = "cs"] /\ working = 0 /\ working' = 1
    BY <1>0, <1>2 DEF TryLock, Goto
  <2>2. \A g \in Fibers : ~HasBaton(g)
    BY <2>1 DEF Baton, SomebodyHasTheBaton
  <2>3. \A g \in Fibers : HasBaton(g)' <=> g = f
    BY <2>1, <2>2 DEF TypeOK
  <2> QED
    BY <2>1, <2>3 DEF Baton, OneBaton, SomebodyHasTheBaton
<1>3. CASE SuspendInLock(w)
  <2>1. \A g \in Fibers : HasBaton(g)' <=> HasBaton(g)
    BY <1>0, <1>3 DEF SuspendInLock, Goto, TypeOK
  <2> QED
    BY <1>3, <2>1, BatonStays DEF SuspendInLock
<1>4. CASE Unlock(w)
  <2>1. f \in Fibers /\ HasBaton(f) /\ working' = working - 1
    BY <1>0, <1>4 DEF Unlock, Goto
  <2>2. \A g \in Fibers : HasBaton(g) <=> g = f
    BY <2>1 DEF Baton, OneBaton
  <2>3. CASE working = 1
    <3>1. \A g \in Fibers : ~HasBaton(g)'
      BY <1>4, <2>1, <2>2, <2>3 DEF Unlock, Goto, TypeOK
    <3> QED
      BY <2>1, <2>3, <3>1 DEF Baton, OneBaton, SomebodyHasTheBaton
  <2>4. CASE working # 1
    <3>1. \A g \in Fibers : HasBaton(g)' <=> g = f
      BY <1>4, <2>1, <2>2, <2>4 DEF Unlock, Goto, TypeOK
    <3>2. working' > 0
      BY <2>1, <2>4 DEF TypeOK, Baton, SomebodyHasTheBaton
    <3> QED
      BY <2>1, <3>1, <3>2 DEF Baton, OneBaton, SomebodyHasTheBaton
  <2> QED
    BY <2>3, <2>4
<1>5. CASE Grant(w)
  <2>1. f \in Fibers /\ HasBaton(f) /\ working' = working
    BY <1>0, <1>5 DEF Grant
  <2>2. \A g \in Fibers : HasBaton(g) <=> g = f
    BY <2>1 DEF Baton, OneBaton
  <2>3. Head(first) \in Fibers
    BY <1>5 DEF Grant, TypeOK
  <2>4. \A g \in Fibers : HasBaton(g)' <=> g = Head(first)
    BY <1>5, <2>1, <2>2, <2>3 DEF Grant, TypeOK
  <2>5. working > 0
    BY <2>1 DEF Baton, SomebodyHasTheBaton
  <2> QED
    BY <2>1, <2>3, <2>4, <2>5 DEF Baton, OneBaton, SomebodyHasTheBaton
<1>6. CASE PopEmpty(w) \/ Drain(w) \/ DrainEnds(w) \/ Repop(w)
  <2>1. \A g \in Fibers : HasBaton(g)' <=> HasBaton(g)
    BY <1>0, <1>6 DEF PopEmpty, Drain, DrainEnds, Repop, Goto, TypeOK
  <2>2. working' = working
    BY <1>6 DEF PopEmpty, Drain, DrainEnds, Repop
  <2> QED
    BY <2>1, <2>2, BatonStays
<1>7. CASE Yield(w) \/ Finish(w)
  BY <1>7, BatonRests DEF Yield, Finish, mutex
<1> QED
  BY <1>1, <1>2, <1>3, <1>4, <1>5, <1>6, <1>7 DEF OnFiber, InUnlock
-----------------------------------------------------------------------------
LEMMA MutexInvariant == Spec => [](TypeOK /\ Baton)
<1>1. Init => TypeOK /\ Baton
  <2> SUFFICES ASSUME Init PROVE TypeOK /\ Baton
    OBVIOUS
  <2>1. TypeOK
    BY DEF Init, RuntimeInit, TypeOK, RuntimeTypeOK, CoroStates, Labels
  <2>2. Baton
    BY DEF Init, Baton, OneBaton, HasBaton, SomebodyHasTheBaton, Popping
  <2> QED
    BY <2>1, <2>2
<1>2. TypeOK /\ Baton /\ [Next]_vars => TypeOK' /\ Baton'
  <2> SUFFICES ASSUME TypeOK, Baton, [Next]_vars PROVE TypeOK' /\ Baton'
    OBVIOUS
  <2>1. ASSUME NEW f \in Fibers, Start(f) PROVE TypeOK' /\ Baton'
    BY <2>1, RuntimeStepType, BatonRests DEF Start, mutex
  <2>2. ASSUME NEW w \in Workers, OnWorker(w) PROVE TypeOK' /\ Baton'
    <3>1. CASE RunMutexAwaiter(w)
      BY <3>1, RunMutexAwaiterType, BatonRests DEF RunMutexAwaiter
    <3>2. CASE (Resume(w) \/ Reap(w) \/ RunYield(w)) /\ UNCHANGED mutex
      BY <3>2, RuntimeStepType, BatonRests DEF mutex
    <3> QED
      BY <2>2, <3>1, <3>2 DEF OnWorker
  <2>3. ASSUME NEW w \in Workers, OnFiber(w) PROVE TypeOK' /\ Baton'
    <3>1. TypeOK'
      <4>1. CASE Lock(w) \/ TryLock(w) \/ PopEmpty(w) \/ Drain(w) \/ DrainEnds(w) \/ Repop(w)
        BY <4>1, CallType DEF Lock, TryLock, PopEmpty, Drain, DrainEnds, Repop
      <4>2. CASE SuspendInLock(w)
        BY <4>2, SuspendInLockType
      <4>3. CASE Unlock(w)
        BY <4>3, UnlockType DEF Baton
      <4>4. CASE Grant(w)
        BY <4>4, GrantType
      <4>5. CASE Yield(w) \/ Finish(w)
        BY <4>5, RuntimeStepType DEF Yield, Finish
      <4> QED
        BY <2>3, <4>1, <4>2, <4>3, <4>4, <4>5 DEF OnFiber, InUnlock
    <3> QED
      BY <2>3, <3>1, BatonStep
  <2>4. CASE UNCHANGED vars
    <3>1. TypeOK'
      BY <2>4 DEF vars, runtime, mutex, TypeOK, RuntimeTypeOK
    <3> QED
      BY <2>4, <3>1, BatonRests DEF vars, mutex
  <2> QED
    BY <2>1, <2>2, <2>3, <2>4 DEF Next
<1> QED
  BY <1>1, <1>2, PTL DEF Spec

\* Every state of FiberMutex has its type; in particular working_ never wraps
\* below 0.
THEOREM TypeCorrect == Spec => []TypeOK
  BY MutexInvariant, PTL

\* fibers::Mutex never has two owners, on whatever workers they run.
THEOREM MutexExcludes == Spec => []MutualExclusion
<1>1. Baton => MutualExclusion
  BY DEF Baton, OneBaton, HasBaton, MutualExclusion
<1> QED
  BY <1>1, MutexInvariant, PTL

\* At most one fiber is in Unlock, so the stacks of the waiter queue have a
\* single popper.
THEOREM SinglePopper == Spec => []OneUnlocker
<1>1. Baton => OneUnlocker
  BY DEF Baton, OneBaton, HasBaton, OneUnlocker
<1> QED
  BY <1>1, MutexInvariant, PTL

\* The mutex is never locked with nobody to unlock it or to hand it over.
THEOREM BatonIsHeld == Spec => []SomebodyHasTheBaton
<1>1. Baton => SomebodyHasTheBaton
  BY DEF Baton
<1> QED
  BY <1>1, MutexInvariant, PTL

\* Exclusion, the single popper and the exact baton together.
THEOREM BatonHolds == Spec => []BatonInv
  BY MutexExcludes, SinglePopper, BatonIsHeld, TypeCorrect, PTL DEF BatonInv
-----------------------------------------------------------------------------
\* The owner as Ownership sees it: when there is one, and when a step changes it.
LEMMA OwnerIsInside ==
  /\ MutualExclusion => \A f \in Fibers : pc[f] = "cs" => Owner = f
  /\ MutualExclusion' => \A f \in Fibers : pc'[f] = "cs" => Owner' = f
  /\ (\A f \in Fibers : pc[f] # "cs") => Owner = None
  /\ (\A f \in Fibers : pc'[f] # "cs") => Owner' = None
  BY DEF MutualExclusion, Owner

LEMMA OwnerStays ==
  ASSUME MutualExclusion, MutualExclusion',
         \A f \in Fibers : pc'[f] = "cs" <=> pc[f] = "cs"
  PROVE  Owner' = Owner
<1>1. CASE \A f \in Fibers : pc[f] # "cs"
  BY <1>1, OwnerIsInside
<1>2. ASSUME NEW f \in Fibers, pc[f] = "cs" PROVE Owner' = Owner
  BY <1>2, OwnerIsInside
<1> QED
  BY <1>1, <1>2

\* fibers::Mutex implements Ownership: a step grants the free mutex to one fiber,
\* be it the caller or the waiter it is handed over to, or gives it up.
THEOREM MutexImplementsOwnership == Spec => ImplementsOwnership
<1>1. Init => Owner = None
  BY DEF Init, Owner
<1>2. BatonInv /\ BatonInv' /\ [Next]_vars => [Promise!Granted \/ Promise!GivenUp]_Owner
  <2> SUFFICES ASSUME BatonInv, BatonInv', [Next]_vars
               PROVE  Promise!Granted \/ Promise!GivenUp \/ Owner' = Owner
    OBVIOUS
  <2>0. /\ MutualExclusion /\ MutualExclusion' /\ pc \in [Fibers -> Labels]
        /\ \A w \in Workers : running[w] # None => running[w] \in Fibers
    BY DEF BatonInv, TypeOK, RuntimeTypeOK
  <2>1. ASSUME NEW w \in Workers, Lock(w) \/ TryLock(w), working = 0
        PROVE  Promise!Granted
    <3>1. running[w] \in Fibers /\ pc'[running[w]] = "cs"
      BY <2>0, <2>1 DEF Lock, TryLock, Goto
    <3>2. Owner = None /\ Owner' = running[w]
      BY <2>0, <2>1, <3>1, OwnerIsInside DEF BatonInv, SomebodyHasTheBaton
    <3> QED
      BY <3>1, <3>2 DEF Promise!Granted
  <2>2. ASSUME NEW w \in Workers, Lock(w), working # 0 PROVE Owner' = Owner
    BY <2>0, <2>2, OwnerStays DEF Lock, Goto
  <2>3. ASSUME NEW w \in Workers, Unlock(w) PROVE Promise!GivenUp
    <3>1. running[w] \in Fibers /\ Owner = running[w]
      BY <2>0, <2>3, OwnerIsInside DEF Unlock, Goto
    <3>2. \A f \in Fibers : pc'[f] # "cs"
      BY <2>0, <2>3 DEF Unlock, Goto, MutualExclusion
    <3> QED
      BY <3>1, <3>2, OwnerIsInside DEF Promise!GivenUp
  <2>4. ASSUME NEW w \in Workers, Grant(w) PROVE Promise!Granted
    <3>1. running[w] \in Fibers /\ Head(first) \in Fibers
      BY <2>0, <2>4 DEF Grant, BatonInv, TypeOK
    <3>2. \A f \in Fibers : pc[f] # "cs"
      BY <2>4, <3>1 DEF Grant, BatonInv, OneUnlocker, Popping
    <3>3. pc'[Head(first)] = "cs"
      BY <2>0, <2>4, <3>1 DEF Grant
    <3> QED
      BY <2>0, <3>1, <3>2, <3>3, OwnerIsInside DEF Promise!Granted
  <2>5. ASSUME NEW w \in Workers,
               SuspendInLock(w) \/ PopEmpty(w) \/ Drain(w) \/ DrainEnds(w) \/ Repop(w)
        PROVE  Owner' = Owner
    BY <2>0, <2>5, OwnerStays DEF SuspendInLock, PopEmpty, Drain, DrainEnds, Repop, Goto
  <2>6. ASSUME UNCHANGED pc PROVE Owner' = Owner
    BY <2>6 DEF Owner
  <2>7. ASSUME NEW w \in Workers, OnWorker(w) \/ Yield(w) \/ Finish(w) PROVE UNCHANGED pc
    BY <2>7 DEF OnWorker, RunMutexAwaiter, Yield, Finish, mutex
  <2>8. ASSUME NEW w \in Workers, OnFiber(w) PROVE Promise!Granted \/ Promise!GivenUp \/ Owner' = Owner
    BY <2>1, <2>2, <2>3, <2>4, <2>5, <2>6, <2>7, <2>8 DEF OnFiber, InUnlock, TryLock
  <2> QED
    BY <2>6, <2>7, <2>8 DEF Next, Start, vars, mutex
<1> QED
  BY <1>1, <1>2, BatonHolds, PTL DEF Spec, ImplementsOwnership, Promise!Contract
-----------------------------------------------------------------------------
\* The fibers in the waiter queue, each there once.
Queued == Range(first) \union Range(second)

QueuedOnce ==
  NoDuplicates(first) /\ NoDuplicates(second) /\ Range(first) \intersect Range(second) = {}

MutexAwaiters == {"yield", "mutex"}

MutexInPlace == QueuedOnce /\ InPlace(Queued, MutexAwaiters)

\* What one step of FiberMutex is for the fibers and the queue.
QueueStep == QueuedOnce' /\ ProtocolStep(Queued, Queued', MutexAwaiters)

LEMMA QueueRests ==
  ASSUME QueuedOnce, UNCHANGED <<first, second>>
  PROVE  QueuedOnce' /\ Queued' = Queued
  BY DEF QueuedOnce, Queued

LEMMA AwaiterQueues ==
  ASSUME TypeOK, MutexInPlace, NEW w \in Workers, RunMutexAwaiter(w)
  PROVE  /\ QueueStep /\ Queued' = Queued \union {after[w]}
         /\ after[w] \in Fibers /\ after[w] \notin Queued
<1>1. RunsAwaiter(w, "mutex") /\ TakeAwaiter(w) /\ UNCHANGED runq
  BY DEF RunMutexAwaiter
<1>2. after[w] \in Fibers /\ after[w] \notin Queued
  BY <1>1, MutexAssumption
     DEF RunsAwaiter, TypeOK, RuntimeTypeOK, MutexInPlace, InPlace, Shows, Reachable
<1>3. /\ second \in Seq(Fibers) /\ second' = <<after[w]>> \o second /\ first' = first
  BY DEF RunMutexAwaiter, TypeOK
<1>4. /\ Range(second') = Range(second) \union {after[w]}
      /\ NoDuplicates(second) /\ after[w] \notin Range(second) => NoDuplicates(second')
  BY <1>2, <1>3, PrependRange
<1>5. QueuedOnce' /\ Queued' = Queued \union {after[w]}
  BY <1>2, <1>3, <1>4 DEF MutexInPlace, QueuedOnce, Queued
<1> QED
  BY <1>1, <1>2, <1>5 DEF QueueStep, ProtocolStep, MutexAwaiters

LEMMA DrainTurnsOver ==
  ASSUME TypeOK, MutexInPlace, NEW w \in Workers, Drain(w)
  PROVE  QueueStep /\ Queued' = Queued
<1>1. /\ second \in Seq(Fibers) /\ second # <<>> /\ first \in Seq(Fibers)
      /\ first' = <<Head(second)>> \o first /\ second' = Tail(second)
  BY DEF Drain, TypeOK
<1>2. NoDuplicates(second) /\ NoDuplicates(first) /\ Range(first) \intersect Range(second) = {}
  BY DEF MutexInPlace, QueuedOnce
<1>3. /\ Head(second) \in Range(second) /\ Range(second') = Range(second) \ {Head(second)}
      /\ NoDuplicates(second')
  BY <1>1, <1>2, TailRange
<1>4. /\ Head(second) \in Fibers
  BY <1>1
<1>5. /\ Range(first') = Range(first) \union {Head(second)}
      /\ Head(second) \notin Range(first) => NoDuplicates(first')
  BY <1>1, <1>2, <1>4, PrependRange
<1>6. QueuedOnce' /\ Queued' = Queued
  BY <1>2, <1>3, <1>5 DEF QueuedOnce, Queued
<1> QED
  BY <1>6 DEF Drain, QueueStep, ProtocolStep

LEMMA GrantDequeues ==
  ASSUME TypeOK, MutexInPlace, NEW w \in Workers, Grant(w)
  PROVE  QueueStep /\ Head(first) \in Queued /\ Queued' = Queued \ {Head(first)}
<1>1. /\ first \in Seq(Fibers) /\ first # <<>> /\ first' = Tail(first) /\ second' = second
  BY DEF Grant, TypeOK
<1>2. /\ Head(first) \in Range(first) /\ Range(first') = Range(first) \ {Head(first)}
      /\ NoDuplicates(first')
  BY <1>1, TailRange DEF MutexInPlace, QueuedOnce
<1>3. QueuedOnce' /\ Queued' = Queued \ {Head(first)} /\ Head(first) \in Queued
  BY <1>1, <1>2 DEF MutexInPlace, QueuedOnce, Queued
<1> QED
  BY <1>3 DEF Grant, QueueStep, ProtocolStep

LEMMA StepsOfTheQueue ==
  ASSUME TypeOK, MutexInPlace, [Next]_vars
  PROVE  QueueStep
<1> USE QueueRests DEF QueueStep, ProtocolStep, MutexInPlace, mutex
<1>1. ASSUME NEW f \in Fibers, Start(f) PROVE QueueStep
  BY <1>1 DEF Start
<1>2. ASSUME NEW w \in Workers, OnWorker(w) PROVE QueueStep
  <2>1. CASE RunMutexAwaiter(w)
    BY <2>1, AwaiterQueues
  <2>2. CASE (Resume(w) \/ Reap(w) \/ RunYield(w)) /\ UNCHANGED mutex
    BY <2>2
  <2> QED
    BY <1>2, <2>1, <2>2 DEF OnWorker
<1>3. ASSUME NEW w \in Workers, OnFiber(w) PROVE QueueStep
  <2>1. CASE Lock(w) \/ TryLock(w) \/ Unlock(w) \/ PopEmpty(w) \/ DrainEnds(w) \/ Repop(w)
    BY <2>1 DEF Lock, TryLock, Unlock, PopEmpty, DrainEnds, Repop
  <2>2. CASE SuspendInLock(w) \/ Yield(w) \/ Finish(w)
    BY <2>2 DEF SuspendInLock, Yield, Finish, MutexAwaiters
  <2> QED
    BY <1>3, <2>1, <2>2, DrainTurnsOver, GrantDequeues DEF OnFiber, InUnlock
<1>4. CASE UNCHANGED vars
  BY <1>4 DEF vars
<1> QED
  BY <1>1, <1>2, <1>3, <1>4 DEF Next

LEMMA PlacesOfMutex == Spec => []MutexInPlace
<1>1. Init => MutexInPlace
  <2> SUFFICES ASSUME Init PROVE MutexInPlace
    OBVIOUS
  <2>1. Range(first) = {} /\ Range(second) = {}
    BY DEF Init, Range
  <2>2. QueuedOnce /\ Queued = {}
    BY <2>1 DEF Init, QueuedOnce, Queued, NoDuplicates
  <2> QED
    BY <2>2, InPlaceInit, MutexAssumption DEF Init, MutexInPlace, Kinds, MutexAwaiters
<1>2. TypeOK /\ MutexInPlace /\ [Next]_vars => MutexInPlace'
  <2> SUFFICES ASSUME TypeOK, MutexInPlace, [Next]_vars PROVE MutexInPlace'
    OBVIOUS
  <2>1. InPlace(Queued, MutexAwaiters)'
    BY StepsOfTheQueue, InPlaceStep, MutexAssumption
       DEF QueueStep, MutexInPlace, Kinds, MutexAwaiters
  <2> QED
    BY <2>1, StepsOfTheQueue DEF QueueStep, MutexInPlace
<1> QED
  BY <1>1, <1>2, TypeCorrect, PTL DEF Spec

\* The steps of Fibers under the mapping are those of ProtocolStep.
LEMMA ProtocolStepIsAllowed ==
  ASSUME TypeOK, ProtocolStep(Queued, Queued', MutexAwaiters)
  PROVE  [Parking!Next]_(Parking!vars)
<1> USE DEF Queued, MutexAwaiters
<1> DEFINE parking == Range(first) \union Range(second)
<1>1. CASE parking' = parking /\ UNCHANGED runtime
  BY <1>1 DEF Parking!vars, Parking!runtime, runtime
<1>2. ASSUME NEW f \in Fibers, parking' = parking, Go(f) PROVE Parking!Next
  BY <1>2 DEF Go, Schedule, Parking!Next, Parking!Start, Parking!Go, Parking!Schedule
<1>3. ASSUME NEW w \in Workers, parking' = parking,
             \/ Resume(w) \/ Reap(w) \/ RunYield(w) \/ Complete(w)
             \/ \E a \in MutexAwaiters : Suspend(w, a)
      PROVE  Parking!Next
  <2>1. CASE Resume(w) \/ Reap(w) \/ RunYield(w)
    BY <1>3, <2>1 DEF Parking!Next, Parking!OnWorker, Resume, Parking!Resume, Reap, Parking!Reap,
         RunYield, Parking!RunYield, RunsAwaiter, Parking!RunsAwaiter, TakeAwaiter,
         Parking!TakeAwaiter, Schedule, Parking!Schedule
  <2>2. CASE Complete(w) \/ \E a \in MutexAwaiters : Suspend(w, a)
    BY <1>3, <2>2 DEF Parking!Next, Parking!OnFiber, Complete, Parking!Complete,
         Suspend, Parking!Suspend, Parking!SuspendIn
  <2> QED
    BY <1>3, <2>1, <2>2
<1>4. ASSUME NEW w \in Workers, NEW a \in MutexAwaiters \ {"yield"},
             RunsAwaiter(w, a), TakeAwaiter(w),
             \/ parking' = parking \union {after[w]} /\ UNCHANGED runq
             \/ parking' = parking /\ Schedule(after[w])
      PROVE  Parking!Next
  BY <1>4 DEF Parking!Next, Parking!OnWorker, Parking!RunAwaiter, RunsAwaiter, Parking!RunsAwaiter,
       TakeAwaiter, Parking!TakeAwaiter, Schedule, Parking!Schedule
<1>5. ASSUME NEW f \in parking, parking' = parking \ {f}, Schedule(f),
             UNCHANGED <<running, after, awaiter, coro>>
      PROVE  Parking!Next
  <2>1. f \in Fibers
    BY DEF TypeOK, Range
  <2> QED
    BY <1>5, <2>1 DEF Parking!Next, Parking!Wake, Schedule, Parking!Schedule
<1> QED
  BY <1>1, <1>2, <1>3, <1>4, <1>5 DEF ProtocolStep

\* fibers::Mutex keeps the fiber protocol: it schedules only fibers it was given
\* a handle of, and each of them once, whatever order its queue ends up in.
THEOREM MutexImplementsFibers == Spec => ImplementsFibers
<1>1. Init => Parking!Init
  BY DEF Init, RuntimeInit, Parking!Init, Parking!RuntimeInit, Range
<1>2. TypeOK /\ MutexInPlace /\ [Next]_vars => [Parking!Next]_(Parking!vars)
  BY StepsOfTheQueue, ProtocolStepIsAllowed DEF QueueStep
<1> QED
  BY <1>1, <1>2, TypeCorrect, PlacesOfMutex, PTL DEF Spec, ImplementsFibers, Parking!Spec
-----------------------------------------------------------------------------
\* Who wants the mutex or has it.
Claimants == {f \in Fibers : pc[f] \in {"suspend", "wait", "cs"}}

\* working_ counts them.
Counted == IsFiniteSet(Claimants) /\ working = Cardinality(Claimants)

\* Where the ones that wait can be: on their way into the queue on some thread,
\* or in the queue; and nobody else is there.
Waiters ==
  /\ \A f \in Fibers : pc[f] = "suspend" => \E w \in Workers : running[w] = f
  /\ \A f \in Fibers : pc[f] = "wait" =>
       f \in Queued \/ \E w \in Workers : after[w] = f /\ RunsAwaiter(w, "mutex")
  /\ \A f \in Fibers : awaiter[f] = "mutex" \/ f \in Queued => pc[f] = "wait"

\* A fiber moves between two labels that count, or two that do not.
LEMMA CountStays ==
  ASSUME Counted, working' = working, Claimants' = Claimants
  PROVE  Counted'
  BY DEF Counted

LEMMA CountSteps ==
  ASSUME TypeOK, TypeOK', MutexInPlace, Waiters, Counted, NEW w \in Workers,
         OnFiber(w) \/ OnWorker(w)
  PROVE  Counted'
<1> DEFINE f == running[w]
<1> USE DEF Claimants
<1>0. f # None => f \in Fibers
  BY DEF TypeOK, RuntimeTypeOK
<1>1. CASE Lock(w) \/ TryLock(w)
  <2>1. /\ f \in Fibers /\ pc[f] = "out" /\ working' = working + 1
        /\ pc' = [pc EXCEPT ![f] = "cs"] \/ pc' = [pc EXCEPT ![f] = "suspend"]
    BY <1>0, <1>1 DEF Lock, TryLock, Goto, TypeOK
  <2>2. Claimants' = Claimants \union {f} /\ f \notin Claimants
    BY <2>1 DEF TypeOK
  <2> QED
    BY <2>1, <2>2, FS_AddElement DEF Counted
<1>2. CASE Unlock(w)
  <2>1. /\ f \in Fibers /\ pc[f] = "cs" /\ working' = working - 1
        /\ pc' = [pc EXCEPT ![f] = "out"] \/ pc' = [pc EXCEPT ![f] = "pop"]
    BY <1>0, <1>2 DEF Unlock, Goto, TypeOK
  <2>2. Claimants' = Claimants \ {f} /\ f \in Claimants
    BY <2>1 DEF TypeOK
  <2> QED
    BY <2>1, <2>2, FS_RemoveElement DEF Counted
<1>3. CASE SuspendInLock(w) \/ PopEmpty(w) \/ Drain(w) \/ DrainEnds(w) \/ Repop(w)
  BY <1>0, <1>3, CountStays
     DEF SuspendInLock, PopEmpty, Drain, DrainEnds, Repop, Goto, TypeOK
<1>4. CASE Grant(w)
  <2>1. Head(first) \in Fibers /\ pc[Head(first)] = "wait"
    <3>1. Head(first) \in Fibers
      BY <1>4 DEF Grant, TypeOK
    <3> QED
      BY <1>4, <3>1, GrantDequeues DEF Waiters
  <2>2. f \in Fibers /\ pc[f] \in {"pop", "repop"}
    BY <1>0, <1>4 DEF Grant
  <2>3. Claimants' = Claimants /\ working' = working
    BY <1>4, <2>1, <2>2 DEF Grant, TypeOK
  <2> QED
    BY <2>3, CountStays
<1>5. CASE Yield(w) \/ Finish(w) \/ OnWorker(w)
  BY <1>5, CountStays DEF Yield, Finish, OnWorker, RunMutexAwaiter, mutex
<1> QED
  BY <1>1, <1>2, <1>3, <1>4, <1>5 DEF OnFiber, InUnlock

LEMMA WaitersStay ==
  ASSUME TypeOK, MutexInPlace, Waiters, NEW w \in Workers, OnFiber(w) \/ OnWorker(w)
  PROVE  Waiters'
<1> DEFINE f == running[w]
<1> USE DEF Waiters, RunsAwaiter
<1>0. /\ running \in [Workers -> Fibers \union {None}]
      /\ after \in [Workers -> Fibers \union {None}] /\ coro \in [Fibers -> CoroStates]
      /\ awaiter \in [Fibers -> {None, "yield", "mutex"}] /\ pc \in [Fibers -> Labels]
      /\ None \notin Fibers \union {"yield", "mutex"}
  BY MutexAssumption DEF TypeOK, RuntimeTypeOK
<1>1. /\ \A v \in Workers : running[v] # None =>
           awaiter[running[v]] = None /\ running[v] \notin Queued /\ after[v] = None
      /\ \A g \in Queued : awaiter[g] = None
      /\ \A v \in Workers : after[v] # None => after[v] \notin Queued \/ awaiter[after[v]] = None
      /\ \A u, v \in Workers : after[u] = after[v] /\ after[u] # None => u = v
      /\ \A u, v \in Workers : running[u] = running[v] /\ running[u] # None => u = v
      /\ \A u, v \in Workers : running[u] = after[v] => running[u] = None
  BY <1>0 DEF MutexInPlace, InPlace, Shows, Reachable, Apart
<1>2. CASE Lock(w) \/ TryLock(w) \/ Unlock(w) \/ PopEmpty(w) \/ Drain(w) \/ DrainEnds(w) \/ Repop(w)
  <2>1. Queued' = Queued
    BY <1>2, DrainTurnsOver, QueueRests
       DEF Lock, TryLock, Unlock, PopEmpty, DrainEnds, Repop, MutexInPlace
  <2>2. UNCHANGED <<running, after, awaiter, coro>>
    BY <1>2 DEF Lock, TryLock, Unlock, PopEmpty, Drain, DrainEnds, Repop, runtime
  <2>3. f \in Fibers /\ \E to \in Labels \ {"wait"} : pc' = [pc EXCEPT ![f] = to]
    BY <1>0, <1>2 DEF Lock, TryLock, Unlock, PopEmpty, Drain, DrainEnds, Repop, Goto, Labels
  <2>4. pc[f] # "wait"
    BY <1>2 DEF Lock, TryLock, Unlock, PopEmpty, Drain, DrainEnds, Repop, Goto
  <2> QED
    BY <1>0, <1>1, <2>1, <2>2, <2>3, <2>4
<1>3. CASE SuspendInLock(w)
  <2>1. Queued' = Queued
    BY <1>3, QueueRests DEF SuspendInLock, MutexInPlace
  <2>2. /\ f \in Fibers /\ pc[f] = "suspend" /\ pc' = [pc EXCEPT ![f] = "wait"]
        /\ awaiter' = [awaiter EXCEPT ![f] = "mutex"] /\ coro' = [coro EXCEPT ![f] = "saved"]
        /\ after' = [after EXCEPT ![w] = f] /\ running' = [running EXCEPT ![w] = None]
    BY <1>0, <1>3 DEF SuspendInLock, Suspend, Goto
  <2> QED
    BY <1>0, <1>1, <2>1, <2>2
<1>4. CASE Grant(w)
  <2>1. Head(first) \in Queued /\ Queued' = Queued \ {Head(first)}
    BY <1>4, GrantDequeues
  <2>2. /\ f \in Fibers /\ pc[f] \in {"pop", "repop"} /\ Head(first) \in Fibers
        /\ pc' = [pc EXCEPT ![f] = "out", ![Head(first)] = "cs"]
        /\ UNCHANGED <<running, after, awaiter, coro>>
    BY <1>0, <1>4 DEF Grant, TypeOK
  <2> QED
    BY <1>0, <1>1, <2>1, <2>2
<1>5. CASE Yield(w) \/ Finish(w)
  <2>1. Queued' = Queued /\ UNCHANGED pc
    BY <1>5, QueueRests DEF Yield, Finish, mutex, MutexInPlace
  <2>2. /\ f \in Fibers /\ pc[f] \in {"out", "cs"}
        /\ after' = [after EXCEPT ![w] = f] /\ running' = [running EXCEPT ![w] = None]
        /\ awaiter' = awaiter \/ awaiter' = [awaiter EXCEPT ![f] = "yield"]
        /\ coro' = [coro EXCEPT ![f] = "saved"] \/ coro' = [coro EXCEPT ![f] = "complete"]
    BY <1>0, <1>5 DEF Yield, Finish, Suspend, Complete
  <2> QED
    BY <1>0, <1>1, <2>1, <2>2
<1>6. CASE RunMutexAwaiter(w)
  <2>1. Queued' = Queued \union {after[w]} /\ UNCHANGED pc
    BY <1>6, AwaiterQueues DEF RunMutexAwaiter
  <2>2. /\ after[w] \in Fibers /\ awaiter[after[w]] = "mutex"
        /\ awaiter' = [awaiter EXCEPT ![after[w]] = None] /\ after' = [after EXCEPT ![w] = None]
        /\ UNCHANGED <<running, coro>>
    BY <1>0, <1>6 DEF RunMutexAwaiter, TakeAwaiter
  <2> QED
    BY <1>0, <1>1, <2>1, <2>2
<1>7. CASE (Resume(w) \/ Reap(w) \/ RunYield(w)) /\ UNCHANGED mutex
  <2>1. Queued' = Queued /\ UNCHANGED pc
    BY <1>7, QueueRests DEF mutex, MutexInPlace
  <2>2. CASE Resume(w)
    <3>1. Head(runq) \in Fibers
      BY <2>2 DEF Resume, TypeOK, RuntimeTypeOK
    <3> QED
      BY <1>0, <1>1, <2>1, <2>2, <3>1 DEF Resume
  <2>3. CASE Reap(w)
    BY <1>0, <1>1, <2>1, <2>3 DEF Reap
  <2>4. CASE RunYield(w)
    BY <1>0, <1>1, <2>1, <2>4 DEF RunYield, TakeAwaiter
  <2> QED
    BY <1>7, <2>2, <2>3, <2>4
<1> QED
  BY <1>2, <1>3, <1>4, <1>5, <1>6, <1>7 DEF OnFiber, InUnlock, OnWorker

LEMMA ClaimsInvariant == Spec => [](Counted /\ Waiters)
<1>1. Init => Counted /\ Waiters
  <2> SUFFICES ASSUME Init PROVE Counted /\ Waiters
    OBVIOUS
  <2>1. Claimants = {} /\ Queued = {}
    BY DEF Init, Claimants, Queued, Range
  <2> QED
    BY <2>1, FS_EmptySet, MutexAssumption DEF Init, RuntimeInit, Counted, Waiters
<1>2. TypeOK /\ TypeOK' /\ MutexInPlace /\ Counted /\ Waiters /\ [Next]_vars
      => Counted' /\ Waiters'
  <2> SUFFICES ASSUME TypeOK, TypeOK', MutexInPlace, Counted, Waiters, [Next]_vars
               PROVE  Counted' /\ Waiters'
    OBVIOUS
  <2>1. ASSUME UNCHANGED mutex PROVE Counted' /\ Queued' = Queued
    BY <2>1, CountStays, QueueRests DEF mutex, Claimants, MutexInPlace
  <2>2. ASSUME NEW f \in Fibers, Start(f) PROVE Counted' /\ Waiters'
    BY <2>1, <2>2 DEF Start, mutex, Go, Waiters, RunsAwaiter, TypeOK, RuntimeTypeOK
  <2>3. ASSUME NEW w \in Workers, OnFiber(w) \/ OnWorker(w) PROVE Counted' /\ Waiters'
    BY <2>3, CountSteps, WaitersStay
  <2>4. CASE UNCHANGED vars
    BY <2>1, <2>4 DEF vars, runtime, mutex, Waiters, RunsAwaiter
  <2> QED
    BY <2>2, <2>3, <2>4 DEF Next
<1> QED
  BY <1>1, <1>2, TypeCorrect, PlacesOfMutex, PTL DEF Spec

\* working_ counts who waits and who owns, exactly; and when a fiber in Unlock
\* spins on an empty queue, a thread is about to push: somebody is counted, it is
\* not the owner, and a counted fiber that is not queued is on a thread.
THEOREM ClaimsHold == Spec => []ClaimsInv
<1>1. BatonInv /\ Counted /\ Waiters => ClaimsInv
  <2> SUFFICES ASSUME BatonInv, Counted, Waiters PROVE ClaimsInv
    OBVIOUS
  <2>1. WorkingCountsClaims
    BY DEF Counted, Claimants, WorkingCountsClaims
  <2>2. ASSUME NEW f \in Fibers, pc[f] \in Popping, first = <<>>, second = <<>>
        PROVE  \E w \in Workers : \/ running[w] # None /\ pc[running[w]] = "suspend"
                                 \/ RunsAwaiter(w, "mutex")
    <3>1. PICK g \in Claimants : TRUE
      <4>1. working > 0
        BY <2>2 DEF BatonInv, SomebodyHasTheBaton
      <4> QED
        BY <4>1, FS_EmptySet DEF Counted
    <3>2. pc[g] \in {"suspend", "wait"}
      BY <2>2, <3>1 DEF Claimants, BatonInv, OneUnlocker, Popping
    <3>3. Queued = {}
      BY <2>2 DEF Queued, Range
    <3> QED
      BY <3>1, <3>2, <3>3, MutexAssumption DEF Waiters, Claimants
  <2> QED
    BY <2>1, <2>2 DEF ClaimsInv, SpinWaitsForAThread
<1> QED
  BY <1>1, BatonHolds, ClaimsInvariant, PTL
-----------------------------------------------------------------------------
\* Everybody that Unlock had turned over before h came may be overtaken by h.
Slips(h, g) == h \in later[g] => g \in slipped[h]

\* Where in the queue those that came after a waiter can be.
Line ==
  /\ \A i, j \in 1 .. Len(second) : i < j => second[j] \notin later[second[i]]
  /\ \A i, j \in 1 .. Len(first) : i < j => Slips(first[i], first[j])
  /\ Draining => \A g \in Range(first), h \in Range(second) : Slips(h, g)
  /\ ~Draining => \A g \in Range(second), h \in Range(first) : h \notin later[g]

\* One that was overtaken is next in line but for others that were turned over
\* with it; the one that overtook it is not among them.
Overtaken ==
  \A g \in Fibers : passed[g] # {} =>
    g \in Range(first) /\ ~Draining /\ passed[g] \intersect Range(first) = {}

InLine == Line /\ Overtaken

\* What the observer notes of a waiter that stays, and of one that comes.
LEMMA Observed ==
  ASSUME Observe
  PROVE  /\ \A g \in Fibers : g \in Waiting /\ g \in Waiting' =>
              /\ later'[g] = (later[g] \ Served) \union Came
              /\ passed'[g] = passed[g] \union (Served \intersect later[g])
              /\ slipped'[g] = slipped[g] \ Served
         /\ \A g \in Fibers : ~(g \in Waiting /\ g \in Waiting') =>
              later'[g] = {} /\ passed'[g] = {}
         /\ Draining => \A h \in Fibers : h \in Came => slipped'[h] = Range(first)
  BY DEF Observe, Came, Served

\* A step that leaves the queue alone: the loop over second_ starts only when
\* first_ is empty and ends only when second_ is.
LEMMA LineRests ==
  ASSUME TypeOK, InLine, UNCHANGED <<first, second>>, UNCHANGED history \/ Observe,
         Draining' => Draining \/ first = <<>>,
         Draining => Draining' \/ second = <<>>
  PROVE  InLine'
<1>1. Waiting' = Waiting /\ Served = {} /\ Came = {}
  BY DEF Waiting, Served, Came
<1>2. \A g \in Fibers : /\ passed'[g] \subseteq passed[g]
                        /\ g \in Waiting => later'[g] = later[g] /\ slipped'[g] = slipped[g]
  <2>1. CASE UNCHANGED history
    BY <2>1 DEF history
  <2>2. CASE Observe
    BY <1>1, <2>2, Observed
  <2> QED
    BY <2>1, <2>2
<1>3. /\ first' = first /\ second' = second
      /\ Range(first') = Range(first) /\ Range(second') = Range(second)
      /\ first = <<>> => Range(first) = {}
      /\ second = <<>> => Range(second) = {}
      /\ Range(first) \subseteq Fibers /\ Range(second) \subseteq Fibers
      /\ Waiting = Range(first) \union Range(second)
  BY DEF TypeOK, Range, Waiting
<1>4. /\ \A i \in 1 .. Len(first) : first[i] \in Range(first) /\ first[i] \in Fibers
      /\ \A i \in 1 .. Len(second) : second[i] \in Range(second) /\ second[i] \in Fibers
  BY DEF TypeOK, Range
<1>5. \A i, j \in 1 .. Len(second') : i < j => second'[j] \notin later'[second'[i]]
  BY <1>2, <1>3, <1>4 DEF InLine, Line
<1>6. \A i, j \in 1 .. Len(first') : i < j => Slips(first[i], first[j])'
  BY <1>2, <1>3, <1>4 DEF InLine, Line, Slips
<1>7. Draining' => \A g \in Range(first'), h \in Range(second') : Slips(h, g)'
  <2> SUFFICES ASSUME Draining', NEW g \in Range(first'), NEW h \in Range(second')
               PROVE  Slips(h, g)'
    OBVIOUS
  <2>1. Draining /\ g \in Range(first) /\ h \in Range(second)
    BY <1>3
  <2>2. Slips(h, g)
    BY <2>1 DEF InLine, Line
  <2> QED
    BY <1>2, <1>3, <2>1, <2>2 DEF Slips
<1>8. ~Draining' => \A g \in Range(second'), h \in Range(first') : h \notin later'[g]
  <2> SUFFICES ASSUME ~Draining', NEW g \in Range(second'), NEW h \in Range(first')
               PROVE  h \notin later'[g]
    OBVIOUS
  <2>1. ~Draining /\ g \in Range(second) /\ h \in Range(first)
    BY <1>3
  <2>2. h \notin later[g]
    BY <2>1 DEF InLine, Line
  <2> QED
    BY <1>2, <1>3, <2>1, <2>2
<1>9. Overtaken'
  <2> SUFFICES ASSUME NEW g \in Fibers, passed'[g] # {}
               PROVE  /\ g \in Range(first') /\ ~Draining'
                      /\ passed'[g] \intersect Range(first') = {}
    BY DEF Overtaken
  <2>1. passed[g] # {} /\ passed'[g] \subseteq passed[g]
    BY <1>2
  <2>2. g \in Range(first) /\ ~Draining /\ passed[g] \intersect Range(first) = {}
    BY <2>1 DEF InLine, Overtaken
  <2> QED
    BY <1>3, <2>1, <2>2
<1> QED
  BY <1>5, <1>6, <1>7, <1>8, <1>9 DEF InLine, Line, Slips

\* A waiter is pushed: it came after all that are there.
LEMMA RangeOfSeq ==
  ASSUME NEW S, NEW s \in Seq(S)
  PROVE  /\ Range(s) \subseteq S /\ DOMAIN s = 1 .. Len(s)
         /\ \A i \in 1 .. Len(s) : s[i] \in Range(s)
  BY DEF Range

LEMMA LineGrows ==
  ASSUME TypeOK, InLine, Observe, NEW x \in Fibers, x \notin Waiting,
         second' = <<x>> \o second, first' = first, pc' = pc
  PROVE  InLine'
<1>1. /\ first \in Seq(Fibers) /\ second \in Seq(Fibers) /\ Draining' = Draining
      /\ Range(first) \subseteq Fibers /\ Range(second) \subseteq Fibers
      /\ \A i \in 1 .. Len(first) : first[i] \in Range(first)
      /\ \A i \in 1 .. Len(second) : second[i] \in Range(second)
  BY DEF TypeOK, Range, Draining
<1>2. /\ Range(second') = Range(second) \union {x} /\ Range(first') = Range(first)
      /\ Len(second') = Len(second) + 1 /\ Len(second) \in Nat
      /\ second'[1] = x /\ \A i \in 2 .. Len(second) + 1 : second'[i] = second[i - 1]
  BY <1>1, PrependRange
<1>3. Waiting' = Waiting \union {x} /\ Served = {} /\ Came = {x}
  BY <1>2 DEF Waiting, Served, Came
<1>4. /\ \A g \in Waiting : /\ later'[g] = later[g] \union {x} /\ slipped'[g] = slipped[g]
                            /\ passed'[g] = passed[g]
      /\ later'[x] = {} /\ passed'[x] = {}
      /\ Draining => slipped'[x] = Range(first)
      /\ \A g \in Fibers : g \notin Waiting => passed'[g] = {}
  <2>1. Waiting \subseteq Fibers
    BY <1>1 DEF Waiting
  <2> QED
    BY <1>3, <2>1, Observed
<1>5. \A i, j \in 1 .. Len(second') : i < j => second'[j] \notin later'[second'[i]]
  <2> SUFFICES ASSUME NEW i \in 1 .. Len(second'), NEW j \in 1 .. Len(second'), i < j
               PROVE  second'[j] \notin later'[second'[i]]
    OBVIOUS
  <2>1. j \in 2 .. Len(second) + 1 /\ second'[j] = second[j - 1] /\ j - 1 \in 1 .. Len(second)
    BY <1>2
  <2>2. CASE i = 1
    <3>1. second'[i] = x /\ later'[x] = {}
      BY <1>2, <1>4, <2>2
    <3> QED
      BY <3>1
  <2>3. CASE i # 1
    <3>1. second'[i] = second[i - 1] /\ i - 1 \in 1 .. Len(second) /\ i - 1 < j - 1
      BY <1>2, <2>3
    <3>2. second[j - 1] \notin later[second[i - 1]]
      BY <2>1, <3>1 DEF InLine, Line
    <3>3. second[i - 1] \in Waiting /\ second[j - 1] # x
      BY <1>1, <2>1, <3>1 DEF Waiting
    <3> QED
      BY <1>4, <2>1, <3>1, <3>2, <3>3
  <2> QED
    BY <2>2, <2>3
<1>6. ASSUME NEW h \in Range(first), NEW g \in Range(first), Slips(h, g) PROVE Slips(h, g)'
  <2>1. h \in Waiting /\ g \in Waiting /\ h # x
    BY DEF Waiting
  <2> QED
    BY <1>4, <1>6, <2>1 DEF Slips
<1>7. Draining' => \A g \in Range(first'), h \in Range(second') : Slips(h, g)'
  <2> SUFFICES ASSUME Draining, NEW g \in Range(first), NEW h \in Range(second) \union {x}
               PROVE  Slips(h, g)'
    BY <1>1, <1>2
  <2>1. g \in Waiting /\ later'[g] = later[g] \union {x}
    BY <1>4 DEF Waiting
  <2>2. CASE h = x
    BY <1>4, <2>2 DEF Slips
  <2>3. CASE h # x
    <3>1. Slips(h, g) /\ h \in Waiting
      BY <2>3 DEF InLine, Line, Waiting
    <3> QED
      BY <1>4, <2>1, <2>3, <3>1 DEF Slips
  <2> QED
    BY <2>2, <2>3
<1>8. ~Draining' => \A g \in Range(second'), h \in Range(first') : h \notin later'[g]
  <2> SUFFICES ASSUME ~Draining, NEW g \in Range(second) \union {x}, NEW h \in Range(first)
               PROVE  h \notin later'[g]
    BY <1>1, <1>2
  <2>1. h # x
    BY DEF Waiting
  <2>2. CASE g = x
    BY <1>4, <2>2
  <2>3. CASE g # x
    <3>1. h \notin later[g] /\ g \in Waiting
      BY <2>3 DEF InLine, Line, Waiting
    <3> QED
      BY <1>4, <2>1, <3>1
  <2> QED
    BY <2>2, <2>3
<1>9. Overtaken'
  BY <1>1, <1>2, <1>4 DEF InLine, Overtaken
<1>10. \A i, j \in 1 .. Len(first') : i < j => Slips(first[i], first[j])'
  BY <1>1, <1>6 DEF InLine, Line
<1> QED
  BY <1>5, <1>7, <1>8, <1>9, <1>10 DEF InLine, Line

\* The loop over second_ turns over the one that came last of those in second_;
\* all in first_ came after it or slipped in.
LEMMA LineTurnsOver ==
  ASSUME TypeOK, QueuedOnce, InLine, Observe, second # <<>>, Draining,
         first' = <<Head(second)>> \o first, second' = Tail(second), pc' = pc
  PROVE  InLine'
<1>1. /\ first \in Seq(Fibers) /\ second \in Seq(Fibers) /\ Draining' /\ Draining
      /\ Range(first) \subseteq Fibers /\ Range(second) \subseteq Fibers
      /\ \A i \in 1 .. Len(first) : first[i] \in Range(first)
      /\ \A i \in 1 .. Len(second) : second[i] \in Range(second)
      /\ NoDuplicates(second)
  BY DEF TypeOK, Range, Draining, QueuedOnce
<1>2. PICK y : y = Head(second)
  OBVIOUS
<1>3. /\ y \in Range(second) /\ Range(second') = Range(second) \ {y} /\ y = second[1]
      /\ Len(second) \in Nat /\ Len(second') = Len(second) - 1
      /\ \A i \in 1 .. Len(second) - 1 : second'[i] = second[i + 1]
  BY <1>1, <1>2, TailRange
<1>4. /\ Range(first') = Range(first) \union {y} /\ Len(first) \in Nat
      /\ Len(first') = Len(first) + 1
      /\ first'[1] = y /\ \A i \in 2 .. Len(first) + 1 : first'[i] = first[i - 1]
  BY <1>1, <1>2, <1>3, PrependRange
<1>5. Waiting' = Waiting /\ Served = {} /\ Came = {}
  BY <1>3, <1>4 DEF Waiting, Served, Came
<1>6. /\ \A g \in Waiting : later'[g] = later[g] /\ slipped'[g] = slipped[g]
      /\ \A g \in Fibers : passed'[g] \subseteq passed[g]
  <2>1. Waiting \subseteq Fibers
    BY <1>1 DEF Waiting
  <2> QED
    BY <1>5, <2>1, Observed
<1>7. \A i, j \in 1 .. Len(second') : i < j => second'[j] \notin later'[second'[i]]
  BY <1>1, <1>3, <1>6, SMTT(30) DEF InLine, Line, Waiting
<1>8. \A i, j \in 1 .. Len(first') : i < j => Slips(first[i], first[j])'
  <2> SUFFICES ASSUME NEW i \in 1 .. Len(first'), NEW j \in 1 .. Len(first'), i < j
               PROVE  first'[i] \in later'[first'[j]] => first'[j] \in slipped'[first'[i]]
    BY DEF Slips
  <2>1. j \in 2 .. Len(first) + 1 /\ first'[j] = first[j - 1] /\ j - 1 \in 1 .. Len(first)
    BY <1>4
  <2>2. first[j - 1] \in Range(first) /\ first[j - 1] \in Waiting
    BY <1>1, <2>1 DEF Waiting
  <2>3. CASE i = 1
    <3>1. Slips(y, first[j - 1])
      BY <1>1, <1>3, <2>2 DEF InLine, Line
    <3>2. first'[i] = y /\ y \in Waiting
      BY <1>3, <1>4, <2>3 DEF Waiting
    <3> QED
      BY <1>6, <2>1, <2>2, <3>1, <3>2 DEF Slips
  <2>4. CASE i # 1
    <3>1. first'[i] = first[i - 1] /\ i - 1 \in 1 .. Len(first) /\ i - 1 < j - 1
      BY <1>4, <2>4
    <3>2. Slips(first[i - 1], first[j - 1])
      BY <2>1, <3>1 DEF InLine, Line
    <3>3. first[i - 1] \in Waiting
      BY <1>1, <3>1 DEF Waiting
    <3> QED
      BY <1>6, <2>1, <2>2, <3>1, <3>2, <3>3 DEF Slips
  <2> QED
    BY <2>3, <2>4
<1>9. \A g \in Range(first'), h \in Range(second') : Slips(h, g)'
  <2> SUFFICES ASSUME NEW g \in Range(first'), NEW h \in Range(second')
               PROVE  h \in later[g] => g \in slipped[h]
    BY <1>3, <1>4, <1>6 DEF Slips, Waiting
  <2>1. CASE g = y
    <3>0. h \in Range(second) /\ h # y /\ DOMAIN second = 1 .. Len(second)
      BY <1>1, <1>3
    <3>1. PICK k \in 1 .. Len(second) : h = second[k]
      BY <3>0 DEF Range
    <3>2. 1 \in 1 .. Len(second) /\ 1 < k
      BY <1>3, <3>0, <3>1
    <3> QED
      BY <1>3, <2>1, <3>1, <3>2 DEF InLine, Line
  <2>2. CASE g # y
    BY <1>1, <1>3, <1>4, <2>2 DEF InLine, Line, Slips
  <2> QED
    BY <2>1, <2>2
<1>10. Overtaken'
  BY <1>1, <1>6 DEF InLine, Overtaken
<1> QED
  BY <1>1, <1>7, <1>8, <1>9, <1>10 DEF InLine, Line, Slips

\* What a grant takes from the front of the line is what the property is about.
FairServe ==
  \A h \in Served : \A g \in Waiting' : h \in later[g] => g \in slipped[h] /\ h \notin passed[g]

LEMMA LineServes ==
  ASSUME TypeOK, QueuedOnce, InLine, Observe, first # <<>>, ~Draining, ~Draining',
         first' = Tail(first), second' = second
  PROVE  InLine' /\ FairServe
<1>1. /\ first \in Seq(Fibers) /\ second \in Seq(Fibers)
      /\ Range(first) \subseteq Fibers /\ Range(second) \subseteq Fibers
      /\ \A i \in 1 .. Len(first) : first[i] \in Range(first)
      /\ \A i \in 1 .. Len(second) : second[i] \in Range(second)
      /\ NoDuplicates(first) /\ Range(first) \intersect Range(second) = {}
  <2>1. NoDuplicates(first) /\ Range(first) \intersect Range(second) = {}
    BY DEF QueuedOnce
  <2>2. first \in Seq(Fibers) /\ second \in Seq(Fibers)
    BY DEF TypeOK
  <2> QED
    BY <2>1, <2>2, RangeOfSeq
<1>2. PICK h : h = Head(first)
  OBVIOUS
<1>3. /\ h \in Range(first) /\ Range(first') = Range(first) \ {h} /\ h = first[1]
      /\ Len(first) \in Nat /\ Len(first') = Len(first) - 1
      /\ \A i \in 1 .. Len(first) - 1 : first'[i] = first[i + 1]
      /\ Range(second') = Range(second)
  BY <1>1, <1>2, TailRange
<1>4. Waiting' = Waiting \ {h} /\ h \in Waiting /\ Served = {h} /\ Came = {}
  BY <1>1, <1>3 DEF Waiting, Served, Came
<1>5. /\ \A g \in Waiting' : /\ later'[g] = later[g] \ {h} /\ slipped'[g] = slipped[g] \ {h}
                             /\ passed'[g] = passed[g] \union ({h} \intersect later[g])
      /\ \A g \in Fibers : g \notin Waiting' => passed'[g] = {}
  <2>1. Waiting \subseteq Fibers
    BY <1>1 DEF Waiting
  <2> QED
    BY <1>4, <2>1, Observed
<1>6. \A g \in Range(second) : h \notin later[g]
  BY <1>3 DEF InLine, Line
<1>7. ASSUME NEW g \in Range(first'), h \in later[g] PROVE g \in slipped[h]
  <2>1. PICK k \in 1 .. Len(first) : g = first[k]
    BY <1>1, <1>3, SMTT(30) DEF Range
  <2>2. 1 \in 1 .. Len(first) /\ 1 < k
    BY <1>3, <2>1
  <2> QED
    BY <1>3, <1>7, <2>1, <2>2 DEF InLine, Line, Slips
<1>8. FairServe
  BY <1>1, <1>3, <1>4, <1>6, <1>7 DEF FairServe, Waiting, InLine, Overtaken
<1>9. \A i, j \in 1 .. Len(second') : i < j => second'[j] \notin later'[second'[i]]
  BY <1>1, <1>3, <1>5 DEF InLine, Line, Waiting
<1>10. \A i, j \in 1 .. Len(first') : i < j => Slips(first[i], first[j])'
  <2> SUFFICES ASSUME NEW i \in 1 .. Len(first'), NEW j \in 1 .. Len(first'), i < j
               PROVE  first'[i] \in later'[first'[j]] => first'[j] \in slipped'[first'[i]]
    BY DEF Slips
  <2>1. /\ first'[i] = first[i + 1] /\ i + 1 \in 1 .. Len(first)
        /\ first'[j] = first[j + 1] /\ j + 1 \in 1 .. Len(first) /\ i + 1 < j + 1
    BY <1>3
  <2>2. Slips(first[i + 1], first[j + 1])
    BY <2>1 DEF InLine, Line
  <2>3. first[i + 1] # h /\ first[j + 1] # h
    <3>1. 1 \in DOMAIN first /\ i + 1 \in DOMAIN first /\ j + 1 \in DOMAIN first
      BY <1>1, <1>3, <2>1
    <3>2. i + 1 # 1 /\ j + 1 # 1
      BY <1>3
    <3> QED
      BY <1>1, <1>3, <3>1, <3>2 DEF NoDuplicates
  <2>4. first[i + 1] \in Waiting' /\ first[j + 1] \in Waiting'
    BY <1>1, <1>4, <2>1, <2>3 DEF Waiting
  <2> QED
    BY <1>5, <2>1, <2>2, <2>3, <2>4 DEF Slips
<1>11. \A g \in Range(second'), x \in Range(first') : x \notin later'[g]
  BY <1>3, <1>5 DEF InLine, Line, Waiting
<1>12. Overtaken'
  <2> SUFFICES ASSUME NEW g \in Fibers, passed'[g] # {}
               PROVE  g \in Range(first') /\ passed'[g] \intersect Range(first') = {}
    BY DEF Overtaken
  <2>1. g \in Waiting' /\ passed'[g] = passed[g] \union ({h} \intersect later[g])
    BY <1>5
  <2>2. CASE passed[g] # {}
    BY <1>3, <1>4, <2>1, <2>2 DEF InLine, Overtaken
  <2>3. CASE passed[g] = {}
    <3>1. h \in later[g]
      BY <2>1, <2>3
    <3> QED
      BY <1>3, <1>4, <1>6, <2>1, <2>3, <3>1 DEF Waiting
  <2> QED
    BY <2>2, <2>3
<1> QED
  BY <1>8, <1>9, <1>10, <1>11, <1>12 DEF InLine, Line, Slips

LEMMA LineStep ==
  ASSUME TypeOK, Baton, MutexInPlace, InLine, OrderNext
  PROVE  InLine' /\ FairServe
<1>1. ASSUME UNCHANGED <<first, second>>,
             Draining' => Draining \/ first = <<>>,
             Draining => Draining' \/ second = <<>>
      PROVE  InLine' /\ FairServe
  BY <1>1, LineRests DEF OrderNext, FairServe, Served, Waiting
<1>2. ASSUME UNCHANGED mutex PROVE InLine' /\ FairServe
  BY <1>1, <1>2 DEF mutex, Draining
<1>3. ASSUME NEW w \in Workers, OnWorker(w) PROVE InLine' /\ FairServe
  <2>1. CASE RunMutexAwaiter(w)
    <3>1. /\ after[w] \in Fibers /\ after[w] \notin Waiting /\ pc' = pc
          /\ second' = <<after[w]>> \o second /\ first' = first
          /\ Waiting' = Waiting \union {after[w]}
      BY <2>1, AwaiterQueues DEF RunMutexAwaiter, Waiting, Queued
    <3> QED
      BY <3>1, LineGrows DEF OrderNext, FairServe, Served
  <2>2. CASE (Resume(w) \/ Reap(w) \/ RunYield(w)) /\ UNCHANGED mutex
    BY <1>2, <2>2
  <2> QED
    BY <1>3, <2>1, <2>2 DEF OnWorker
<1>4. ASSUME NEW w \in Workers, OnFiber(w) PROVE InLine' /\ FairServe
  <2>0. pc \in [Fibers -> Labels] /\ (running[w] # None => running[w] \in Fibers)
    BY DEF TypeOK, RuntimeTypeOK
  <2>1. CASE Lock(w) \/ TryLock(w) \/ SuspendInLock(w) \/ Unlock(w) \/ Repop(w)
    <3>1. UNCHANGED <<first, second>>
      BY <2>1 DEF Lock, TryLock, SuspendInLock, Unlock, Repop
    <3>2. Draining' <=> Draining
      BY <2>0, <2>1 DEF Lock, TryLock, SuspendInLock, Unlock, Repop, Goto, Draining
    <3> QED
      BY <1>1, <3>1, <3>2
  <2>2. CASE PopEmpty(w)
    <3>1. first = <<>> /\ UNCHANGED <<first, second>>
      BY <2>2 DEF PopEmpty
    <3>2. Draining => Draining'
      BY <2>0, <2>2 DEF PopEmpty, Goto, Draining
    <3> QED
      BY <1>1, <3>1, <3>2
  <2>3. CASE DrainEnds(w)
    <3>1. second = <<>> /\ UNCHANGED <<first, second>>
      BY <2>3 DEF DrainEnds
    <3>2. Draining' => Draining
      BY <2>0, <2>3 DEF DrainEnds, Goto, Draining
    <3> QED
      BY <1>1, <3>1, <3>2
  <2>4. CASE Drain(w)
    <3>1. /\ second # <<>> /\ Draining /\ pc' = pc
          /\ first' = <<Head(second)>> \o first /\ second' = Tail(second)
      BY <2>0, <2>4 DEF Drain, Goto, Draining
    <3>2. Waiting' = Waiting
      BY <2>4, DrainTurnsOver DEF Waiting, Queued
    <3> QED
      BY <3>1, <3>2, LineTurnsOver DEF OrderNext, FairServe, Served, MutexInPlace
  <2>5. CASE Grant(w)
    <3>1. /\ first # <<>> /\ first' = Tail(first) /\ second' = second
          /\ running[w] \in Fibers /\ pc[running[w]] \in {"pop", "repop"}
          /\ pc' = [pc EXCEPT ![running[w]] = "out", ![Head(first)] = "cs"]
      BY <2>0, <2>5 DEF Grant
    <3>2. ~Draining /\ ~Draining'
      BY <2>0, <3>1 DEF Baton, OneBaton, HasBaton, Popping, Draining
    <3> QED
      BY <3>1, <3>2, LineServes DEF OrderNext, MutexInPlace
  <2>6. CASE Yield(w) \/ Finish(w)
    BY <1>2, <2>6 DEF Yield, Finish
  <2> QED
    BY <1>4, <2>1, <2>2, <2>3, <2>4, <2>5, <2>6 DEF OnFiber, InUnlock
<1> QED
  BY <1>2, <1>3, <1>4 DEF OrderNext, Next, Start

\* Fibers get the mutex in the order of their Push; one overtakes another only
\* if it was pushed while Unlock had turned that one over already, and once.
THEOREM OvertakesOnce == OrderSpec => OvertakenOnce
<1>1. OrderSpec => Spec
  <2>1. OrderInit => Init
    BY DEF OrderInit
  <2>2. [OrderNext]_<<vars, history>> => [Next]_vars
    BY DEF OrderNext
  <2> QED
    BY <2>1, <2>2, PTL DEF OrderSpec, Spec
<1>2. OrderInit => InLine
  <2> SUFFICES ASSUME OrderInit PROVE InLine
    OBVIOUS
  <2>1. /\ first = <<>> /\ second = <<>> /\ Range(first) = {} /\ Range(second) = {}
        /\ \A g \in Fibers : passed[g] = {}
    BY DEF OrderInit, Init, Range
  <2> QED
    BY <2>1 DEF InLine, Line, Overtaken
<1>3. /\ TypeOK /\ Baton /\ MutexInPlace /\ InLine /\ [OrderNext]_<<vars, history>>
      => InLine' /\ [FairServe]_<<vars, history>>
  <2> SUFFICES ASSUME TypeOK, Baton, MutexInPlace, InLine, [OrderNext]_<<vars, history>>
               PROVE  InLine' /\ [FairServe]_<<vars, history>>
    OBVIOUS
  <2>1. CASE OrderNext
    BY <2>1, LineStep
  <2>2. CASE UNCHANGED <<vars, history>>
    <3>1. UNCHANGED <<first, second, pc>> /\ UNCHANGED history
      BY <2>2 DEF vars, mutex
    <3> QED
      BY <2>2, <3>1, LineRests DEF Draining
  <2> QED
    BY <2>1, <2>2
<1>4. OrderSpec => [](TypeOK /\ Baton /\ MutexInPlace)
  BY <1>1, MutexInvariant, PlacesOfMutex, PTL
<1>5. OrderSpec => [][FairServe]_<<vars, history>>
  BY <1>2, <1>3, <1>4, PTL DEF OrderSpec
<1> QED
  BY <1>5 DEF FairServe, OvertakenOnce
=============================================================================
