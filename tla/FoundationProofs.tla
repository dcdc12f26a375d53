-------------------------- MODULE FoundationProofs --------------------------
(***************************************************************************)
(* Proofs about what everything else is built on: sync::Mutex for threads  *)
(* (FutexMutex, any set of threads), suspending and resuming for fibers    *)
(* (Fibers, any fibers, workers and awaiters), and the loop that runs both *)
(* on one thread (RunLoop, any tasks, limits and depth of calls).          *)
(*                                                                         *)
(* For RunLoop, LoopKept has a sequence q that is what the links say       *)
(* (Listed).  Line finds it (LineIsFound), by induction over the natural   *)
(* numbers.  Only the top call can be in its loop or run a task that has   *)
(* submitted itself; that those under it wait for tasks in no list is what *)
(* keeps a task from being run by two calls (CallsKept).                   *)
(***************************************************************************)
EXTENDS FutexMutex, Fibers, RunLoop, FiberRuntimeProofs, FiniteSetTheorems, SequenceTheorems

\* Every state of FutexMutex has its type.
THEOREM MutexTypeCorrect == MutexSpec => []MutexTypeOK
<1>1. MutexInit => MutexTypeOK
  BY DEF MutexInit, MutexTypeOK, Labels
<1>2. MutexTypeOK /\ [MutexNext]_mutexVars => MutexTypeOK'
  <2> SUFFICES ASSUME MutexTypeOK, [MutexNext]_mutexVars PROVE MutexTypeOK'
    OBVIOUS
  <2> USE DEF MutexTypeOK, Labels, Goto
  <2>1. ASSUME NEW t \in Threads, TryLock(t) PROVE MutexTypeOK'
    BY <2>1 DEF TryLock
  <2>2. ASSUME NEW t \in Threads, LockSlow(t) PROVE MutexTypeOK'
    BY <2>2 DEF LockSlow
  <2>3. ASSUME NEW t \in Threads, Step(t) PROVE MutexTypeOK'
    <3>1. CASE Exchange(t)
      BY <3>1 DEF Exchange
    <3>2. CASE FutexWait(t)
      BY <3>2 DEF FutexWait
    <3>3. CASE Reload(t)
      BY <3>3 DEF Reload
    <3>4. CASE Unlock(t)
      BY <3>4 DEF Unlock
    <3>5. CASE WakeOne(t)
      BY <3>5 DEF WakeOne
    <3> QED
      BY <2>3, <3>1, <3>2, <3>3, <3>4, <3>5 DEF Step
  <2>4. ASSUME NEW t \in Threads, SpuriousWake(t) PROVE MutexTypeOK'
    BY <2>4 DEF SpuriousWake
  <2>5. CASE UNCHANGED mutexVars
    BY <2>5 DEF mutexVars
  <2> QED
    BY <2>1, <2>2, <2>3, <2>4, <2>5 DEF MutexNext
<1> QED
  BY <1>1, <1>2, PTL DEF MutexSpec

\* A step keeps at most one owner, and busy_ tells whether there is one.
LEMMA ExclusionStep ==
  ASSUME ExclusionInv, MutexTypeOK', [MutexNext]_mutexVars
  PROVE  MutualExclusion' /\ BusyMeansOwned'
<1> USE DEF ExclusionInv, MutexTypeOK, MutualExclusion, BusyMeansOwned, Goto
<1>1. ASSUME NEW t \in Threads, TryLock(t) PROVE MutualExclusion' /\ BusyMeansOwned'
  BY <1>1 DEF TryLock
<1>2. ASSUME NEW t \in Threads, LockSlow(t) PROVE MutualExclusion' /\ BusyMeansOwned'
  BY <1>2 DEF LockSlow
<1>3. ASSUME NEW t \in Threads, Step(t) PROVE MutualExclusion' /\ BusyMeansOwned'
  <2>1. CASE Exchange(t)
    BY <2>1 DEF Exchange
  <2>2. CASE FutexWait(t)
    BY <2>2 DEF FutexWait
  <2>3. CASE Reload(t)
    BY <2>3 DEF Reload
  <2>4. CASE Unlock(t)
    BY <2>4 DEF Unlock
  <2>5. CASE WakeOne(t)
    BY <2>5 DEF WakeOne
  <2> QED
    BY <1>3, <2>1, <2>2, <2>3, <2>4, <2>5 DEF Step
<1>4. ASSUME NEW t \in Threads, SpuriousWake(t) PROVE MutualExclusion' /\ BusyMeansOwned'
  BY <1>4 DEF SpuriousWake
<1>5. CASE UNCHANGED mutexVars
  BY <1>5 DEF mutexVars
<1> QED
  BY <1>1, <1>2, <1>3, <1>4, <1>5 DEF MutexNext

\* sync::Mutex has at most one owner, and busy_ is 0 exactly when it has none.
THEOREM ExclusionHolds == MutexSpec => []ExclusionInv
<1>1. MutexInit => MutualExclusion /\ BusyMeansOwned
  BY DEF MutexInit, MutualExclusion, BusyMeansOwned
<1>2. ExclusionInv /\ MutexTypeOK' /\ [MutexNext]_mutexVars => MutualExclusion' /\ BusyMeansOwned'
  BY ExclusionStep
<1> QED
  BY <1>1, <1>2, MutexTypeCorrect, PTL DEF MutexSpec, ExclusionInv

\* sync::Mutex never lets two threads between Lock and Unlock.
THEOREM MutexExcludes == MutexSpec => []MutualExclusion
  BY ExclusionHolds, PTL DEF ExclusionInv

\* No wake-up is lost, however many threads lock and unlock: a thread asleep on
\* busy_ has a 2 in busy_ or another thread on its way to wake it.
THEOREM SleepersNotForgotten == MutexSpec => []SleepersAreRemembered
<1>1. MutexInit => SleepersAreRemembered
  BY DEF MutexInit, SleepersAreRemembered
<1>2. MutexTypeOK /\ SleepersAreRemembered /\ [MutexNext]_mutexVars => SleepersAreRemembered'
  <2> SUFFICES ASSUME MutexTypeOK, SleepersAreRemembered, [MutexNext]_mutexVars
               PROVE  SleepersAreRemembered'
    OBVIOUS
  <2> USE DEF MutexTypeOK, SleepersAreRemembered, Goto
  <2>1. ASSUME NEW t \in Threads, TryLock(t) PROVE SleepersAreRemembered'
    BY <2>1 DEF TryLock
  <2>2. ASSUME NEW t \in Threads, LockSlow(t) PROVE SleepersAreRemembered'
    BY <2>2 DEF LockSlow
  <2>3. ASSUME NEW t \in Threads, Step(t) PROVE SleepersAreRemembered'
    <3>1. CASE Exchange(t)
      BY <3>1 DEF Exchange
    <3>2. CASE FutexWait(t)
      BY <3>2 DEF FutexWait
    <3>3. CASE Reload(t)
      BY <3>3 DEF Reload
    <3>4. CASE Unlock(t)
      BY <3>4 DEF Unlock
    <3>5. CASE WakeOne(t)
      BY <3>5 DEF WakeOne
    <3> QED
      BY <2>3, <3>1, <3>2, <3>3, <3>4, <3>5 DEF Step
  <2>4. ASSUME NEW t \in Threads, SpuriousWake(t) PROVE SleepersAreRemembered'
    BY <2>4 DEF SpuriousWake
  <2>5. CASE UNCHANGED mutexVars
    BY <2>5 DEF mutexVars
  <2> QED
    BY <2>1, <2>2, <2>3, <2>4, <2>5 DEF MutexNext
<1> QED
  BY <1>1, <1>2, MutexTypeCorrect, PTL DEF MutexSpec
-----------------------------------------------------------------------------
\* With at most one thread inside, Owner is that thread, before and after a
\* step; a step that lets nobody in or out leaves it alone.
LEMMA OwnerIsInside ==
  /\ MutualExclusion => \A t \in Threads : pc[t] = "cs" => Owner = t
  /\ MutualExclusion' => \A t \in Threads : pc'[t] = "cs" => Owner' = t
  /\ (\A t \in Threads : pc[t] # "cs") => Owner = Nobody
  /\ (\A t \in Threads : pc'[t] # "cs") => Owner' = Nobody
  BY DEF MutualExclusion, Owner

LEMMA OwnerStays ==
  ASSUME \A t \in Threads : pc'[t] = "cs" <=> pc[t] = "cs",
         MutualExclusion, MutualExclusion'
  PROVE  Owner' = Owner
<1>1. CASE \A t \in Threads : pc[t] # "cs"
  BY <1>1, OwnerIsInside
<1>2. ASSUME NEW t \in Threads, pc[t] = "cs" PROVE Owner' = Owner
  BY <1>2, OwnerIsInside
<1> QED
  BY <1>1, <1>2

\* A thread that gets in while busy_ is 0 is granted the mutex.
LEMMA EnterAcquires ==
  ASSUME ExclusionInv, MutualExclusion', NEW t \in Threads, busy = 0, pc'[t] = "cs"
  PROVE  Promise!Granted
<1>1. Owner = Nobody
  BY OwnerIsInside DEF ExclusionInv, BusyMeansOwned
<1>2. Owner' = t
  BY OwnerIsInside
<1> QED
  BY <1>1, <1>2 DEF Promise!Granted

\* sync::Mutex implements Ownership: seen through its owner, every step grants the
\* free mutex to one thread, gives it up, or changes nothing.
THEOREM MutexImplementsOwnership == MutexSpec => ImplementsOwnership
<1>1. MutexInit => Owner = Nobody
  BY DEF MutexInit, Owner
<1>2. ExclusionInv /\ ExclusionInv' /\ [MutexNext]_mutexVars => [Promise!Granted \/ Promise!GivenUp]_Owner
  <2> SUFFICES ASSUME ExclusionInv, ExclusionInv', [MutexNext]_mutexVars
               PROVE  Promise!Granted \/ Promise!GivenUp \/ Owner' = Owner
    OBVIOUS
  <2>0. MutualExclusion /\ MutualExclusion' /\ pc \in [Threads -> Labels]
    BY DEF ExclusionInv, MutexTypeOK
  <2>1. ASSUME NEW t \in Threads, TryLock(t) PROVE Promise!Granted
    BY <2>0, <2>1, EnterAcquires DEF TryLock, Goto
  <2>2. ASSUME NEW t \in Threads, LockSlow(t) \/ SpuriousWake(t) PROVE Owner' = Owner
    BY <2>0, <2>2, OwnerStays DEF LockSlow, SpuriousWake, Goto
  <2>3. ASSUME NEW t \in Threads, Exchange(t) PROVE Promise!Granted \/ Promise!GivenUp \/ Owner' = Owner
    <3>1. CASE busy = 0
      BY <2>0, <2>3, <3>1, EnterAcquires DEF Exchange, Goto
    <3>2. CASE busy # 0
      BY <2>0, <2>3, <3>2, OwnerStays DEF Exchange, Goto
    <3> QED
      BY <3>1, <3>2
  <2>4. ASSUME NEW t \in Threads, FutexWait(t) \/ Reload(t) \/ WakeOne(t)
        PROVE  Owner' = Owner
    BY <2>0, <2>4, OwnerStays DEF FutexWait, Reload, WakeOne, Goto
  <2>5. ASSUME NEW t \in Threads, Unlock(t) PROVE Promise!GivenUp
    <3>1. Owner = t
      BY <2>0, <2>5, OwnerIsInside DEF Unlock, Goto
    <3>2. \A u \in Threads : pc'[u] # "cs"
      BY <2>0, <2>5 DEF Unlock, Goto, MutualExclusion
    <3>3. Owner' = Nobody
      BY <3>2, OwnerIsInside
    <3> QED
      BY <3>1, <3>3 DEF Promise!GivenUp
  <2>6. CASE UNCHANGED mutexVars
    BY <2>6 DEF mutexVars, Owner
  <2> QED
    BY <2>1, <2>2, <2>3, <2>4, <2>5, <2>6 DEF MutexNext, Step
<1> QED
  BY <1>1, <1>2, ExclusionHolds, PTL DEF MutexSpec, ImplementsOwnership, Promise!Contract
-----------------------------------------------------------------------------
(***************************************************************************)
(* Fibers.  The inductive invariant is InPlace of FiberRuntimeProofs, for  *)
(* the fibers that are parked; each step is one of the steps there.        *)
(***************************************************************************)
FibersInPlace == InPlace(parked, Awaiters)

LEMMA KindsOfAwaiters == Kinds(Awaiters)
  BY FibersAssumption DEF Kinds

LEMMA InPlaceIsPlacesInv == FibersInPlace <=> PlacesInv
<1> USE FibersAssumption
    DEF FibersInPlace, InPlace, PlacesType, Apart, Shows, Reachable, PlacesInv, TypeOK,
        PlaceShowsState, ReachableIsSaved, OneActivation, NoDuplicates
<1>1. ASSUME FibersInPlace PROVE PlacesInv
  <2>1. \A w \in Workers : {running[w], after[w]} \intersect (parked \union Range(runq)) = {}
    BY <1>1 DEF RuntimeTypeOK, Range
  <2>2. \A v, w \in Workers : running[v] = after[w] => running[v] = None
    BY <1>1
  <2> QED
    BY <1>1, <2>1, <2>2
<1>2. PlacesInv => FibersInPlace
  OBVIOUS
<1> QED
  BY <1>1, <1>2

LEMMA FibersStep == FibersInPlace /\ [Next]_vars => FibersInPlace'
<1> SUFFICES ASSUME FibersInPlace, [Next]_vars PROVE InPlace(parked, Awaiters)'
  BY DEF FibersInPlace
<1>1. ProtocolStep(parked, parked', Awaiters)
  <2>1. ASSUME NEW w \in Workers, RunAwaiter(w) PROVE ProtocolStep(parked, parked', Awaiters)
    BY <2>1 DEF ProtocolStep, RunAwaiter
  <2>2. ASSUME NEW w \in Workers, OnWorker(w) \/ OnFiber(w)
        PROVE  ProtocolStep(parked, parked', Awaiters)
    BY <2>1, <2>2 DEF ProtocolStep, OnWorker, OnFiber, SuspendIn
  <2>3. ASSUME NEW f \in Fibers, Start(f) \/ Wake(f)
        PROVE  ProtocolStep(parked, parked', Awaiters)
    BY <2>3 DEF ProtocolStep, Start, Wake
  <2> QED
    BY <2>2, <2>3 DEF ProtocolStep, Next, vars
<1> QED
  BY <1>1, InPlaceStep, KindsOfAwaiters, FibersAssumption DEF FibersInPlace

\* Every fiber is in one place and in the state that goes with it: active on a
\* worker, saved in a queue, and on its way between them with its awaiter set.
THEOREM PlacesHold == Spec => []PlacesInv
<1>1. Init => FibersInPlace
  BY InPlaceInit, KindsOfAwaiters DEF Init, FibersInPlace
<1> QED
  BY <1>1, FibersStep, InPlaceIsPlacesInv, PTL DEF Spec

\* Every state of Fibers has its type.
THEOREM TypeCorrect == Spec => []TypeOK
  BY PlacesHold, PTL DEF PlacesInv

\* A fiber is never queued twice, on two threads, or parked and queued,
\* whatever the primitives do with the handles they are given.
THEOREM NeverTwice == Spec => []OneActivation
  BY PlacesHold, PTL DEF PlacesInv

\* Nobody gets hold of a fiber that is still on its stack: whoever can schedule
\* or resume it finds its registers saved.
THEOREM NeverResumedEarly == Spec => []ReachableIsSaved
<1>1. PlacesInv => ReachableIsSaved
  BY DEF PlacesInv, PlaceShowsState
<1> QED
  BY <1>1, PlacesHold, PTL
-----------------------------------------------------------------------------
\* Where a fiber is, for the proof that it is somewhere.
Placed(f) ==
  f \in parked \union Range(runq) \/ \E w \in Workers : f \in {running[w], after[w]}

\* Scheduling f places f and displaces nobody.
LEMMA ScheduleRange ==
  ASSUME TypeOK, NEW f \in Fibers, Schedule(f)
  PROVE  Range(runq') = Range(runq) \union {f}
  BY AppendRange DEF Schedule, TypeOK, RuntimeTypeOK

\* Every fiber whose life has begun and not ended is on a worker, queued or
\* parked: no step of the runtime or of a primitive drops one.
THEOREM NeverLost == Spec => []NoFiberIsLost
<1>1. Init => NoFiberIsLost
  BY DEF Init, RuntimeInit, NoFiberIsLost
<1>2. PlacesInv /\ NoFiberIsLost /\ [Next]_vars => NoFiberIsLost'
  <2> SUFFICES ASSUME PlacesInv, NoFiberIsLost, [Next]_vars,
                      NEW g \in Fibers, coro'[g] \notin {"unborn", "deleted"}
               PROVE  Placed(g)'
    BY DEF NoFiberIsLost, Placed
  <2> USE FibersAssumption DEF Placed
  <2>0. TypeOK /\ (coro[g] \in {"unborn", "deleted"} \/ Placed(g))
    BY DEF PlacesInv, NoFiberIsLost
  <2>1. ASSUME NEW f \in Fibers, Start(f) PROVE Placed(g)'
    <3>1. Range(runq') = Range(runq) \union {f}
      BY <2>0, <2>1, ScheduleRange DEF Start, Go
    <3> QED
      BY <2>0, <2>1, <3>1 DEF Start, Go, TypeOK, RuntimeTypeOK
  <2>2. ASSUME NEW f \in Fibers, Wake(f) PROVE Placed(g)'
    <3>1. Range(runq') = Range(runq) \union {f}
      BY <2>0, <2>2, ScheduleRange DEF Wake
    <3> QED
      BY <2>0, <2>2, <3>1 DEF Wake
  <2>3. ASSUME NEW w \in Workers, Resume(w), UNCHANGED parked PROVE Placed(g)'
    <3>1. Range(runq') = Range(runq) \ {Head(runq)} /\ Head(runq) \in Range(runq)
      BY <2>0, <2>3, TailRange DEF PlacesInv, OneActivation, NoDuplicates, Resume, TypeOK, RuntimeTypeOK
    <3>2. coro[Head(runq)] = "saved"
      BY <3>1 DEF PlacesInv, PlaceShowsState, ReachableIsSaved
    <3>3. Placed(g)
      BY <2>0, <2>3, <3>2 DEF Resume, TypeOK, RuntimeTypeOK
    <3>4. /\ running'[w] = Head(runq) /\ after' = after /\ running[w] = None
          /\ \A v \in Workers \ {w} : running'[v] = running[v]
      BY <2>0, <2>3 DEF Resume, TypeOK, RuntimeTypeOK
    <3> QED
      BY <2>3, <3>1, <3>3, <3>4
  <2>4. ASSUME NEW w \in Workers, UNCHANGED parked,
               Complete(w) \/ \E a \in Awaiters : Suspend(w, a)
        PROVE  Placed(g)'
    <3>1. running[w] # None /\ UNCHANGED runq
      BY <2>4 DEF Complete, Suspend
    <3>2. after[w] = None /\ coro[running[w]] = "active"
      BY <3>1 DEF PlacesInv, PlaceShowsState
    <3>3. Placed(g)
      BY <2>0, <2>4, <3>1, <3>2 DEF Complete, Suspend, TypeOK, RuntimeTypeOK
    <3>4. /\ after'[w] = running[w]
          /\ \A v \in Workers \ {w} : running'[v] = running[v] /\ after'[v] = after[v]
      BY <2>0, <2>4 DEF Complete, Suspend, TypeOK, RuntimeTypeOK
    <3> QED
      BY <2>4, <3>1, <3>2, <3>3, <3>4
  <2>5. ASSUME NEW w \in Workers, Reap(w), UNCHANGED parked PROVE Placed(g)'
    <3>1. g # after[w] /\ Placed(g)
      BY <2>0, <2>5 DEF Reap, TypeOK, RuntimeTypeOK
    <3> QED
      BY <2>0, <2>5, <3>1 DEF Reap, TypeOK, RuntimeTypeOK
  <2>6. ASSUME NEW w \in Workers, NEW a \in Awaiters, RunsAwaiter(w, a), TakeAwaiter(w),
               \/ Schedule(after[w]) /\ UNCHANGED parked
               \/ parked' = parked \union {after[w]} /\ UNCHANGED runq
        PROVE  Placed(g)'
    <3>1. Placed(g)
      BY <2>0, <2>6 DEF TakeAwaiter
    <3>2. after[w] \in Fibers
      BY <2>0, <2>6 DEF RunsAwaiter, TypeOK, RuntimeTypeOK
    <3>3. parked' \union Range(runq') = parked \union Range(runq) \union {after[w]}
      BY <2>0, <2>6, <3>2, ScheduleRange
    <3>4. running' = running /\ \A v \in Workers \ {w} : after'[v] = after[v]
      BY <2>0, <2>6 DEF TakeAwaiter, TypeOK, RuntimeTypeOK
    <3> QED
      BY <3>1, <3>3, <3>4
  <2>7. CASE UNCHANGED vars
    BY <2>0, <2>7 DEF vars, runtime
  <2>8. ASSUME NEW w \in Workers, OnWorker(w) PROVE Placed(g)'
    BY <2>3, <2>5, <2>6, <2>8 DEF OnWorker, RunAwaiter, RunYield
  <2>9. ASSUME NEW w \in Workers, OnFiber(w) PROVE Placed(g)'
    BY <2>4, <2>9 DEF OnFiber, SuspendIn
  <2> QED
    BY <2>1, <2>2, <2>7, <2>8, <2>9 DEF Next
<1> QED
  BY <1>1, <1>2, PlacesHold, PTL DEF Spec
-----------------------------------------------------------------------------
\* RunLoop.
\* q is what the links of the list say: the tasks in it, from head_ to tail_.
Listed(q) ==
  /\ q \in Seq(Tasks) /\ size = Len(q) /\ NoDuplicates(q)
  /\ head = IF q = <<>> THEN NoTask ELSE q[1]
  /\ tail = IF q = <<>> THEN NoTask ELSE q[Len(q)]
  /\ \A i \in 1 .. Len(q) : next[q[i]] = IF i < Len(q) THEN q[i + 1] ELSE NoTask
  /\ \A t \in Tasks \ Range(q) : next[t] = NoTask

\* The recursive definition of Line finds it.
LEMMA LineIsFound ==
  ASSUME NEW q, Listed(q)
  PROVE  Line = q
<1> DEFINE node == CHOOSE f : f = [i \in 1 .. size |-> IF i = 1 THEN head ELSE Link(f[i - 1])]
<1>1. /\ q \in Seq(Tasks) /\ size = Len(q) /\ Len(q) \in Nat
      /\ q = [i \in 1 .. Len(q) |-> q[i]] /\ \A i \in 1 .. Len(q) : q[i] \in Tasks
  BY DEF Listed
<1>2. \A i \in 1 .. size : q[i] = IF i = 1 THEN head ELSE Link(q[i - 1])
  <2>1. ASSUME 1 \in 1 .. size PROVE q[1] = head
    BY <1>1, <2>1 DEF Listed
  <2>2. ASSUME NEW i \in 1 .. size, i # 1 PROVE q[i] = Link(q[i - 1])
    <3>1. i - 1 \in 1 .. Len(q) /\ i - 1 < Len(q) /\ (i - 1) + 1 = i
      BY <1>1, <2>2
    <3>2. next[q[i - 1]] = q[i]
      BY <3>1 DEF Listed
    <3> QED
      BY <1>1, <3>1, <3>2 DEF Link
  <2> QED
    BY <2>1, <2>2
<1>3. q = [i \in 1 .. size |-> IF i = 1 THEN head ELSE Link(q[i - 1])]
  BY <1>1, <1>2
<1>4. node = [i \in 1 .. size |-> IF i = 1 THEN head ELSE Link(node[i - 1])]
  BY <1>3
<1> HIDE DEF node
<1>5. Nat \subseteq {i \in Nat : i + 1 \in 1 .. size => node[i + 1] = q[i + 1]}
  <2> DEFINE S == {i \in Nat : i + 1 \in 1 .. size => node[i + 1] = q[i + 1]}
  <2>1. 0 \in S
    BY <1>2, <1>4
  <2>2. ASSUME NEW n \in Nat, n \in S PROVE n + 1 \in S
    <3>1. CASE (n + 1) + 1 \in 1 .. size
      <4>1. n + 1 \in 1 .. size /\ (n + 1) + 1 # 1 /\ ((n + 1) + 1) - 1 = n + 1
        BY <1>1, <3>1
      <4>2. node[n + 1] = q[n + 1]
        BY <2>2, <4>1
      <4>3. node[(n + 1) + 1] = Link(node[n + 1]) /\ q[(n + 1) + 1] = Link(q[n + 1])
        BY <1>2, <1>4, <3>1, <4>1
      <4> QED
        BY <4>2, <4>3
    <3> QED
      BY <3>1
  <2> HIDE DEF S
  <2>3. Nat \subseteq S
    BY <2>1, <2>2, InductionOverNat
  <2> QED
    BY <2>3 DEF S
<1>6. \A i \in 1 .. size : node[i] = q[i]
  <2> SUFFICES ASSUME NEW i \in 1 .. size PROVE node[i] = q[i]
    OBVIOUS
  <2>1. i - 1 \in Nat /\ (i - 1) + 1 = i
    BY <1>1
  <2> QED
    BY <1>5, <2>1
<1>7. Line = [i \in 1 .. size |-> node[i]]
  BY DEF Line, node
<1> QED
  BY <1>1, <1>6, <1>7

LEMMA LineIsFoundNext ==
  ASSUME NEW q
  PROVE  (Listed(q) => Line = q)'
<1>1. Listed(q) => Line = q
  BY LineIsFound
<1> QED
  BY <1>1, PTL

LEMMA ListPushes ==
  ASSUME NEW q, Listed(q), NEW t \in Tasks \ Range(q), Push(t), NoTask \notin Tasks
  PROVE  Listed(Append(q, t))'
<1>1. PICK r : r = Append(q, t)
  OBVIOUS
<1>2. /\ q \in Seq(Tasks) /\ Len(q) \in Nat /\ r \in Seq(Tasks) /\ Len(r) = Len(q) + 1 /\ r # <<>>
      /\ r[Len(q) + 1] = t /\ \A i \in 1 .. Len(q) : r[i] = q[i] /\ q[i] \in Tasks
      /\ DOMAIN q = 1 .. Len(q)
  BY <1>1 DEF Listed
<1>3. size' = Len(r) /\ tail' = t
  BY <1>2 DEF Push, Listed
<1>4. Range(r) = Range(q) \union {t} /\ NoDuplicates(r)
  BY <1>1, AppendRange DEF Listed
<1>5. head' = r[1]
  <2>1. CASE q = <<>>
    BY <2>1, <1>1, <1>2 DEF Push, Listed
  <2>2. CASE q # <<>>
    BY <2>2, <1>2 DEF Push, Listed
  <2> QED
    BY <2>1, <2>2
<1>6. next' = [u \in Tasks |-> IF u = t THEN NoTask ELSE IF size # 0 /\ u = tail THEN t ELSE next[u]]
  BY DEF Push
<1>7. ASSUME NEW i \in 1 .. Len(r) PROVE next'[r[i]] = IF i < Len(r) THEN r[i + 1] ELSE NoTask
  <2>1. CASE i = Len(r)
    BY <2>1, <1>2, <1>6
  <2>2. CASE i = Len(q)
    <3>1. size # 0 /\ r[i] = tail /\ r[i] \in Tasks /\ r[i] # t
      BY <2>2, <1>2, <1>7 DEF Listed, Range
    <3> QED
      BY <3>1, <2>2, <1>2, <1>6
  <2>3. CASE i < Len(q)
    <3>1. r[i] = q[i] /\ r[i + 1] = q[i + 1] /\ q[i] \in Tasks /\ q[i] # t
      BY <2>3, <1>2, <1>7 DEF Range
    <3>2. q[i] # tail
      BY <2>3, <1>2, <1>7 DEF Listed, NoDuplicates
    <3>3. next[q[i]] = q[i + 1]
      BY <2>3, <1>2, <1>7 DEF Listed
    <3>4. next'[q[i]] = next[q[i]]
      BY <3>1, <3>2, <1>6
    <3>5. i < Len(r)
      BY <2>3, <1>2
    <3>6. next'[r[i]] = r[i + 1]
      BY <3>1, <3>3, <3>4
    <3> HIDE DEF Listed
    <3> QED
      BY <3>5, <3>6
  <2>4. i = Len(r) \/ i = Len(q) \/ i < Len(q)
    <3>1. Len(r) = Len(q) + 1 /\ Len(q) \in Nat
      BY <1>2
    <3> QED
      BY <3>1, <1>7
  <2> QED
    BY <2>1, <2>2, <2>3, <2>4
<1>8. ASSUME NEW u \in Tasks \ Range(r) PROVE next'[u] = NoTask
  <2>1. u # t /\ u \notin Range(q)
    BY <1>4, <1>8
  <2>2. size # 0 => u # tail
    BY <2>1, <1>2 DEF Listed, Range
  <2> QED
    BY <2>1, <2>2, <1>6 DEF Listed
<1> QED
  BY <1>1, <1>2, <1>3, <1>4, <1>5, <1>7, <1>8 DEF Listed

LEMMA ListPops ==
  ASSUME NEW q, Listed(q), Pop, next \in [Tasks -> Tasks \union {NoTask}], NoTask \notin Tasks
  PROVE  q # <<>> /\ head = Head(q) /\ Listed(Tail(q))'
<1>1. PICK r : r = Tail(q)
  OBVIOUS
<1>2. /\ q \in Seq(Tasks) /\ Len(q) \in Nat \ {0} /\ q # <<>> /\ r \in Seq(Tasks)
      /\ Len(r) = Len(q) - 1 /\ DOMAIN q = 1 .. Len(q)
      /\ \A i \in 1 .. Len(q) - 1 : r[i] = q[i + 1]
      /\ \A i \in 1 .. Len(q) : q[i] \in Tasks
  BY <1>1 DEF Listed, Pop
<1>3. head = q[1] /\ head = Head(q) /\ head \in Tasks
  BY <1>2 DEF Listed
<1>4. Range(r) = Range(q) \ {head} /\ NoDuplicates(r)
  BY <1>1, <1>2, <1>3, TailRange DEF Listed
<1>5. size' = Len(r)
  BY <1>2 DEF Listed, Pop
<1>6. next' = [next EXCEPT ![head] = NoTask] /\ head' = next[head]
      /\ tail' = IF head' = NoTask THEN NoTask ELSE tail
  BY DEF Pop
<1>7. next[head] = IF 1 < Len(q) THEN q[2] ELSE NoTask
  BY <1>2, <1>3 DEF Listed
<1>8. head' = IF r = <<>> THEN NoTask ELSE r[1]
  BY <1>2, <1>6, <1>7
<1>9. tail' = IF r = <<>> THEN NoTask ELSE r[Len(r)]
  <2>1. CASE Len(q) = 1
    BY <2>1, <1>2, <1>6, <1>7
  <2>2. CASE Len(q) # 1
    <3>1. r # <<>> /\ head' \in Tasks
      BY <2>2, <1>2, <1>6, <1>7
    <3>2. r[Len(r)] = q[Len(q)] /\ tail = q[Len(q)]
      BY <2>2, <1>2 DEF Listed
    <3> QED
      BY <3>1, <3>2, <1>6
  <2> QED
    BY <2>1, <2>2
<1>10. ASSUME NEW i \in 1 .. Len(r) PROVE next'[r[i]] = IF i < Len(r) THEN r[i + 1] ELSE NoTask
  <2>1. /\ i + 1 \in 1 .. Len(q) /\ r[i] = q[i + 1] /\ (i < Len(r) <=> i + 1 < Len(q))
        /\ i < Len(r) => r[i + 1] = q[(i + 1) + 1]
    BY <1>2, <1>10
  <2>2. next[q[i + 1]] = IF i + 1 < Len(q) THEN q[(i + 1) + 1] ELSE NoTask
    BY <2>1 DEF Listed
  <2>3. q[i + 1] # head /\ q[i + 1] \in Tasks
    <3>1. i + 1 # 1 /\ 1 \in DOMAIN q /\ i + 1 \in DOMAIN q
      BY <2>1, <1>2, <1>10
    <3>2. q[i + 1] # q[1]
      BY <3>1 DEF Listed, NoDuplicates
    <3> QED
      BY <3>2, <2>1, <1>2, <1>3
  <2> QED
    BY <2>1, <2>2, <2>3, <1>6
<1>11. ASSUME NEW u \in Tasks \ Range(r) PROVE next'[u] = NoTask
  BY <1>3, <1>4, <1>6, <1>11 DEF Listed
<1> QED
  BY <1>1, <1>2, <1>3, <1>4, <1>5, <1>8, <1>9, <1>10, <1>11 DEF Listed
-----------------------------------------------------------------------------
\* g holds the sums of the first n calls of s.
Sums(g, n, s) ==
  /\ g \in [0 .. n -> Nat] /\ g[0] = 0
  /\ \A i \in 1 .. n : g[i] = g[i - 1] + s[i].value

LEMMA SumsExist ==
  ASSUME NEW s \in Seq(Frame)
  PROVE  \E g : Sums(g, Len(s), s)
<1> DEFINE S == {n \in Nat : n <= Len(s) => \E g : Sums(g, n, s)}
<1>1. 0 \in S
  <2>1. Sums([i \in 0 .. 0 |-> 0], 0, s)
    BY DEF Sums
  <2> QED
    BY <2>1
<1>2. ASSUME NEW n \in Nat, n \in S PROVE n + 1 \in S
  <2> SUFFICES ASSUME n + 1 <= Len(s) PROVE \E g : Sums(g, n + 1, s)
    OBVIOUS
  <2>1. n <= Len(s) /\ n + 1 \in 1 .. Len(s)
    OBVIOUS
  <2>2. PICK g : Sums(g, n, s)
    BY <1>2, <2>1
  <2>3. s[n + 1].value \in Nat
    <3>1. s[n + 1] \in Frame
      BY <2>1
    <3> QED
      BY <3>1 DEF Frame
  <2>4. PICK h : h = [i \in 0 .. n + 1 |-> IF i <= n THEN g[i] ELSE g[n] + s[n + 1].value]
    OBVIOUS
  <2>5. h \in [0 .. n + 1 -> Nat] /\ h[0] = 0
    BY <2>2, <2>3, <2>4 DEF Sums
  <2>6. \A i \in 1 .. n + 1 : h[i] = h[i - 1] + s[i].value
    BY <2>2, <2>4 DEF Sums
  <2>7. Sums(h, n + 1, s)
    BY <2>5, <2>6 DEF Sums
  <2> QED
    BY <2>7
<1> HIDE DEF S
<1>3. Nat \subseteq S
  BY <1>1, <1>2, InductionOverNat
<1>4. Len(s) \in S
  BY <1>3
<1> QED
  BY <1>4 DEF S

\* The recursive definition of Counted finds them.
LEMMA CountedIs ==
  ASSUME NEW s \in Seq(Frame), NEW g, Sums(g, Len(s), s)
  PROVE  Counted(s) = g[Len(s)] /\ Counted(s) \in Nat
<1> DEFINE upTo == CHOOSE f : f = [i \in 0 .. Len(s) |-> IF i = 0 THEN 0 ELSE f[i - 1] + s[i].value]
<1>1. g = [i \in 0 .. Len(s) |-> IF i = 0 THEN 0 ELSE g[i - 1] + s[i].value]
  <2>1. g = [i \in 0 .. Len(s) |-> g[i]]
    BY DEF Sums
  <2>2. \A i \in 0 .. Len(s) : g[i] = IF i = 0 THEN 0 ELSE g[i - 1] + s[i].value
    BY DEF Sums
  <2> QED
    BY <2>1, <2>2
<1>2. upTo = [i \in 0 .. Len(s) |-> IF i = 0 THEN 0 ELSE upTo[i - 1] + s[i].value]
  BY <1>1
<1>3. Counted(s) = upTo[Len(s)]
  BY DEF Counted
<1> HIDE DEF upTo
<1> DEFINE S == {n \in Nat : n <= Len(s) => upTo[n] = g[n]}
<1>4. 0 \in S
  BY <1>2 DEF Sums
<1>5. ASSUME NEW n \in Nat, n \in S PROVE n + 1 \in S
  <2> SUFFICES ASSUME n + 1 <= Len(s) PROVE upTo[n + 1] = g[n + 1]
    OBVIOUS
  <2>1. n <= Len(s) /\ n + 1 \in 1 .. Len(s) /\ n + 1 # 0 /\ (n + 1) - 1 = n
    OBVIOUS
  <2>2. upTo[n] = g[n]
    BY <1>5, <2>1
  <2>3. upTo[n + 1] = upTo[n] + s[n + 1].value
    BY <1>2, <2>1
  <2>4. g[n + 1] = g[n] + s[n + 1].value
    BY <2>1 DEF Sums
  <2> QED
    BY <2>2, <2>3, <2>4
<1> HIDE DEF S
<1>6. Nat \subseteq S
  BY <1>4, <1>5, InductionOverNat
<1>7. Len(s) \in S /\ Len(s) \in Nat
  BY <1>6
<1>8. upTo[Len(s)] = g[Len(s)]
  BY <1>7 DEF S
<1> QED
  BY <1>3, <1>7, <1>8 DEF Sums

LEMMA CountedNone == Counted(<<>>) = 0
<1>1. <<>> \in Seq(Frame) /\ Len(<<>>) = 0
  OBVIOUS
<1>2. Sums([i \in 0 .. 0 |-> 0], Len(<<>>), <<>>)
  BY DEF Sums
<1>3. Counted(<<>>) = [i \in 0 .. 0 |-> 0][Len(<<>>)]
  BY <1>1, <1>2, CountedIs
<1> QED
  BY <1>1, <1>3

LEMMA CountedAppend ==
  ASSUME NEW s \in Seq(Frame), NEW x \in Frame
  PROVE  /\ Counted(s) \in Nat
         /\ Counted(Append(s, x)) = Counted(s) + x.value
<1>1. PICK g : Sums(g, Len(s), s)
  BY SumsExist
<1>2. PICK r : r = Append(s, x)
  OBVIOUS
<1>3. /\ r \in Seq(Frame) /\ Len(r) = Len(s) + 1 /\ r[Len(s) + 1] = x
      /\ \A i \in 1 .. Len(s) : r[i] = s[i]
      /\ Len(s) \in Nat
  BY <1>2
<1>4. x.value \in Nat
  BY DEF Frame
<1>5. PICK h : h = [i \in 0 .. Len(s) + 1 |-> IF i <= Len(s) THEN g[i] ELSE g[Len(s)] + x.value]
  OBVIOUS
<1>6. h \in [0 .. Len(r) -> Nat] /\ h[0] = 0 /\ h[Len(r)] = g[Len(s)] + x.value
  BY <1>1, <1>3, <1>4, <1>5, SMTT(30) DEF Sums
<1>7. \A i \in 1 .. Len(r) : h[i] = h[i - 1] + r[i].value
  <2>1. ASSUME NEW i \in 1 .. Len(s) PROVE h[i] = h[i - 1] + r[i].value
    <3>1. /\ i \in 0 .. Len(s) + 1 /\ i <= Len(s)
          /\ i - 1 \in 0 .. Len(s) + 1 /\ i - 1 <= Len(s)
      BY <1>3, <2>1
    <3>2. h[i] = g[i] /\ h[i - 1] = g[i - 1]
      BY <3>1, <1>5
    <3> QED
      BY <3>2, <1>1, <1>3, <2>1 DEF Sums
  <2>2. h[Len(s) + 1] = h[(Len(s) + 1) - 1] + r[Len(s) + 1].value
    BY <1>3, <1>5
  <2> QED
    BY <2>1, <2>2, <1>3
<1>8. Sums(h, Len(r), r)
  BY <1>6, <1>7 DEF Sums
<1>9. Counted(r) = h[Len(r)]
  BY <1>3, <1>8, CountedIs
<1>10. Counted(s) = g[Len(s)] /\ Counted(s) \in Nat
  BY <1>1, CountedIs
<1> QED
  BY <1>2, <1>6, <1>9, <1>10

LEMMA FrontAndLast ==
  ASSUME NEW S, NEW s \in Seq(S), s # <<>>
  PROVE  /\ Last(s) \in S /\ Front(s) \in Seq(S) /\ Len(Front(s)) = Len(s) - 1
         /\ \A i \in 1 .. Len(s) - 1 : Front(s)[i] = s[i]
         /\ Append(Front(s), Last(s)) = s
<1>1. Len(s) \in Nat \ {0}
  OBVIOUS
<1>2. /\ Front(s) \in Seq(S) /\ Len(Front(s)) = Len(s) - 1
      /\ \A i \in 1 .. Len(s) - 1 : Front(s)[i] = s[i]
  <2>1. Front(s) = SubSeq(s, 1, Len(s) - 1)
    BY DEF Front
  <2>2. \A i \in 1 .. Len(s) - 1 : s[i] \in S
    BY <1>1
  <2>3. /\ SubSeq(s, 1, Len(s) - 1) \in Seq(S)
        /\ Len(SubSeq(s, 1, Len(s) - 1)) = IF 1 <= Len(s) - 1 THEN (Len(s) - 1) - 1 + 1 ELSE 0
        /\ \A i \in 1 .. (Len(s) - 1) - 1 + 1 : SubSeq(s, 1, Len(s) - 1)[i] = s[1 + i - 1]
    BY <1>1, <2>2, SubSeqProperties
  <2> HIDE DEF Front
  <2>4. Len(Front(s)) = IF 1 <= Len(s) - 1 THEN (Len(s) - 1) - 1 + 1 ELSE 0
    BY <2>1, <2>3
  <2>5. \A i \in 1 .. (Len(s) - 1) - 1 + 1 : Front(s)[i] = s[1 + i - 1]
    BY <2>1, <2>3
  <2>6. Front(s) \in Seq(S)
    BY <2>1, <2>3
  <2>7. Len(Front(s)) = Len(s) - 1
    <3>1. PICK m, n : m = Len(Front(s)) /\ n = Len(s)
      OBVIOUS
    <3>2. n \in Nat \ {0} /\ m = IF 1 <= n - 1 THEN (n - 1) - 1 + 1 ELSE 0
      BY <3>1, <2>4, <1>1
    <3>3. m = n - 1
      BY <3>2
    <3> QED
      BY <3>1, <3>3
  <2>8. ASSUME NEW i \in 1 .. Len(s) - 1 PROVE Front(s)[i] = s[i]
    <3>1. i \in 1 .. (Len(s) - 1) - 1 + 1 /\ 1 + i - 1 = i
      BY <1>1, <2>8
    <3> QED
      BY <3>1, <2>5
  <2> QED
    BY <2>6, <2>7, <2>8
<1>3. Last(s) = s[Len(s)] /\ Last(s) \in S
  BY <1>1 DEF Last
<1>4. PICK r : r = Append(Front(s), Last(s))
  OBVIOUS
<1>5. r \in Seq(S) /\ Len(r) = Len(s) /\ \A i \in 1 .. Len(s) : r[i] = s[i]
  BY <1>1, <1>2, <1>3, <1>4
<1>6. r = s
  BY <1>5
<1> QED
  BY <1>2, <1>3, <1>4, <1>6
-----------------------------------------------------------------------------
TasksIn(s) == {s[i].task : i \in 1 .. Len(s)}

\* The tasks of the calls under the top one.
Under(s) == {s[i].task : i \in 1 .. Len(s) - 1}

\* A call on the stack s, the top one changed to x, and the one that returns.
LEMMA StackGrows ==
  ASSUME NEW s \in Seq(Frame), NEW x \in Frame
  PROVE  /\ Append(s, x) \in Seq(Frame)
         /\ Under(Append(s, x)) = TasksIn(s)
         /\ TasksIn(Append(s, x)) = TasksIn(s) \union {x.task}
         /\ Last(Append(s, x)) = x /\ Append(s, x) # <<>>
<1>1. PICK r : r = Append(s, x)
  OBVIOUS
<1>2. /\ r \in Seq(Frame) /\ Len(s) \in Nat /\ Len(r) = Len(s) + 1 /\ r[Len(s) + 1] = x
      /\ \A i \in 1 .. Len(s) : r[i] = s[i]
  BY <1>1
<1>3. Under(r) = TasksIn(s)
  BY <1>2 DEF Under, TasksIn
<1>4. TasksIn(r) = TasksIn(s) \union {x.task}
  <2>1. ASSUME NEW i \in 1 .. Len(r) PROVE r[i].task \in TasksIn(s) \union {x.task}
    BY <1>2, <2>1 DEF TasksIn
  <2>2. ASSUME NEW i \in 1 .. Len(s) PROVE s[i].task \in TasksIn(r)
    <3>1. i \in 1 .. Len(r) /\ r[i] = s[i]
      BY <1>2, <2>2
    <3> QED
      BY <3>1 DEF TasksIn
  <2>3. x.task \in TasksIn(r)
    <3>1. Len(s) + 1 \in 1 .. Len(r)
      BY <1>2
    <3> QED
      BY <3>1, <1>2 DEF TasksIn
  <2> QED
    BY <2>1, <2>2, <2>3 DEF TasksIn
<1> QED
  BY <1>1, <1>2, <1>3, <1>4 DEF Last

LEMMA TopChanges ==
  ASSUME NEW s \in Seq(Frame), s # <<>>, NEW x \in Frame
  PROVE  /\ Append(Front(s), x) \in Seq(Frame)
         /\ Len(Append(Front(s), x)) = Len(s)
         /\ \A i \in 1 .. Len(s) - 1 : Append(Front(s), x)[i] = s[i]
         /\ Append(Front(s), x)[Len(s)] = x
         /\ Under(Append(Front(s), x)) = Under(s)
         /\ TasksIn(Append(Front(s), x)) = Under(s) \union {x.task}
         /\ Counted(Append(Front(s), x)) = Counted(Front(s)) + x.value
         /\ Counted(Front(s)) \in Nat /\ TasksIn(Front(s)) = Under(s)
<1>1. PICK f : f = Front(s)
  OBVIOUS
<1>2. /\ f \in Seq(Frame) /\ Len(f) = Len(s) - 1 /\ Len(s) \in Nat \ {0}
      /\ \A i \in 1 .. Len(s) - 1 : f[i] = s[i]
  BY <1>1, FrontAndLast
<1>3. TasksIn(f) = Under(s)
  BY <1>2 DEF TasksIn, Under
<1>4. PICK r : r = Append(f, x)
  OBVIOUS
<1>5. /\ r \in Seq(Frame) /\ Len(r) = Len(s) /\ r[Len(s)] = x
      /\ \A i \in 1 .. Len(s) - 1 : r[i] = s[i]
  BY <1>2, <1>4
<1>6. Under(r) = Under(s) /\ TasksIn(r) = Under(s) \union {x.task}
  BY <1>2, <1>3, <1>4, StackGrows
<1>7. Counted(r) = Counted(f) + x.value /\ Counted(f) \in Nat
  BY <1>2, <1>4, CountedAppend
<1> QED
  BY <1>1, <1>3, <1>4, <1>5, <1>6, <1>7

LEMMA TopIs ==
  ASSUME NEW s \in Seq(Frame), s # <<>>
  PROVE  /\ Last(s) \in Frame /\ Last(s) = s[Len(s)] /\ Len(s) \in Nat \ {0}
         /\ TasksIn(s) = Under(s) \union {Last(s).task}
         /\ Counted(s) = Counted(Front(s)) + Last(s).value
<1>1. Last(s) \in Frame /\ Append(Front(s), Last(s)) = s
  BY FrontAndLast
<1>2. Last(s) = s[Len(s)] /\ Len(s) \in Nat \ {0}
  BY DEF Last
<1>3. /\ TasksIn(Append(Front(s), Last(s))) = Under(s) \union {Last(s).task}
      /\ Counted(Append(Front(s), Last(s))) = Counted(Front(s)) + Last(s).value
  BY <1>1, TopChanges
<1> QED
  BY <1>1, <1>2, <1>3
-----------------------------------------------------------------------------
\* Where the list is q.  Only the top call can be in its loop or run a task that
\* has submitted itself; those under it wait for tasks that are in no list.
CallsKept(q) ==
  /\ Under(frames) \subseteq Tasks \ Range(q)
  /\ \A i, j \in 1 .. Len(frames) : frames[i].task = frames[j].task => i = j
  /\ Intrusive \subseteq alive /\ Range(q) \subseteq alive
  /\ Running \subseteq alive
  /\ Running \intersect Range(q) \subseteq Intrusive

LoopKept ==
  /\ LoopTypeOK
  /\ CountsAddUp
  /\ ran + size <= MaxRuns
  /\ \E q : Listed(q) /\ CallsKept(q)

\* What the steps need of the calls: the top one and those under it.
LEMMA Calls ==
  ASSUME LoopTypeOK, NEW q, CallsKept(q)
  PROVE  /\ Running = TasksIn(frames) \ {NoTask}
         /\ NoTask \notin Tasks /\ Tasks = Jobs \union Intrusive /\ Jobs \intersect Intrusive = {}
         /\ Running \subseteq Tasks /\ IsFiniteSet(Running)
         /\ frames = <<>> => Running = {} /\ Under(frames) = {}
         /\ frames # <<>> =>
              /\ Top \in Frame /\ Top.task \in Tasks \union {NoTask}
              /\ Running = Under(frames) \union ({Top.task} \ {NoTask})
              /\ Top.task \notin Under(frames)
         /\ Under(frames) \subseteq Running
<1>1. /\ NoTask \notin Tasks /\ Tasks = Jobs \union Intrusive /\ Jobs \intersect Intrusive = {}
      /\ IsFiniteSet(Jobs) /\ IsFiniteSet(Intrusive)
  BY LoopAssumption DEF Tasks
<1>2. frames \in Seq(Frame) /\ Len(frames) \in Nat /\ DOMAIN frames = 1 .. Len(frames)
  BY DEF LoopTypeOK
<1>3. Running = TasksIn(frames) \ {NoTask}
  BY <1>2 DEF Running, TasksIn
<1>4. Running \subseteq Tasks
  <2>1. ASSUME NEW i \in 1 .. Len(frames) PROVE frames[i].task \in Tasks \union {NoTask}
    <3>1. frames[i] \in Frame
      BY <1>2, <2>1
    <3> QED
      BY <3>1 DEF Frame
  <2> QED
    BY <2>1, <1>3 DEF TasksIn
<1>5. IsFiniteSet(Running)
  <2>1. IsFiniteSet(Tasks)
    BY <1>1, FS_Union
  <2> QED
    BY <2>1, <1>4, FS_Subset
<1>6. ASSUME frames = <<>> PROVE Running = {} /\ Under(frames) = {}
  BY <1>3, <1>6 DEF TasksIn, Under
<1>7. ASSUME frames # <<>>
      PROVE  /\ Top \in Frame /\ Top.task \in Tasks \union {NoTask}
             /\ Running = Under(frames) \union ({Top.task} \ {NoTask})
             /\ Top.task \notin Under(frames)
  <2>1. /\ Top \in Frame /\ Top = frames[Len(frames)] /\ Len(frames) \in Nat \ {0}
        /\ TasksIn(frames) = Under(frames) \union {Top.task}
    BY <1>2, <1>7, TopIs DEF Top
  <2>2. Top.task \in Tasks \union {NoTask}
    BY <2>1 DEF Frame
  <2>3. Top.task \notin Under(frames)
    <3>1. ASSUME NEW i \in 1 .. Len(frames) - 1 PROVE frames[i].task # frames[Len(frames)].task
      <4>1. i \in 1 .. Len(frames) /\ Len(frames) \in 1 .. Len(frames) /\ i # Len(frames)
        BY <2>1, <3>1
      <4> QED
        BY <4>1 DEF CallsKept
    <3> QED
      BY <3>1, <2>1 DEF Under
  <2>4. Running = Under(frames) \union ({Top.task} \ {NoTask})
    BY <2>1, <1>1, <1>3 DEF CallsKept
  <2> QED
    BY <2>1, <2>2, <2>3, <2>4
<1>8. Under(frames) \subseteq Running
  BY <1>6, <1>7
<1> QED
  BY <1>1, <1>3, <1>4, <1>5, <1>6, <1>7, <1>8

\* CallsKept speaks of Running by what is on the stack; the next state's, too.
LEMMA CallsNext ==
  ASSUME frames' \in Seq(Frame), NEW q, Listed(q)', size' \in Nat, NEW R,
         TasksIn(frames') \ {NoTask} = R,
         Under(frames') \subseteq Tasks \ Range(q),
         \A i, j \in 1 .. Len(frames') : frames'[i].task = frames'[j].task => i = j,
         Intrusive \subseteq alive', Range(q) \subseteq alive', R \subseteq alive',
         R \intersect Range(q) \subseteq Intrusive,
         head' \in Tasks \union {NoTask}, tail' \in Tasks \union {NoTask},
         next' \in [Tasks -> Tasks \union {NoTask}], alive' \subseteq Tasks,
         ran' \in Nat, reported' \in Nat, ran' + size' <= MaxRuns,
         ran' = reported' + Counted(frames') + Cardinality(R),
         Cardinality(R) \in Nat, Counted(frames') \in Nat
  PROVE  LoopKept'
<1>1. MaxRuns \in Nat
  BY LoopAssumption
<1>2. ran' \in 0 .. MaxRuns /\ reported' \in 0 .. MaxRuns
  BY <1>1, SMTT(30)
<1>3. LoopTypeOK'
  BY <1>2 DEF LoopTypeOK
<1>4. Running' = R
  <2>1. DOMAIN frames' = 1 .. Len(frames')
    OBVIOUS
  <2> QED
    BY <2>1 DEF Running, TasksIn
<1>5. CallsKept(q)'
  BY <1>4 DEF CallsKept
<1>6. CountsAddUp'
  BY <1>4 DEF CountsAddUp
<1>7. \E r : (Listed(r) /\ CallsKept(r))'
  BY <1>5
<1> QED
  BY <1>3, <1>6, <1>7 DEF LoopKept
-----------------------------------------------------------------------------
\* A task comes in at the end of the list.
LEMMA SubmitKeeps ==
  ASSUME LoopKept, NEW q, Listed(q), CallsKept(q), NEW t \in Tasks \ Range(q),
         t \notin Under(frames), t \in Running => t \in Intrusive,
         alive' = alive \union {t}, Push(t), UNCHANGED <<frames, ran, reported>>,
         ran + size < MaxRuns
  PROVE  LoopKept'
<1>1. LoopTypeOK /\ CountsAddUp
  BY DEF LoopKept
<1>2. /\ Running = TasksIn(frames) \ {NoTask} /\ NoTask \notin Tasks
      /\ IsFiniteSet(Running) /\ Tasks = Jobs \union Intrusive
  BY <1>1, Calls
<1>3. PICK r : r = Append(q, t)
  OBVIOUS
<1>4. Listed(r)'
  BY <1>2, <1>3, ListPushes
<1>5. Range(r) = Range(q) \union {t}
  BY <1>3, AppendRange DEF Listed
<1>6. frames \in Seq(Frame) /\ size \in Nat /\ ran \in Nat /\ reported \in Nat /\ MaxRuns \in Nat
  BY <1>1, LoopAssumption DEF LoopTypeOK
<1>7. size' = size + 1
  BY DEF Push
<1>8. Counted(frames) \in Nat
  BY <1>6, SumsExist, CountedIs
<1>9. Cardinality(Running) \in Nat
  BY <1>2, FS_CardinalityType
<1>10. ran = reported + Counted(frames) + Cardinality(Running)
  BY <1>1 DEF CountsAddUp
<1>11. /\ head' \in Tasks \union {NoTask} /\ tail' \in Tasks \union {NoTask}
       /\ next' \in [Tasks -> Tasks \union {NoTask}]
  BY <1>1 DEF Push, LoopTypeOK
<1>12. frames' = frames /\ ran' = ran /\ reported' = reported
  OBVIOUS
<1>13. /\ Under(frames) \subseteq Tasks \ Range(r)
       /\ Intrusive \subseteq alive' /\ Range(r) \subseteq alive' /\ Running \subseteq alive'
       /\ Running \intersect Range(r) \subseteq Intrusive /\ alive' \subseteq Tasks
       /\ \A i, j \in 1 .. Len(frames) : frames[i].task = frames[j].task => i = j
  BY <1>1, <1>5 DEF CallsKept, LoopTypeOK
<1>14. ran + (size + 1) <= MaxRuns
  BY <1>6
<1>15. size' \in Nat /\ ran' + size' <= MaxRuns
  BY <1>6, <1>7, <1>12, <1>14
<1> HIDE DEF LoopKept, Listed, CallsKept
<1> QED
  BY <1>2, <1>4, <1>6, <1>8, <1>9, <1>10, <1>11, <1>12, <1>13, <1>15, CallsNext

LEMMA SubmitJobKeeps ==
  ASSUME LoopKept, NEW t \in Tasks, SubmitJob(t)
  PROVE  LoopKept'
<1>1. PICK q : Listed(q) /\ CallsKept(q)
  BY DEF LoopKept
<1>2. t \notin alive
  BY DEF SubmitJob
<1>3. t \notin Range(q) /\ t \notin Running /\ Under(frames) \subseteq Running
  BY <1>1, <1>2, Calls DEF CallsKept, LoopKept
<1> QED
  BY <1>1, <1>3, SubmitKeeps DEF SubmitJob

LEMMA SubmitIntrusiveKeeps ==
  ASSUME LoopKept, NEW t \in Tasks, SubmitIntrusive(t)
  PROVE  LoopKept'
<1>1. PICK q : Listed(q) /\ CallsKept(q)
  BY DEF LoopKept
<1>2. t \notin Range(q) /\ t \in Intrusive
  BY <1>1, LineIsFound DEF SubmitIntrusive
<1>3. t \notin Under(frames)
  BY <1>1, Calls DEF SubmitIntrusive, LoopKept
<1>4. alive' = alive \union {t}
  BY <1>1, <1>2 DEF SubmitIntrusive, CallsKept
<1> QED
  BY <1>1, <1>2, <1>3, <1>4, SubmitKeeps DEF SubmitIntrusive

LEMMA CallKeeps ==
  ASSUME LoopKept, NEW limit \in Limits \union {1, NoLimit}, Call(limit)
  PROVE  LoopKept'
<1>1. PICK q : Listed(q) /\ CallsKept(q)
  BY DEF LoopKept
<1>2. LoopTypeOK /\ CountsAddUp /\ ran + size <= MaxRuns
  BY DEF LoopKept
<1>3. /\ Running = TasksIn(frames) \ {NoTask} /\ NoTask \notin Tasks
      /\ IsFiniteSet(Running) /\ Running \subseteq Tasks
  BY <1>1, <1>2, Calls
<1>4. PICK x : x = [limit |-> limit, value |-> 0, task |-> NoTask]
  OBVIOUS
<1>5. x \in Frame /\ x.value = 0 /\ x.task = NoTask
  BY <1>4, LoopAssumption DEF Frame
<1>6. frames' = Append(frames, x) /\ UNCHANGED <<list, alive, ran, reported>>
  BY <1>4 DEF Call
<1>7. frames \in Seq(Frame)
  BY <1>2 DEF LoopTypeOK
<1>8. /\ frames' \in Seq(Frame) /\ Under(frames') = TasksIn(frames)
      /\ TasksIn(frames') = TasksIn(frames) \union {NoTask}
  BY <1>5, <1>6, <1>7, StackGrows
<1>9. TasksIn(frames') \ {NoTask} = Running
  BY <1>3, <1>8
<1>10. NoTask \notin TasksIn(frames)
  <2>1. CASE frames = <<>>
    BY <2>1 DEF TasksIn
  <2>2. CASE frames # <<>>
    <3>1. Top.task # NoTask /\ TasksIn(frames) = Under(frames) \union {Top.task}
      BY <2>2, <1>7, TopIs DEF Call, InLoop, Top
    <3> QED
      BY <3>1, <1>1, <1>3 DEF CallsKept
  <2> QED
    BY <2>1, <2>2
<1>11. TasksIn(frames) = Running
  BY <1>3, <1>10
<1>12. Running \intersect Range(q) = {}
  BY <1>1, LineIsFound DEF Call
<1>13. Under(frames') \subseteq Tasks \ Range(q)
  BY <1>3, <1>8, <1>11, <1>12
<1>14. ASSUME NEW i \in 1 .. Len(frames'), NEW j \in 1 .. Len(frames'),
              frames'[i].task = frames'[j].task
       PROVE  i = j
  <2>1. /\ Len(frames) \in Nat /\ Len(frames') = Len(frames) + 1
        /\ frames'[Len(frames) + 1] = x /\ \A k \in 1 .. Len(frames) : frames'[k] = frames[k]
    BY <1>6, <1>7
  <2>2. \A k \in 1 .. Len(frames) : frames[k].task # NoTask
    BY <1>10 DEF TasksIn
  <2>3. \A k \in 1 .. Len(frames') : k \in 1 .. Len(frames) \/ k = Len(frames) + 1
    BY <2>1
  <2>4. CASE i \in 1 .. Len(frames) /\ j \in 1 .. Len(frames)
    BY <2>1, <2>4, <1>1, <1>14 DEF CallsKept
  <2> QED
    BY <2>1, <2>2, <2>3, <2>4, <1>5, <1>14
<1>15. Counted(frames') = Counted(frames) /\ Counted(frames) \in Nat
  <2>1. Counted(frames) \in Nat /\ Counted(frames') = Counted(frames) + x.value
    BY <1>5, <1>6, <1>7, CountedAppend
  <2> QED
    BY <2>1, <1>5
<1>16. Cardinality(Running) \in Nat
  BY <1>3, FS_CardinalityType
<1>17. ran = reported + Counted(frames) + Cardinality(Running)
  BY <1>2 DEF CountsAddUp
<1>18. Listed(q)'
  BY <1>1, <1>6 DEF Listed, list
<1>19. /\ Intrusive \subseteq alive /\ Range(q) \subseteq alive /\ Running \subseteq alive
       /\ Running \intersect Range(q) \subseteq Intrusive
  BY <1>1 DEF CallsKept
<1>20. /\ head \in Tasks \union {NoTask} /\ tail \in Tasks \union {NoTask}
       /\ next \in [Tasks -> Tasks \union {NoTask}] /\ alive \subseteq Tasks
       /\ ran \in Nat /\ reported \in Nat /\ size \in Nat
  BY <1>2, LoopAssumption DEF LoopTypeOK
<1>21. /\ head' = head /\ tail' = tail /\ next' = next /\ size' = size
       /\ alive' = alive /\ ran' = ran /\ reported' = reported
  BY <1>6 DEF list
<1> HIDE DEF LoopKept, Listed, CallsKept
<1> QED
  BY <1>2, <1>8, <1>9, <1>13, <1>14, <1>15, <1>16, <1>17, <1>18, <1>19, <1>20, <1>21, CallsNext

LEMMA IterateKeeps ==
  ASSUME LoopKept, Iterate
  PROVE  LoopKept'
<1>1. PICK q : Listed(q) /\ CallsKept(q)
  BY DEF LoopKept
<1>2. LoopTypeOK /\ CountsAddUp /\ ran + size <= MaxRuns
  BY DEF LoopKept
<1>3. frames # <<>> /\ Top.task = NoTask /\ frames \in Seq(Frame)
  BY <1>2 DEF Iterate, InLoop, LoopTypeOK
<1>4. /\ NoTask \notin Tasks /\ IsFiniteSet(Running) /\ Running \subseteq Tasks
      /\ Top \in Frame /\ Running = Under(frames)
  BY <1>1, <1>2, <1>3, Calls
<1>5. next \in [Tasks -> Tasks \union {NoTask}] /\ ran \in Nat /\ reported \in Nat /\ size \in Nat
  BY <1>2, LoopAssumption DEF LoopTypeOK
<1>6. Pop /\ frames' = Append(Front(frames), [Top EXCEPT !.task = head]) /\ ran' = ran + 1
      /\ alive' = alive /\ reported' = reported
  BY DEF Iterate, WithTop
<1>7. PICK r : r = Tail(q)
  OBVIOUS
<1>8. q # <<>> /\ head = Head(q) /\ Listed(r)'
  BY <1>1, <1>4, <1>5, <1>6, <1>7, ListPops
<1>9. /\ head \in Range(q) /\ Range(r) = Range(q) \ {head} /\ head \in Tasks /\ size = Len(q)
      /\ Range(q) \subseteq Tasks
  <2>1. q \in Seq(Tasks) /\ NoDuplicates(q) /\ size = Len(q)
    BY <1>1 DEF Listed
  <2>2. head \in Range(q) /\ Range(r) = Range(q) \ {head}
    BY <2>1, <1>7, <1>8, TailRange
  <2>3. Range(q) \subseteq Tasks
    BY <2>1 DEF Range
  <2> QED
    BY <2>1, <2>2, <2>3
<1>10. PICK x : x = [Top EXCEPT !.task = head]
  OBVIOUS
<1>11. x \in Frame /\ x.task = head /\ x.value = Top.value
  BY <1>4, <1>9, <1>10 DEF Frame
<1>12. frames' = Append(Front(frames), x)
  BY <1>6, <1>10
<1>13. /\ frames' \in Seq(Frame) /\ Len(frames') = Len(frames)
       /\ \A i \in 1 .. Len(frames) - 1 : frames'[i] = frames[i]
       /\ frames'[Len(frames)] = x
       /\ Under(frames') = Under(frames)
       /\ TasksIn(frames') = Under(frames) \union {x.task}
       /\ Counted(frames') = Counted(Front(frames)) + x.value
       /\ Counted(Front(frames)) \in Nat
  BY <1>3, <1>11, <1>12, TopChanges
<1>14. Counted(frames) = Counted(Front(frames)) + Top.value /\ Len(frames) \in Nat \ {0}
  BY <1>3, TopIs DEF Top
<1>15. Counted(frames') = Counted(frames) /\ Counted(frames') \in Nat
  BY <1>11, <1>13, <1>14, <1>4 DEF Frame
<1>16. head \notin Running
  BY <1>1, <1>4, <1>9 DEF CallsKept
<1>17. PICK R : R = Running \union {head}
  OBVIOUS
<1>18. Cardinality(R) = Cardinality(Running) + 1 /\ Cardinality(Running) \in Nat
  BY <1>4, <1>16, <1>17, FS_AddElement, FS_CardinalityType
<1>19. TasksIn(frames') \ {NoTask} = R
  BY <1>4, <1>9, <1>11, <1>13, <1>17
<1>20. ran' = reported' + Counted(frames') + Cardinality(R) /\ Cardinality(R) \in Nat
  <2>1. PICK done, k : done = Counted(frames) /\ k = Cardinality(Running)
    OBVIOUS
  <2>2. done \in Nat /\ k \in Nat /\ Counted(frames') = done /\ Cardinality(R) = k + 1
    BY <2>1, <1>15, <1>18
  <2>3. ran = reported + done + k
    BY <2>1, <1>2 DEF CountsAddUp
  <2>4. ran + 1 = reported + done + (k + 1)
    BY <2>2, <2>3, <1>5
  <2> QED
    BY <2>2, <2>4, <1>6
<1>21. size' = size - 1 /\ size # 0
  BY <1>6 DEF Pop
<1>22. size' \in Nat /\ ran' + size' <= MaxRuns /\ ran' \in Nat
  <2>1. MaxRuns \in Nat
    BY LoopAssumption
  <2> QED
    BY <2>1, <1>2, <1>5, <1>6, <1>21
<1>23. /\ Under(frames') \subseteq Tasks \ Range(r)
       /\ Intrusive \subseteq alive' /\ Range(r) \subseteq alive' /\ R \subseteq alive'
       /\ R \intersect Range(r) \subseteq Intrusive /\ alive' \subseteq Tasks
  BY <1>1, <1>2, <1>6, <1>9, <1>13, <1>17 DEF CallsKept, LoopTypeOK
<1>24. ASSUME NEW i \in 1 .. Len(frames'), NEW j \in 1 .. Len(frames'),
              frames'[i].task = frames'[j].task
       PROVE  i = j
  <2>1. \A k \in 1 .. Len(frames) - 1 : frames'[k].task # head /\ frames'[k] = frames[k]
    BY <1>4, <1>13, <1>16 DEF Under
  <2>2. \A k \in 1 .. Len(frames') : k \in 1 .. Len(frames) - 1 \/ k = Len(frames)
    BY <1>13, <1>14
  <2>3. CASE i \in 1 .. Len(frames) - 1 /\ j \in 1 .. Len(frames) - 1
    <3>1. i \in 1 .. Len(frames) /\ j \in 1 .. Len(frames)
      BY <2>3, <1>14
    <3>2. frames[i].task = frames[j].task
      BY <2>1, <2>3, <1>24
    <3> QED
      BY <3>1, <3>2, <1>1 DEF CallsKept
  <2>4. frames'[Len(frames)].task = head
    BY <1>11, <1>13
  <2> QED
    BY <2>1, <2>2, <2>3, <2>4, <1>24
<1>25. /\ head' \in Tasks \union {NoTask} /\ tail' \in Tasks \union {NoTask}
       /\ next' \in [Tasks -> Tasks \union {NoTask}]
  <2>1. /\ head' = next[head] /\ next' = [next EXCEPT ![head] = NoTask]
        /\ tail' = IF head' = NoTask THEN NoTask ELSE tail
    BY <1>6 DEF Pop
  <2>2. tail \in Tasks \union {NoTask}
    BY <1>2 DEF LoopTypeOK
  <2> QED
    BY <2>1, <2>2, <1>5, <1>9
<1> HIDE DEF LoopKept, Listed, CallsKept
<1> QED
  BY <1>5, <1>6, <1>8, <1>13, <1>15, <1>19, <1>20, <1>22, <1>23, <1>24, <1>25, CallsNext

LEMMA RunReturnsKeeps ==
  ASSUME LoopKept, RunReturns
  PROVE  LoopKept'
<1>1. PICK q : Listed(q) /\ CallsKept(q)
  BY DEF LoopKept
<1>2. LoopTypeOK /\ CountsAddUp /\ ran + size <= MaxRuns
  BY DEF LoopKept
<1>3. frames # <<>> /\ Top.task # NoTask /\ frames \in Seq(Frame)
  BY <1>2 DEF RunReturns, InLoop, LoopTypeOK
<1>4. /\ NoTask \notin Tasks /\ IsFiniteSet(Running) /\ Running \subseteq Tasks
      /\ Top \in Frame /\ Running = Under(frames) \union {Top.task}
      /\ Top.task \notin Under(frames)
      /\ Jobs \intersect Intrusive = {}
  BY <1>1, <1>2, <1>3, Calls
<1>5. /\ ran \in Nat /\ reported \in Nat /\ size \in Nat /\ MaxRuns \in Nat /\ Top.value \in Nat
  BY <1>2, <1>4, LoopAssumption DEF LoopTypeOK, Frame
<1>6. /\ frames' = Append(Front(frames), [Top EXCEPT !.task = NoTask, !.value = @ + 1])
      /\ alive' = IF Top.task \in Jobs THEN alive \ {Top.task} ELSE alive
      /\ UNCHANGED <<list, ran, reported>>
  BY DEF RunReturns, WithTop
<1>7. Counted(frames) = Counted(Front(frames)) + Top.value /\ Len(frames) \in Nat \ {0}
  BY <1>3, TopIs DEF Top
<1>8. Counted(Front(frames)) \in Nat
  BY <1>3, <1>4, TopChanges
<1>9. PICK R : R = Under(frames)
  OBVIOUS
<1>10. Cardinality(R) = Cardinality(Running) - 1 /\ Cardinality(R) \in Nat
  <2>1. R = Running \ {Top.task} /\ Top.task \in Running
    BY <1>4, <1>9
  <2>2. /\ Cardinality(R) = IF Top.task \in Running THEN Cardinality(Running) - 1 ELSE Cardinality(Running)
        /\ IsFiniteSet(R)
    BY <2>1, <1>4, FS_RemoveElement
  <2>3. Cardinality(R) \in Nat
    BY <2>2, FS_CardinalityType
  <2> QED
    BY <2>1, <2>2, <2>3
<1>11. ran = reported + Counted(frames) + Cardinality(Running)
  BY <1>2 DEF CountsAddUp
<1>12. Cardinality(Running) \in Nat
  BY <1>4, FS_CardinalityType
<1>13. Top.value + 1 \in 0 .. MaxRuns
  <2>1. PICK value, under, done, k :
          value = Top.value /\ under = Counted(Front(frames)) /\ done = Counted(frames)
          /\ k = Cardinality(R)
    OBVIOUS
  <2>2. /\ value \in Nat /\ under \in Nat /\ k \in Nat /\ done = under + value
        /\ Cardinality(Running) = k + 1
    BY <2>1, <1>5, <1>7, <1>8, <1>10, <1>12
  <2>3. ran = reported + done + (k + 1)
    BY <2>1, <2>2, <1>11
  <2>4. value + 1 \in 0 .. MaxRuns
    BY <2>2, <2>3, <1>2, <1>5
  <2> QED
    BY <2>1, <2>4
<1>14. PICK x : x = [Top EXCEPT !.task = NoTask, !.value = @ + 1]
  OBVIOUS
<1>15. x \in Frame /\ x.task = NoTask /\ x.value = Top.value + 1
  BY <1>4, <1>13, <1>14 DEF Frame
<1>16. frames' = Append(Front(frames), x)
  BY <1>6, <1>14
<1>17. /\ frames' \in Seq(Frame) /\ Len(frames') = Len(frames)
       /\ \A i \in 1 .. Len(frames) - 1 : frames'[i] = frames[i]
       /\ frames'[Len(frames)] = x
       /\ Under(frames') = Under(frames)
       /\ TasksIn(frames') = Under(frames) \union {x.task}
       /\ Counted(frames') = Counted(Front(frames)) + x.value
  BY <1>3, <1>15, <1>16, TopChanges
<1>18. Counted(frames') = Counted(frames) + 1 /\ Counted(frames') \in Nat
  BY <1>5, <1>7, <1>8, <1>15, <1>17
<1>19. TasksIn(frames') \ {NoTask} = R
  BY <1>4, <1>9, <1>15, <1>17
<1>20. /\ head' = head /\ tail' = tail /\ next' = next /\ size' = size
       /\ ran' = ran /\ reported' = reported
  BY <1>6 DEF list
<1>21. ran' = reported' + Counted(frames') + Cardinality(R)
  <2>1. PICK done, later, k : done = Counted(frames) /\ later = Counted(frames') /\ k = Cardinality(R)
    OBVIOUS
  <2>2. /\ done \in Nat /\ later = done + 1 /\ k \in Nat /\ reported \in Nat
        /\ ran = reported + done + (k + 1) /\ ran' = ran /\ reported' = reported
    BY <2>1, <1>5, <1>7, <1>8, <1>10, <1>11, <1>12, <1>18, <1>20, SMTT(30)
  <2>3. ran' = reported' + later + k
    BY <2>2
  <2> QED
    BY <2>1, <2>3
<1>22. Listed(q)'
  BY <1>1, <1>20 DEF Listed
<1>23. /\ Under(frames') \subseteq Tasks \ Range(q)
       /\ Intrusive \subseteq alive' /\ Range(q) \subseteq alive' /\ R \subseteq alive'
       /\ R \intersect Range(q) \subseteq Intrusive /\ alive' \subseteq Tasks
  <2>1. Top.task \in Jobs => Top.task \notin Range(q) /\ Top.task \notin R /\ Top.task \notin Intrusive
    BY <1>1, <1>4, <1>9 DEF CallsKept
  <2> QED
    BY <2>1, <1>1, <1>2, <1>4, <1>6, <1>9, <1>17 DEF CallsKept, LoopTypeOK
<1>24. ASSUME NEW i \in 1 .. Len(frames'), NEW j \in 1 .. Len(frames'),
              frames'[i].task = frames'[j].task
       PROVE  i = j
  <2>1. \A k \in 1 .. Len(frames) - 1 : frames'[k].task # NoTask /\ frames'[k] = frames[k]
    BY <1>1, <1>4, <1>17 DEF Under, CallsKept
  <2>2. \A k \in 1 .. Len(frames') : k \in 1 .. Len(frames) - 1 \/ k = Len(frames)
    BY <1>7, <1>17
  <2>3. CASE i \in 1 .. Len(frames) - 1 /\ j \in 1 .. Len(frames) - 1
    <3>1. i \in 1 .. Len(frames) /\ j \in 1 .. Len(frames)
      BY <2>3, <1>7
    <3>2. frames[i].task = frames[j].task
      BY <2>1, <2>3, <1>24
    <3> QED
      BY <3>1, <3>2, <1>1 DEF CallsKept
  <2>4. frames'[Len(frames)].task = NoTask
    BY <1>15, <1>17
  <2> QED
    BY <2>1, <2>2, <2>3, <2>4, <1>24
<1>25. /\ head \in Tasks \union {NoTask} /\ tail \in Tasks \union {NoTask}
       /\ next \in [Tasks -> Tasks \union {NoTask}]
  BY <1>2 DEF LoopTypeOK
<1> HIDE DEF LoopKept, Listed, CallsKept
<1> QED
  BY <1>2, <1>5, <1>10, <1>17, <1>18, <1>19, <1>20, <1>21, <1>22, <1>23, <1>24, <1>25, CallsNext

LEMMA CallReturnsKeeps ==
  ASSUME LoopKept, CallReturns
  PROVE  LoopKept'
<1>1. PICK q : Listed(q) /\ CallsKept(q)
  BY DEF LoopKept
<1>2. LoopTypeOK /\ CountsAddUp /\ ran + size <= MaxRuns
  BY DEF LoopKept
<1>3. frames # <<>> /\ Top.task = NoTask /\ frames \in Seq(Frame)
  BY <1>2 DEF CallReturns, InLoop, LoopTypeOK
<1>4. /\ NoTask \notin Tasks /\ IsFiniteSet(Running) /\ Running \subseteq Tasks
      /\ Top \in Frame /\ Running = Under(frames)
  BY <1>1, <1>2, <1>3, Calls
<1>5. /\ ran \in Nat /\ reported \in Nat /\ size \in Nat /\ Top.value \in Nat
  BY <1>2, <1>4, LoopAssumption DEF LoopTypeOK, Frame
<1>6. frames' = Front(frames) /\ reported' = reported + Top.value /\ UNCHANGED <<list, alive, ran>>
  BY DEF CallReturns
<1>7. /\ Counted(frames) = Counted(Front(frames)) + Top.value /\ Len(frames) \in Nat \ {0}
  BY <1>3, TopIs DEF Top
<1>8. Counted(Front(frames)) \in Nat /\ TasksIn(Front(frames)) = Under(frames)
  BY <1>3, <1>4, TopChanges
<1>9. /\ frames' \in Seq(Frame) /\ Len(frames') = Len(frames) - 1
      /\ \A i \in 1 .. Len(frames) - 1 : frames'[i] = frames[i]
  BY <1>3, <1>6, FrontAndLast
<1>10. PICK R : R = Running
  OBVIOUS
<1>11. TasksIn(frames') \ {NoTask} = R
  BY <1>4, <1>6, <1>8, <1>10
<1>12. Under(frames') \subseteq Under(frames)
  BY <1>7, <1>9 DEF Under
<1>13. Cardinality(R) \in Nat /\ ran = reported + Counted(frames) + Cardinality(R)
  BY <1>2, <1>4, <1>10, FS_CardinalityType DEF CountsAddUp
<1>14. /\ head' = head /\ tail' = tail /\ next' = next /\ size' = size
       /\ ran' = ran /\ alive' = alive
  BY <1>6 DEF list
<1>15. /\ ran' = reported' + Counted(frames') + Cardinality(R)
       /\ Counted(frames') \in Nat /\ reported' \in Nat
  BY <1>5, <1>6, <1>7, <1>8, <1>13
<1>16. Listed(q)'
  BY <1>1, <1>14 DEF Listed
<1>17. /\ Under(frames') \subseteq Tasks \ Range(q)
       /\ Intrusive \subseteq alive /\ Range(q) \subseteq alive /\ R \subseteq alive
       /\ R \intersect Range(q) \subseteq Intrusive /\ alive \subseteq Tasks
  BY <1>1, <1>2, <1>10, <1>12 DEF CallsKept, LoopTypeOK
<1>18. ASSUME NEW i \in 1 .. Len(frames'), NEW j \in 1 .. Len(frames'),
              frames'[i].task = frames'[j].task
       PROVE  i = j
  <2>1. /\ i \in 1 .. Len(frames) /\ j \in 1 .. Len(frames)
        /\ frames'[i] = frames[i] /\ frames'[j] = frames[j]
    BY <1>7, <1>9
  <2> QED
    BY <2>1, <1>1, <1>18 DEF CallsKept
<1>19. /\ head \in Tasks \union {NoTask} /\ tail \in Tasks \union {NoTask}
       /\ next \in [Tasks -> Tasks \union {NoTask}]
  BY <1>2 DEF LoopTypeOK
<1> HIDE DEF LoopKept, Listed, CallsKept
<1> QED
  BY <1>2, <1>5, <1>9, <1>11, <1>13, <1>14, <1>15, <1>16, <1>17, <1>18, <1>19, CallsNext

LEMMA LoopStart == LoopInit => LoopKept
<1> SUFFICES ASSUME LoopInit PROVE LoopKept
  OBVIOUS
<1>1. /\ head = NoTask /\ tail = NoTask /\ size = 0 /\ next = [t \in Tasks |-> NoTask]
      /\ alive = Intrusive /\ frames = <<>> /\ ran = 0 /\ reported = 0
  BY DEF LoopInit
<1>2. MaxRuns \in Nat
  BY LoopAssumption
<1>3. LoopTypeOK
  BY <1>1, <1>2 DEF LoopTypeOK, Tasks
<1>4. Running = {} /\ Under(frames) = {}
  BY <1>1 DEF Running, Under
<1>5. CountsAddUp
  BY <1>1, <1>4, CountedNone, FS_EmptySet DEF CountsAddUp
<1>6. Range(<<>>) = {}
  BY DEF Range
<1>7. Listed(<<>>)
  BY <1>1, <1>6 DEF Listed, NoDuplicates
<1>8. CallsKept(<<>>)
  BY <1>1, <1>4, <1>6 DEF CallsKept
<1>9. \E q : Listed(q) /\ CallsKept(q)
  BY <1>7, <1>8
<1> QED
  BY <1>1, <1>2, <1>3, <1>5, <1>9 DEF LoopKept

LEMMA LoopKeptAlways == LoopSpec => []LoopKept
<1>1. ASSUME LoopKept, [LoopNext]_loopVars PROVE LoopKept'
  <2>1. ASSUME UNCHANGED loopVars PROVE LoopKept'
    <3>1. /\ head' = head /\ tail' = tail /\ size' = size /\ next' = next /\ alive' = alive
          /\ frames' = frames /\ ran' = ran /\ reported' = reported
      BY <2>1 DEF loopVars, list
    <3>2. PICK q : Listed(q) /\ CallsKept(q)
      BY <1>1 DEF LoopKept
    <3>3. Listed(q)'
      BY <3>1, <3>2 DEF Listed
    <3>4. CallsKept(q)'
      BY <3>1, <3>2 DEF CallsKept, Running
    <3>5. LoopTypeOK' /\ CountsAddUp' /\ ran' + size' <= MaxRuns
      BY <1>1, <3>1 DEF LoopKept, LoopTypeOK, CountsAddUp, Running
    <3> QED
      BY <3>3, <3>4, <3>5 DEF LoopKept
  <2> QED
    BY <1>1, <2>1, SubmitJobKeeps, SubmitIntrusiveKeeps, CallKeeps, IterateKeeps,
       RunReturnsKeeps, CallReturnsKeeps DEF LoopNext
<1> QED
  BY <1>1, LoopStart, PTL DEF LoopSpec

\* Whatever tasks submit, and however deep they call the loop from inside: the
\* intrusive list's head, links, tail and size agree, a task that runs exists and
\* is run by one call, and each task run is counted by exactly one call.
THEOREM LoopHolds == LoopSpec => []LoopInv
<1>1. ASSUME LoopKept PROVE LoopInv
  <2>1. PICK q : Listed(q) /\ CallsKept(q)
    BY <1>1 DEF LoopKept
  <2>2. LoopTypeOK /\ CountsAddUp
    BY <1>1 DEF LoopKept
  <2>3. Line = q
    BY <2>1, LineIsFound
  <2>4. q \in Seq(Tasks) /\ Len(q) \in Nat /\ size = Len(q) /\ DOMAIN q = 1 .. Len(q)
    BY <2>1 DEF Listed
  <2>5. ListIsSound
    <3>1. Range(q) \subseteq alive /\ IsInjective(q)
      BY <2>1 DEF Listed, CallsKept, NoDuplicates, IsInjective
    <3>2. IF size = 0 THEN head = NoTask /\ tail = NoTask ELSE tail = Last(q)
      BY <2>1, <2>4 DEF Listed, Last
    <3>3. ASSUME NEW t \in Tasks, t \notin Range(q) \/ t = tail PROVE next[t] = NoTask
      <4>1. CASE t \notin Range(q)
        BY <2>1, <4>1 DEF Listed
      <4>2. CASE t \in Range(q) /\ t = tail
        <5>1. q # <<>> /\ Len(q) \in 1 .. Len(q) /\ t = q[Len(q)]
          BY <2>1, <2>4, <4>2 DEF Listed, Range
        <5> QED
          BY <5>1, <2>1, <2>4 DEF Listed
      <4> QED
        BY <3>3, <4>1, <4>2
    <3> QED
      BY <3>1, <3>2, <3>3, <2>3 DEF ListIsSound
  <2>6. RunningExist
    <3>1. ASSUME NEW t \in Running PROVE Cardinality({i \in DOMAIN frames : frames[i].task = t}) = 1
      <4>1. PICK i \in DOMAIN frames : frames[i].task = t
        BY <3>1 DEF Running
      <4>2. frames \in Seq(Frame) /\ DOMAIN frames = 1 .. Len(frames)
        BY <2>2 DEF LoopTypeOK
      <4>3. {j \in DOMAIN frames : frames[j].task = t} = {i}
        BY <2>1, <4>1, <4>2 DEF CallsKept
      <4> QED
        BY <4>3, FS_Singleton
    <3> QED
      BY <3>1, <2>1, <2>3 DEF RunningExist, CallsKept
  <2> QED
    BY <2>2, <2>5, <2>6 DEF LoopInv
<1> QED
  BY <1>1, LoopKeptAlways, PTL

\* The list is a queue, whichever of the calls inside one another takes from it:
\* tasks run in the order in which they were submitted.
THEOREM RunsInOrder == LoopSpec => InOrder
<1>1. ASSUME LoopKept, LoopNext
      PROVE  \/ Line' = Line
             \/ \E t \in Tasks : Line' = Append(Line, t)
             \/ Line # <<>> /\ Line' = Tail(Line) /\ ran' = ran + 1
  <2>1. PICK q : Listed(q) /\ CallsKept(q)
    BY <1>1 DEF LoopKept
  <2>2. Line = q
    BY <2>1, LineIsFound
  <2>3. LoopTypeOK /\ NoTask \notin Tasks /\ next \in [Tasks -> Tasks \union {NoTask}]
    BY <1>1, LoopAssumption DEF LoopKept, LoopTypeOK, Tasks
  <2>4. ASSUME NEW t \in Tasks, t \notin Range(q), Push(t)
        PROVE  Line' = Append(Line, t)
    <3>1. Listed(Append(q, t))'
      BY <2>1, <2>3, <2>4, ListPushes
    <3> QED
      BY <3>1, <2>2, LineIsFoundNext
  <2>5. ASSUME NEW t \in Tasks, SubmitJob(t) \/ SubmitIntrusive(t)
        PROVE  Line' = Append(Line, t)
    <3>1. t \notin Range(q) /\ Push(t)
      BY <2>1, <2>2, <2>5 DEF SubmitJob, SubmitIntrusive, CallsKept
    <3> QED
      BY <3>1, <2>4
  <2>6. ASSUME Iterate PROVE Line # <<>> /\ Line' = Tail(Line) /\ ran' = ran + 1
    <3>1. q # <<>> /\ Listed(Tail(q))'
      BY <2>1, <2>3, <2>6, ListPops DEF Iterate
    <3> QED
      BY <3>1, <2>2, <2>6, LineIsFoundNext DEF Iterate
  <2>7. ASSUME UNCHANGED list PROVE Line' = Line
    BY <2>7 DEF list, Line, Link
  <2> QED
    BY <1>1, <2>5, <2>6, <2>7 DEF LoopNext, Call, RunReturns, CallReturns
<1>2. ASSUME LoopKept, [LoopNext]_loopVars
      PROVE  [\/ Line' = Line
              \/ \E t \in Tasks : Line' = Append(Line, t)
              \/ Line # <<>> /\ Line' = Tail(Line) /\ ran' = ran + 1]_loopVars
  BY <1>1, <1>2
<1> QED
  BY <1>2, LoopKeptAlways, PTL DEF LoopSpec, InOrder
=============================================================================
