------------------------ MODULE FiberWaitGroupProofs ------------------------
(***************************************************************************)
(* Proofs about FiberWaitGroup for any fibers, any workers and any         *)
(* MaxCount.                                                               *)
(*                                                                         *)
(* The argument: a Done that pops has left[f] > 0 waiters to pop, and that *)
(* is the number of fibers in Wait that nobody has popped.  So somebody is *)
(* in Wait, nobody may start a round, and the count stays 0 until the Done *)
(* is through: no second Done comes to pop, and nobody it wakes waits      *)
(* again.  The three rest on each other and are one invariant, Rounds.     *)
(***************************************************************************)
EXTENDS FiberWaitGroup, FiberRuntimeProofs, FiniteSetTheorems

\* A Done has something left to pop exactly while it pops.
Pops == \A f \in Fibers : pc[f] \in Popping <=> left[f] # 0

LEMMA CallType ==
  ASSUME TypeOK, Pops, NEW w \in Workers,
         Done(w) \/ Wait(w) \/ PopEmpty(w) \/ DrainEnds(w) \/ Repop(w) \/ DoneReturns(w)
  PROVE  TypeOK' /\ Pops'
<1> DEFINE f == running[w]
<1>1. RuntimeTypeOK' /\ awaiter' = awaiter /\ UNCHANGED <<first, second, node>>
  BY DEF runtime, TypeOK, RuntimeTypeOK, Done, Wait, PopEmpty, DrainEnds, Repop, DoneReturns
<1>2. f \in Fibers
  BY DEF TypeOK, RuntimeTypeOK, Done, Wait, PopEmpty, DrainEnds, Repop, DoneReturns, Goto, At
<1>3. CASE Done(w)
  <2>1. count' \in 0 .. MaxCount
    BY <1>3, MaxCountAssumption DEF Done, TypeOK
  <2>2. CASE count = 1 /\ waiters # 0
    <3>1. /\ pc' = [pc EXCEPT ![f] = "pop"] /\ left' = [left EXCEPT ![f] = waiters]
          /\ waiters' = 0 /\ waiters \in Nat \ {0}
      BY <1>3, <2>2 DEF Done, Goto, TypeOK
    <3>2. left' \in [Fibers -> Nat] /\ pc' \in [Fibers -> Labels] /\ Pops'
      BY <1>2, <3>1 DEF TypeOK, Labels, Popping, Pops
    <3> QED
      BY <1>1, <2>1, <3>1, <3>2 DEF TypeOK
  <2>3. CASE ~(count = 1 /\ waiters # 0)
    BY <1>1, <1>3, <2>1, <2>3 DEF Done, Pops, TypeOK
  <2> QED
    BY <2>2, <2>3
<1>4. CASE ~Done(w)
  <2>1. /\ count' = count /\ left' = left /\ waiters' \in Nat
        /\ \E to \in Labels : /\ pc' = [pc EXCEPT ![f] = to]
                              /\ to \in Popping <=> pc[f] \in Popping
    <3>1. UNCHANGED <<count, left>>
      BY <1>4 DEF Wait, PopEmpty, DrainEnds, Repop, DoneReturns
    <3>2. CASE Wait(w)
      BY <3>1, <3>2 DEF Wait, Goto, At, TypeOK, Labels, InWait, Popping
    <3>3. CASE PopEmpty(w) \/ DrainEnds(w) \/ Repop(w) \/ DoneReturns(w)
      BY <3>1, <3>3 DEF PopEmpty, DrainEnds, Repop, DoneReturns, Goto, At, TypeOK, Labels, Popping
    <3> QED
      BY <1>4, <3>2, <3>3
  <2>2. pc' \in [Fibers -> Labels] /\ Pops'
    BY <1>2, <2>1 DEF TypeOK, Pops
  <2> QED
    BY <1>1, <2>1, <2>2 DEF TypeOK
<1> QED
  BY <1>3, <1>4

LEMMA DrainType ==
  ASSUME TypeOK, Pops, NEW w \in Workers, Drain(w)
  PROVE  TypeOK' /\ Pops'
<1>1. Head(second) \in Fibers /\ Tail(second) \in Seq(Fibers)
  BY DEF Drain, TypeOK
<1>2. first' \in Seq(Fibers) /\ second' \in Seq(Fibers)
  BY <1>1 DEF Drain, TypeOK
<1> QED
  BY <1>2 DEF Drain, TypeOK, Pops, runtime, RuntimeTypeOK

LEMMA CollectType ==
  ASSUME TypeOK, Pops, NEW w \in Workers, Collect(w)
  PROVE  TypeOK' /\ Pops'
<1> DEFINE f == running[w]
<1>1. /\ f \in Fibers /\ pc[f] \in {"pop", "repop"}
      /\ pc' = [pc EXCEPT ![f] = IF left[f] = 1 THEN "wake" ELSE "pop"]
      /\ left' = [left EXCEPT ![f] = @ - 1]
      /\ node' = [node EXCEPT ![f] = Append(@, Head(first))]
      /\ first # <<>> /\ first' = Tail(first)
      /\ UNCHANGED <<runtime, waiters, count, second>>
  BY DEF Collect, Goto, At, TypeOK, RuntimeTypeOK
<1>2. left[f] \in Nat \ {0}
  BY <1>1 DEF TypeOK, Pops, Popping
<1>3. Head(first) \in Fibers /\ first' \in Seq(Fibers)
  BY <1>1 DEF TypeOK
<1>4. node' \in [Fibers -> Seq(Fibers)]
  <2>1. node \in [Fibers -> Seq(Fibers)] /\ node[f] \in Seq(Fibers)
    BY <1>1 DEF TypeOK
  <2>2. Append(node[f], Head(first)) \in Seq(Fibers)
    BY <1>3, <2>1
  <2> QED
    BY <1>1, <2>1, <2>2, Zenon
<1>5. left' \in [Fibers -> Nat] /\ pc' \in [Fibers -> Labels]
  <2>1. left[f] - 1 \in Nat
    BY <1>2
  <2> QED
    BY <1>1, <2>1 DEF TypeOK, Labels, Popping
<1>6. Pops'
  BY <1>1, <1>2 DEF TypeOK, Pops, Popping
<1> QED
  BY <1>1, <1>3, <1>4, <1>5, <1>6 DEF TypeOK, runtime, RuntimeTypeOK

LEMMA WakeNextType ==
  ASSUME TypeOK, Pops, NEW w \in Workers, WakeNext(w),
         pc[Head(node[running[w]])] = "wait"
  PROVE  TypeOK' /\ Pops'
<1> DEFINE f == running[w]
<1>1. f \in Fibers /\ node[f] \in Seq(Fibers) /\ node[f] # <<>>
  BY DEF TypeOK, RuntimeTypeOK, WakeNext, At
<1>2. Head(node[f]) \in Fibers /\ Tail(node[f]) \in Seq(Fibers)
  BY <1>1
<1>3. runq' \in Seq(Fibers)
  BY <1>2, ScheduleType DEF TypeOK, WakeNext
<1>4. /\ pc' = [pc EXCEPT ![Head(node[f])] = "again"] /\ node' = [node EXCEPT ![f] = Tail(@)]
      /\ UNCHANGED <<running, after, awaiter, coro, waiters, count, first, second, left>>
  BY DEF WakeNext
<1>5. node' \in [Fibers -> Seq(Fibers)]
  <2>1. node \in [Fibers -> Seq(Fibers)]
    BY DEF TypeOK
  <2> QED
    BY <1>2, <1>4, <2>1, Zenon
<1>6. pc' \in [Fibers -> Labels] /\ Pops'
  BY <1>2, <1>4 DEF TypeOK, Pops, Labels, InWait, Popping
<1> QED
  BY <1>3, <1>4, <1>5, <1>6 DEF TypeOK, RuntimeTypeOK

LEMMA WaitSuspendsType ==
  ASSUME TypeOK, Pops, NEW w \in Workers, SuspendInWait(w)
  PROVE  TypeOK' /\ Pops'
<1>1. RuntimeTypeOK'
  BY SuspendType DEF TypeOK, SuspendInWait
<1> QED
  BY <1>1 DEF TypeOK, RuntimeTypeOK, SuspendInWait, Suspend, Goto, At, Labels, InWait, Popping, Pops

LEMMA AwaiterType ==
  ASSUME TypeOK, Pops, NEW w \in Workers, RunWGAwaiter(w)
  PROVE  TypeOK' /\ Pops'
<1>1. after[w] \in Fibers
  BY DEF TypeOK, RuntimeTypeOK, RunWGAwaiter, RunsAwaiter
<1>2. RuntimeTypeOK'
  BY TakeAwaiterType DEF TypeOK, RuntimeTypeOK, RunWGAwaiter
<1>3. second' \in Seq(Fibers)
  BY <1>1 DEF TypeOK, RunWGAwaiter
<1> QED
  BY <1>1, <1>2, <1>3 DEF TypeOK, RunWGAwaiter, TakeAwaiter, Pops

LEMMA RuntimeStepType ==
  ASSUME TypeOK, Pops, UNCHANGED group,
         \/ \E f \in Fibers : Go(f)
         \/ \E w \in Workers : \/ Resume(w) \/ Reap(w) \/ RunYield(w)
                               \/ Suspend(w, "yield") \/ Complete(w)
  PROVE  TypeOK' /\ Pops'
<1>1. RuntimeTypeOK'
  BY GoType, ResumeType, ReapType, RunYieldType, SuspendType, CompleteType DEF TypeOK
<1>2. awaiter' \in [Fibers -> {None, "yield", "waitgroup"}]
  BY DEF TypeOK, RuntimeTypeOK, Go, Resume, Reap, RunYield, RunsAwaiter, TakeAwaiter,
         Suspend, Complete
<1> QED
  BY <1>1, <1>2 DEF TypeOK, group, Pops

LEMMA AddType ==
  ASSUME TypeOK, Pops, NEW n \in 1 .. MaxCount, Add(n)
  PROVE  TypeOK' /\ Pops'
  BY MaxCountAssumption DEF TypeOK, Pops, Add, runtime, RuntimeTypeOK
-----------------------------------------------------------------------------
\* The fibers in the waiter queue and in the lists of fibers in Done, each there
\* once.
Queued == Range(first) \union Range(second)

Collected == UNION {Range(node[f]) : f \in Fibers}

Parked == Queued \union Collected

ParkedOnce ==
  /\ NoDuplicates(first) /\ NoDuplicates(second) /\ \A f \in Fibers : NoDuplicates(node[f])
  /\ Range(first) \intersect Range(second) = {} /\ Queued \intersect Collected = {}
  /\ \A f, g \in Fibers : f # g => Range(node[f]) \intersect Range(node[g]) = {}

GroupAwaiters == {"yield", "waitgroup"}

\* Where a fiber in Wait can be: on a thread on its way into the queue, or
\* parked; and nobody else is there.
Waiters ==
  /\ \A f \in Fibers : pc[f] = "suspend" => \E w \in Workers : running[w] = f
  /\ \A f \in Fibers : pc[f] = "wait" =>
       f \in Parked \/ \E w \in Workers : after[w] = f /\ RunsAwaiter(w, "waitgroup")
  /\ \A f \in Fibers : awaiter[f] = "waitgroup" \/ f \in Parked => pc[f] = "wait"

GroupInPlace == ParkedOnce /\ InPlace(Parked, GroupAwaiters) /\ Waiters

\* What one step of FiberWaitGroup is for the fibers and the queue.
ParkingStep == ParkedOnce' /\ ProtocolStep(Parked, Parked', GroupAwaiters)

LEMMA ParkedRests ==
  ASSUME ParkedOnce, UNCHANGED <<first, second, node>>
  PROVE  ParkedOnce' /\ Parked' = Parked
  BY DEF ParkedOnce, Parked, Queued, Collected

LEMMA AwaiterParks ==
  ASSUME TypeOK, GroupInPlace, NEW w \in Workers, RunWGAwaiter(w)
  PROVE  ParkingStep /\ Parked' = Parked \union {after[w]}
<1>1. RunsAwaiter(w, "waitgroup") /\ TakeAwaiter(w) /\ UNCHANGED <<runq, first, node>>
  BY DEF RunWGAwaiter
<1>2. after[w] \in Fibers /\ after[w] \notin Parked
  BY <1>1, WaitGroupAssumption
     DEF RunsAwaiter, TypeOK, RuntimeTypeOK, GroupInPlace, InPlace, Shows, Reachable
<1>3. second \in Seq(Fibers) /\ second' = <<after[w]>> \o second
  BY DEF RunWGAwaiter, TypeOK
<1>4. /\ Range(second') = Range(second) \union {after[w]}
      /\ NoDuplicates(second) /\ after[w] \notin Range(second) => NoDuplicates(second')
  BY <1>2, <1>3, PrependRange
<1>5. Collected' = Collected /\ Queued' = Queued \union {after[w]}
  BY <1>1, <1>4 DEF Collected, Queued
<1>6. ParkedOnce' /\ Parked' = Parked \union {after[w]}
  BY <1>1, <1>2, <1>4, <1>5 DEF GroupInPlace, ParkedOnce, Parked, Queued
<1> QED
  BY <1>1, <1>6 DEF ParkingStep, ProtocolStep, GroupAwaiters

LEMMA DrainTurnsOver ==
  ASSUME TypeOK, GroupInPlace, NEW w \in Workers, Drain(w)
  PROVE  ParkingStep /\ Parked' = Parked
<1>1. /\ second \in Seq(Fibers) /\ second # <<>> /\ first \in Seq(Fibers)
      /\ first' = <<Head(second)>> \o first /\ second' = Tail(second) /\ node' = node
      /\ UNCHANGED runtime
  BY DEF Drain, TypeOK
<1>2. NoDuplicates(second) /\ NoDuplicates(first) /\ Range(first) \intersect Range(second) = {}
  BY DEF GroupInPlace, ParkedOnce
<1>3. /\ Head(second) \in Range(second) /\ Range(second') = Range(second) \ {Head(second)}
      /\ NoDuplicates(second')
  BY <1>1, <1>2, TailRange
<1>4. Head(second) \in Fibers
  BY <1>1
<1>5. /\ Range(first') = Range(first) \union {Head(second)}
      /\ Head(second) \notin Range(first) => NoDuplicates(first')
  BY <1>1, <1>2, <1>4, PrependRange
<1>6. Collected' = Collected /\ Queued' = Queued
  BY <1>1, <1>3, <1>5 DEF Collected, Queued
<1>7. ParkedOnce' /\ Parked' = Parked
  BY <1>1, <1>2, <1>3, <1>5, <1>6 DEF GroupInPlace, ParkedOnce, Parked
<1> QED
  BY <1>1, <1>7 DEF ParkingStep, ProtocolStep

LEMMA CollectMoves ==
  ASSUME TypeOK, GroupInPlace, NEW w \in Workers, Collect(w)
  PROVE  /\ ParkingStep /\ Parked' = Parked
         /\ Head(first) \in Queued /\ Collected' = Collected \union {Head(first)}
<1> DEFINE f == running[w]
           h == Head(first)
<1>1. /\ f \in Fibers /\ first # <<>> /\ first \in Seq(Fibers) /\ first' = Tail(first)
      /\ node' = [node EXCEPT ![f] = Append(@, h)] /\ second' = second
      /\ UNCHANGED runtime
  BY DEF Collect, Goto, At, TypeOK, RuntimeTypeOK
<1>2. node \in [Fibers -> Seq(Fibers)] /\ node[f] \in Seq(Fibers) /\ ParkedOnce
  BY <1>1 DEF GroupInPlace, TypeOK
<1>3. /\ h \in Range(first) /\ Range(first') = Range(first) \ {h}
      /\ NoDuplicates(first')
  BY <1>1, <1>2, TailRange DEF ParkedOnce
<1>4. h \in Fibers /\ h \notin Collected /\ h \notin Range(second) /\ h \in Queued
  BY <1>1, <1>2, <1>3 DEF ParkedOnce, Queued
<1>5. \A g \in Fibers : h \notin Range(node[g])
  BY <1>4 DEF Collected
<1>6. node'[f] = Append(node[f], h) /\ \A g \in Fibers : g # f => node'[g] = node[g]
  BY <1>1, <1>2
<1>7. Range(node'[f]) = Range(node[f]) \union {h} /\ NoDuplicates(node'[f])
  BY <1>1, <1>2, <1>4, <1>5, <1>6, AppendRange DEF ParkedOnce
<1>8. Collected' = Collected \union {h} /\ Queued' = Queued \ {h}
  <2>1. Collected' = UNION {Range(node'[g]) : g \in Fibers}
    BY DEF Collected
  <2>2. Collected' = Collected \union {h}
    BY <1>1, <1>6, <1>7, <2>1 DEF Collected
  <2> QED
    BY <1>1, <1>3, <1>4, <2>2 DEF Queued
<1>9. Parked' = Parked
  BY <1>4, <1>8 DEF Parked
<1>10. ParkedOnce'
  <2>1. \A g \in Fibers : NoDuplicates(node'[g])
    BY <1>2, <1>6, <1>7 DEF ParkedOnce
  <2>2. \A g, k \in Fibers : g # k => Range(node'[g]) \intersect Range(node'[k]) = {}
    <3> SUFFICES ASSUME NEW g \in Fibers, NEW k \in Fibers, g # k
                 PROVE  Range(node'[g]) \intersect Range(node'[k]) = {}
      OBVIOUS
    <3>1. /\ Range(node[g]) \intersect Range(node[k]) = {}
          /\ h \notin Range(node[g]) /\ h \notin Range(node[k])
      BY <1>2, <1>5 DEF ParkedOnce
    <3>2. CASE g = f
      BY <1>6, <1>7, <3>1, <3>2
    <3>3. CASE g # f /\ k = f
      BY <1>6, <1>7, <3>1, <3>3
    <3>4. CASE g # f /\ k # f
      BY <1>6, <3>1, <3>4
    <3> QED
      BY <3>2, <3>3, <3>4
  <2> QED
    BY <1>1, <1>2, <1>3, <1>8, <2>1, <2>2 DEF ParkedOnce
<1> QED
  BY <1>1, <1>4, <1>8, <1>9, <1>10 DEF ParkingStep, ProtocolStep

LEMMA WakeNextTakesOne ==
  ASSUME TypeOK, GroupInPlace, NEW w \in Workers, WakeNext(w)
  PROVE  /\ ParkingStep
         /\ Head(node[running[w]]) \in Collected
         /\ Collected' = Collected \ {Head(node[running[w]])}
         /\ Parked' = Parked \ {Head(node[running[w]])}
<1> DEFINE f == running[w]
           h == Head(node[f])
<1>1. /\ f \in Fibers /\ node[f] # <<>> /\ node' = [node EXCEPT ![f] = Tail(@)]
      /\ UNCHANGED <<first, second>>
      /\ Schedule(h) /\ UNCHANGED <<running, after, awaiter, coro>>
  BY DEF WakeNext, At, TypeOK, RuntimeTypeOK
<1>2. node \in [Fibers -> Seq(Fibers)] /\ node[f] \in Seq(Fibers) /\ ParkedOnce
  BY <1>1 DEF GroupInPlace, TypeOK
<1>3. /\ h \in Range(node[f]) /\ Range(Tail(node[f])) = Range(node[f]) \ {h}
      /\ NoDuplicates(Tail(node[f]))
  BY <1>1, <1>2, TailRange DEF ParkedOnce
<1>4. node'[f] = Tail(node[f]) /\ \A g \in Fibers : g # f => node'[g] = node[g]
  BY <1>1, <1>2
<1>5. \A g \in Fibers : g # f => h \notin Range(node[g])
  BY <1>1, <1>2, <1>3 DEF ParkedOnce
<1>6. \A g \in Fibers : Range(node'[g]) = Range(node[g]) \ {h}
  BY <1>3, <1>4, <1>5
<1>7. h \in Collected /\ Collected' = Collected \ {h} /\ Queued' = Queued
  <2>1. h \in Collected
    BY <1>1, <1>3 DEF Collected
  <2>2. Collected' = UNION {Range(node'[g]) : g \in Fibers}
    BY DEF Collected
  <2>3. Collected' = Collected \ {h}
    BY <1>6, <2>1, <2>2 DEF Collected
  <2>4. Queued' = Queued
    BY <1>1 DEF Queued
  <2> QED
    BY <2>1, <2>3, <2>4
<1>8. h \in Parked /\ Parked' = Parked \ {h}
  BY <1>2, <1>7 DEF Parked, ParkedOnce
<1>9. ParkedOnce'
  <2>1. \A g \in Fibers : NoDuplicates(node'[g])
    BY <1>2, <1>3, <1>4 DEF ParkedOnce
  <2> QED
    BY <1>1, <1>2, <1>6, <1>7, <2>1 DEF ParkedOnce
<1> QED
  BY <1>1, <1>7, <1>8, <1>9 DEF ParkingStep, ProtocolStep

LEMMA StepsOfTheGroup ==
  ASSUME TypeOK, GroupInPlace, [Next]_vars
  PROVE  ParkingStep
<1> USE ParkedRests DEF ParkingStep, ProtocolStep, GroupInPlace, group
<1>1. ASSUME NEW f \in Fibers, Start(f) PROVE ParkingStep
  BY <1>1 DEF Start
<1>2. ASSUME NEW w \in Workers, OnWorker(w) PROVE ParkingStep
  <2>1. CASE (Resume(w) \/ Reap(w) \/ RunYield(w)) /\ UNCHANGED group
    BY <2>1
  <2> QED
    BY <1>2, <2>1, AwaiterParks DEF OnWorker
<1>3. ASSUME NEW w \in Workers, OnFiber(w) PROVE ParkingStep
  <2>1. CASE Done(w) \/ Wait(w) \/ PopEmpty(w) \/ DrainEnds(w) \/ Repop(w) \/ DoneReturns(w)
    <3>1. UNCHANGED <<runtime, first, second, node>>
      BY <2>1 DEF Done, Wait, PopEmpty, DrainEnds, Repop, DoneReturns
    <3> QED
      BY <3>1
  <2>2. CASE SuspendInWait(w)
    BY <2>2 DEF SuspendInWait, GroupAwaiters
  <2>3. CASE Leave(w)
    BY <2>3 DEF Leave, Yield, Finish, GroupAwaiters
  <2> QED
    BY <1>3, <2>1, <2>2, <2>3, CollectMoves, DrainTurnsOver, WakeNextTakesOne
       DEF OnFiber, InTryPop
<1>4. ASSUME NEW n \in 1 .. MaxCount, Add(n) PROVE ParkingStep
  BY <1>4 DEF Add
<1>5. CASE UNCHANGED vars
  BY <1>5 DEF vars
<1> QED
  BY <1>1, <1>2, <1>3, <1>4, <1>5 DEF Next

LEMMA WaitersStay ==
  ASSUME TypeOK, GroupInPlace, NEW w \in Workers, OnFiber(w) \/ OnWorker(w)
  PROVE  Waiters'
<1> DEFINE f == running[w]
<1> USE DEF Waiters, RunsAwaiter
<1>0. /\ running \in [Workers -> Fibers \union {None}]
      /\ after \in [Workers -> Fibers \union {None}] /\ coro \in [Fibers -> CoroStates]
      /\ awaiter \in [Fibers -> {None, "yield", "waitgroup"}] /\ pc \in [Fibers -> Labels]
      /\ None \notin Fibers \union {"yield", "waitgroup"}
  BY WaitGroupAssumption DEF TypeOK, RuntimeTypeOK
<1>1. /\ Waiters
      /\ \A v \in Workers : running[v] # None =>
           awaiter[running[v]] = None /\ running[v] \notin Parked /\ after[v] = None
      /\ \A g \in Parked : awaiter[g] = None
      /\ \A u, v \in Workers : after[u] = after[v] /\ after[u] # None => u = v
      /\ \A u, v \in Workers : running[u] = running[v] /\ running[u] # None => u = v
      /\ \A u, v \in Workers : running[u] = after[v] => running[u] = None
  BY <1>0 DEF GroupInPlace, InPlace, Shows, Reachable, Apart
<1>2. CASE Done(w) \/ Wait(w) \/ InTryPop(w) \/ DoneReturns(w)
  <2>1. Parked' = Parked /\ UNCHANGED <<running, after, awaiter, coro>>
    <3>1. CASE Done(w) \/ Wait(w) \/ PopEmpty(w) \/ DrainEnds(w) \/ Repop(w) \/ DoneReturns(w)
      BY <3>1, ParkedRests
         DEF Done, Wait, PopEmpty, DrainEnds, Repop, DoneReturns, runtime, GroupInPlace
    <3>2. CASE Drain(w) \/ Collect(w)
      BY <3>2, DrainTurnsOver, CollectMoves DEF Drain, Collect, runtime
    <3> QED
      BY <1>2, <3>1, <3>2 DEF InTryPop
  <2>2. /\ f \in Fibers /\ pc[f] \in Labels \ {"wait", "suspend"}
        /\ pc' = pc \/ \E to \in Labels \ {"wait"} : pc' = [pc EXCEPT ![f] = to]
    <3>1. f \in Fibers
      BY <1>0, <1>2 DEF Done, Wait, InTryPop, Collect, PopEmpty, Drain, DrainEnds, Repop,
                        DoneReturns, Goto, At
    <3>2. CASE Done(w)
      BY <1>0, <3>1, <3>2 DEF Done, Goto, At, Labels, InWait, Popping
    <3>3. CASE Wait(w)
      BY <1>0, <3>1, <3>3 DEF Wait, Goto, At, Labels, InWait
    <3>4. CASE Collect(w)
      BY <1>0, <3>1, <3>4 DEF Collect, Goto, At, Labels, InWait, Popping
    <3>5. CASE PopEmpty(w) \/ Drain(w) \/ DrainEnds(w) \/ Repop(w) \/ DoneReturns(w)
      BY <1>0, <3>1, <3>5 DEF PopEmpty, Drain, DrainEnds, Repop, DoneReturns, Goto, At, Labels,
                              InWait, Popping
    <3> QED
      BY <1>2, <3>1, <3>2, <3>3, <3>4, <3>5 DEF InTryPop
  <2> QED
    BY <1>0, <1>1, <2>1, <2>2
<1>3. CASE SuspendInWait(w)
  <2>1. Parked' = Parked
    BY <1>3, ParkedRests DEF SuspendInWait, GroupInPlace
  <2>2. /\ f \in Fibers /\ pc[f] = "suspend" /\ pc' = [pc EXCEPT ![f] = "wait"]
        /\ awaiter' = [awaiter EXCEPT ![f] = "waitgroup"] /\ coro' = [coro EXCEPT ![f] = "saved"]
        /\ after' = [after EXCEPT ![w] = f] /\ running' = [running EXCEPT ![w] = None]
    BY <1>0, <1>3 DEF SuspendInWait, Suspend, Goto, At
  <2> QED
    BY <1>0, <1>1, <2>1, <2>2
<1>4. CASE WakeNext(w)
  <2> DEFINE h == Head(node[f])
  <2>1. h \in Parked /\ Parked' = Parked \ {h}
    BY <1>4, WakeNextTakesOne DEF Parked
  <2>2. /\ pc' = [pc EXCEPT ![h] = "again"]
        /\ UNCHANGED <<running, after, awaiter, coro>>
    BY <1>4 DEF WakeNext
  <2>3. h \in Fibers
    BY <2>1 DEF GroupInPlace, InPlace, PlacesType
  <2>4. \A g \in Fibers : g # h => pc'[g] = pc[g]
    BY <1>0, <2>2
  <2>5. pc'[h] = "again" /\ awaiter[h] = None
    BY <1>0, <1>1, <2>1, <2>2, <2>3
  <2> HIDE DEF h
  <2> QED
    BY <1>0, <1>1, <2>1, <2>2, <2>3, <2>4, <2>5
<1>5. CASE Leave(w)
  <2>1. Parked' = Parked /\ UNCHANGED pc
    BY <1>5, ParkedRests DEF Leave, Yield, Finish, group, GroupInPlace
  <2>2. /\ f \in Fibers /\ pc[f] = "out"
        /\ after' = [after EXCEPT ![w] = f] /\ running' = [running EXCEPT ![w] = None]
        /\ awaiter' = awaiter \/ awaiter' = [awaiter EXCEPT ![f] = "yield"]
        /\ coro' = [coro EXCEPT ![f] = "saved"] \/ coro' = [coro EXCEPT ![f] = "complete"]
    BY <1>0, <1>5 DEF Leave, Yield, Finish, Suspend, Complete, At
  <2> QED
    BY <1>0, <1>1, <2>1, <2>2
<1>6. CASE RunWGAwaiter(w)
  <2>1. /\ after[w] \in Fibers /\ awaiter[after[w]] = "waitgroup"
        /\ awaiter' = [awaiter EXCEPT ![after[w]] = None] /\ after' = [after EXCEPT ![w] = None]
        /\ UNCHANGED <<running, coro, pc>>
    BY <1>0, <1>6 DEF RunWGAwaiter, TakeAwaiter
  <2>2. Parked' = Parked \union {after[w]}
    BY <1>6, AwaiterParks
  <2> QED
    BY <1>0, <1>1, <2>1, <2>2
<1>7. CASE (Resume(w) \/ Reap(w) \/ RunYield(w)) /\ UNCHANGED group
  <2>1. Parked' = Parked /\ UNCHANGED pc
    BY <1>7, ParkedRests DEF group, GroupInPlace
  <2>2. CASE Resume(w)
    <3>1. Head(runq) \in Fibers
      BY <2>2 DEF Resume, TypeOK, RuntimeTypeOK
    <3> QED
      BY <1>0, <1>1, <2>1, <2>2, <3>1 DEF Resume
  <2>3. CASE Reap(w)
    BY <1>0, <1>1, <2>1, <2>3 DEF Reap
  <2>4. CASE RunYield(w)
    BY <1>0, <1>1, <2>1, <2>4 DEF RunYield, TakeAwaiter
  <2> QED
    BY <1>7, <2>2, <2>3, <2>4
<1> QED
  BY <1>2, <1>3, <1>4, <1>5, <1>6, <1>7 DEF OnFiber, OnWorker

\* The places are an invariant together with the types: that a fiber Done wakes
\* is suspended keeps its label, and Done's own, in order.
LEMMA PlacesAndTypes == Spec => [](TypeOK /\ Pops /\ GroupInPlace)
<1>1. Init => TypeOK /\ Pops /\ GroupInPlace
  <2> SUFFICES ASSUME Init PROVE TypeOK /\ Pops /\ GroupInPlace
    OBVIOUS
  <2>1. node \in [Fibers -> Seq(Fibers)] /\ first \in Seq(Fibers) /\ second \in Seq(Fibers)
    BY DEF Init
  <2>2. TypeOK /\ Pops
    BY <2>1, MaxCountAssumption
       DEF Init, RuntimeInit, TypeOK, RuntimeTypeOK, CoroStates, Labels, Pops, Popping
  <2>3. /\ Range(first) = {} /\ Range(second) = {}
        /\ \A f \in Fibers : Range(node[f]) = {} /\ node[f] = <<>>
    BY DEF Init, Range
  <2>4. Parked = {} /\ Queued = {} /\ Collected = {}
    BY <2>3 DEF Parked, Queued, Collected
  <2>5. ParkedOnce
    BY <2>3, <2>4 DEF Init, ParkedOnce, NoDuplicates
  <2>6. Waiters
    BY <2>4, WaitGroupAssumption DEF Init, RuntimeInit, Waiters
  <2> QED
    BY <2>2, <2>4, <2>5, <2>6, InPlaceInit, WaitGroupAssumption
       DEF Init, GroupInPlace, Kinds, GroupAwaiters
<1>2. TypeOK /\ Pops /\ GroupInPlace /\ [Next]_vars => TypeOK' /\ Pops' /\ GroupInPlace'
  <2> SUFFICES ASSUME TypeOK, Pops, GroupInPlace, [Next]_vars
               PROVE  TypeOK' /\ Pops' /\ GroupInPlace'
    OBVIOUS
  <2>1. TypeOK' /\ Pops'
    <3>1. ASSUME NEW f \in Fibers, Start(f) PROVE TypeOK' /\ Pops'
      BY <3>1, RuntimeStepType DEF Start
    <3>2. ASSUME NEW w \in Workers, OnWorker(w) PROVE TypeOK' /\ Pops'
      BY <3>2, AwaiterType, RuntimeStepType DEF OnWorker
    <3>3. ASSUME NEW w \in Workers, OnFiber(w) PROVE TypeOK' /\ Pops'
      <4>1. CASE WakeNext(w)
        <5>1. Head(node[running[w]]) \in Parked
          BY <4>1, WakeNextTakesOne DEF Parked
        <5>2. pc[Head(node[running[w]])] = "wait"
          BY <5>1 DEF GroupInPlace, Waiters, InPlace, PlacesType
        <5> QED
          BY <4>1, <5>2, WakeNextType
      <4>2. CASE Leave(w)
        BY <4>2, RuntimeStepType DEF Leave, Yield, Finish
      <4> QED
        BY <3>3, <4>1, <4>2, CallType, DrainType, CollectType, WaitSuspendsType
           DEF OnFiber, InTryPop
    <3>4. ASSUME NEW n \in 1 .. MaxCount, Add(n) PROVE TypeOK' /\ Pops'
      BY <3>4, AddType
    <3>5. CASE UNCHANGED vars
      BY <3>5 DEF vars, runtime, group, TypeOK, RuntimeTypeOK, Pops
    <3> QED
      BY <3>1, <3>2, <3>3, <3>4, <3>5 DEF Next
  <2>2. ParkedOnce' /\ InPlace(Parked, GroupAwaiters)'
    BY StepsOfTheGroup, InPlaceStep, WaitGroupAssumption
       DEF ParkingStep, GroupInPlace, Kinds, GroupAwaiters
  <2>3. Waiters'
    <3>1. ASSUME NEW f \in Fibers, Start(f) PROVE Waiters'
      <4>1. /\ coro' = [coro EXCEPT ![f] = "saved"] /\ coro \in [Fibers -> CoroStates]
            /\ UNCHANGED <<running, after, awaiter, pc>>
        BY <3>1 DEF Start, group, Go, TypeOK, RuntimeTypeOK
      <4>2. Parked' = Parked
        BY <3>1, ParkedRests DEF Start, group, GroupInPlace
      <4> QED
        BY <4>1, <4>2 DEF GroupInPlace, Waiters, RunsAwaiter
    <3>2. CASE UNCHANGED vars \/ \E n \in 1 .. MaxCount : Add(n)
      <4>1. UNCHANGED <<running, after, awaiter, coro, pc>> /\ Parked' = Parked
        BY <3>2, ParkedRests DEF vars, runtime, group, Add, GroupInPlace
      <4> QED
        BY <4>1 DEF GroupInPlace, Waiters, RunsAwaiter
    <3> QED
      BY <3>1, <3>2, WaitersStay DEF Next
  <2> QED
    BY <2>1, <2>2, <2>3 DEF GroupInPlace
<1> QED
  BY <1>1, <1>2, PTL DEF Spec

\* Every state of FiberWaitGroup has its type.
THEOREM TypeCorrect == Spec => []TypeOK
  BY PlacesAndTypes, PTL
-----------------------------------------------------------------------------
\* The steps of Fibers under the mapping are those of ProtocolStep.
LEMMA ProtocolStepIsAllowed ==
  ASSUME TypeOK, GroupInPlace, ProtocolStep(Parked, Parked', GroupAwaiters)
  PROVE  [Parking!Next]_(Parking!vars)
<1> USE DEF Parked, Queued, Collected, GroupAwaiters
<1> DEFINE parking == Range(first) \union Range(second) \union UNION {Range(node[f]) : f \in Fibers}
<1>1. CASE parking' = parking /\ UNCHANGED runtime
  BY <1>1 DEF Parking!vars, Parking!runtime, runtime
<1>2. ASSUME NEW f \in Fibers, parking' = parking, Go(f) PROVE Parking!Next
  BY <1>2 DEF Go, Schedule, Parking!Next, Parking!Start, Parking!Go, Parking!Schedule
<1>3. ASSUME NEW w \in Workers, parking' = parking,
             \/ Resume(w) \/ Reap(w) \/ RunYield(w) \/ Complete(w)
             \/ \E a \in GroupAwaiters : Suspend(w, a)
      PROVE  Parking!Next
  <2>1. CASE Resume(w) \/ Reap(w) \/ RunYield(w)
    BY <1>3, <2>1 DEF Parking!Next, Parking!OnWorker, Resume, Parking!Resume, Reap, Parking!Reap,
         RunYield, Parking!RunYield, RunsAwaiter, Parking!RunsAwaiter, TakeAwaiter,
         Parking!TakeAwaiter, Schedule, Parking!Schedule
  <2>2. CASE Complete(w) \/ \E a \in GroupAwaiters : Suspend(w, a)
    BY <1>3, <2>2 DEF Parking!Next, Parking!OnFiber, Complete, Parking!Complete,
         Suspend, Parking!Suspend, Parking!SuspendIn
  <2> QED
    BY <1>3, <2>1, <2>2
<1>4. ASSUME NEW w \in Workers, NEW a \in GroupAwaiters \ {"yield"},
             RunsAwaiter(w, a), TakeAwaiter(w),
             \/ parking' = parking \union {after[w]} /\ UNCHANGED runq
             \/ parking' = parking /\ Schedule(after[w])
      PROVE  Parking!Next
  BY <1>4 DEF Parking!Next, Parking!OnWorker, Parking!RunAwaiter, RunsAwaiter, Parking!RunsAwaiter,
       TakeAwaiter, Parking!TakeAwaiter, Schedule, Parking!Schedule
<1>5. ASSUME NEW f \in parking, parking' = parking \ {f}, Schedule(f),
             UNCHANGED <<running, after, awaiter, coro>>
      PROVE  Parking!Next
  <2>1. f \in Fibers
    BY DEF GroupInPlace, InPlace, PlacesType
  <2> QED
    BY <1>5, <2>1 DEF Parking!Next, Parking!Wake, Schedule, Parking!Schedule
<1> QED
  BY <1>1, <1>2, <1>3, <1>4, <1>5 DEF ProtocolStep

\* fibers::WaitGroup keeps the fiber protocol: Done schedules only fibers whose
\* awaiters it popped, and each of them once, even if two were to pop.
THEOREM WaitGroupImplementsFibers == Spec => ImplementsFibers
<1>1. Init => Parking!Init
  BY DEF Init, RuntimeInit, Parking!Init, Parking!RuntimeInit, Range
<1>2. TypeOK /\ GroupInPlace /\ [Next]_vars => [Parking!Next]_(Parking!vars)
  BY StepsOfTheGroup, ProtocolStepIsAllowed DEF ParkingStep
<1> QED
  BY <1>1, <1>2, PlacesAndTypes, PTL DEF Spec, ImplementsFibers, Parking!Spec
-----------------------------------------------------------------------------
\* The waiters nobody has popped, in the queue or on their way into it.
Unpopped == {f \in Fibers : pc[f] \in {"suspend", "wait"}} \ Collected

\* A Done that pops has taken their count over; else waiters has it.
Counted ==
  /\ IsFiniteSet(Unpopped)
  /\ \A f \in Fibers : pc[f] \in Popping => left[f] = Cardinality(Unpopped)
  /\ (\A f \in Fibers : pc[f] \notin Popping) => waiters = Cardinality(Unpopped)

\* No round starts while a Done pops or has somebody to wake.
DoneIsAlone == \A f \in Fibers : pc[f] \in Popping \/ node[f] # <<>> => count = 0

Rounds == OnePopper /\ Counted /\ RoundsAreSeparate /\ DoneIsAlone

\* A step that changes no number, pops nothing and wakes nobody.
LEMMA RoundsRest ==
  ASSUME Rounds, UNCHANGED <<count, waiters, left, node>>, Unpopped' = Unpopped,
         \A f \in Fibers : /\ pc'[f] \in Popping <=> pc[f] \in Popping
                           /\ pc'[f] = "again" => pc[f] = "again"
  PROVE  Rounds'
  BY DEF Rounds, OnePopper, Counted, RoundsAreSeparate, DoneIsAlone

\* Whom a Done has on its list is suspended in Wait.
LEMMA CollectedWait ==
  ASSUME TypeOK, GroupInPlace
  PROVE  /\ \A f \in Fibers : node[f] # <<>> => \E g \in Fibers : pc[g] = "wait"
         /\ \A g \in Parked : g \in Fibers /\ pc[g] = "wait"
<1>1. \A g \in Parked : g \in Fibers /\ pc[g] = "wait"
  BY DEF GroupInPlace, InPlace, PlacesType, Waiters
<1>2. ASSUME NEW f \in Fibers, node[f] # <<>> PROVE Head(node[f]) \in Parked
  <2>1. node[f] \in Seq(Fibers) /\ NoDuplicates(node[f])
    BY DEF TypeOK, GroupInPlace, ParkedOnce
  <2>2. Head(node[f]) \in Range(node[f])
    BY <1>2, <2>1, TailRange
  <2> QED
    BY <2>2 DEF Parked, Collected
<1> QED
  BY <1>1, <1>2

\* Add starts a round only when nobody is in Wait, and then nobody pops either.
LEMMA AddStartsAlone ==
  ASSUME TypeOK, Pops, GroupInPlace, Rounds, NEW n \in 1 .. MaxCount, Add(n)
  PROVE  Rounds'
<1>1. count \in Nat /\ count' = count + n /\ n > 0
      /\ UNCHANGED <<runtime, waiters, first, second, left, node, pc>>
  BY MaxCountAssumption DEF Add, TypeOK
<1>2. count' # 0
  BY <1>1
<1>3. \A f \in Fibers : pc[f] \notin Popping /\ pc[f] # "again" /\ node[f] = <<>>
  <2>1. CASE count # 0
    BY <2>1 DEF Rounds, DoneIsAlone, RoundsAreSeparate
  <2>2. CASE count = 0
    <3>1. \A f \in Fibers : pc[f] \notin InWait
      BY <2>2 DEF Add
    <3>2. Unpopped = {} /\ \A f \in Fibers : node[f] = <<>>
      BY <3>1, CollectedWait DEF Unpopped, InWait
    <3>3. \A f \in Fibers : pc[f] \notin Popping
      BY <3>2, FS_EmptySet DEF Rounds, Counted, Pops
    <3> QED
      BY <3>1, <3>2, <3>3 DEF InWait
  <2> QED
    BY <2>1, <2>2
<1>4. Unpopped' = Unpopped
  BY <1>1 DEF Unpopped, Collected
<1> QED
  BY <1>1, <1>2, <1>3, <1>4 DEF Rounds, OnePopper, Counted, RoundsAreSeparate, DoneIsAlone

\* Done and Wait change the two counts.
LEMMA DoneTakesOver ==
  ASSUME TypeOK, Pops, GroupInPlace, Rounds, NEW w \in Workers, Done(w)
  PROVE  Rounds'
<1> DEFINE f == running[w]
<1>1. /\ f \in Fibers /\ pc[f] = "out" /\ count \in Nat \ {0} /\ count' = count - 1
      /\ UNCHANGED node /\ pc \in [Fibers -> Labels] /\ left \in [Fibers -> Nat]
  BY DEF Done, Goto, At, TypeOK, RuntimeTypeOK
<1>2. \A g \in Fibers : pc[g] \notin Popping /\ pc[g] # "again" /\ node[g] = <<>>
  BY <1>1 DEF Rounds, DoneIsAlone, RoundsAreSeparate
<1>3. waiters = Cardinality(Unpopped) /\ IsFiniteSet(Unpopped)
  BY <1>2 DEF Rounds, Counted
<1>4. CASE count = 1 /\ waiters # 0
  <2>1. /\ pc' = [pc EXCEPT ![f] = "pop"] /\ left' = [left EXCEPT ![f] = waiters]
        /\ waiters' = 0 /\ count' = 0
    BY <1>1, <1>4 DEF Done, Goto
  <2>2. Unpopped' = Unpopped
    BY <1>1, <2>1 DEF Unpopped, Collected
  <2>3. \A g \in Fibers : pc'[g] \in Popping <=> g = f
    BY <1>1, <1>2, <2>1 DEF Popping
  <2>4. left'[f] = waiters
    BY <1>1, <2>1
  <2>5. Counted'
    BY <1>1, <1>3, <2>1, <2>2, <2>3, <2>4 DEF Counted
  <2> QED
    BY <2>1, <2>3, <2>5 DEF Rounds, OnePopper, RoundsAreSeparate, DoneIsAlone
<1>5. CASE ~(count = 1 /\ waiters # 0)
  <2>1. UNCHANGED <<left, waiters, pc>> /\ (count' = 0 => waiters = 0)
    BY <1>1, <1>5 DEF Done
  <2>2. Unpopped' = Unpopped
    BY <1>1, <2>1 DEF Unpopped, Collected
  <2> QED
    BY <1>1, <1>2, <1>3, <2>1, <2>2
       DEF Rounds, OnePopper, Counted, RoundsAreSeparate, DoneIsAlone
<1> QED
  BY <1>4, <1>5

LEMMA WaitIsCounted ==
  ASSUME TypeOK, Pops, GroupInPlace, Rounds, NEW w \in Workers, Wait(w)
  PROVE  Rounds'
<1> DEFINE f == running[w]
<1>1. /\ f \in Fibers /\ pc[f] \in {"out", "again"} /\ UNCHANGED <<count, left, node>>
      /\ pc \in [Fibers -> Labels] /\ waiters \in Nat
  BY DEF Wait, Goto, At, TypeOK, RuntimeTypeOK
<1>2. CASE count = 0
  <2>1. pc' = [pc EXCEPT ![f] = "out"] /\ UNCHANGED waiters
    BY <1>2 DEF Wait, Goto
  <2>2. Unpopped' = Unpopped
    BY <1>1, <2>1 DEF Unpopped, Collected
  <2> QED
    BY <1>1, <2>1, <2>2, RoundsRest DEF Popping
<1>3. CASE count # 0
  <2>1. pc' = [pc EXCEPT ![f] = "suspend"] /\ waiters' = waiters + 1
    BY <1>3 DEF Wait, Goto
  <2>2. \A g \in Fibers : pc[g] \notin Popping /\ pc[g] # "again" /\ node[g] = <<>>
    BY <1>3 DEF Rounds, DoneIsAlone, RoundsAreSeparate
  <2>3. f \notin Collected /\ Collected' = Collected
    BY <1>1, CollectedWait DEF Parked, Collected
  <2>4. Unpopped' = Unpopped \union {f} /\ f \notin Unpopped
    BY <1>1, <2>1, <2>3 DEF Unpopped
  <2>5. waiters = Cardinality(Unpopped) /\ IsFiniteSet(Unpopped)
    BY <2>2 DEF Rounds, Counted
  <2>6. \A g \in Fibers : pc'[g] \notin Popping /\ pc'[g] # "again"
    BY <1>1, <2>1, <2>2 DEF Popping
  <2>7. IsFiniteSet(Unpopped') /\ waiters' = Cardinality(Unpopped')
    BY <2>1, <2>4, <2>5, FS_AddElement
  <2> QED
    BY <1>1, <1>3, <2>2, <2>6, <2>7
       DEF Rounds, OnePopper, Counted, RoundsAreSeparate, DoneIsAlone
<1> QED
  BY <1>2, <1>3

\* Every node that Done pops is one of those it counts.
LEMMA CollectCounts ==
  ASSUME TypeOK, Pops, GroupInPlace, Rounds, NEW w \in Workers, Collect(w)
  PROVE  Rounds'
<1> DEFINE f == running[w]
           h == Head(first)
<1>1. /\ f \in Fibers /\ pc[f] \in {"pop", "repop"}
      /\ pc' = [pc EXCEPT ![f] = IF left[f] = 1 THEN "wake" ELSE "pop"]
      /\ left' = [left EXCEPT ![f] = @ - 1]
      /\ UNCHANGED <<waiters, count>>
      /\ pc \in [Fibers -> Labels] /\ left \in [Fibers -> Nat] /\ waiters \in Nat
  BY DEF Collect, Goto, At, TypeOK, RuntimeTypeOK
<1>2. h \in Queued /\ Collected' = Collected \union {h}
  BY CollectMoves
<1>3. h \in Unpopped
  <2>1. h \in Fibers /\ pc[h] = "wait"
    BY <1>2, CollectedWait DEF Parked
  <2> QED
    BY <1>2, <2>1 DEF GroupInPlace, ParkedOnce, Unpopped
<1>4. Unpopped' = Unpopped \ {h}
  BY <1>1, <1>2 DEF Unpopped
<1>5. /\ count = 0 /\ waiters = 0 /\ left[f] = Cardinality(Unpopped) /\ IsFiniteSet(Unpopped)
      /\ \A g \in Fibers : pc[g] \in Popping => g = f
  BY <1>1 DEF Rounds, OnePopper, Counted, RoundsAreSeparate, DoneIsAlone, Popping
<1>6. IsFiniteSet(Unpopped') /\ Cardinality(Unpopped') = left[f] - 1 /\ left'[f] = left[f] - 1
  BY <1>1, <1>3, <1>4, <1>5, FS_RemoveElement
<1>7. \A g \in Fibers : pc'[g] \in Popping <=> g = f /\ left[f] # 1
  BY <1>1, <1>5 DEF Popping
<1>8. Counted'
  <2>1. \A g \in Fibers : pc'[g] \in Popping => left'[g] = Cardinality(Unpopped')
    BY <1>6, <1>7
  <2>2. (\A g \in Fibers : pc'[g] \notin Popping) => Cardinality(Unpopped') = 0
    BY <1>1, <1>6, <1>7
  <2> QED
    BY <1>1, <1>5, <1>6, <2>1, <2>2 DEF Counted
<1>9. RoundsAreSeparate' /\ DoneIsAlone' /\ OnePopper'
  BY <1>1, <1>5, <1>7 DEF RoundsAreSeparate, DoneIsAlone, OnePopper
<1> QED
  BY <1>8, <1>9 DEF Rounds

LEMMA WakeNextLeavesCounts ==
  ASSUME TypeOK, Pops, GroupInPlace, Rounds, NEW w \in Workers, WakeNext(w)
  PROVE  Rounds'
<1> DEFINE f == running[w]
           h == Head(node[f])
<1>1. /\ f \in Fibers /\ node[f] # <<>> /\ UNCHANGED <<waiters, count, left>>
      /\ pc' = [pc EXCEPT ![h] = "again"] /\ node' = [node EXCEPT ![f] = Tail(@)]
      /\ pc \in [Fibers -> Labels] /\ node \in [Fibers -> Seq(Fibers)]
  BY DEF WakeNext, At, TypeOK, RuntimeTypeOK
<1>2. h \in Collected /\ Collected' = Collected \ {h}
  BY WakeNextTakesOne
<1>3. h \in Fibers /\ pc[h] = "wait" /\ count = 0
  BY <1>1, <1>2, CollectedWait DEF Parked, Rounds, DoneIsAlone
<1>4. /\ \A g \in Fibers : g # h => pc'[g] = pc[g]
      /\ pc'[h] = "again"
  BY <1>1, <1>3
<1>5. Unpopped' = Unpopped
  BY <1>2, <1>3, <1>4 DEF Unpopped
<1>6. \A g \in Fibers : pc'[g] \in Popping <=> pc[g] \in Popping
  BY <1>3, <1>4 DEF Popping
<1> QED
  BY <1>1, <1>3, <1>5, <1>6 DEF Rounds, OnePopper, Counted, RoundsAreSeparate, DoneIsAlone

LEMMA RoundsStep ==
  ASSUME TypeOK, Pops, GroupInPlace, Rounds, [Next]_vars
  PROVE  Rounds'
<1>1. ASSUME UNCHANGED group PROVE Rounds'
  BY <1>1, RoundsRest DEF group, Unpopped, Collected
<1>2. ASSUME NEW w \in Workers, OnFiber(w) PROVE Rounds'
  <2>0. pc \in [Fibers -> Labels] /\ (running[w] # None => running[w] \in Fibers)
    BY DEF TypeOK, RuntimeTypeOK
  <2>1. CASE PopEmpty(w) \/ Drain(w) \/ DrainEnds(w) \/ Repop(w) \/ DoneReturns(w)
             \/ SuspendInWait(w)
    <3>1. UNCHANGED <<count, waiters, left, node>>
      BY <2>1 DEF PopEmpty, Drain, DrainEnds, Repop, DoneReturns, SuspendInWait
    <3>2. CASE Drain(w)
      BY <1>1, <3>1, <3>2, RoundsRest DEF Drain, Unpopped, Collected
    <3>3. CASE ~Drain(w)
      <4>1. \A f \in Fibers : /\ pc'[f] \in Popping <=> pc[f] \in Popping
                              /\ pc'[f] = "again" => pc[f] = "again"
                              /\ pc'[f] \in {"suspend", "wait"} <=> pc[f] \in {"suspend", "wait"}
        BY <2>0, <2>1, <3>3
           DEF PopEmpty, DrainEnds, Repop, DoneReturns, SuspendInWait, Goto, At, Popping
      <4>2. Unpopped' = Unpopped
        BY <3>1, <4>1 DEF Unpopped, Collected
      <4> QED
        BY <3>1, <4>1, <4>2, RoundsRest
    <3> QED
      BY <3>2, <3>3
  <2>2. CASE Leave(w)
    BY <1>1, <2>2 DEF Leave, Yield, Finish
  <2> QED
    BY <1>2, <2>1, <2>2, DoneTakesOver, WaitIsCounted, CollectCounts, WakeNextLeavesCounts
       DEF OnFiber, InTryPop
<1>3. ASSUME NEW w \in Workers, OnWorker(w) PROVE Rounds'
  <2>1. CASE RunWGAwaiter(w)
    BY <2>1, RoundsRest DEF RunWGAwaiter, Unpopped, Collected
  <2> QED
    BY <1>1, <1>3, <2>1 DEF OnWorker
<1> QED
  BY <1>1, <1>2, <1>3, AddStartsAlone DEF Next, Start, vars

LEMMA RoundsInvariant == Spec => []Rounds
<1>1. Init => Rounds
  <2> SUFFICES ASSUME Init PROVE Rounds
    OBVIOUS
  <2>1. Unpopped = {} /\ waiters = 0 /\ \A f \in Fibers : pc[f] \notin Popping
    BY DEF Init, Unpopped, Popping
  <2> QED
    BY <2>1, FS_EmptySet DEF Init, Rounds, OnePopper, Counted, RoundsAreSeparate, DoneIsAlone
<1> QED
  BY <1>1, RoundsStep, PlacesAndTypes, PTL DEF Spec

\* By the rule of wait groups alone, one Done per round pops, it pops all waiters
\* of the round and only those, and it never spins for a fiber that needs its
\* worker.
THEOREM RoundsHold == Spec => []RoundsInv
<1>1. TypeOK /\ Pops /\ GroupInPlace /\ Rounds => RoundsInv
  <2> SUFFICES ASSUME TypeOK, Pops, GroupInPlace, Rounds PROVE RoundsInv
    OBVIOUS
  <2>1. EveryWaiterIsCounted
    BY DEF Rounds, Counted, EveryWaiterIsCounted, Unpopped, Collected
  <2>2. ASSUME NEW f \in Fibers, pc[f] \in Popping, first = <<>>, second = <<>>
        PROVE  \E w \in Workers : At(w, {"suspend"}) \/ RunsAwaiter(w, "waitgroup")
    <3>1. PICK g \in Unpopped : TRUE
      BY <2>2, FS_EmptySet DEF Rounds, Counted, Pops
    <3>2. Queued = {}
      BY <2>2 DEF Queued, Range
    <3>3. g \in Fibers /\ pc[g] \in {"suspend", "wait"} /\ g \notin Parked
      BY <3>1, <3>2 DEF Unpopped, Parked
    <3> QED
      BY <3>3, WaitGroupAssumption DEF GroupInPlace, Waiters, At
  <2> QED
    BY <2>1, <2>2 DEF Rounds, RoundsInv, SpinWaitsForAThread
<1> QED
  BY <1>1, PlacesAndTypes, RoundsInvariant, PTL
=============================================================================
