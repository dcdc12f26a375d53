-------------------------- MODULE FiberEventProofs --------------------------
(***************************************************************************)
(* Proofs about FiberEvent for any set of fibers and any set of workers.   *)
(*                                                                         *)
(* That Fire misses nobody rests on where waiters can be.  A fiber that is *)
(* suspended in Wait is in the stack, in the chain of a fiber in Fire, or  *)
(* behind Switch on some thread with its awaiter still to run; and a       *)
(* closed event has no stack.  What Fire takes off the stack is not lost   *)
(* because a fiber has a chain only while it is in Fire.                   *)
(*                                                                         *)
(* The second half is about LockFreeStack, the stack that the waiters are  *)
(* kept in, for any finite set of nodes and any set of threads.  It needs  *)
(* nothing of the first.                                                   *)
(***************************************************************************)
EXTENDS FiberEvent, LockFreeStack, FiberRuntimeProofs, FiniteSetTheorems

LEMMA AwaiterType ==
  ASSUME TypeOK, NEW w \in Workers, RunEventAwaiter(w)
  PROVE  TypeOK'
<1>1. after[w] \in Fibers
  BY DEF TypeOK, RuntimeTypeOK, RunEventAwaiter, RunsAwaiter
<1>2. /\ list \in Seq(Fibers) /\ <<after[w]>> \o list \in Seq(Fibers)
      /\ runq \in Seq(Fibers) /\ Append(runq, after[w]) \in Seq(Fibers)
  BY <1>1, PrependRange DEF TypeOK, RuntimeTypeOK
<1>3. runq' \in Seq(Fibers) /\ list' \in Seq(Fibers)
  BY <1>2 DEF RunEventAwaiter, Schedule
<1>4. pc' \in [Fibers -> Labels]
  BY <1>1 DEF TypeOK, RunEventAwaiter, Labels
<1>5. RuntimeTypeOK'
  BY <1>3, TakeAwaiterType DEF TypeOK, RunEventAwaiter
<1> QED
  BY <1>1, <1>3, <1>4, <1>5 DEF TypeOK, RunEventAwaiter, TakeAwaiter

LEMMA WakeNextType ==
  ASSUME TypeOK, NEW w \in Workers, WakeNext(w)
  PROVE  TypeOK'
<1> DEFINE f == running[w]
<1>1. f \in Fibers /\ chain[f] \in Seq(Fibers) /\ chain[f] # <<>>
  BY DEF TypeOK, RuntimeTypeOK, WakeNext
<1>2. Head(chain[f]) \in Fibers /\ Tail(chain[f]) \in Seq(Fibers)
  BY <1>1
<1>3. runq' \in Seq(Fibers)
  BY <1>2, ScheduleType DEF TypeOK, WakeNext
<1> QED
  BY <1>1, <1>2, <1>3 DEF TypeOK, RuntimeTypeOK, WakeNext, Labels

LEMMA CallType ==
  ASSUME TypeOK, NEW w \in Workers,
         Wait(w) \/ SuspendInWait(w) \/ Return(w) \/ Fire(w) \/ FireEnds(w)
  PROVE  TypeOK'
<1>1. running[w] \in Fibers
  BY DEF TypeOK, RuntimeTypeOK, Wait, SuspendInWait, Return, Fire, FireEnds, Goto
<1>2. CASE SuspendInWait(w)
  <2>1. RuntimeTypeOK'
    BY <1>2, SuspendType DEF TypeOK, SuspendInWait
  <2> QED
    BY <1>1, <1>2, <2>1 DEF TypeOK, SuspendInWait, Suspend, Goto, Labels
<1>3. CASE Wait(w) \/ Return(w) \/ FireEnds(w)
  <2>1. UNCHANGED <<runtime, closed, list, chain>>
    BY <1>3 DEF Wait, Return, FireEnds
  <2>2. pc' \in [Fibers -> Labels]
    BY <1>1, <1>3 DEF TypeOK, Wait, Return, FireEnds, Goto, Labels
  <2> QED
    BY <2>1, <2>2 DEF TypeOK, RuntimeTypeOK, runtime
<1>4. CASE Fire(w)
  <2>1. /\ UNCHANGED runtime /\ closed' = TRUE /\ list' = <<>>
        /\ chain' = [chain EXCEPT ![running[w]] = list]
    BY <1>4 DEF Fire
  <2>2. pc' \in [Fibers -> Labels]
    BY <1>1, <1>4 DEF TypeOK, Fire, Goto, Labels
  <2>3. RuntimeTypeOK' /\ awaiter' = awaiter
    BY <2>1 DEF TypeOK, RuntimeTypeOK, runtime
  <2>4. list' \in Seq(Fibers)
    BY <2>1
  <2>5. chain' \in [Fibers -> Seq(Fibers)]
    <3>1. chain \in [Fibers -> Seq(Fibers)] /\ list \in Seq(Fibers)
      BY DEF TypeOK
    <3> QED
      BY <2>1, <3>1, Zenon
  <2> QED
    BY <2>1, <2>2, <2>3, <2>4, <2>5 DEF TypeOK
<1> QED
  BY <1>2, <1>3, <1>4

LEMMA RuntimeStepType ==
  ASSUME TypeOK, UNCHANGED event,
         \/ \E f \in Fibers : Go(f)
         \/ \E w \in Workers : \/ Resume(w) \/ Reap(w) \/ RunYield(w)
                               \/ Suspend(w, "yield") \/ Complete(w)
  PROVE  TypeOK'
<1>1. RuntimeTypeOK'
  BY GoType, ResumeType, ReapType, RunYieldType, SuspendType, CompleteType DEF TypeOK
<1>2. awaiter' \in [Fibers -> {None, "yield", "event"}]
  BY DEF TypeOK, RuntimeTypeOK, Go, Resume, Reap, RunYield, RunsAwaiter, TakeAwaiter,
         Suspend, Complete
<1> QED
  BY <1>1, <1>2 DEF TypeOK, event

\* Every state of FiberEvent has its type.
THEOREM TypeCorrect == Spec => []TypeOK
<1>1. Init => TypeOK
  <2> SUFFICES ASSUME Init PROVE TypeOK
    OBVIOUS
  <2>1. chain \in [Fibers -> Seq(Fibers)] /\ list \in Seq(Fibers)
    BY DEF Init
  <2> QED
    BY <2>1 DEF Init, RuntimeInit, TypeOK, RuntimeTypeOK, CoroStates, Labels
<1>2. TypeOK /\ [Next]_vars => TypeOK'
  <2> SUFFICES ASSUME TypeOK, [Next]_vars PROVE TypeOK'
    OBVIOUS
  <2>1. ASSUME NEW f \in Fibers, Start(f) PROVE TypeOK'
    BY <2>1, RuntimeStepType DEF Start
  <2>2. ASSUME NEW w \in Workers, OnWorker(w) PROVE TypeOK'
    BY <2>2, AwaiterType, RuntimeStepType DEF OnWorker
  <2>3. ASSUME NEW w \in Workers, OnFiber(w) PROVE TypeOK'
    BY <2>3, CallType, WakeNextType, RuntimeStepType DEF OnFiber, Leave, Yield, Finish
  <2>4. CASE UNCHANGED vars
    BY <2>4 DEF vars, runtime, event, TypeOK, RuntimeTypeOK
  <2> QED
    BY <2>1, <2>2, <2>3, <2>4 DEF Next
<1> QED
  BY <1>1, <1>2, PTL DEF Spec
-----------------------------------------------------------------------------
\* The fibers in the stack and in the chains of fibers in Fire, each there once.
Chained == UNION {Range(chain[f]) : f \in Fibers}

Parked == Range(list) \union Chained

ParkedOnce ==
  /\ NoDuplicates(list) /\ \A f \in Fibers : NoDuplicates(chain[f])
  /\ Range(list) \intersect Chained = {}
  /\ \A f, g \in Fibers : f # g => Range(chain[f]) \intersect Range(chain[g]) = {}
  /\ \A f \in Fibers : pc[f] # "fire" => chain[f] = <<>>

EventAwaiters == {"yield", "event"}

\* A fiber suspended in Wait is parked or has its awaiter still to run on some
\* thread; and nobody else is or has.
Waiters ==
  /\ \A f \in Fibers : pc[f] = "wait" =>
       f \in Parked \/ \E w \in Workers : after[w] = f /\ RunsAwaiter(w, "event")
  /\ \A f \in Fibers : awaiter[f] = "event" \/ f \in Parked => pc[f] = "wait"

EventInPlace == ParkedOnce /\ InPlace(Parked, EventAwaiters) /\ Waiters

\* What one step of FiberEvent is for the fibers and the stack.
ParkingStep == ParkedOnce' /\ ProtocolStep(Parked, Parked', EventAwaiters)

LEMMA ParkedRests ==
  ASSUME ParkedOnce, UNCHANGED <<list, chain>>,
         \A f \in Fibers : pc'[f] # "fire" => pc[f] # "fire" \/ chain[f] = <<>>
  PROVE  ParkedOnce' /\ Parked' = Parked
  BY DEF ParkedOnce, Parked, Chained

LEMMA AwaiterParks ==
  ASSUME TypeOK, EventInPlace, NEW w \in Workers, RunEventAwaiter(w), ~closed
  PROVE  ParkingStep /\ Parked' = Parked \union {after[w]}
<1>1. RunsAwaiter(w, "event") /\ TakeAwaiter(w) /\ UNCHANGED <<runq, pc, chain>>
  BY DEF RunEventAwaiter
<1>2. after[w] \in Fibers /\ after[w] \notin Parked
  BY <1>1, EventAssumption
     DEF RunsAwaiter, TypeOK, RuntimeTypeOK, EventInPlace, InPlace, Shows, Reachable
<1>3. list \in Seq(Fibers) /\ list' = <<after[w]>> \o list
  BY DEF RunEventAwaiter, TypeOK
<1>4. /\ Range(list') = Range(list) \union {after[w]}
      /\ NoDuplicates(list) /\ after[w] \notin Range(list) => NoDuplicates(list')
  BY <1>2, <1>3, PrependRange
<1>5. Chained' = Chained
  BY <1>1 DEF Chained
<1>6. ParkedOnce' /\ Parked' = Parked \union {after[w]}
  BY <1>1, <1>2, <1>4, <1>5 DEF EventInPlace, ParkedOnce, Parked
<1> QED
  BY <1>1, <1>6 DEF ParkingStep, ProtocolStep, EventAwaiters

LEMMA AwaiterGoesOn ==
  ASSUME TypeOK, EventInPlace, NEW w \in Workers, RunEventAwaiter(w), closed
  PROVE  ParkingStep /\ Parked' = Parked
<1>1. /\ RunsAwaiter(w, "event") /\ TakeAwaiter(w) /\ Schedule(after[w])
      /\ UNCHANGED <<list, chain>> /\ pc' = [pc EXCEPT ![after[w]] = "back"]
  BY DEF RunEventAwaiter
<1>2. after[w] \in Fibers /\ pc[after[w]] = "wait"
  BY <1>1 DEF RunsAwaiter, EventInPlace, Waiters, TypeOK, RuntimeTypeOK
<1>3. \A f \in Fibers : pc'[f] # "fire" => pc[f] # "fire"
  BY <1>1, <1>2 DEF TypeOK
<1>4. ParkedOnce' /\ Parked' = Parked
  BY <1>1, <1>3, ParkedRests DEF EventInPlace
<1> QED
  BY <1>1, <1>4 DEF ParkingStep, ProtocolStep, EventAwaiters

LEMMA FireTakesChain ==
  ASSUME TypeOK, EventInPlace, NEW w \in Workers, Fire(w)
  PROVE  ParkingStep /\ Parked' = Parked
<1> DEFINE f == running[w]
<1>1. /\ f \in Fibers /\ pc[f] = "out" /\ pc' = [pc EXCEPT ![f] = "fire"]
      /\ chain' = [chain EXCEPT ![f] = list] /\ list' = <<>>
      /\ UNCHANGED runtime
  BY DEF Fire, Goto, TypeOK, RuntimeTypeOK
<1>2. chain[f] = <<>> /\ ParkedOnce /\ chain \in [Fibers -> Seq(Fibers)]
  BY <1>1 DEF EventInPlace, ParkedOnce, TypeOK
<1>3. Range(list') = {} /\ NoDuplicates(list') /\ Range(chain[f]) = {}
  BY <1>1, <1>2 DEF Range, NoDuplicates
<1>4. chain'[f] = list /\ \A g \in Fibers : g # f => chain'[g] = chain[g]
  BY <1>1, <1>2
<1>5. Chained' = Chained \union Range(list)
  BY <1>1, <1>3, <1>4 DEF Chained
<1>6. Parked' = Parked
  BY <1>3, <1>5 DEF Parked
<1>7. ParkedOnce'
  <2>1. \A g \in Fibers : g # f => Range(chain[g]) \intersect Range(list) = {}
    BY <1>2 DEF ParkedOnce, Chained
  <2>2. \A g \in Fibers : pc'[g] # "fire" => chain'[g] = <<>>
    BY <1>1, <1>2, <1>4 DEF ParkedOnce, TypeOK
  <2> QED
    BY <1>2, <1>3, <1>4, <2>1, <2>2 DEF ParkedOnce
<1> QED
  BY <1>1, <1>6, <1>7 DEF ParkingStep, ProtocolStep

LEMMA WakeNextTakesOne ==
  ASSUME TypeOK, EventInPlace, NEW w \in Workers, WakeNext(w)
  PROVE  /\ ParkingStep
         /\ Head(chain[running[w]]) \in Parked
         /\ Parked' = Parked \ {Head(chain[running[w]])}
         /\ \A g \in Fibers : Range(chain'[g]) = Range(chain[g]) \ {Head(chain[running[w]])}
<1> DEFINE f == running[w]
           h == Head(chain[f])
<1>1. /\ f \in Fibers /\ pc[f] = "fire" /\ pc' = [pc EXCEPT ![h] = "back"]
      /\ chain[f] # <<>> /\ chain' = [chain EXCEPT ![f] = Tail(@)] /\ list' = list
      /\ Schedule(h) /\ UNCHANGED <<running, after, awaiter, coro>>
  BY DEF WakeNext, TypeOK, RuntimeTypeOK
<1>2. chain \in [Fibers -> Seq(Fibers)] /\ chain[f] \in Seq(Fibers) /\ ParkedOnce
  BY <1>1 DEF EventInPlace, TypeOK
<1>3. /\ h \in Range(chain[f]) /\ Range(Tail(chain[f])) = Range(chain[f]) \ {h}
      /\ NoDuplicates(Tail(chain[f]))
  BY <1>1, <1>2, TailRange DEF ParkedOnce
<1>4. chain'[f] = Tail(chain[f]) /\ \A g \in Fibers : g # f => chain'[g] = chain[g]
  BY <1>1, <1>2
<1>5. \A g \in Fibers : g # f => h \notin Range(chain[g])
  BY <1>1, <1>2, <1>3 DEF ParkedOnce
<1>6. \A g \in Fibers : Range(chain'[g]) = Range(chain[g]) \ {h}
  BY <1>3, <1>4, <1>5
<1>7. h \in Chained /\ Chained' = Chained \ {h}
  <2>1. h \in Chained
    BY <1>1, <1>3 DEF Chained
  <2>2. Chained' = UNION {Range(chain'[g]) : g \in Fibers}
    BY DEF Chained
  <2> QED
    BY <1>6, <2>1, <2>2 DEF Chained
<1>8. h \in Parked /\ Parked' = Parked \ {h}
  BY <1>1, <1>2, <1>7 DEF Parked, ParkedOnce
<1>9. ParkedOnce'
  <2>1. h \in Fibers /\ pc[h] = "wait"
    BY <1>1, <1>2, <1>8 DEF EventInPlace, Waiters
  <2>2. \A g \in Fibers : pc'[g] # "fire" => pc[g] # "fire" /\ g # f
    BY <1>1, <2>1 DEF TypeOK
  <2>3. \A g \in Fibers : NoDuplicates(chain'[g])
    BY <1>2, <1>3, <1>4 DEF ParkedOnce
  <2> QED
    BY <1>1, <1>2, <1>4, <1>6, <1>7, <2>2, <2>3 DEF ParkedOnce
<1> QED
  BY <1>1, <1>6, <1>8, <1>9 DEF ParkingStep, ProtocolStep

LEMMA StepsOfTheStack ==
  ASSUME TypeOK, EventInPlace, [Next]_vars
  PROVE  ParkingStep
<1> USE ParkedRests DEF ParkingStep, ProtocolStep, EventInPlace, event
<1>1. ASSUME NEW f \in Fibers, Start(f) PROVE ParkingStep
  BY <1>1 DEF Start
<1>2. ASSUME NEW w \in Workers, OnWorker(w) PROVE ParkingStep
  <2>1. CASE (Resume(w) \/ Reap(w) \/ RunYield(w)) /\ UNCHANGED event
    BY <2>1
  <2> QED
    BY <1>2, <2>1, AwaiterParks, AwaiterGoesOn DEF OnWorker
<1>3. ASSUME NEW w \in Workers, OnFiber(w) PROVE ParkingStep
  <2>0. running[w] # None => running[w] \in Fibers
    BY DEF TypeOK, RuntimeTypeOK
  <2>1. CASE Wait(w) \/ Return(w) \/ FireEnds(w)
    <3>1. UNCHANGED <<runtime, list, chain>>
      BY <2>1 DEF Wait, Return, FireEnds
    <3>2. \A f \in Fibers : pc'[f] # "fire" => pc[f] # "fire" \/ chain[f] = <<>>
      BY <2>0, <2>1 DEF Wait, Return, FireEnds, Goto, TypeOK
    <3> QED
      BY <3>1, <3>2
  <2>2. CASE SuspendInWait(w)
    <3>1. UNCHANGED <<list, chain>> /\ Suspend(w, "event")
      BY <2>2 DEF SuspendInWait
    <3>2. \A f \in Fibers : pc'[f] # "fire" => pc[f] # "fire"
      BY <2>0, <2>2 DEF SuspendInWait, Goto, TypeOK
    <3> QED
      BY <3>1, <3>2 DEF EventAwaiters
  <2>3. CASE Leave(w)
    BY <2>3 DEF Leave, Yield, Finish, EventAwaiters
  <2> QED
    BY <1>3, <2>1, <2>2, <2>3, FireTakesChain, WakeNextTakesOne DEF OnFiber
<1>4. CASE UNCHANGED vars
  BY <1>4 DEF vars
<1> QED
  BY <1>1, <1>2, <1>3, <1>4 DEF Next

LEMMA WaitersStay ==
  ASSUME TypeOK, EventInPlace, NEW w \in Workers, OnFiber(w) \/ OnWorker(w)
  PROVE  Waiters'
<1> DEFINE f == running[w]
<1> USE DEF Waiters, RunsAwaiter
<1>0. /\ running \in [Workers -> Fibers \union {None}]
      /\ after \in [Workers -> Fibers \union {None}] /\ coro \in [Fibers -> CoroStates]
      /\ awaiter \in [Fibers -> {None, "yield", "event"}] /\ pc \in [Fibers -> Labels]
      /\ None \notin Fibers \union {"yield", "event"}
  BY EventAssumption DEF TypeOK, RuntimeTypeOK
<1>1. /\ Waiters
      /\ \A v \in Workers : running[v] # None =>
           awaiter[running[v]] = None /\ running[v] \notin Parked /\ after[v] = None
      /\ \A g \in Parked : awaiter[g] = None
      /\ \A u, v \in Workers : after[u] = after[v] /\ after[u] # None => u = v
      /\ \A u, v \in Workers : running[u] = running[v] /\ running[u] # None => u = v
      /\ \A u, v \in Workers : running[u] = after[v] => running[u] = None
  BY <1>0 DEF EventInPlace, InPlace, Shows, Reachable, Apart
<1>2. CASE Wait(w) \/ Return(w) \/ Fire(w) \/ FireEnds(w)
  <2>1. Parked' = Parked
    <3>1. CASE Wait(w) \/ Return(w) \/ FireEnds(w)
      BY <3>1 DEF Wait, Return, FireEnds, Parked, Chained
    <3> QED
      BY <1>2, <3>1, FireTakesChain
  <2>2. UNCHANGED <<running, after, awaiter, coro>>
    BY <1>2 DEF Wait, Return, Fire, FireEnds, runtime
  <2>3. /\ f \in Fibers /\ pc[f] # "wait"
        /\ \E to \in Labels \ {"wait"} : pc' = [pc EXCEPT ![f] = to]
    BY <1>0, <1>2 DEF Wait, Return, Fire, FireEnds, Goto, Labels
  <2> QED
    BY <1>0, <1>1, <2>1, <2>2, <2>3
<1>3. CASE SuspendInWait(w)
  <2>1. Parked' = Parked
    BY <1>3 DEF SuspendInWait, Parked, Chained
  <2>2. /\ f \in Fibers /\ pc[f] = "suspend" /\ pc' = [pc EXCEPT ![f] = "wait"]
        /\ awaiter' = [awaiter EXCEPT ![f] = "event"] /\ coro' = [coro EXCEPT ![f] = "saved"]
        /\ after' = [after EXCEPT ![w] = f] /\ running' = [running EXCEPT ![w] = None]
    BY <1>0, <1>3 DEF SuspendInWait, Suspend, Goto
  <2> QED
    BY <1>0, <1>1, <2>1, <2>2
<1>4. CASE WakeNext(w)
  <2> DEFINE h == Head(chain[f])
  <2>1. h \in Parked /\ Parked' = Parked \ {h}
    BY <1>4, WakeNextTakesOne
  <2>2. /\ pc' = [pc EXCEPT ![h] = "back"]
        /\ UNCHANGED <<running, after, awaiter, coro>>
    BY <1>4 DEF WakeNext
  <2>3. h \in Fibers
    BY <2>1 DEF EventInPlace, InPlace, PlacesType
  <2>4. \A g \in Fibers : g # h => pc'[g] = pc[g]
    BY <1>0, <2>2
  <2>5. pc'[h] = "back" /\ awaiter[h] = None
    BY <1>0, <1>1, <2>1, <2>2, <2>3
  <2> HIDE DEF h
  <2> QED
    BY <1>0, <1>1, <2>1, <2>2, <2>3, <2>4, <2>5
<1>5. CASE Leave(w)
  <2>1. Parked' = Parked /\ UNCHANGED pc
    BY <1>5 DEF Leave, Yield, Finish, event, Parked, Chained
  <2>2. /\ f \in Fibers /\ pc[f] = "out"
        /\ after' = [after EXCEPT ![w] = f] /\ running' = [running EXCEPT ![w] = None]
        /\ awaiter' = awaiter \/ awaiter' = [awaiter EXCEPT ![f] = "yield"]
        /\ coro' = [coro EXCEPT ![f] = "saved"] \/ coro' = [coro EXCEPT ![f] = "complete"]
    BY <1>0, <1>5 DEF Leave, Yield, Finish, Suspend, Complete
  <2> QED
    BY <1>0, <1>1, <2>1, <2>2
<1>6. CASE RunEventAwaiter(w)
  <2>1. /\ after[w] \in Fibers /\ awaiter[after[w]] = "event"
        /\ awaiter' = [awaiter EXCEPT ![after[w]] = None] /\ after' = [after EXCEPT ![w] = None]
        /\ UNCHANGED <<running, coro>>
    BY <1>0, <1>6 DEF RunEventAwaiter, TakeAwaiter
  <2>2. CASE ~closed
    <3>1. Parked' = Parked \union {after[w]} /\ UNCHANGED pc
      BY <1>6, <2>2, AwaiterParks DEF RunEventAwaiter
    <3> QED
      BY <1>0, <1>1, <2>1, <3>1
  <2>3. CASE closed
    <3>1. Parked' = Parked /\ pc' = [pc EXCEPT ![after[w]] = "back"]
      BY <1>6, <2>3, AwaiterGoesOn DEF RunEventAwaiter
    <3>2. after[w] \notin Parked
      BY <1>0, <1>1, <2>1
    <3> QED
      BY <1>0, <1>1, <2>1, <3>1, <3>2
  <2> QED
    BY <2>2, <2>3
<1>7. CASE (Resume(w) \/ Reap(w) \/ RunYield(w)) /\ UNCHANGED event
  <2>1. Parked' = Parked /\ UNCHANGED pc
    BY <1>7 DEF event, Parked, Chained
  <2>2. CASE Resume(w)
    <3>1. Head(runq) \in Fibers
      BY <2>2 DEF Resume, TypeOK, RuntimeTypeOK
    <3> QED
      BY <1>0, <1>1, <2>1, <2>2, <3>1 DEF Resume
  <2>3. CASE Reap(w)
    BY <1>0, <1>1, <2>1, <2>3 DEF Reap
  <2>4. CASE RunYield(w)
    BY <1>0, <1>1, <2>1, <2>4 DEF RunYield, TakeAwaiter
  <2> QED
    BY <1>7, <2>2, <2>3, <2>4
<1> QED
  BY <1>2, <1>3, <1>4, <1>5, <1>6, <1>7 DEF OnFiber, OnWorker

LEMMA PlacesOfEvent == Spec => []EventInPlace
<1>1. Init => EventInPlace
  <2> SUFFICES ASSUME Init PROVE EventInPlace
    OBVIOUS
  <2>1. Range(list) = {} /\ \A f \in Fibers : Range(chain[f]) = {} /\ chain[f] = <<>>
    BY DEF Init, Range
  <2>2. Parked = {} /\ Chained = {}
    BY <2>1 DEF Parked, Chained
  <2>3. ParkedOnce
    BY <2>1, <2>2 DEF Init, ParkedOnce, NoDuplicates
  <2>4. Waiters
    BY <2>2, EventAssumption DEF Init, RuntimeInit, Waiters
  <2> QED
    BY <2>2, <2>3, <2>4, InPlaceInit, EventAssumption DEF Init, EventInPlace, Kinds, EventAwaiters
<1>2. TypeOK /\ EventInPlace /\ [Next]_vars => EventInPlace'
  <2> SUFFICES ASSUME TypeOK, EventInPlace, [Next]_vars PROVE EventInPlace'
    OBVIOUS
  <2>1. ParkedOnce' /\ InPlace(Parked, EventAwaiters)'
    BY StepsOfTheStack, InPlaceStep, EventAssumption
       DEF ParkingStep, EventInPlace, Kinds, EventAwaiters
  <2>2. Waiters'
    <3>1. ASSUME NEW f \in Fibers, Start(f) PROVE Waiters'
      <4>1. /\ coro' = [coro EXCEPT ![f] = "saved"] /\ coro \in [Fibers -> CoroStates]
            /\ UNCHANGED <<running, after, awaiter, pc>>
        BY <3>1 DEF Start, event, Go, TypeOK, RuntimeTypeOK
      <4>2. Parked' = Parked
        BY <3>1 DEF Start, event, Parked, Chained
      <4> QED
        BY <4>1, <4>2 DEF EventInPlace, Waiters, RunsAwaiter
    <3>2. CASE UNCHANGED vars
      BY <3>2 DEF vars, runtime, event, EventInPlace, Waiters, RunsAwaiter, Parked, Chained
    <3> QED
      BY <3>1, <3>2, WaitersStay DEF Next
  <2> QED
    BY <2>1, <2>2 DEF EventInPlace
<1> QED
  BY <1>1, <1>2, TypeCorrect, PTL DEF Spec
-----------------------------------------------------------------------------
\* What is true once Fire has been called, and not before.
Fired ==
  /\ closed => list = <<>>
  /\ \A f \in Fibers : pc[f] = "back" => closed
  /\ \A f \in Fibers : chain[f] # <<>> => closed

LEMMA FiredStays ==
  ASSUME TypeOK, Fired, [Next]_vars
  PROVE  Fired'
<1> USE DEF Fired
<1>1. ASSUME UNCHANGED event PROVE Fired'
  BY <1>1 DEF event
<1>2. ASSUME NEW w \in Workers, OnFiber(w) PROVE Fired'
  <2> DEFINE f == running[w]
  <2>0. (f # None => f \in Fibers) /\ pc \in [Fibers -> Labels] /\ DOMAIN chain = Fibers
    BY DEF TypeOK, RuntimeTypeOK
  <2>1. CASE Wait(w) \/ SuspendInWait(w) \/ Return(w) \/ FireEnds(w)
    <3>1. UNCHANGED <<closed, list, chain>>
      BY <2>1 DEF Wait, SuspendInWait, Return, FireEnds
    <3>2. \A g \in Fibers : pc'[g] = "back" => pc[g] = "back" \/ closed
      BY <2>0, <2>1 DEF Wait, SuspendInWait, Return, FireEnds, Goto
    <3> QED
      BY <3>1, <3>2
  <2>2. CASE Fire(w)
    BY <2>2 DEF Fire
  <2>3. CASE WakeNext(w)
    <3>1. f \in Fibers /\ chain[f] # <<>> /\ UNCHANGED <<closed, list>>
      BY <2>0, <2>3 DEF WakeNext
    <3> QED
      BY <3>1
  <2>4. CASE Leave(w)
    BY <1>1, <2>4 DEF Leave, Yield, Finish
  <2> QED
    BY <1>2, <2>1, <2>2, <2>3, <2>4 DEF OnFiber
<1>3. ASSUME NEW w \in Workers, OnWorker(w) PROVE Fired'
  <2>1. CASE RunEventAwaiter(w)
    <3>1. UNCHANGED <<closed, chain>> /\ (closed => list' = list)
          /\ (~closed => UNCHANGED pc)
      BY <2>1 DEF RunEventAwaiter
    <3> QED
      BY <3>1
  <2> QED
    BY <1>1, <1>3, <2>1 DEF OnWorker
<1> QED
  BY <1>1, <1>2, <1>3 DEF Next, Start, vars

LEMMA FiredInvariant == Spec => []Fired
<1>1. Init => Fired
  BY DEF Init, Fired
<1> QED
  BY <1>1, FiredStays, TypeCorrect, PTL DEF Spec

\* Event holds its waiters back until Fire, and Fire leaves none behind.
THEOREM EventHolds == Spec => []EventInv
<1>1. TypeOK /\ Fired /\ EventInPlace => EventInv
  <2> SUFFICES ASSUME TypeOK, Fired, EventInPlace PROVE EventInv
    OBVIOUS
  <2>1. NoEarlyReturn
    BY DEF Fired, NoEarlyReturn
  <2>2. ASSUME closed, NEW f \in Fibers, pc[f] = "wait", \A w \in Workers : after[w] # f
        PROVE  \E g \in Fibers : pc[g] = "fire" /\ f \in Range(chain[g])
    <3>1. f \in Parked /\ list = <<>>
      BY <2>2 DEF Fired, EventInPlace, Waiters
    <3>2. PICK g \in Fibers : f \in Range(chain[g])
      BY <3>1 DEF Parked, Chained, Range
    <3>3. chain[g] # <<>>
      BY <3>2 DEF Range
    <3> QED
      BY <3>2, <3>3 DEF EventInPlace, ParkedOnce
  <2> QED
    BY <2>1, <2>2 DEF EventInv, NoWaiterMissesTheFire
<1> QED
  BY <1>1, TypeCorrect, FiredInvariant, PlacesOfEvent, PTL
-----------------------------------------------------------------------------
\* The steps of Fibers under the mapping are those of ProtocolStep.
LEMMA ProtocolStepIsAllowed ==
  ASSUME TypeOK, ProtocolStep(Parked, Parked', EventAwaiters)
  PROVE  [Parking!Next]_(Parking!vars)
<1> USE DEF Parked, Chained, EventAwaiters
<1> DEFINE parking == Range(list) \union UNION {Range(chain[f]) : f \in Fibers}
<1>1. CASE parking' = parking /\ UNCHANGED runtime
  BY <1>1 DEF Parking!vars, Parking!runtime, runtime
<1>2. ASSUME NEW f \in Fibers, parking' = parking, Go(f) PROVE Parking!Next
  BY <1>2 DEF Go, Schedule, Parking!Next, Parking!Start, Parking!Go, Parking!Schedule
<1>3. ASSUME NEW w \in Workers, parking' = parking,
             \/ Resume(w) \/ Reap(w) \/ RunYield(w) \/ Complete(w)
             \/ \E a \in EventAwaiters : Suspend(w, a)
      PROVE  Parking!Next
  <2>1. CASE Resume(w) \/ Reap(w) \/ RunYield(w)
    BY <1>3, <2>1 DEF Parking!Next, Parking!OnWorker, Resume, Parking!Resume, Reap, Parking!Reap,
         RunYield, Parking!RunYield, RunsAwaiter, Parking!RunsAwaiter, TakeAwaiter,
         Parking!TakeAwaiter, Schedule, Parking!Schedule
  <2>2. CASE Complete(w) \/ \E a \in EventAwaiters : Suspend(w, a)
    BY <1>3, <2>2 DEF Parking!Next, Parking!OnFiber, Complete, Parking!Complete,
         Suspend, Parking!Suspend, Parking!SuspendIn
  <2> QED
    BY <1>3, <2>1, <2>2
<1>4. ASSUME NEW w \in Workers, NEW a \in EventAwaiters \ {"yield"},
             RunsAwaiter(w, a), TakeAwaiter(w),
             \/ parking' = parking \union {after[w]} /\ UNCHANGED runq
             \/ parking' = parking /\ Schedule(after[w])
      PROVE  Parking!Next
  BY <1>4 DEF Parking!Next, Parking!OnWorker, Parking!RunAwaiter, RunsAwaiter, Parking!RunsAwaiter,
       TakeAwaiter, Parking!TakeAwaiter, Schedule, Parking!Schedule
<1>5. ASSUME NEW f \in parking, parking' = parking \ {f}, Schedule(f),
             UNCHANGED <<running, after, awaiter, coro>>
      PROVE  Parking!Next
  <2>1. f \in Fibers
    BY DEF TypeOK, Range
  <2> QED
    BY <1>5, <2>1 DEF Parking!Next, Parking!Wake, Schedule, Parking!Schedule
<1> QED
  BY <1>1, <1>2, <1>3, <1>4, <1>5 DEF ProtocolStep

\* fibers::Event keeps the fiber protocol: Fire schedules only fibers whose
\* awaiters it took off the stack, and each of them once.
THEOREM EventImplementsFibers == Spec => ImplementsFibers
<1>1. Init => Parking!Init
  BY DEF Init, RuntimeInit, Parking!Init, Parking!RuntimeInit, Range
<1>2. TypeOK /\ EventInPlace /\ [Next]_vars => [Parking!Next]_(Parking!vars)
  BY StepsOfTheStack, ProtocolStepIsAllowed DEF ParkingStep
<1> QED
  BY <1>1, <1>2, TypeCorrect, PlacesOfEvent, PTL DEF Spec, ImplementsFibers, Parking!Spec

-----------------------------------------------------------------------------
(***************************************************************************)
(* LockFreeStack.  What ChainFrom computes is found by induction over the  *)
(* natural numbers: the walk along the links exists, and follows a chain   *)
(* of nodes wherever there is one.                                         *)
(***************************************************************************)
\* g holds the first m + 1 links of a walk from a.
Leads(g, m, a, nx) == g = [i \in 0 .. m |-> IF i = 0 THEN a ELSE nx[g[i - 1]]]

LEMMA LeadsAgree ==
  ASSUME NEW a, NEW nx, NEW m \in Nat, NEW k \in Nat, m <= k, NEW g, NEW h,
         Leads(g, m, a, nx), Leads(h, k, a, nx)
  PROVE  \A i \in 0 .. m : g[i] = h[i]
<1> DEFINE S == {i \in Nat : i <= m => g[i] = h[i]}
<1>0. /\ g[0] = a /\ h[0] = a
      /\ \A i \in 1 .. m : g[i] = nx[g[i - 1]] /\ h[i] = nx[h[i - 1]]
  BY DEF Leads
<1>1. 0 \in S
  BY <1>0
<1>2. ASSUME NEW n \in Nat, n \in S PROVE n + 1 \in S
  <2>1. CASE n + 1 <= m
    BY <1>0, <1>2, <2>1
  <2> QED
    BY <2>1
<1> HIDE DEF S
<1>3. Nat \subseteq S
  BY <1>1, <1>2, InductionOverNat
<1> QED
  BY <1>3 DEF S

LEMMA LeadsExist ==
  ASSUME NEW a, NEW nx, NEW m \in Nat
  PROVE  \E g : Leads(g, m, a, nx)
<1> DEFINE S == {i \in Nat : \E g : Leads(g, i, a, nx)}
<1>1. 0 \in S
  <2>1. Leads([i \in 0 .. 0 |-> a], 0, a, nx)
    BY DEF Leads
  <2> QED
    BY <2>1
<1>2. ASSUME NEW n \in Nat, n \in S PROVE n + 1 \in S
  <2>1. PICK g : Leads(g, n, a, nx)
    BY <1>2
  <2> DEFINE h == [i \in 0 .. n + 1 |-> IF i <= n THEN g[i] ELSE nx[g[n]]]
  <2>2. g[0] = a /\ \A i \in 1 .. n : g[i] = nx[g[i - 1]]
    BY <2>1 DEF Leads
  <2>3. Leads(h, n + 1, a, nx)
    BY <2>2 DEF Leads
  <2> QED
    BY <2>3
<1> HIDE DEF S
<1>3. Nat \subseteq S
  BY <1>1, <1>2, InductionOverNat
<1> QED
  BY <1>3 DEF S

\* The recursive walk of ChainFrom exists: it starts at a and follows the links.
LEMMA WalkExists ==
  ASSUME NEW a, NEW nx
  PROVE  \E w : w = [k \in Nat |-> IF k = 0 THEN a ELSE nx[w[k - 1]]]
<1> DEFINE G(k) == CHOOSE g : Leads(g, k, a, nx)
           w == [k \in Nat |-> G(k)[k]]
<1>1. \A k \in Nat : Leads(G(k), k, a, nx)
  BY LeadsExist
<1>2. w[0] = a
  <2>1. Leads(G(0), 0, a, nx)
    BY <1>1
  <2> HIDE DEF G
  <2> QED
    BY <2>1 DEF Leads
<1>3. ASSUME NEW k \in Nat, k # 0 PROVE w[k] = nx[w[k - 1]]
  <2>1. k - 1 \in Nat
    BY <1>3
  <2>2. G(k)[k] = nx[G(k)[k - 1]]
    <3>1. Leads(G(k), k, a, nx)
      BY <1>1
    <3> HIDE DEF G
    <3> QED
      BY <3>1, <1>3 DEF Leads
  <2>3. G(k)[k - 1] = G(k - 1)[k - 1]
    <3>1. Leads(G(k), k, a, nx) /\ Leads(G(k - 1), k - 1, a, nx)
      BY <1>1, <2>1
    <3> HIDE DEF G
    <3> QED
      BY <3>1, <2>1, LeadsAgree
  <2> HIDE DEF G
  <2> QED
    BY <2>1, <2>2, <2>3
<1>4. w = [k \in Nat |-> w[k]]
  OBVIOUS
<1> HIDE DEF w
<1>5. w = [k \in Nat |-> IF k = 0 THEN a ELSE nx[w[k - 1]]]
  BY <1>2, <1>3, <1>4
<1> QED
  BY <1>5
-----------------------------------------------------------------------------
\* s is the chain of nodes from n on, by the links nx.
Chain(s, n, nx) ==
  /\ s \in Seq(Nodes)
  /\ \A i, j \in 1 .. Len(s) : s[i] = s[j] => i = j
  /\ IF n \in Nodes THEN s # <<>> /\ s[1] = n ELSE s = <<>>
  /\ \A i \in 1 .. Len(s) : nx[s[i]] = IF i < Len(s) THEN s[i + 1] ELSE Null

LEMMA ChainIsShort ==
  ASSUME NEW s \in Seq(Nodes), \A i, j \in 1 .. Len(s) : s[i] = s[j] => i = j
  PROVE  Len(s) <= Cardinality(Nodes) /\ Cardinality(Nodes) \in Nat
<1>1. s \in Injection(1 .. Len(s), Nodes)
  BY DEF Injection, IsInjective
<1>2. Cardinality(1 .. Len(s)) <= Cardinality(Nodes)
  BY <1>1, FS_Injection, NodesAssumption
<1>3. Cardinality(1 .. Len(s)) = Len(s)
  BY FS_Interval
<1> QED
  BY <1>2, <1>3, FS_CardinalityType, NodesAssumption

\* A chain there is, ChainFrom finds.
LEMMA ChainIsFound ==
  ASSUME NEW s, NEW n, NEW nx, Chain(s, n, nx)
  PROVE  ChainFrom(n, nx) = s
<1> DEFINE walk == CHOOSE w : w = [k \in Nat |-> IF k = 0 THEN n ELSE nx[w[k - 1]]]
           Length(k) == /\ \A i \in 0 .. k - 1 : walk[i] \in Nodes
                        /\ k < Cardinality(Nodes) => walk[k] \notin Nodes
           length == CHOOSE k \in 0 .. Cardinality(Nodes) : Length(k)
<1>1. walk = [k \in Nat |-> IF k = 0 THEN n ELSE nx[walk[k - 1]]]
  BY WalkExists
<1>2. ChainFrom(n, nx) = [i \in 1 .. length |-> walk[i - 1]]
  BY DEF ChainFrom
<1> HIDE DEF walk
<1>3. walk[0] = n /\ \A k \in Nat : walk[k + 1] = nx[walk[k]]
  BY <1>1
<1>4. s \in Seq(Nodes) /\ Len(s) \in Nat /\ Len(s) <= Cardinality(Nodes) /\ Cardinality(Nodes) \in Nat
  BY ChainIsShort DEF Chain
<1>5. \A i \in 1 .. Len(s) : walk[i - 1] = s[i]
  <2> DEFINE S == {i \in Nat : i < Len(s) => walk[i] = s[i + 1]}
  <2>1. 0 \in S
    <3>1. ASSUME 0 < Len(s) PROVE s[1] = n
      BY <3>1 DEF Chain
    <3> QED
      BY <3>1, <1>3
  <2>2. ASSUME NEW i \in Nat, i \in S PROVE i + 1 \in S
    <3>1. CASE i + 1 < Len(s)
      <4>1. walk[i] = s[i + 1]
        BY <2>2, <3>1, <1>4
      <4>2. nx[s[i + 1]] = s[i + 2]
        BY <3>1, <1>4 DEF Chain
      <4>3. walk[i + 1] = s[i + 1 + 1]
        BY <4>1, <4>2, <1>3
      <4> QED
        BY <4>3
    <3> QED
      BY <3>1
  <2> HIDE DEF S
  <2>3. Nat \subseteq S
    BY <2>1, <2>2, InductionOverNat
  <2> QED
    BY <2>3, <1>4 DEF S
<1>6. walk[Len(s)] \notin Nodes
  <2>1. CASE s = <<>>
    BY <2>1, <1>3 DEF Chain
  <2>2. CASE s # <<>>
    <3>1. Len(s) >= 1 /\ Len(s) - 1 \in Nat
      BY <2>2, <1>4
    <3>2. walk[Len(s) - 1] = s[Len(s)]
      BY <3>1, <1>5, <1>4
    <3>3. walk[Len(s)] = nx[walk[Len(s) - 1]]
      BY <3>1, <1>3
    <3>4. nx[s[Len(s)]] = Null
      BY <3>1 DEF Chain
    <3> QED
      BY <3>2, <3>3, <3>4, NodesAssumption
  <2> QED
    BY <2>1, <2>2
<1>7. \A i \in 1 .. Len(s) : s[i] \in Nodes
  BY <1>4
<1>8. Length(Len(s))
  BY <1>4, <1>5, <1>6, <1>7
<1>9. ASSUME NEW k \in 0 .. Cardinality(Nodes), Length(k) PROVE k = Len(s)
  <2>1. CASE k < Len(s)
    <3>1. walk[k] \in Nodes
      <4>1. k + 1 \in 1 .. Len(s) /\ k + 1 - 1 = k
        BY <2>1, <1>4
      <4> QED
        BY <4>1, <1>5, <1>7
    <3> QED
      BY <2>1, <3>1, <1>4, <1>9
  <2>2. CASE k > Len(s)
    BY <2>2, <1>4, <1>6, <1>9
  <2> QED
    BY <2>1, <2>2, <1>4
<1>10. length = Len(s)
  <2>1. Len(s) \in 0 .. Cardinality(Nodes)
    BY <1>4
  <2> HIDE DEF Length
  <2> QED
    BY <2>1, <1>8, <1>9
<1> HIDE DEF length
<1> QED
  BY <1>2, <1>4, <1>5, <1>10
\* What happens to a chain: a link elsewhere changes, a node is put in front, the
\* first node is taken off.
LEMMA ChainKept ==
  ASSUME NEW s, NEW n, NEW nx \in [Nodes -> Nodes \union {Null}], Chain(s, n, nx),
         NEW m, m \notin Range(s), NEW x
  PROVE  Chain(s, n, [nx EXCEPT ![m] = x])
  BY DEF Chain, Range

LEMMA ChainExtended ==
  ASSUME NEW s, NEW n \in Nodes \union {Null}, NEW nx, Chain(s, n, nx),
         NEW m \in Nodes, m \notin Range(s), nx[m] = n
  PROVE  /\ Chain(<<m>> \o s, m, nx)
         /\ Range(<<m>> \o s) = Range(s) \union {m}
<1> DEFINE r == <<m>> \o s
<1>1. s \in Seq(Nodes) /\ Len(s) \in Nat
  BY DEF Chain
<1>2. /\ r \in Seq(Nodes) /\ Len(r) = Len(s) + 1 /\ r[1] = m
      /\ \A i \in 2 .. Len(r) : r[i] = s[i - 1]
  BY <1>1
<1>3. DOMAIN r = 1 .. Len(r) /\ DOMAIN s = 1 .. Len(s)
  BY <1>1, <1>2
<1> HIDE DEF r
<1>4. Range(r) = Range(s) \union {m}
  <2>1. \A x \in Range(r) : x \in Range(s) \union {m}
    BY <1>1, <1>2, <1>3 DEF Range
  <2>2. ASSUME NEW i \in 1 .. Len(s) PROVE s[i] \in Range(r)
    <3>1. i + 1 \in 2 .. Len(r) /\ i + 1 - 1 = i
      BY <1>1, <1>2
    <3>2. i + 1 \in DOMAIN r /\ r[i + 1] = s[i]
      BY <3>1, <1>2, <1>3
    <3> QED
      BY <3>2 DEF Range
  <2>3. m \in Range(r)
    BY <1>1, <1>2, <1>3 DEF Range
  <2> QED
    BY <2>1, <2>2, <2>3, <1>3 DEF Range
<1>5. \A i, j \in 1 .. Len(r) : r[i] = r[j] => i = j
  <2>1. \A i \in 2 .. Len(r) : i - 1 \in 1 .. Len(s) /\ r[i] = s[i - 1]
    BY <1>1, <1>2
  <2>2. \A i \in 2 .. Len(r) : r[i] # m
    BY <2>1, <1>3 DEF Range
  <2>3. ASSUME NEW i \in 2 .. Len(r), NEW j \in 2 .. Len(r), r[i] = r[j] PROVE i = j
    <3>1. i - 1 = j - 1
      BY <2>1, <2>3 DEF Chain
    <3> QED
      BY <3>1
  <2> QED
    BY <2>2, <2>3, <1>2
<1>6. ASSUME NEW i \in 1 .. Len(r) PROVE nx[r[i]] = IF i < Len(r) THEN r[i + 1] ELSE Null
  <2>1. CASE i = 1
    <3>1. CASE n \in Nodes
      <4>1. s # <<>> /\ s[1] = n
        BY <3>1 DEF Chain
      <4> QED
        BY <2>1, <4>1, <1>1, <1>2
    <3>2. CASE n \notin Nodes
      <4>1. Len(s) = 0
        BY <3>2 DEF Chain
      <4> QED
        BY <2>1, <4>1, <3>2, <1>2
    <3> QED
      BY <3>1, <3>2
  <2>2. CASE i # 1
    <3>1. i - 1 \in 1 .. Len(s) /\ r[i] = s[i - 1]
      BY <2>2, <1>1, <1>2
    <3>2. nx[s[i - 1]] = IF i - 1 < Len(s) THEN s[i - 1 + 1] ELSE Null
      BY <3>1 DEF Chain
    <3>3. ASSUME i < Len(r) PROVE r[i + 1] = s[i - 1 + 1]
      <4>1. i + 1 \in 2 .. Len(r) /\ i + 1 - 1 = i - 1 + 1
        BY <3>3, <1>1, <1>2
      <4> QED
        BY <4>1, <1>2
    <3> QED
      BY <3>1, <3>2, <3>3, <1>1, <1>2
  <2> QED
    BY <2>1, <2>2
<1>7. r # <<>>
  BY <1>1, <1>2
<1> QED
  BY <1>2, <1>4, <1>5, <1>6, <1>7 DEF Chain, r

LEMMA ChainTaken ==
  ASSUME NEW s, NEW n \in Nodes, NEW nx, Chain(s, n, nx)
  PROVE  /\ s # <<>> /\ Head(s) = n /\ n \in Range(s)
         /\ nx[n] \in Nodes \union {Null}
         /\ Chain(Tail(s), nx[n], nx)
         /\ Range(Tail(s)) = Range(s) \ {n}
<1> DEFINE r == Tail(s)
<1>1. s \in Seq(Nodes) /\ Len(s) \in Nat /\ s # <<>> /\ s[1] = n /\ Len(s) >= 1
  BY DEF Chain
<1>2. /\ r \in Seq(Nodes) /\ Len(r) = Len(s) - 1
      /\ \A i \in 1 .. Len(r) : r[i] = s[i + 1]
  BY <1>1
<1>3. DOMAIN r = 1 .. Len(r) /\ DOMAIN s = 1 .. Len(s)
  BY <1>1, <1>2
<1>4. Head(s) = n /\ n \in Range(s)
  BY <1>1, <1>3 DEF Range
<1> HIDE DEF r
<1>5. Range(r) = Range(s) \ {n}
  <2>1. ASSUME NEW i \in 1 .. Len(r) PROVE r[i] \in Range(s) \ {n}
    <3>1. i + 1 \in 1 .. Len(s) /\ i + 1 # 1
      BY <1>1, <1>2
    <3> QED
      BY <3>1, <1>1, <1>2, <1>3 DEF Range, Chain
  <2>2. ASSUME NEW i \in 1 .. Len(s), s[i] # n PROVE s[i] \in Range(r)
    <3>1. i - 1 \in 1 .. Len(r) /\ i - 1 + 1 = i
      BY <1>1, <1>2, <2>2
    <3> QED
      BY <3>1, <1>2, <1>3 DEF Range
  <2> QED
    BY <2>1, <2>2, <1>3 DEF Range
<1>6. nx[n] = IF 1 < Len(s) THEN s[2] ELSE Null
  BY <1>1 DEF Chain
<1>7. nx[n] \in Nodes \union {Null} /\ IF nx[n] \in Nodes THEN r # <<>> /\ r[1] = nx[n] ELSE r = <<>>
  BY <1>1, <1>2, <1>6, NodesAssumption
<1>8. \A i, j \in 1 .. Len(r) : r[i] = r[j] => i = j
  <2>1. \A i \in 1 .. Len(r) : i + 1 \in 1 .. Len(s)
    BY <1>1, <1>2
  <2> QED
    BY <2>1, <1>2 DEF Chain
<1>9. ASSUME NEW i \in 1 .. Len(r) PROVE nx[r[i]] = IF i < Len(r) THEN r[i + 1] ELSE Null
  <2>1. i + 1 \in 1 .. Len(s) /\ r[i] = s[i + 1]
    BY <1>1, <1>2
  <2>2. nx[s[i + 1]] = IF i + 1 < Len(s) THEN s[i + 1 + 1] ELSE Null
    BY <2>1 DEF Chain
  <2>3. i < Len(r) => r[i + 1] = s[i + 1 + 1]
    BY <1>1, <1>2
  <2> QED
    BY <2>1, <2>2, <2>3, <1>1, <1>2
<1> QED
  BY <1>1, <1>2, <1>4, <1>5, <1>7, <1>8, <1>9 DEF Chain, r

LEMMA EmptyChain ==
  ASSUME NEW n, n \notin Nodes, NEW nx
  PROVE  Chain(<<>>, n, nx) /\ ChainFrom(n, nx) = <<>>
<1>1. Chain(<<>>, n, nx)
  BY DEF Chain
<1> QED
  BY <1>1, ChainIsFound
-----------------------------------------------------------------------------
\* The stack is a chain, and so is what a thread works off; what a popper holds
\* is the one node it took.
Chains ==
  /\ Chain(Stack, head, next)
  /\ \A t \in Threads :
       IF use = "pop" THEN Held(t) = IF got[t] = Null THEN <<>> ELSE <<got[t]>>
                      ELSE Chain(Held(t), got[t], next)

\* Nobody pushes, holds or finds in the stack a node that another one has.
NodesApart ==
  \A t \in Threads :
    /\ mine[t] \notin Range(Stack)
    /\ Range(Held(t)) \intersect Range(Stack) = {}
    /\ \A u \in Threads : mine[t] \notin Range(Held(u))
    /\ \A u \in Threads \ {t} :
         /\ mine[t] = mine[u] => mine[t] = Null
         /\ Range(Held(t)) \intersect Range(Held(u)) = {}

\* A thread that pushes has a node, linked to the head it has seen.
Pushers ==
  \A t \in Threads :
    /\ at[t] \in {"push", "link"} <=> mine[t] # Null
    /\ at[t] = "link" => next[mine[t]] = seen[t]

\* One thread pops.  The node it has seen is in the stack, and so keeps its link.
Popping(t) == at[t] \in {"pop", "next", "swing"}
Poppers ==
  \A t \in Threads :
    /\ Popping(t) => use = "pop" /\ got[t] = Null
    /\ \A u \in Threads : Popping(t) /\ Popping(u) => t = u
    /\ at[t] \in {"next", "swing"} => seen[t] \in Range(Stack)
    /\ at[t] = "swing" => seenNext[t] = next[seen[t]]

StackInv == StackTypeOK /\ Chains /\ NodesApart /\ Pushers /\ Poppers
-----------------------------------------------------------------------------
LEMMA StackTyped == ASSUME StackInv, [StackNext]_stackVars PROVE StackTypeOK'
<1> USE NodesAssumption DEF StackTypeOK, Links, Move
<1>0. /\ StackTypeOK
      /\ \A t \in Threads : at[t] = "link" => mine[t] \in Nodes
      /\ \A t \in Threads : at[t] \in {"next", "swing"} => seen[t] \in Nodes
      /\ \A t \in Threads : Popping(t) => use = "pop"
  <2>1. Range(Stack) \subseteq Nodes
    BY DEF StackInv, Chains, Chain, Range
  <2> QED
    BY <2>1 DEF StackInv, Pushers, Poppers
<1>1. ASSUME NEW t \in Threads, NEW n \in Nodes, CallPush(t, n) PROVE StackTypeOK'
  BY <1>0, <1>1 DEF CallPush
<1>2. ASSUME NEW t \in Threads, LoadHead(t) PROVE StackTypeOK'
  BY <1>0, <1>2 DEF LoadHead
<1>3. ASSUME NEW t \in Threads, PushRefused(t) \/ LinkFails(t) \/ SwingFails(t)
      PROVE  StackTypeOK'
  BY <1>0, <1>3 DEF PushRefused, LinkFails, SwingFails
<1>4. ASSUME NEW t \in Threads, Link(t) PROVE StackTypeOK'
  BY <1>0, <1>4 DEF Link
<1>5. ASSUME NEW t \in Threads, CallPop(t) PROVE StackTypeOK'
  BY <1>0, <1>5 DEF CallPop
<1>6. ASSUME NEW t \in Threads, LoadTop(t) PROVE StackTypeOK'
  BY <1>0, <1>6 DEF LoadTop, Popping
<1>7. ASSUME NEW t \in Threads, ReadNext(t) PROVE StackTypeOK'
  BY <1>0, <1>7 DEF ReadNext
<1>8. ASSUME NEW t \in Threads, Swing(t) PROVE StackTypeOK'
  BY <1>0, <1>8 DEF Swing
<1>9. ASSUME NEW t \in Threads, GetChain(t) PROVE StackTypeOK'
  BY <1>0, <1>9 DEF GetChain
<1>10. ASSUME NEW t \in Threads, GetChainAndInvalidate(t) PROVE StackTypeOK'
  BY <1>0, <1>10 DEF GetChainAndInvalidate
<1>11. ASSUME NEW t \in Threads, Visit(t) PROVE StackTypeOK'
  BY <1>0, <1>11 DEF Visit
<1>12. CASE UNCHANGED stackVars
  BY <1>0, <1>12 DEF stackVars
<1> QED
  BY <1>1, <1>2, <1>3, <1>4, <1>5, <1>6, <1>7, <1>8, <1>9, <1>10, <1>11, <1>12
  DEF StackNext

\* Chains, before and after: what the chain of nodes is, Stack and Held find.
LEMMA StackAfter ==
  ASSUME NEW s, Chain(s, head', next')
  PROVE  Stack' = s
  BY ChainIsFound DEF Stack

LEMMA HeldAfter ==
  ASSUME StackTypeOK', NEW t \in Threads
  PROVE  /\ use' = "pop" => Held(t)' = IF got'[t] = Null THEN <<>> ELSE <<got'[t]>>
         /\ \A s : use' # "pop" /\ Chain(s, got'[t], next') => Held(t)' = s
<1>1. got'[t] \in Nodes \union {Null}
  BY DEF StackTypeOK
<1>2. got'[t] = Null => ChainFrom(got'[t], next') = <<>>
  BY EmptyChain, NodesAssumption
<1>3. \A s : Chain(s, got'[t], next') => ChainFrom(got'[t], next') = s
  BY ChainIsFound
<1>4. CASE use' = "pop"
  BY <1>1, <1>2, <1>4, NodesAssumption DEF Held
<1>5. CASE use' # "pop"
  BY <1>3, <1>5 DEF Held
<1> QED
  BY <1>4, <1>5

\* Steps that take no node off and put none in.
Calm == Stack' = Stack /\ \A t \in Threads : Held(t)' = Held(t)

LEMMA CalmWhenLinksStay ==
  ASSUME StackInv, UNCHANGED <<use, head, next, got>>
  PROVE  Calm /\ Chains'
<1>1. Calm
  BY DEF Calm, Stack, Held
<1> QED
  BY <1>1 DEF Calm, StackInv, Chains

LEMMA CalmLoadHead ==
  ASSUME StackInv, StackTypeOK', NEW t \in Threads, LoadHead(t)
  PROVE  Calm /\ Chains'
<1>1. StackTypeOK /\ Chains /\ next \in [Nodes -> Nodes \union {Null}]
  BY DEF StackInv, StackTypeOK
<1>2. next' = [next EXCEPT ![mine[t]] = head] /\ UNCHANGED <<use, head, got>>
  BY DEF LoadHead
<1>3. Chain(Stack, head', next')
  BY <1>1, <1>2, ChainKept DEF StackInv, NodesApart, Chains
<1>4. Stack' = Stack
  BY <1>3, StackAfter
<1>5. ASSUME NEW u \in Threads
      PROVE  /\ Held(u)' = Held(u)
             /\ use' # "pop" => Chain(Held(u), got'[u], next')
  <2>1. CASE use = "pop"
    BY <2>1, <1>1, <1>2, HeldAfter DEF Chains
  <2>2. CASE use # "pop"
    <3>1. Chain(Held(u), got[u], next)
      BY <2>2, <1>1 DEF Chains
    <3>2. mine[t] \notin Range(Held(u))
      BY DEF StackInv, NodesApart
    <3>3. Chain(Held(u), got'[u], next')
      BY <3>1, <3>2, <1>1, <1>2, ChainKept
    <3> QED
      BY <3>3, <2>2, <1>2, HeldAfter
  <2> QED
    BY <2>1, <2>2
<1>6. Calm
  BY <1>4, <1>5 DEF Calm
<1>7. \A u \in Threads :
        IF use' = "pop" THEN Held(u)' = IF got'[u] = Null THEN <<>> ELSE <<got'[u]>>
                        ELSE Chain(Held(u)', got'[u], next')
  BY <1>1, <1>2, <1>5 DEF Chains
<1>8. Chain(Stack', head', next')
  BY <1>3, <1>4
<1> QED
  BY <1>6, <1>7, <1>8 DEF Chains

\* Whose got and next_ stay has what it had.
LEMMA HeldStays ==
  ASSUME StackInv, StackTypeOK', NEW u \in Threads,
         use' = use, next' = next, got'[u] = got[u]
  PROVE  /\ Held(u)' = Held(u)
         /\ IF use' = "pop" THEN Held(u)' = IF got'[u] = Null THEN <<>> ELSE <<got'[u]>>
                            ELSE Chain(Held(u)', got'[u], next')
<1>1. IF use = "pop" THEN Held(u) = IF got[u] = Null THEN <<>> ELSE <<got[u]>>
                     ELSE Chain(Held(u), got[u], next)
  BY DEF StackInv, Chains
<1>2. Held(u)' = Held(u)
  BY <1>1, HeldAfter
<1> QED
  BY <1>1, <1>2

LEMMA LinkPushes ==
  ASSUME StackInv, StackTypeOK', NEW t \in Threads, Link(t)
  PROVE  /\ mine[t] \in Nodes /\ head # Closed
         /\ Stack' = <<mine[t]>> \o Stack
         /\ Range(Stack') = Range(Stack) \union {mine[t]}
         /\ \A u \in Threads : Held(u)' = Held(u)
         /\ Chains'
<1>1. /\ head = seen[t] /\ at[t] = "link" /\ head' = mine[t]
      /\ UNCHANGED <<use, next, got>>
  BY DEF Link, Move
<1>2. mine[t] \in Nodes /\ next[mine[t]] = head /\ mine[t] \notin Range(Stack)
  BY <1>1 DEF StackInv, StackTypeOK, Pushers, NodesApart
<1>3. head \in Nodes \union {Null} /\ head # Closed
  BY <1>1, NodesAssumption DEF StackInv, StackTypeOK
<1>4. Chain(Stack, head, next)
  BY DEF StackInv, Chains
<1>5. /\ Chain(<<mine[t]>> \o Stack, mine[t], next)
      /\ Range(<<mine[t]>> \o Stack) = Range(Stack) \union {mine[t]}
  BY <1>2, <1>3, <1>4, ChainExtended
<1>6. Chain(<<mine[t]>> \o Stack, head', next')
  BY <1>1, <1>5
<1>7. Stack' = <<mine[t]>> \o Stack
  BY <1>6, StackAfter
<1>8. Chain(Stack', head', next')
  BY <1>6, <1>7
<1> QED
  BY <1>1, <1>2, <1>3, <1>5, <1>7, <1>8, HeldStays DEF Chains

LEMMA SwingPops ==
  ASSUME StackInv, StackTypeOK', NEW t \in Threads, Swing(t)
  PROVE  /\ Stack # <<>> /\ use = "pop" /\ seen[t] \in Nodes /\ head # Closed /\ head' # Closed
         /\ Held(t) = <<>> /\ Held(t)' = <<Head(Stack)>>
         /\ Head(Stack) = seen[t] /\ seen[t] \in Range(Stack)
         /\ Stack' = Tail(Stack)
         /\ Range(Stack') = Range(Stack) \ {seen[t]}
         /\ \A u \in Threads \ {t} : Held(u)' = Held(u)
         /\ Chains'
<1>1. /\ head = seen[t] /\ at[t] = "swing" /\ head' = seenNext[t]
      /\ got' = [got EXCEPT ![t] = seen[t]]
      /\ UNCHANGED <<use, next>>
  BY DEF Swing, Move
<1>2. /\ use = "pop" /\ got[t] = Null /\ seen[t] \in Range(Stack)
      /\ seenNext[t] = next[head]
  BY <1>1 DEF StackInv, Poppers, Popping
<1>3. Chain(Stack, head, next) /\ got \in [Threads -> Nodes \union {Null}]
  BY DEF StackInv, Chains, StackTypeOK
<1>4. head \in Nodes
  BY <1>1, <1>2, <1>3 DEF Chain, Range
<1>5. /\ Stack # <<>> /\ Head(Stack) = head
      /\ next[head] \in Nodes \union {Null}
      /\ Chain(Tail(Stack), next[head], next)
      /\ Range(Tail(Stack)) = Range(Stack) \ {head}
  BY <1>3, <1>4, ChainTaken
<1>6. Chain(Tail(Stack), head', next')
  BY <1>1, <1>2, <1>5
<1>7. Stack' = Tail(Stack)
  BY <1>6, StackAfter
<1>8. Held(t) = <<>>
  BY <1>2 DEF StackInv, Chains
<1>9. Held(t)' = <<seen[t]>> /\ got'[t] = seen[t]
  BY <1>1, <1>2, <1>3, <1>4, HeldAfter, NodesAssumption
<1>10. ASSUME NEW u \in Threads \ {t}
       PROVE  /\ Held(u)' = Held(u)
              /\ Held(u)' = IF got'[u] = Null THEN <<>> ELSE <<got'[u]>>
  <2>1. got'[u] = got[u]
    BY <1>1, <1>3
  <2> QED
    BY <2>1, <1>1, <1>2, HeldStays
<1>11. Chain(Stack', head', next')
  BY <1>6, <1>7
<1>12. \A u \in Threads : Held(u)' = IF got'[u] = Null THEN <<>> ELSE <<got'[u]>>
  BY <1>1, <1>4, <1>9, <1>10, NodesAssumption
<1>13. Chains'
  BY <1>1, <1>2, <1>11, <1>12 DEF Chains
<1> QED
  BY <1>1, <1>2, <1>4, <1>5, <1>7, <1>8, <1>9, <1>10, <1>13, NodesAssumption

LEMMA TakingTakesAll ==
  ASSUME StackInv, StackTypeOK', NEW t \in Threads, GetChain(t) \/ GetChainAndInvalidate(t)
  PROVE  /\ Held(t) = <<>> /\ Held(t)' = Stack /\ Stack' = <<>> /\ use # "pop"
         /\ head' = Closed \/ (head # Closed /\ head' # Closed)
         /\ \A u \in Threads \ {t} : Held(u)' = Held(u)
         /\ Chains'
<1> USE NodesAssumption
<1>1. /\ use # "pop" /\ got[t] = Null /\ head' \notin Nodes
      /\ got' = [got EXCEPT ![t] = IF head = Closed THEN Null ELSE head]
      /\ UNCHANGED <<use, next>>
      /\ head' = Closed \/ (head # Closed /\ head' # Closed)
  BY DEF GetChain, GetChainAndInvalidate, StackInv, StackTypeOK
<1>2. Chain(Stack, head, next) /\ got \in [Threads -> Nodes \union {Null}]
  BY DEF StackInv, Chains, StackTypeOK
<1>3. Chain(<<>>, head', next')
  BY <1>1, EmptyChain
<1>4. Stack' = <<>>
  BY <1>3, StackAfter
<1>5. Held(t) = <<>>
  <2>1. Chain(Held(t), Null, next)
    BY <1>1 DEF StackInv, Chains
  <2> QED
    BY <2>1 DEF Chain
<1>6. Chain(Stack, got'[t], next')
  <2>1. CASE head = Closed
    <3>1. Stack = <<>>
      BY <2>1, <1>2 DEF Chain
    <3> QED
      BY <2>1, <3>1, <1>1, <1>2, EmptyChain
  <2>2. CASE head # Closed
    BY <2>2, <1>1, <1>2
  <2> QED
    BY <2>1, <2>2
<1>7. Held(t)' = Stack
  BY <1>1, <1>6, HeldAfter
<1>8. ASSUME NEW u \in Threads \ {t}
      PROVE  Held(u)' = Held(u) /\ Chain(Held(u)', got'[u], next')
  <2>1. got'[u] = got[u]
    BY <1>1, <1>2
  <2> QED
    BY <2>1, <1>1, HeldStays
<1>9. Chain(Stack', head', next')
  BY <1>3, <1>4
<1>10. \A u \in Threads : Chain(Held(u)', got'[u], next')
  BY <1>6, <1>7, <1>8
<1>11. Chains'
  BY <1>1, <1>9, <1>10 DEF Chains
<1> QED
  BY <1>1, <1>4, <1>5, <1>7, <1>8, <1>11

LEMMA VisitLetsGo ==
  ASSUME StackInv, StackTypeOK', NEW t \in Threads, Visit(t)
  PROVE  /\ Held(t) # <<>> /\ Held(t)' = Tail(Held(t))
         /\ Range(Held(t)') \subseteq Range(Held(t))
         /\ Stack' = Stack
         /\ \A u \in Threads \ {t} : Held(u)' = Held(u)
         /\ Chains'
<1> USE NodesAssumption
<1>1. /\ got[t] # Null
      /\ got' = [got EXCEPT ![t] = IF use = "pop" THEN Null ELSE next[got[t]]]
      /\ UNCHANGED <<use, next, head>>
  BY DEF Visit
<1>2. Chain(Stack, head, next) /\ got \in [Threads -> Nodes \union {Null}] /\ got[t] \in Nodes
  BY <1>1 DEF StackInv, Chains, StackTypeOK
<1>3. Stack' = Stack
  BY <1>1 DEF Stack
<1>4. /\ Held(t) # <<>> /\ Held(t)' = Tail(Held(t))
      /\ Range(Held(t)') \subseteq Range(Held(t))
      /\ IF use' = "pop" THEN Held(t)' = IF got'[t] = Null THEN <<>> ELSE <<got'[t]>>
                         ELSE Chain(Held(t)', got'[t], next')
  <2>1. CASE use = "pop"
    <3>1. Held(t) = <<got[t]>>
      BY <2>1, <1>1 DEF StackInv, Chains
    <3>2. got'[t] = Null /\ Held(t)' = <<>>
      BY <2>1, <1>1, <1>2, HeldAfter
    <3>3. Tail(<<got[t]>>) = <<>> /\ Range(<<>>) = {}
      BY DEF Range
    <3> QED
      BY <2>1, <3>1, <3>2, <3>3, <1>1
  <2>2. CASE use # "pop"
    <3>1. Chain(Held(t), got[t], next)
      BY <2>2, <1>1 DEF StackInv, Chains
    <3>2. /\ Held(t) # <<>> /\ Chain(Tail(Held(t)), next[got[t]], next)
          /\ Range(Tail(Held(t))) = Range(Held(t)) \ {got[t]}
      BY <3>1, <1>2, ChainTaken
    <3>3. got'[t] = next[got[t]]
      BY <2>2, <1>1, <1>2
    <3>4. Chain(Tail(Held(t)), got'[t], next')
      BY <3>2, <3>3, <1>1
    <3>5. Held(t)' = Tail(Held(t))
      BY <2>2, <3>4, <1>1, HeldAfter
    <3>6. Chain(Held(t)', got'[t], next')
      BY <3>4, <3>5
    <3> QED
      BY <2>2, <3>2, <3>5, <3>6, <1>1
  <2> QED
    BY <2>1, <2>2
<1>5. ASSUME NEW u \in Threads \ {t}
      PROVE  /\ Held(u)' = Held(u)
             /\ IF use' = "pop" THEN Held(u)' = IF got'[u] = Null THEN <<>> ELSE <<got'[u]>>
                                ELSE Chain(Held(u)', got'[u], next')
  <2>1. got'[u] = got[u]
    BY <1>1, <1>2
  <2> QED
    BY <2>1, <1>1, HeldStays
<1>6. Chain(Stack', head', next')
  BY <1>1, <1>2, <1>3
<1>7. Chains'
  BY <1>4, <1>5, <1>6 DEF Chains
<1> QED
  BY <1>3, <1>4, <1>5, <1>7

LEMMA NodesInChains ==
  ASSUME Chains, StackTypeOK
  PROVE  /\ Range(Stack) \subseteq Nodes
         /\ \A t \in Threads : Range(Held(t)) \subseteq Nodes
<1>1. Range(Stack) \subseteq Nodes
  BY DEF Chains, Chain, Range
<1>2. ASSUME NEW t \in Threads PROVE Range(Held(t)) \subseteq Nodes
  <2>1. CASE use = "pop"
    BY <2>1 DEF Chains, StackTypeOK, Range
  <2>2. CASE use # "pop"
    BY <2>2 DEF Chains, Chain, Range
  <2> QED
    BY <2>1, <2>2
<1> QED
  BY <1>1, <1>2

\* A node has one place, whatever the step.
LEMMA ApartStays ==
  ASSUME StackInv, StackTypeOK', [StackNext]_stackVars
  PROVE  NodesApart'
<1> USE NodesAssumption DEF NodesApart
<1>0. /\ StackTypeOK /\ NodesApart /\ Null \notin Range(Stack)
      /\ \A t \in Threads : Null \notin Range(Held(t))
      /\ mine \in [Threads -> Nodes \union {Null}]
  BY NodesInChains DEF StackInv, StackTypeOK
<1>1. ASSUME NEW t \in Threads, NEW n \in Nodes, CallPush(t, n) PROVE NodesApart'
  <2>1. Calm /\ mine' = [mine EXCEPT ![t] = n]
    BY <1>1, CalmWhenLinksStay DEF CallPush
  <2>2. /\ n \notin Range(Stack) /\ \A u \in Threads : n \notin Range(Held(u)) /\ n # mine[u]
    BY <1>1, <1>0 DEF CallPush, Free, Range
  <2> QED
    BY <2>1, <2>2, <1>0 DEF Calm
<1>2. ASSUME Calm, mine' = mine PROVE NodesApart'
  BY <1>0, <1>2 DEF Calm
<1>3. ASSUME NEW t \in Threads, PushRefused(t) PROVE NodesApart'
  <2>1. Calm /\ mine' = [mine EXCEPT ![t] = Null]
    BY <1>3, CalmWhenLinksStay DEF PushRefused
  <2> QED
    BY <2>1, <1>0 DEF Calm
<1>4. ASSUME NEW t \in Threads, Link(t) PROVE NodesApart'
  <2>1. mine' = [mine EXCEPT ![t] = Null]
    BY <1>4 DEF Link
  <2>2. /\ mine[t] \in Nodes
        /\ Range(Stack') = Range(Stack) \union {mine[t]}
        /\ \A u \in Threads : Held(u)' = Held(u)
    BY <1>4, LinkPushes
  <2> QED
    BY <2>1, <2>2, <1>0
<1>5. ASSUME NEW t \in Threads, Swing(t) PROVE NodesApart'
  <2>1. mine' = mine
    BY <1>5 DEF Swing
  <2>2. /\ Held(t)' = <<seen[t]>> /\ seen[t] \in Range(Stack)
        /\ Range(Stack') = Range(Stack) \ {seen[t]}
        /\ \A u \in Threads \ {t} : Held(u)' = Held(u)
    BY <1>5, SwingPops
  <2>3. Range(<<seen[t]>>) = {seen[t]}
    BY DEF Range
  <2> QED
    BY <2>1, <2>2, <2>3, <1>0
<1>6. ASSUME NEW t \in Threads, GetChain(t) \/ GetChainAndInvalidate(t) PROVE NodesApart'
  <2>1. mine' = mine
    BY <1>6 DEF GetChain, GetChainAndInvalidate
  <2>2. /\ Held(t)' = Stack /\ Stack' = <<>>
        /\ \A u \in Threads \ {t} : Held(u)' = Held(u)
    BY <1>6, TakingTakesAll
  <2>3. Range(<<>>) = {}
    BY DEF Range
  <2> QED
    BY <2>1, <2>2, <2>3, <1>0
<1>7. ASSUME NEW t \in Threads, Visit(t) PROVE NodesApart'
  <2>1. mine' = mine
    BY <1>7 DEF Visit
  <2>2. /\ Range(Held(t)') \subseteq Range(Held(t)) /\ Stack' = Stack
        /\ \A u \in Threads \ {t} : Held(u)' = Held(u)
    BY <1>7, VisitLetsGo
  <2> QED
    BY <2>1, <2>2, <1>0
<1>8. ASSUME NEW t \in Threads, LoadHead(t) PROVE NodesApart'
  BY <1>2, <1>8, CalmLoadHead DEF LoadHead
<1>9. ASSUME NEW t \in Threads,
             LinkFails(t) \/ CallPop(t) \/ LoadTop(t) \/ ReadNext(t) \/ SwingFails(t)
      PROVE  NodesApart'
  BY <1>2, <1>9, CalmWhenLinksStay DEF LinkFails, CallPop, LoadTop, ReadNext, SwingFails
<1>10. CASE UNCHANGED stackVars
  BY <1>2, <1>10, CalmWhenLinksStay DEF stackVars
<1> QED
  BY <1>1, <1>3, <1>4, <1>5, <1>6, <1>7, <1>8, <1>9, <1>10 DEF StackNext

LEMMA ChainsStay ==
  ASSUME StackInv, StackTypeOK', [StackNext]_stackVars
  PROVE  Chains'
<1>1. ASSUME NEW t \in Threads, NEW n \in Nodes, CallPush(t, n) PROVE Chains'
  BY <1>1, CalmWhenLinksStay DEF CallPush
<1>2. ASSUME NEW t \in Threads,
             PushRefused(t) \/ LinkFails(t) \/ CallPop(t) \/ LoadTop(t) \/ ReadNext(t)
               \/ SwingFails(t)
      PROVE  Chains'
  BY <1>2, CalmWhenLinksStay
  DEF PushRefused, LinkFails, CallPop, LoadTop, ReadNext, SwingFails
<1>3. ASSUME NEW t \in Threads,
             LoadHead(t) \/ Link(t) \/ Swing(t) \/ GetChain(t) \/ GetChainAndInvalidate(t)
               \/ Visit(t)
      PROVE  Chains'
  BY <1>3, CalmLoadHead, LinkPushes, SwingPops, TakingTakesAll, VisitLetsGo
<1>4. CASE UNCHANGED stackVars
  BY <1>4, CalmWhenLinksStay DEF stackVars
<1> QED
  BY <1>1, <1>2, <1>3, <1>4 DEF StackNext

LEMMA PushersStay ==
  ASSUME StackInv, StackTypeOK', [StackNext]_stackVars
  PROVE  Pushers'
<1> USE NodesAssumption DEF Pushers, Move
<1>0. /\ StackTypeOK /\ Pushers
      /\ \A t, u \in Threads : t # u /\ mine[t] = mine[u] => mine[t] = Null
  BY DEF StackInv, NodesApart
<1>1. ASSUME NEW t \in Threads, NEW n \in Nodes, CallPush(t, n) PROVE Pushers'
  BY <1>0, <1>1 DEF CallPush, StackTypeOK
<1>2. ASSUME NEW t \in Threads, LoadHead(t) PROVE Pushers'
  BY <1>0, <1>2 DEF LoadHead, StackTypeOK
<1>3. ASSUME NEW t \in Threads, PushRefused(t) \/ LinkFails(t) PROVE Pushers'
  BY <1>0, <1>3 DEF PushRefused, LinkFails, StackTypeOK
<1>4. ASSUME NEW t \in Threads, Link(t) PROVE Pushers'
  BY <1>0, <1>4 DEF Link, StackTypeOK
<1>5. ASSUME NEW t \in Threads, CallPop(t) \/ LoadTop(t) \/ ReadNext(t) PROVE Pushers'
  BY <1>0, <1>5 DEF CallPop, LoadTop, ReadNext, StackTypeOK
<1>6. ASSUME NEW t \in Threads, Swing(t) \/ SwingFails(t) PROVE Pushers'
  BY <1>0, <1>6 DEF Swing, SwingFails, StackTypeOK
<1>7. ASSUME NEW t \in Threads, GetChain(t) \/ GetChainAndInvalidate(t) \/ Visit(t)
      PROVE  Pushers'
  BY <1>0, <1>7 DEF GetChain, GetChainAndInvalidate, Visit, StackTypeOK
<1>8. CASE UNCHANGED stackVars
  BY <1>0, <1>8 DEF stackVars
<1> QED
  BY <1>1, <1>2, <1>3, <1>4, <1>5, <1>6, <1>7, <1>8 DEF StackNext

\* The popper's node stays in the stack, with its link: it alone takes nodes off,
\* and a push writes to a node that is nowhere.
LEMMA PoppersStay ==
  ASSUME StackInv, StackTypeOK', [StackNext]_stackVars
  PROVE  Poppers'
<1> USE NodesAssumption DEF Poppers, Popping, Move
<1>0. /\ StackTypeOK /\ Poppers
      /\ \A t \in Threads : mine[t] \notin Range(Stack)
  BY DEF StackInv, NodesApart
<1>1. ASSUME NEW t \in Threads, NEW n \in Nodes, CallPush(t, n) PROVE Poppers'
  <2>1. Stack' = Stack
    BY <1>1, CalmWhenLinksStay DEF CallPush, Calm
  <2> QED
    BY <2>1, <1>0, <1>1 DEF CallPush, StackTypeOK
<1>2. ASSUME NEW t \in Threads, LoadHead(t) PROVE Poppers'
  <2>1. Stack' = Stack
    BY <1>2, CalmLoadHead DEF Calm
  <2> QED
    BY <2>1, <1>0, <1>2 DEF LoadHead, StackTypeOK
<1>3. ASSUME NEW t \in Threads, PushRefused(t) \/ LinkFails(t) PROVE Poppers'
  <2>1. Stack' = Stack
    BY <1>3, CalmWhenLinksStay DEF PushRefused, LinkFails, Calm
  <2> QED
    BY <2>1, <1>0, <1>3 DEF PushRefused, LinkFails, StackTypeOK
<1>4. ASSUME NEW t \in Threads, Link(t) PROVE Poppers'
  <2>1. Range(Stack') = Range(Stack) \union {mine[t]}
    BY <1>4, LinkPushes
  <2> QED
    BY <2>1, <1>0, <1>4 DEF Link, StackTypeOK
<1>5. ASSUME NEW t \in Threads, CallPop(t) PROVE Poppers'
  <2>1. Stack' = Stack
    BY <1>5, CalmWhenLinksStay DEF CallPop, Calm
  <2> QED
    BY <2>1, <1>0, <1>5 DEF CallPop, StackTypeOK
<1>6. ASSUME NEW t \in Threads, LoadTop(t) PROVE Poppers'
  <2>1. Stack' = Stack
    BY <1>6, CalmWhenLinksStay DEF LoadTop, Calm
  <2>2. head \in Nodes => head \in Range(Stack)
    BY ChainTaken DEF StackInv, Chains
  <2>3. head \in Nodes \/ head = Null
    BY <1>0, <1>6 DEF LoadTop, StackTypeOK, Links
  <2> QED
    BY <2>1, <2>2, <2>3, <1>0, <1>6 DEF LoadTop, StackTypeOK
<1>7. ASSUME NEW t \in Threads, ReadNext(t) \/ SwingFails(t) PROVE Poppers'
  <2>1. Stack' = Stack
    BY <1>7, CalmWhenLinksStay DEF ReadNext, SwingFails, Calm
  <2> QED
    BY <2>1, <1>0, <1>7 DEF ReadNext, SwingFails, StackTypeOK
<1>8. ASSUME NEW t \in Threads, Swing(t) PROVE Poppers'
  BY <1>0, <1>8 DEF Swing, StackTypeOK
<1>9. ASSUME NEW t \in Threads, GetChain(t) \/ GetChainAndInvalidate(t) PROVE Poppers'
  BY <1>0, <1>9 DEF GetChain, GetChainAndInvalidate, StackTypeOK
<1>10. ASSUME NEW t \in Threads, Visit(t) PROVE Poppers'
  <2>1. Stack' = Stack
    BY <1>10, VisitLetsGo
  <2> QED
    BY <2>1, <1>0, <1>10 DEF Visit, StackTypeOK
<1>11. CASE UNCHANGED stackVars
  <2>1. Stack' = Stack
    BY <1>11, CalmWhenLinksStay DEF stackVars, Calm
  <2> QED
    BY <2>1, <1>0, <1>11 DEF stackVars
<1> QED
  BY <1>1, <1>2, <1>3, <1>4, <1>5, <1>6, <1>7, <1>8, <1>9, <1>10, <1>11 DEF StackNext

\* The nodes of a stack are in chains that share none of them, and the one that
\* pops has seen a node of the stack.
THEOREM StackInvHolds == StackSpec => []StackInv
<1>1. StackInit => StackInv
  <2> SUFFICES ASSUME StackInit PROVE StackInv
    OBVIOUS
  <2> USE NodesAssumption DEF StackInit
  <2>1. Stack = <<>> /\ Chain(Stack, head, next)
    BY EmptyChain DEF Stack
  <2>2. \A t \in Threads : Held(t) = <<>> /\ Chain(<<>>, got[t], next)
    BY EmptyChain DEF Held
  <2>3. Range(<<>>) = {}
    BY DEF Range
  <2>4. StackTypeOK
    BY DEF StackTypeOK, Links
  <2>5. Chains
    BY <2>1, <2>2 DEF Chains
  <2>6. NodesApart
    BY <2>1, <2>2, <2>3 DEF NodesApart
  <2> QED
    BY <2>4, <2>5, <2>6 DEF StackInv, Pushers, Poppers, Popping
<1>2. StackInv /\ [StackNext]_stackVars => StackInv'
  <2> SUFFICES ASSUME StackInv, [StackNext]_stackVars PROVE StackInv'
    OBVIOUS
  <2>1. StackTypeOK'
    BY StackTyped
  <2> QED
    BY <2>1, ChainsStay, ApartStays, PushersStay, PoppersStay DEF StackInv
<1> QED
  BY <1>1, <1>2, PTL DEF StackSpec

\* The compare-exchange of TryPop never succeeds with a stale link, for any
\* number of threads and nodes, although nodes come back.
THEOREM LinksHold == StackSpec => []LinksInv
<1>1. StackInv => LinksInv
  BY DEF StackInv, LinksInv, SwingIsSafe, Poppers
<1> QED
  BY <1>1, StackInvHolds, PTL

\* What is left of a step on the stack: what each thread holds, and the mark.
LEMMA HoldingAfter ==
  ASSUME NEW t \in Threads, NEW s, Held(t)' = s,
         \A u \in Threads \ {t} : Held(u)' = Held(u)
  PROVE  [u \in Threads |-> Held(u)]' = [[u \in Threads |-> Held(u)] EXCEPT ![t] = s]
  OBVIOUS

LEMMA CalmIsHidden ==
  ASSUME Calm, head' = Closed <=> head = Closed
  PROVE  UNCHANGED <<Stack, head = Closed, [t \in Threads |-> Held(t)]>>
<1>1. [t \in Threads |-> Held(t)]' = [t \in Threads |-> Held(t)]
  BY DEF Calm
<1>2. (head = Closed)' = (head = Closed)
  OBVIOUS
<1> QED
  BY <1>1, <1>2 DEF Calm

\* LockFreeStack2 implements NodeStack: for any number of threads and nodes its
\* operations are operations on a stack, at the instant of their exchange, and no
\* node is lost, doubled or in two chains.
THEOREM StackImplementsNodeStack == StackSpec => ImplementsNodeStack
<1> DEFINE held == [t \in Threads |-> Held(t)]
<1>1. StackInit => AbstractStack!Init
  <2> SUFFICES ASSUME StackInit PROVE AbstractStack!Init
    OBVIOUS
  <2>1. Stack = <<>> /\ \A t \in Threads : Held(t) = <<>>
    BY EmptyChain, NodesAssumption DEF StackInit, Stack, Held
  <2>2. (head = Closed) = FALSE
    BY NodesAssumption DEF StackInit
  <2> QED
    BY <2>1, <2>2 DEF AbstractStack!Init
<1>2. StackInv /\ StackInv' /\ [StackNext]_stackVars => [AbstractStack!Next]_(AbstractStack!vars)
  <2> SUFFICES ASSUME StackInv, StackInv', [StackNext]_stackVars
               PROVE  AbstractStack!Next \/ UNCHANGED <<Stack, head = Closed, held>>
    BY DEF AbstractStack!vars
  <2>0. StackTypeOK /\ StackTypeOK'
    BY DEF StackInv
  <2>1. ASSUME NEW t \in Threads, NEW n \in Nodes, CallPush(t, n)
        PROVE  UNCHANGED <<Stack, head = Closed, held>>
    BY <2>1, CalmWhenLinksStay, CalmIsHidden DEF CallPush
  <2>2. ASSUME NEW t \in Threads, LoadHead(t) PROVE UNCHANGED <<Stack, head = Closed, held>>
    BY <2>0, <2>2, CalmLoadHead, CalmIsHidden DEF LoadHead
  <2>3. ASSUME NEW t \in Threads,
               PushRefused(t) \/ LinkFails(t) \/ CallPop(t) \/ LoadTop(t) \/ ReadNext(t)
                 \/ SwingFails(t)
        PROVE  UNCHANGED <<Stack, head = Closed, held>>
    BY <2>3, CalmWhenLinksStay, CalmIsHidden
    DEF PushRefused, LinkFails, CallPop, LoadTop, ReadNext, SwingFails
  <2>4. ASSUME NEW t \in Threads, Link(t) PROVE AbstractStack!Next
    <3>1. /\ mine[t] \in Nodes /\ head # Closed
          /\ Stack' = <<mine[t]>> \o Stack
          /\ \A u \in Threads : Held(u)' = Held(u)
      BY <2>0, <2>4, LinkPushes
    <3>2. (head = Closed)' = (head = Closed)
      BY <2>4, <3>1, NodesAssumption DEF Link
    <3>3. held' = held
      BY <3>1
    <3>4. AbstractStack!Free(mine[t])
      <4>1. mine[t] \notin Range(Stack) /\ \A u \in Threads : mine[t] \notin Range(Held(u))
        BY DEF StackInv, NodesApart
      <4> QED
        BY <4>1 DEF AbstractStack!Free, Range
    <3>5. AbstractStack!Push(mine[t])
      BY <3>1, <3>2, <3>3, <3>4 DEF AbstractStack!Push
    <3> QED
      BY <3>1, <3>5 DEF AbstractStack!Next
  <2>5. ASSUME NEW t \in Threads, Swing(t) PROVE AbstractStack!Next
    <3>1. /\ Stack # <<>> /\ head # Closed /\ head' # Closed
          /\ Held(t) = <<>> /\ Held(t)' = <<Head(Stack)>>
          /\ Stack' = Tail(Stack)
          /\ \A u \in Threads \ {t} : Held(u)' = Held(u)
      BY <2>0, <2>5, SwingPops
    <3>2. (head = Closed)' = (head = Closed)
      BY <3>1
    <3>3. held' = [held EXCEPT ![t] = <<Head(Stack)>>] /\ held[t] = <<>>
      BY <3>1, HoldingAfter
    <3>4. AbstractStack!Pop(t)
      BY <3>1, <3>2, <3>3 DEF AbstractStack!Pop
    <3> QED
      BY <3>4 DEF AbstractStack!Next
  <2>6. ASSUME NEW t \in Threads, GetChain(t) \/ GetChainAndInvalidate(t)
        PROVE  AbstractStack!Next
    <3>1. /\ Held(t) = <<>> /\ Held(t)' = Stack /\ Stack' = <<>>
          /\ head' = Closed \/ (head # Closed /\ head' # Closed)
          /\ \A u \in Threads \ {t} : Held(u)' = Held(u)
      BY <2>0, <2>6, TakingTakesAll
    <3>2. (head = Closed)' \in {head = Closed, TRUE}
      BY <3>1
    <3>3. held' = [held EXCEPT ![t] = Stack] /\ held[t] = <<>>
      BY <3>1, HoldingAfter
    <3>4. AbstractStack!TakeAll(t)
      BY <3>1, <3>2, <3>3 DEF AbstractStack!TakeAll
    <3> QED
      BY <3>4 DEF AbstractStack!Next
  <2>7. ASSUME NEW t \in Threads, Visit(t) PROVE AbstractStack!Next
    <3>1. /\ Held(t) # <<>> /\ Held(t)' = Tail(Held(t)) /\ Stack' = Stack
          /\ \A u \in Threads \ {t} : Held(u)' = Held(u)
      BY <2>0, <2>7, VisitLetsGo
    <3>2. (head = Closed)' = (head = Closed)
      BY <2>7 DEF Visit
    <3>3. held' = [held EXCEPT ![t] = Tail(held[t])] /\ held[t] # <<>>
      BY <3>1, HoldingAfter
    <3>4. AbstractStack!Visit(t)
      BY <3>1, <3>2, <3>3 DEF AbstractStack!Visit
    <3> QED
      BY <3>4 DEF AbstractStack!Next
  <2>8. CASE UNCHANGED stackVars
    BY <2>8, CalmWhenLinksStay, CalmIsHidden DEF stackVars
  <2> QED
    BY <2>1, <2>2, <2>3, <2>4, <2>5, <2>6, <2>7, <2>8 DEF StackNext
<1> QED
  BY <1>1, <1>2, StackInvHolds, PTL DEF StackSpec, ImplementsNodeStack, AbstractStack!Spec
=============================================================================
