------------------------- MODULE FiberRuntimeProofs -------------------------
(***************************************************************************)
(* What the operations of FiberRuntime preserve, for the proofs about the  *)
(* modules that use them.                                                  *)
(*                                                                         *)
(* InPlace says where fibers are, and in which state, given the set P of   *)
(* those that some primitive has a handle of and the set A of the kinds of *)
(* awaiters.  What P is made of, and how it changes, is up to the module.  *)
(* That a fiber is in one place only is not inductive: that its place      *)
(* tells its state is what keeps it so.  A fiber that runs is active, one  *)
(* whose Run is behind Switch is complete or saved with an awaiter, and    *)
(* one that others can reach is saved without; so what enters a place      *)
(* comes from a single other one.                                          *)
(***************************************************************************)
EXTENDS FiberRuntime, WellFoundedInduction, TLAPS

\* Induction over the natural numbers, for a set of them.
LEMMA LeastNat ==
  ASSUME NEW T, T \subseteq Nat, T # {}
  PROVE  \E m \in T : \A n \in T : m <= n
<1>1. \E m \in T : \A n \in T : <<n, m>> \notin OpToRel(<, Nat)
  BY NatLessThanWellFounded, WFMin, Zenon
<1>2. \E m \in T : \A n \in T : ~ (n < m)
  <2>1. \A n, m \in T : n \in Nat /\ m \in Nat
    OBVIOUS
  <2> QED
    BY <1>1, <2>1, Zenon DEF OpToRel
<1> HIDE <1>1
<1> QED
  BY <1>2

LEMMA InductionOverNat ==
  ASSUME NEW S, 0 \in S, \A n \in Nat : n \in S => n + 1 \in S
  PROVE  Nat \subseteq S
<1> SUFFICES ASSUME Nat \ S # {} PROVE FALSE
  OBVIOUS
<1>1. PICK m \in Nat \ S : \A n \in Nat \ S : m <= n
  BY LeastNat
<1>2. m # 0 /\ m - 1 \in Nat /\ m - 1 \in S
  BY <1>1
<1> QED
  BY <1>2

NoDuplicates(s) == \A i, j \in DOMAIN s : s[i] = s[j] => i = j

\* The scheduler's queue as a set, after a fiber came or went.
LEMMA AppendRange ==
  ASSUME NEW S, NEW s \in Seq(S), NEW x \in S
  PROVE  /\ Range(Append(s, x)) = Range(s) \union {x}
         /\ NoDuplicates(s) /\ x \notin Range(s) => NoDuplicates(Append(s, x))
<1>1. /\ DOMAIN Append(s, x) = 1 .. Len(s) + 1 /\ DOMAIN s = 1 .. Len(s)
      /\ Len(s) \in Nat
      /\ \A i \in 1 .. Len(s) : Append(s, x)[i] = s[i]
      /\ Append(s, x)[Len(s) + 1] = x
  OBVIOUS
<1>2. Range(Append(s, x)) = Range(s) \union {x}
  BY <1>1 DEF Range
<1>3. ASSUME NoDuplicates(s), x \notin Range(s) PROVE NoDuplicates(Append(s, x))
  BY <1>1, <1>3 DEF NoDuplicates, Range
<1> QED
  BY <1>2, <1>3

LEMMA TailRange ==
  ASSUME NEW S, NEW s \in Seq(S), s # <<>>, NoDuplicates(s)
  PROVE  /\ Head(s) \in Range(s) /\ Range(Tail(s)) = Range(s) \ {Head(s)}
         /\ NoDuplicates(Tail(s))
<1>1. /\ DOMAIN s = 1 .. Len(s) /\ Len(s) \in Nat \ {0} /\ Head(s) = s[1]
      /\ DOMAIN Tail(s) = 1 .. Len(s) - 1
      /\ \A i \in 1 .. Len(s) - 1 : Tail(s)[i] = s[i + 1]
  OBVIOUS
<1>2. Head(s) \in Range(s)
  BY <1>1 DEF Range
<1>3. NoDuplicates(Tail(s))
  BY <1>1 DEF NoDuplicates
<1>4. Range(Tail(s)) = Range(s) \ {Head(s)}
  <2>1. ASSUME NEW x \in Range(Tail(s)) PROVE x \in Range(s) \ {Head(s)}
    BY <1>1, <2>1 DEF Range, NoDuplicates
  <2>2. ASSUME NEW i \in DOMAIN s, s[i] # Head(s) PROVE s[i] \in Range(Tail(s))
    <3>1. i - 1 \in DOMAIN Tail(s) /\ Tail(s)[i - 1] = s[i]
      BY <1>1, <2>2
    <3> QED
      BY <3>1 DEF Range
  <2> QED
    BY <2>1, <2>2 DEF Range
<1> QED
  BY <1>2, <1>3, <1>4

LEMMA PrependRange ==
  ASSUME NEW S, NEW s \in Seq(S), NEW x \in S
  PROVE  /\ <<x>> \o s \in Seq(S)
         /\ Range(<<x>> \o s) = Range(s) \union {x}
         /\ NoDuplicates(s) /\ x \notin Range(s) => NoDuplicates(<<x>> \o s)
<1>1. /\ DOMAIN (<<x>> \o s) = 1 .. Len(s) + 1 /\ DOMAIN s = 1 .. Len(s)
      /\ Len(s) \in Nat /\ <<x>> \o s \in Seq(S)
      /\ \A i \in 2 .. Len(s) + 1 : (<<x>> \o s)[i] = s[i - 1]
      /\ (<<x>> \o s)[1] = x
  OBVIOUS
<1>2. Range(<<x>> \o s) = Range(s) \union {x}
  <2>1. ASSUME NEW i \in 1 .. Len(s) PROVE s[i] \in Range(<<x>> \o s)
    <3>1. i + 1 \in 2 .. Len(s) + 1 /\ i + 1 \in 1 .. Len(s) + 1 /\ (i + 1) - 1 = i
      BY <1>1
    <3>2. i + 1 \in DOMAIN (<<x>> \o s) /\ (<<x>> \o s)[i + 1] = s[i]
      BY <1>1, <3>1
    <3> QED
      BY <3>2, Zenon DEF Range
  <2>2. ASSUME NEW i \in 1 .. Len(s) + 1 PROVE (<<x>> \o s)[i] \in Range(s) \union {x}
    BY <1>1 DEF Range
  <2>3. x \in Range(<<x>> \o s)
    BY <1>1 DEF Range
  <2> QED
    BY <1>1, <2>1, <2>2, <2>3 DEF Range
<1>3. ASSUME NoDuplicates(s), x \notin Range(s) PROVE NoDuplicates(<<x>> \o s)
  <2>1. \A i \in 2 .. Len(s) + 1 : i - 1 \in 1 .. Len(s) /\ (<<x>> \o s)[i] \in Range(s)
    BY <1>1 DEF Range
  <2> QED
    BY <1>1, <1>3, <2>1 DEF NoDuplicates
<1> QED
  BY <1>1, <1>2, <1>3

\* Scheduling a fiber keeps the queue a queue of fibers.
LEMMA ScheduleType ==
  ASSUME RuntimeTypeOK, NEW f \in Fibers, Schedule(f)
  PROVE  runq' \in Seq(Fibers)
  BY DEF RuntimeTypeOK, Schedule

\* The steps of the runtime keep its types.
LEMMA GoType ==
  ASSUME RuntimeTypeOK, NEW f \in Fibers, Go(f)
  PROVE  RuntimeTypeOK'
  BY ScheduleType DEF RuntimeTypeOK, Go, CoroStates

LEMMA ResumeType ==
  ASSUME RuntimeTypeOK, NEW w \in Workers, Resume(w)
  PROVE  RuntimeTypeOK'
<1>1. Head(runq) \in Fibers /\ Tail(runq) \in Seq(Fibers)
  BY DEF RuntimeTypeOK, Resume
<1> QED
  BY <1>1 DEF RuntimeTypeOK, Resume, CoroStates

LEMMA SuspendType ==
  ASSUME RuntimeTypeOK, NEW w \in Workers, NEW a, Suspend(w, a)
  PROVE  RuntimeTypeOK'
  BY DEF RuntimeTypeOK, Suspend, CoroStates

LEMMA CompleteType ==
  ASSUME RuntimeTypeOK, NEW w \in Workers, Complete(w)
  PROVE  RuntimeTypeOK'
  BY DEF RuntimeTypeOK, Complete, CoroStates

LEMMA ReapType ==
  ASSUME RuntimeTypeOK, NEW w \in Workers, Reap(w)
  PROVE  RuntimeTypeOK'
  BY DEF RuntimeTypeOK, Reap, CoroStates

LEMMA TakeAwaiterType ==
  ASSUME RuntimeTypeOK, NEW w \in Workers, TakeAwaiter(w), runq' \in Seq(Fibers)
  PROVE  RuntimeTypeOK'
  BY DEF RuntimeTypeOK, TakeAwaiter

LEMMA RunYieldType ==
  ASSUME RuntimeTypeOK, NEW w \in Workers, RunYield(w)
  PROVE  RuntimeTypeOK'
<1>1. after[w] \in Fibers
  BY DEF RuntimeTypeOK, RunYield, RunsAwaiter
<1> QED
  BY <1>1, ScheduleType, TakeAwaiterType DEF RunYield
-----------------------------------------------------------------------------
Kinds(A) == None \notin Fibers \union A

PlacesType(P, A) ==
  /\ RuntimeTypeOK /\ awaiter \in [Fibers -> A \union {None}]
  /\ P \subseteq Fibers

Apart(P) ==
  /\ NoDuplicates(runq) /\ P \intersect Range(runq) = {}
  /\ \A v, w \in Workers : running[v] = running[w] /\ running[v] # None => v = w
  /\ \A v, w \in Workers : after[v] = after[w] /\ after[v] # None => v = w

Reachable(P) == \A f \in P \union Range(runq) : coro[f] = "saved" /\ awaiter[f] = None

Shows(P, A) ==
  /\ \A w \in Workers : running[w] # None =>
       coro[running[w]] = "active" /\ awaiter[running[w]] = None /\ after[w] = None
  /\ \A w \in Workers : after[w] # None =>
       \/ coro[after[w]] = "complete"
       \/ coro[after[w]] = "saved" /\ awaiter[after[w]] \in A
  /\ Reachable(P)
  /\ \A f \in Fibers : coro[f] = "unborn" => awaiter[f] = None

InPlace(P, A) == PlacesType(P, A) /\ Apart(P) /\ Shows(P, A)

LEMMA InPlaceInit ==
  ASSUME NEW A, Kinds(A), RuntimeInit
  PROVE  InPlace({}, A)
<1>1. Range(runq) = {}
  BY DEF RuntimeInit, Range
<1> QED
  BY <1>1 DEF RuntimeInit, RuntimeTypeOK, CoroStates, InPlace, PlacesType, Apart,
              NoDuplicates, Shows, Reachable

\* A step that leaves the runtime alone and moves nothing in or out of P.
LEMMA InPlaceRests ==
  ASSUME NEW A, NEW P, InPlace(P, A), UNCHANGED runtime
  PROVE  InPlace(P, A)'
  BY DEF runtime, RuntimeTypeOK, InPlace, PlacesType, Apart, Shows, Reachable

LEMMA InPlaceGo ==
  ASSUME NEW A, Kinds(A), NEW P, InPlace(P, A), NEW f \in Fibers, Go(f)
  PROVE  InPlace(P, A)'
<1> USE DEF InPlace
<1>1. coro[f] = "unborn" /\ awaiter[f] = None /\ coro' = [coro EXCEPT ![f] = "saved"]
  BY DEF Go, Shows
<1>2. f \notin Range(runq) /\ f \notin P
  BY <1>1 DEF Shows, Reachable
<1>3. \A w \in Workers : running[w] # f /\ after[w] # f
  BY <1>1 DEF Shows, Kinds
<1>4. NoDuplicates(runq') /\ Range(runq') = Range(runq) \union {f}
  BY <1>2, AppendRange DEF Go, Schedule, PlacesType, RuntimeTypeOK, Apart
<1>5. PlacesType(P, A)'
  BY GoType DEF PlacesType, Go
<1>6. Apart(P)'
  BY <1>2, <1>4 DEF Apart, Go
<1>7. Shows(P, A)'
  BY <1>1, <1>2, <1>3, <1>4 DEF Shows, Reachable, Go, PlacesType, RuntimeTypeOK, Kinds
<1> QED
  BY <1>5, <1>6, <1>7

LEMMA InPlaceWake ==
  ASSUME NEW A, Kinds(A), NEW P, NEW Q, InPlace(P, A), NEW f \in P, Q = P \ {f},
         Schedule(f), UNCHANGED <<running, after, awaiter, coro>>
  PROVE  InPlace(Q, A)'
<1> USE DEF InPlace
<1>1. f \in Fibers /\ coro[f] = "saved" /\ awaiter[f] = None /\ f \notin Range(runq)
  BY DEF Shows, Reachable, Apart, PlacesType
<1>2. NoDuplicates(runq') /\ Range(runq') = Range(runq) \union {f}
  BY <1>1, AppendRange DEF Schedule, PlacesType, RuntimeTypeOK, Apart
<1>3. PlacesType(Q, A)'
  BY <1>1, ScheduleType DEF PlacesType, RuntimeTypeOK
<1>4. Apart(Q)'
  BY <1>1, <1>2 DEF Apart
<1>5. Shows(Q, A)'
  BY <1>1, <1>2 DEF Shows, Reachable
<1> QED
  BY <1>3, <1>4, <1>5

LEMMA InPlaceResume ==
  ASSUME NEW A, Kinds(A), NEW P, InPlace(P, A), NEW w \in Workers, Resume(w)
  PROVE  InPlace(P, A)'
<1> DEFINE f == Head(runq)
<1> USE DEF InPlace
<1>1. /\ f \in Range(runq) /\ NoDuplicates(runq')
      /\ Range(runq') = Range(runq) \ {f}
  BY TailRange DEF Resume, PlacesType, RuntimeTypeOK, Apart
<1>2. f \in Fibers /\ coro[f] = "saved" /\ awaiter[f] = None /\ f \notin P
  BY <1>1 DEF Resume, PlacesType, RuntimeTypeOK, Shows, Reachable, Apart
<1>3. \A v \in Workers : running[v] # f /\ after[v] # f
  BY <1>1, <1>2 DEF Shows, Kinds
<1>4. /\ running' = [running EXCEPT ![w] = f] /\ coro' = [coro EXCEPT ![f] = "active"]
      /\ UNCHANGED <<after, awaiter>> /\ after[w] = None
  BY DEF Resume
<1>5. PlacesType(P, A)'
  BY ResumeType DEF PlacesType, Resume
<1>6. Apart(P)'
  BY <1>1, <1>2, <1>3, <1>4 DEF Apart, PlacesType, RuntimeTypeOK
<1>7. Shows(P, A)'
  BY <1>1, <1>2, <1>3, <1>4 DEF Shows, Reachable, PlacesType, RuntimeTypeOK, Kinds
<1> QED
  BY <1>5, <1>6, <1>7

\* A fiber leaves its stack, to suspend or for good.
LEMMA InPlaceLeave ==
  ASSUME NEW A, Kinds(A), NEW P, InPlace(P, A), NEW w \in Workers,
         Complete(w) \/ \E a \in A : Suspend(w, a)
  PROVE  InPlace(P, A)'
<1> DEFINE f == running[w]
<1> USE DEF InPlace, Kinds
<1>0. f # None
  BY DEF Complete, Suspend
<1>1. f \in Fibers /\ coro[f] = "active" /\ awaiter[f] = None /\ after[w] = None
  BY <1>0 DEF PlacesType, RuntimeTypeOK, Shows
<1>2. f \notin P /\ f \notin Range(runq)
  BY <1>1 DEF Shows, Reachable
<1>3. /\ \A v \in Workers : after[v] # f
      /\ \A v \in Workers : running[v] = f => v = w
  BY <1>1 DEF Shows, Apart
<1>4. /\ running' = [running EXCEPT ![w] = None] /\ after' = [after EXCEPT ![w] = f]
      /\ UNCHANGED runq
  BY DEF Complete, Suspend
<1>5. \/ coro' = [coro EXCEPT ![f] = "complete"] /\ awaiter' = awaiter
      \/ \E a \in A : /\ coro' = [coro EXCEPT ![f] = "saved"]
                      /\ awaiter' = [awaiter EXCEPT ![f] = a]
  BY DEF Complete, Suspend
<1>6. PlacesType(P, A)'
  BY <1>1, <1>5, CompleteType, SuspendType DEF PlacesType
<1>7. Apart(P)'
  BY <1>1, <1>3, <1>4 DEF Apart, PlacesType, RuntimeTypeOK
<1>8. Shows(P, A)'
  <2>1. ASSUME NEW v \in Workers, running'[v] # None
        PROVE  coro'[running'[v]] = "active" /\ awaiter'[running'[v]] = None /\ after'[v] = None
    BY <1>1, <1>3, <1>4, <1>5, <2>1 DEF Shows, PlacesType, RuntimeTypeOK
  <2>2. ASSUME NEW v \in Workers, after'[v] # None
        PROVE  \/ coro'[after'[v]] = "complete"
               \/ coro'[after'[v]] = "saved" /\ awaiter'[after'[v]] \in A
    BY <1>1, <1>3, <1>4, <1>5, <2>2 DEF Shows, PlacesType, RuntimeTypeOK
  <2>3. Reachable(P)'
    <3>1. ASSUME NEW g \in P \union Range(runq)
          PROVE  coro'[g] = coro[g] /\ awaiter'[g] = awaiter[g]
      <4>1. g # f
        BY <1>2
      <4>2. g \in Fibers
        BY DEF PlacesType, RuntimeTypeOK, Range
      <4> QED
        BY <1>5, <4>1, <4>2 DEF PlacesType, RuntimeTypeOK
    <3> QED
      BY <1>4, <3>1 DEF Shows, Reachable
  <2>4. \A g \in Fibers : coro'[g] = "unborn" => awaiter'[g] = None
    BY <1>1, <1>5 DEF Shows, PlacesType, RuntimeTypeOK
  <2> QED
    BY <2>1, <2>2, <2>3, <2>4 DEF Shows
<1> QED
  BY <1>6, <1>7, <1>8

LEMMA InPlaceReap ==
  ASSUME NEW A, Kinds(A), NEW P, InPlace(P, A), NEW w \in Workers, Reap(w)
  PROVE  InPlace(P, A)'
<1> DEFINE f == after[w]
<1> USE DEF InPlace, Kinds
<1>1. f \in Fibers /\ coro[f] = "complete"
  BY DEF Reap, PlacesType, RuntimeTypeOK
<1>2. f \notin P /\ f \notin Range(runq)
  BY <1>1 DEF Shows, Reachable
<1>3. /\ \A v \in Workers : running[v] # f
      /\ \A v \in Workers : after[v] = f => v = w
  BY <1>1 DEF Shows, Apart
<1>4. /\ after' = [after EXCEPT ![w] = None] /\ coro' = [coro EXCEPT ![f] = "deleted"]
      /\ UNCHANGED <<runq, awaiter, running>>
  BY DEF Reap
<1>5. PlacesType(P, A)'
  BY ReapType, <1>4 DEF PlacesType
<1>6. Apart(P)'
  BY <1>4 DEF Apart, PlacesType, RuntimeTypeOK
<1>7. Shows(P, A)'
  BY <1>1, <1>2, <1>3, <1>4 DEF Shows, Reachable, PlacesType, RuntimeTypeOK
<1> QED
  BY <1>5, <1>6, <1>7

\* The awaiter of a suspended fiber schedules it or parks it.
LEMMA InPlaceThroughAwaiter ==
  ASSUME NEW A, Kinds(A), NEW P, NEW Q, InPlace(P, A), NEW w \in Workers, NEW a \in A,
         RunsAwaiter(w, a), TakeAwaiter(w),
         \/ runq' = Append(runq, after[w]) /\ Q = P
         \/ runq' = runq /\ Q = P \union {after[w]}
  PROVE  InPlace(Q, A)'
<1> DEFINE f == after[w]
<1> USE DEF InPlace, Kinds
<1>1. f \in Fibers /\ coro[f] = "saved" /\ awaiter[f] # None
  BY DEF RunsAwaiter, PlacesType, RuntimeTypeOK, Shows
<1>2. f \notin P /\ f \notin Range(runq)
  BY <1>1 DEF Shows, Reachable
<1>3. /\ \A v \in Workers : running[v] # f
      /\ \A v \in Workers : after[v] = f => v = w
  BY <1>1 DEF Shows, Apart
<1>4. /\ after' = [after EXCEPT ![w] = None] /\ awaiter' = [awaiter EXCEPT ![f] = None]
      /\ UNCHANGED <<coro, running>>
  BY DEF TakeAwaiter
<1>5. /\ NoDuplicates(runq') /\ runq' \in Seq(Fibers)
      /\ \/ Q = P /\ Range(runq') = Range(runq) \union {f}
         \/ Q = P \union {f} /\ Range(runq') = Range(runq)
  <2>1. NoDuplicates(runq) /\ runq \in Seq(Fibers)
    BY DEF Apart, PlacesType, RuntimeTypeOK
  <2>2. CASE runq' = Append(runq, f) /\ Q = P
    BY <1>1, <1>2, <2>1, <2>2, AppendRange
  <2>3. CASE runq' = runq /\ Q = P \union {f}
    BY <2>1, <2>3
  <2> QED
    BY <2>2, <2>3
<1>6. PlacesType(Q, A)'
  BY <1>1, <1>4, <1>5, TakeAwaiterType DEF PlacesType
<1>7. Apart(Q)'
  BY <1>2, <1>4, <1>5 DEF Apart, PlacesType, RuntimeTypeOK
<1>8. Shows(Q, A)'
  BY <1>1, <1>2, <1>3, <1>4, <1>5 DEF Shows, Reachable, PlacesType, RuntimeTypeOK
<1> QED
  BY <1>6, <1>7, <1>8

LEMMA InPlaceScheduled ==
  ASSUME NEW A, Kinds(A), NEW P, InPlace(P, A), NEW w \in Workers, NEW a \in A,
         RunsAwaiter(w, a), TakeAwaiter(w), Schedule(after[w])
  PROVE  InPlace(P, A)'
  BY InPlaceThroughAwaiter DEF Schedule

LEMMA InPlaceParked ==
  ASSUME NEW A, Kinds(A), NEW P, NEW Q, InPlace(P, A), NEW w \in Workers, NEW a \in A,
         RunsAwaiter(w, a), TakeAwaiter(w), Q = P \union {after[w]}, UNCHANGED runq
  PROVE  InPlace(Q, A)'
  BY InPlaceThroughAwaiter
-----------------------------------------------------------------------------
\* A step of the fiber protocol, of the runtime and of P, which becomes Q: what
\* Fibers allows, and each primitive turns out to do.
ProtocolStep(P, Q, A) ==
  \/ Q = P /\ \/ UNCHANGED runtime
              \/ \E f \in Fibers : Go(f)
              \/ \E w \in Workers : \/ Resume(w) \/ Reap(w) \/ RunYield(w) \/ Complete(w)
                                    \/ \E a \in A : Suspend(w, a)
  \/ \E w \in Workers, a \in A \ {"yield"} :
       /\ RunsAwaiter(w, a) /\ TakeAwaiter(w)
       /\ \/ Q = P \union {after[w]} /\ UNCHANGED runq
          \/ Q = P /\ Schedule(after[w])
  \/ \E f \in P : Q = P \ {f} /\ Schedule(f) /\ UNCHANGED <<running, after, awaiter, coro>>

LEMMA InPlaceStep ==
  ASSUME NEW A, Kinds(A), "yield" \in A, NEW P, NEW Q, InPlace(P, A), ProtocolStep(P, Q, A)
  PROVE  InPlace(Q, A)'
<1>1. CASE Q = P /\ UNCHANGED runtime
  BY <1>1, InPlaceRests
<1>2. ASSUME NEW f \in Fibers, Q = P, Go(f) PROVE InPlace(Q, A)'
  BY <1>2, InPlaceGo
<1>3. ASSUME NEW w \in Workers, Q = P, Resume(w) \/ Reap(w) PROVE InPlace(Q, A)'
  BY <1>3, InPlaceResume, InPlaceReap
<1>4. ASSUME NEW w \in Workers, Q = P, RunYield(w) PROVE InPlace(Q, A)'
  BY <1>4, InPlaceScheduled DEF RunYield
<1>5. ASSUME NEW w \in Workers, Q = P, Complete(w) \/ \E a \in A : Suspend(w, a)
      PROVE  InPlace(Q, A)'
  BY <1>5, InPlaceLeave
<1>6. ASSUME NEW w \in Workers, NEW a \in A, RunsAwaiter(w, a), TakeAwaiter(w),
             Q = P \union {after[w]}, UNCHANGED runq
      PROVE  InPlace(Q, A)'
  BY <1>6, InPlaceParked
<1>7. ASSUME NEW w \in Workers, NEW a \in A, RunsAwaiter(w, a), TakeAwaiter(w),
             Q = P, Schedule(after[w])
      PROVE  InPlace(Q, A)'
  BY <1>7, InPlaceScheduled
<1>8. ASSUME NEW f \in P, Q = P \ {f}, Schedule(f), UNCHANGED <<running, after, awaiter, coro>>
      PROVE  InPlace(Q, A)'
  BY <1>8, InPlaceWake
<1> QED
  BY <1>1, <1>2, <1>3, <1>4, <1>5, <1>6, <1>7, <1>8 DEF ProtocolStep
=============================================================================
