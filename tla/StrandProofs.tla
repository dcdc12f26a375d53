---------------------------- MODULE StrandProofs ----------------------------
(***************************************************************************)
(* Proofs about Strand for any set of workers and any finite set of        *)
(* fibers.  StrandInv and LinksInv are inductive together: where the       *)
(* leader is, what a worker holds while it runs a leader's task, where the *)
(* callbacks are that have not run, and what next_ and the local variables *)
(* of Run say of those of the present batch.                               *)
(***************************************************************************)
EXTENDS Strand, FiberRuntimeProofs, FiniteSetTheorems

Entries == Fibers \union {Task(f) : f \in Fibers}

\* The leader, as a fiber ...
Leads(f) == pc[f] \in {"lead", "handover"} \/ awaiter[f] = "leader"

\* ... and as a task that some worker runs.
Looks(w) == job[w] \in {"chain", "batch", "call", "next", "again"}

\* What a worker holds tells where it is.
JobsInv ==
  /\ \A w \in Workers : leader[w] = None <=> job[w] = "none"
  /\ \A w \in Workers : job[w] \notin {"batch", "call", "next"} => batch[w] = <<>> /\ ran[w] = 0
  /\ \A w \in Workers : job[w] = "call" => batch[w] # <<>>

\* A leader that serves is on its way to the scheduler, there, or run by one
\* worker.
LeadersInv ==
  /\ \A f \in Fibers : awaiter[f] = "leader" => pc[f] = "serve"
  /\ \A w \in Workers : leader[w] # None => pc[leader[w]] = "serve" /\ awaiter[leader[w]] = None
  /\ \A i \in TaskPlaces : \E f \in Fibers :
       /\ runq[i] = Task(f) /\ pc[f] = "serve" /\ awaiter[f] = None
       /\ \A w \in Workers : leader[w] # f
  /\ \A v, w \in Workers : leader[v] = leader[w] /\ leader[v] # None => v = w

\* A fiber whose callback another one has to run is on its way to the stack, or
\* once in the stack or in a batch.
QueuedInv ==
  /\ \A f \in Fibers : awaiter[f] = "strand" => pc[f] = "wait"
  /\ NoDuplicates(stack) /\ \A f \in Range(stack) : pc[f] = "wait" /\ awaiter[f] = None
  /\ \A w \in Workers :
       /\ NoDuplicates(batch[w]) /\ Range(batch[w]) \intersect Range(stack) = {}
       /\ \A i \in DOMAIN batch[w] :
            /\ awaiter[batch[w][i]] = None
            /\ pc[batch[w][i]] = IF i = 1 /\ job[w] = "call" THEN "called" ELSE "wait"
  /\ \A f \in Fibers : pc[f] = "called" =>
       \E w \in Workers : job[w] = "call" /\ Head(batch[w]) = f

\* The leader is in one of these places, once, as long as somebody is counted.
PlaceOfLeader ==
  /\ \A f, g \in Fibers : Leads(f) /\ Leads(g) => f = g
  /\ \A i, j \in TaskPlaces : i = j
  /\ \A v, w \in Workers : Looks(v) /\ Looks(w) => v = w
  /\ (\E f \in Fibers : Leads(f)) => TaskPlaces = {} /\ \A w \in Workers : ~Looks(w)
  /\ TaskPlaces # {} => \A w \in Workers : ~Looks(w)

SomeLeader ==
  \/ \E f \in Fibers : Leads(f)
  \/ TaskPlaces # {}
  \/ \E w \in Workers : Looks(w)

LedInv == PlaceOfLeader /\ (count > 0 <=> SomeLeader)

StrandInv == TypeOK /\ JobsInv /\ LeadersInv /\ QueuedInv /\ LedInv /\ CountIsExact

\* How the awaiters of a batch are linked.
Links(link, s) == \A i \in DOMAIN s : link[s[i]] = IF i = Len(s) THEN None ELSE s[i + 1]

\* ptr and temp are where the loop is in the batch, whose awaiters are linked
\* until each is reached: a batch consists of fibers that are still suspended.
LinksInv ==
  \A w \in Workers :
    /\ job[w] \in {"batch", "call"} => ptr[w] = First(batch[w])
    /\ job[w] = "call" => temp[w] = First(Tail(batch[w]))
    /\ job[w] = "next" => temp[w] = First(batch[w])
    /\ Links(next, batch[w])
-----------------------------------------------------------------------------
LEMMA StrandInit == Init => StrandInv
<1> SUFFICES ASSUME Init PROVE StrandInv
  OBVIOUS
<1>0. TaskPlaces = {} /\ Range(stack) = {} /\ \A w \in Workers : Range(batch[w]) = {}
  BY DEF Init, RuntimeInit, TaskPlaces, Range
<1>1. TypeOK
  BY DEF Init, RuntimeInit, TypeOK, CoroStates, Jobs, Labels
<1>2. JobsInv /\ LeadersInv /\ QueuedInv
  BY <1>0, StrandAssumption
     DEF Init, RuntimeInit, JobsInv, LeadersInv, QueuedInv, NoDuplicates
<1>3. LedInv
  BY <1>0, StrandAssumption
     DEF Init, RuntimeInit, LedInv, PlaceOfLeader, SomeLeader, Leads, Looks
<1>4. CountIsExact
  <2>1. Counted = {} /\ {w \in Workers : ran[w] # 0} = {} /\ count = 0
    BY DEF Init, Counted
  <2> QED
    BY <2>1, FS_EmptySet DEF CountIsExact
<1> QED
  BY <1>1, <1>2, <1>3, <1>4 DEF StrandInv
-----------------------------------------------------------------------------
\* What a step of the scheduler's queue does to the leader's task in it.
TasksStay ==
  /\ \A j \in TaskPlaces' : \E i \in TaskPlaces : runq'[j] = runq[i]
  /\ TaskPlaces' = {} => TaskPlaces = {}
  /\ (\A i, j \in TaskPlaces : i = j) => \A i, j \in TaskPlaces' : i = j

LEMMA UnchangedStays ==
  ASSUME UNCHANGED runq
  PROVE  TasksStay
  BY DEF TasksStay, TaskPlaces

LEMMA AppendFiber ==
  ASSUME runq \in Seq(Entries), NEW f \in Fibers, runq' = Append(runq, f)
  PROVE  runq' \in Seq(Entries) /\ TasksStay
<1>1. /\ DOMAIN runq = 1 .. Len(runq) /\ DOMAIN runq' = 1 .. Len(runq) + 1 /\ Len(runq) \in Nat
      /\ \A i \in DOMAIN runq : runq'[i] = runq[i]
      /\ runq'[Len(runq) + 1] = f /\ runq' \in Seq(Entries)
  BY DEF Entries
<1>2. TaskPlaces' = TaskPlaces
  BY <1>1 DEF TaskPlaces
<1>3. \A i \in TaskPlaces : i \in DOMAIN runq
  BY DEF TaskPlaces
<1> QED
  BY <1>1, <1>2, <1>3 DEF TasksStay

LEMMA AppendTask ==
  ASSUME runq \in Seq(Entries), NEW f \in Fibers, runq' = Append(runq, Task(f))
  PROVE  /\ runq' \in Seq(Entries)
         /\ TaskPlaces' = TaskPlaces \union {Len(runq) + 1}
         /\ runq'[Len(runq) + 1] = Task(f) /\ \A i \in TaskPlaces : runq'[i] = runq[i]
<1>0. Task(f) \in Entries /\ Task(f) \notin Fibers
  BY StrandAssumption DEF Entries
<1>1. /\ DOMAIN runq = 1 .. Len(runq) /\ DOMAIN runq' = 1 .. Len(runq) + 1 /\ Len(runq) \in Nat
      /\ \A i \in DOMAIN runq : runq'[i] = runq[i]
      /\ runq'[Len(runq) + 1] = Task(f) /\ runq' \in Seq(Entries)
  BY <1>0
<1>2. TaskPlaces' = TaskPlaces \union {Len(runq) + 1}
  BY <1>0, <1>1 DEF TaskPlaces
<1> QED
  BY <1>1, <1>2 DEF TaskPlaces

LEMMA TailFiber ==
  ASSUME runq \in Seq(Entries), runq # <<>>, Head(runq) \in Fibers, runq' = Tail(runq)
  PROVE  runq' \in Seq(Entries) /\ TasksStay
<1>1. /\ DOMAIN runq = 1 .. Len(runq) /\ DOMAIN runq' = 1 .. Len(runq) - 1 /\ Len(runq) \in Nat
      /\ \A i \in 1 .. Len(runq) - 1 : runq'[i] = runq[i + 1]
      /\ Head(runq) = runq[1] /\ runq' \in Seq(Entries)
  OBVIOUS
<1>2. \A j \in TaskPlaces' : j + 1 \in TaskPlaces /\ runq'[j] = runq[j + 1] /\ j \in Nat
  BY <1>1 DEF TaskPlaces
<1>3. \A i \in TaskPlaces : i - 1 \in TaskPlaces'
  BY <1>1 DEF TaskPlaces
<1>4. ASSUME \A i, j \in TaskPlaces : i = j, NEW i \in TaskPlaces', NEW j \in TaskPlaces' PROVE i = j
  <2>1. i + 1 = j + 1 /\ i \in Nat /\ j \in Nat
    BY <1>2, <1>4
  <2> QED
    BY <2>1
<1> QED
  BY <1>1, <1>2, <1>3, <1>4 DEF TasksStay

LEMMA TailTask ==
  ASSUME runq \in Seq(Entries), runq # <<>>, Head(runq) \notin Fibers, runq' = Tail(runq),
         \A i, j \in TaskPlaces : i = j
  PROVE  runq' \in Seq(Entries) /\ TaskPlaces' = {} /\ TaskPlaces = {1} /\ Head(runq) = runq[1]
<1>1. /\ DOMAIN runq = 1 .. Len(runq) /\ DOMAIN runq' = 1 .. Len(runq) - 1 /\ Len(runq) \in Nat
      /\ \A i \in 1 .. Len(runq) - 1 : runq'[i] = runq[i + 1]
      /\ Head(runq) = runq[1] /\ runq' \in Seq(Entries) /\ 1 \in DOMAIN runq
  OBVIOUS
<1>2. TaskPlaces = {1}
  BY <1>1 DEF TaskPlaces
<1>3. \A j \in TaskPlaces' : j + 1 \in TaskPlaces /\ j \in Nat /\ j > 0
  BY <1>1 DEF TaskPlaces
<1> QED
  BY <1>1, <1>2, <1>3
-----------------------------------------------------------------------------
\* How many are counted, when one fiber comes or goes.
LEMMA CountedIsFinite == IsFiniteSet(Counted) /\ Cardinality(Counted) \in Nat
  BY StrandAssumption, FS_Subset, FS_CardinalityType DEF Counted

LEMMA CountedStays ==
  ASSUME \A f \in Fibers : f \in Counted' <=> f \in Counted
  PROVE  Counted' = Counted
  BY DEF Counted

LEMMA CountedGains ==
  ASSUME NEW f \in Fibers, f \notin Counted, f \in Counted',
         \A g \in Fibers : g # f => (g \in Counted' <=> g \in Counted)
  PROVE  Cardinality(Counted') = Cardinality(Counted) + 1
<1>1. Counted' = Counted \union {f}
  BY DEF Counted
<1> QED
  BY <1>1, CountedIsFinite, FS_AddElement

LEMMA CountedLoses ==
  ASSUME NEW f \in Fibers, f \in Counted, f \notin Counted',
         \A g \in Fibers : g # f => (g \in Counted' <=> g \in Counted)
  PROVE  Cardinality(Counted') = Cardinality(Counted) - 1
<1>1. Counted' = Counted \ {f}
  BY DEF Counted
<1> QED
  BY <1>1, CountedIsFinite, FS_RemoveElement

\* Whoever is counted makes the count positive.
LEMMA CountIsNotSmaller ==
  ASSUME TypeOK, CountIsExact
  PROVE  /\ count >= Cardinality(Counted)
         /\ \A f \in Counted : count > 0
         /\ \A w \in Workers : count >= ran[w]
         /\ \A w \in Workers : ran[w] # 0 => count = Cardinality(Counted) + ran[w]
<1>1. \A w \in Workers : ran[w] \in Nat
  BY DEF TypeOK
<1>2. \A f \in Counted : Cardinality(Counted) # 0
  BY CountedIsFinite, FS_EmptySet
<1> DEFINE some == {w \in Workers : ran[w] # 0}
<1>3. CASE some = {} /\ count = Cardinality(Counted)
  BY <1>1, <1>2, <1>3, CountedIsFinite
<1>4. ASSUME NEW v \in Workers, some = {v}, count = Cardinality(Counted) + ran[v]
      PROVE  /\ count >= Cardinality(Counted)
             /\ \A f \in Counted : count > 0
             /\ \A w \in Workers : count >= ran[w]
             /\ \A w \in Workers : ran[w] # 0 => count = Cardinality(Counted) + ran[w]
  <2>1. \A w \in Workers : ran[w] # 0 => w = v
    BY <1>4
  <2>2. ran[v] \in Nat /\ Cardinality(Counted) \in Nat
    BY <1>1, CountedIsFinite
  <2> QED
    BY <1>2, <1>4, <2>1, <2>2
<1> QED
  BY <1>3, <1>4 DEF CountIsExact

\* A fiber joins or leaves the counted ones, and the count follows.
LEMMA CountFollows ==
  ASSUME TypeOK, CountIsExact, UNCHANGED ran, NEW f \in Fibers,
         \A g \in Fibers : g # f => (g \in Counted' <=> g \in Counted),
         \/ f \notin Counted /\ f \in Counted' /\ count' = count + 1
         \/ f \in Counted /\ f \notin Counted' /\ count' = count - 1
  PROVE  CountIsExact'
<1>1. Cardinality(Counted) \in Nat /\ count \in Nat /\ \A w \in Workers : ran[w] \in Nat
  BY CountedIsFinite DEF TypeOK
<1>2. CASE f \notin Counted /\ f \in Counted' /\ count' = count + 1
  <2>1. Cardinality(Counted') = Cardinality(Counted) + 1
    BY <1>2, CountedGains
  <2> QED
    BY <1>1, <1>2, <2>1 DEF CountIsExact
<1>3. CASE f \in Counted /\ f \notin Counted' /\ count' = count - 1
  <2>1. Cardinality(Counted') = Cardinality(Counted) - 1
    BY <1>3, CountedLoses
  <2> QED
    BY <1>1, <1>3, <2>1 DEF CountIsExact
<1> QED
  BY <1>2, <1>3

LEMMA CountRests ==
  ASSUME TypeOK, CountIsExact, UNCHANGED <<count, ran>>,
         \A f \in Fibers : f \in Counted' <=> f \in Counted
  PROVE  CountIsExact'
  BY CountedStays DEF CountIsExact
-----------------------------------------------------------------------------
\* Steps of the runtime that leave the strand and all awaiters alone.
LEMMA RuntimeRests ==
  ASSUME StrandInv, TypeOK', UNCHANGED <<strand, awaiter>>, TasksStay
  PROVE  StrandInv'
<1> USE DEF StrandInv, strand, serving
<1>1. JobsInv'
  BY DEF JobsInv
<1>2. LeadersInv'
  BY DEF LeadersInv, TasksStay
<1>3. QueuedInv'
  BY DEF QueuedInv, NoDuplicates
<1>4. LedInv'
  BY DEF LedInv, PlaceOfLeader, SomeLeader, Leads, Looks, TasksStay
<1>5. CountIsExact'
  BY CountRests DEF Counted
<1> QED
  BY <1>1, <1>2, <1>3, <1>4, <1>5

LEMMA StartStep ==
  ASSUME StrandInv, NEW f \in Fibers, Start(f)
  PROVE  StrandInv'
<1> USE DEF Start, Go, Schedule, strand, serving
<1>1. runq' \in Seq(Entries) /\ TasksStay
  BY AppendFiber DEF StrandInv, TypeOK, Entries
<1>2. TypeOK'
  BY <1>1 DEF StrandInv, TypeOK, CoroStates, Entries
<1> QED
  BY <1>1, <1>2, RuntimeRests

LEMMA FinishStep ==
  ASSUME StrandInv, NEW w \in Workers, Finish(w)
  PROVE  StrandInv'
<1> USE DEF Finish, Complete, strand, serving
<1>1. TypeOK'
  BY DEF StrandInv, TypeOK, CoroStates
<1> QED
  BY <1>1, RuntimeRests, UnchangedStays

LEMMA ReapStep ==
  ASSUME StrandInv, NEW w \in Workers, Reap(w), UNCHANGED strand
  PROVE  StrandInv'
<1> USE DEF Reap, strand, serving
<1>1. TypeOK'
  BY DEF StrandInv, TypeOK, CoroStates
<1> QED
  BY <1>1, RuntimeRests, UnchangedStays

LEMMA ResumeStep ==
  ASSUME StrandInv, NEW w \in Workers, ResumeFiber(w), UNCHANGED strand
  PROVE  StrandInv'
<1> USE DEF ResumeFiber, Resume, strand, serving
<1>1. runq' \in Seq(Entries) /\ TasksStay
  BY TailFiber DEF StrandInv, TypeOK, Entries
<1>2. TypeOK'
  BY <1>1 DEF StrandInv, TypeOK, CoroStates, Entries
<1> QED
  BY <1>1, <1>2, RuntimeRests
-----------------------------------------------------------------------------
\* A fiber that the strand does not know of takes an awaiter of another kind,
\* or loses it.
LEMMA YieldRests ==
  ASSUME StrandInv, TypeOK', UNCHANGED strand, TasksStay, NEW f \in Fibers,
         pc[f] \in {"out", "lead"} \/ awaiter[f] = "yield",
         NEW a \in {None, "yield"}, awaiter' = [awaiter EXCEPT ![f] = a]
  PROVE  StrandInv'
<1> USE DEF StrandInv, strand, serving
<1>0. a # "leader" /\ a # "strand" /\ awaiter[f] # "leader" /\ awaiter[f] # "strand"
  BY StrandAssumption DEF LeadersInv, QueuedInv
<1>1. \A g \in Fibers : awaiter'[g] \in {"leader", "strand"} <=> awaiter[g] \in {"leader", "strand"}
  BY <1>0 DEF TypeOK
<1>2. \A g \in Fibers : awaiter'[g] # awaiter[g] => g = f
  BY DEF TypeOK
<1>3. \A g \in Fibers : /\ awaiter'[g] = "leader" <=> awaiter[g] = "leader"
                        /\ awaiter'[g] = "strand" <=> awaiter[g] = "strand"
  BY <1>0, <1>2 DEF TypeOK
<1>4. \A g \in Fibers : awaiter[g] = None /\ pc[g] \notin {"out", "lead"} => awaiter'[g] = None
  BY <1>2, StrandAssumption
<1>5. JobsInv'
  BY DEF JobsInv
<1>6. LeadersInv'
  <2>1. \A w \in Workers : leader[w] # None => leader[w] \in Fibers
    BY DEF TypeOK
  <2> QED
    BY <1>3, <1>4, <2>1 DEF LeadersInv, TasksStay
<1>7. QueuedInv'
  <2>1. /\ Range(stack) \subseteq Fibers
        /\ \A w \in Workers : \A i \in DOMAIN batch[w] : batch[w][i] \in Fibers
    BY DEF TypeOK, Range
  <2> QED
    BY <1>3, <1>4, <2>1 DEF QueuedInv, NoDuplicates
<1>8. LedInv'
  BY <1>3 DEF LedInv, PlaceOfLeader, SomeLeader, Leads, Looks, TasksStay
<1>9. CountIsExact'
  BY CountRests DEF Counted
<1> QED
  BY <1>5, <1>6, <1>7, <1>8, <1>9

LEMMA YieldStep ==
  ASSUME StrandInv, NEW w \in Workers, Yield(w)
  PROVE  StrandInv'
<1> DEFINE f == running[w]
<1>1. f \in Fibers /\ pc[f] \in {"out", "lead"} /\ awaiter' = [awaiter EXCEPT ![f] = "yield"] /\ UNCHANGED strand
  BY DEF StrandInv, TypeOK, Yield, At, Suspend
<1>2. TypeOK'
  BY <1>1 DEF StrandInv, TypeOK, CoroStates, Yield, Suspend, strand, serving
<1>3. TasksStay
  BY UnchangedStays DEF Yield, Suspend
<1> QED
  BY <1>1, <1>2, <1>3, YieldRests

LEMMA RunYieldStep ==
  ASSUME StrandInv, NEW w \in Workers, RunYield(w), UNCHANGED strand
  PROVE  StrandInv'
<1> DEFINE f == after[w]
<1>1. f \in Fibers /\ awaiter[f] = "yield" /\ awaiter' = [awaiter EXCEPT ![f] = None]
  BY DEF StrandInv, TypeOK, RunYield, RunsAwaiter, TakeAwaiter
<1>2. runq' \in Seq(Entries) /\ TasksStay
  BY <1>1, AppendFiber DEF StrandInv, TypeOK, Entries, RunYield, Schedule
<1>3. TypeOK'
  BY <1>1, <1>2 DEF StrandInv, TypeOK, RunYield, TakeAwaiter, Entries, strand, serving
<1> QED
  BY <1>1, <1>2, <1>3, YieldRests
-----------------------------------------------------------------------------
\* A fiber goes between labels at which nobody else has anything of it.
LEMMA GotoRests ==
  ASSUME StrandInv, UNCHANGED <<runtime, stack, serving>>, NEW f \in Fibers,
         NEW a \in {"out", "lead", "handover", "join", "back"},
         pc[f] \in {"out", "lead", "handover", "join", "back"}, pc' = [pc EXCEPT ![f] = a]
  PROVE  JobsInv' /\ LeadersInv' /\ QueuedInv'
<1> USE DEF StrandInv, runtime, serving
<1>1. \A g \in Fibers : pc[g] \in {"serve", "wait", "called"} => pc'[g] = pc[g]
  BY DEF TypeOK
<1>2. \A g \in Fibers : pc'[g] = "called" => pc[g] = "called"
  BY DEF TypeOK
<1>3. JobsInv'
  BY DEF JobsInv
<1>4. LeadersInv'
  <2>1. \A w \in Workers : leader[w] # None => leader[w] \in Fibers
    BY DEF TypeOK
  <2> QED
    BY <1>1, <2>1 DEF LeadersInv, TaskPlaces
<1>5. QueuedInv'
  <2>1. /\ Range(stack) \subseteq Fibers
        /\ \A w \in Workers : \A i \in DOMAIN batch[w] : batch[w][i] \in Fibers
    BY DEF TypeOK, Range
  <2>2. \A w \in Workers : \A i \in DOMAIN batch[w] : pc'[batch[w][i]] = pc[batch[w][i]]
    BY <1>1, <2>1 DEF QueuedInv
  <2> QED
    BY <1>1, <1>2, <2>1, <2>2 DEF QueuedInv, NoDuplicates
<1> QED
  BY <1>3, <1>4, <1>5

LEMMA CombineStep ==
  ASSUME StrandInv, NEW w \in Workers, Combine(w)
  PROVE  StrandInv'
<1> USE DEF StrandInv
<1>0. PICK f \in Fibers : f = running[w]
  BY DEF TypeOK, Combine, Goto, At
<1>1. /\ pc[f] = "out" /\ count' = count + 1 /\ count \in Nat
      /\ pc' = [pc EXCEPT ![f] = IF count = 0 THEN "lead" ELSE "join"]
      /\ UNCHANGED <<runtime, stack, next, serving>>
  BY <1>0 DEF TypeOK, Combine, Goto, At
<1>2. /\ pc \in [Fibers -> Labels] /\ pc'[f] \in {"lead", "join"}
      /\ (count = 0 => pc'[f] = "lead") /\ (count # 0 => pc'[f] = "join")
      /\ \A g \in Fibers : g # f => pc'[g] = pc[g]
      /\ pc' \in [Fibers -> Labels]
  BY <1>1 DEF TypeOK, Labels
<1>3. TypeOK'
  BY <1>1, <1>2 DEF TypeOK, runtime, serving
<1>4. JobsInv' /\ LeadersInv' /\ QueuedInv'
  BY <1>1, GotoRests
<1>5. CountIsExact'
  BY <1>1, <1>2, CountFollows DEF Counted, serving
<1>6. LedInv'
  <2>1. ~Leads(f) /\ \A g \in Fibers : g # f => (Leads(g)' <=> Leads(g))
    BY <1>1, <1>2 DEF Leads, LeadersInv, runtime
  <2>2. TaskPlaces' = TaskPlaces /\ \A v \in Workers : Looks(v)' <=> Looks(v)
    BY <1>1 DEF TaskPlaces, Looks, runtime, serving
  <2>3. CASE count = 0
    <3>1. Leads(f)' /\ ~SomeLeader
      BY <1>1, <1>2, <2>3 DEF Leads, LedInv
    <3> QED
      BY <1>1, <2>1, <2>2, <3>1 DEF LedInv, PlaceOfLeader, SomeLeader
  <2>4. CASE count # 0
    <3>1. ~Leads(f)'
      BY <1>1, <1>2, <2>4 DEF Leads, LeadersInv, runtime
    <3> QED
      BY <1>1, <2>1, <2>2, <2>4, <3>1 DEF LedInv, PlaceOfLeader, SomeLeader
  <2> QED
    BY <2>3, <2>4
<1> QED
  BY <1>3, <1>4, <1>5, <1>6

LEMMA LeadEndsStep ==
  ASSUME StrandInv, NEW w \in Workers, LeadEnds(w)
  PROVE  StrandInv'
<1> USE DEF StrandInv
<1>0. PICK f \in Fibers : f = running[w]
  BY DEF TypeOK, LeadEnds, Goto, At
<1>1. /\ pc[f] = "lead" /\ count' = count - 1 /\ count \in Nat
      /\ pc' = [pc EXCEPT ![f] = IF count = 1 THEN "back" ELSE "handover"]
      /\ UNCHANGED <<runtime, stack, next, serving>>
  BY <1>0 DEF TypeOK, LeadEnds, Goto, At
<1>2. /\ pc \in [Fibers -> Labels] /\ pc'[f] \in {"back", "handover"}
      /\ (count = 1 => pc'[f] = "back") /\ (count # 1 => pc'[f] = "handover")
      /\ \A g \in Fibers : g # f => pc'[g] = pc[g]
      /\ pc' \in [Fibers -> Labels]
  BY <1>1 DEF TypeOK, Labels
<1>3. Leads(f) /\ count > 0
  BY <1>1 DEF Leads, LedInv, SomeLeader
<1>4. TypeOK'
  BY <1>1, <1>2, <1>3 DEF TypeOK, runtime, serving
<1>5. JobsInv' /\ LeadersInv' /\ QueuedInv'
  BY <1>1, GotoRests
<1>6. CountIsExact'
  BY <1>1, <1>2, CountFollows DEF Counted, serving
<1>7. LedInv'
  <2>1. \A g \in Fibers : g # f => ~Leads(g) /\ ~Leads(g)'
    BY <1>1, <1>2, <1>3 DEF Leads, LedInv, PlaceOfLeader, runtime
  <2>2. TaskPlaces = {} /\ TaskPlaces' = {} /\ \A v \in Workers : ~Looks(v) /\ ~Looks(v)'
    BY <1>1, <1>3 DEF TaskPlaces, Looks, runtime, serving, LedInv, PlaceOfLeader
  <2>3. Leads(f)' <=> count # 1
    BY <1>1, <1>2 DEF Leads, LeadersInv, runtime
  <2> QED
    BY <1>1, <1>3, <2>1, <2>2, <2>3 DEF LedInv, PlaceOfLeader, SomeLeader
<1> QED
  BY <1>4, <1>5, <1>6, <1>7

LEMMA ReturnStep ==
  ASSUME StrandInv, NEW w \in Workers, Return(w)
  PROVE  StrandInv'
<1> USE DEF StrandInv
<1>0. PICK f \in Fibers : f = running[w]
  BY DEF TypeOK, Return, Goto, At
<1>1. /\ pc[f] = "back" /\ pc' = [pc EXCEPT ![f] = "out"]
      /\ next' = [next EXCEPT ![f] = None]
      /\ UNCHANGED <<runtime, count, stack, serving>>
  BY <1>0 DEF TypeOK, Return, Goto, At
<1>2. /\ pc \in [Fibers -> Labels] /\ pc'[f] = "out"
      /\ \A g \in Fibers : g # f => pc'[g] = pc[g]
      /\ pc' \in [Fibers -> Labels]
  BY <1>1 DEF TypeOK, Labels
<1>3. TypeOK'
  BY <1>1, <1>2 DEF TypeOK, runtime, serving
<1>4. JobsInv' /\ LeadersInv' /\ QueuedInv'
  BY <1>1, GotoRests
<1>5. CountIsExact'
  BY <1>1, <1>2, CountRests DEF Counted, serving
<1>6. LedInv'
  <2>1. \A g \in Fibers : Leads(g)' <=> Leads(g)
    BY <1>1, <1>2 DEF Leads, runtime
  <2>2. TaskPlaces' = TaskPlaces /\ \A v \in Workers : Looks(v)' <=> Looks(v)
    BY <1>1 DEF TaskPlaces, Looks, runtime, serving
  <2> QED
    BY <1>1, <2>1, <2>2 DEF LedInv, PlaceOfLeader, SomeLeader
<1> QED
  BY <1>3, <1>4, <1>5, <1>6
-----------------------------------------------------------------------------
\* Fibers that somebody else holds are fibers.
LEMMA HeldAreFibers ==
  ASSUME TypeOK
  PROVE  /\ Range(stack) \subseteq Fibers
         /\ \A w \in Workers : Range(batch[w]) \subseteq Fibers
         /\ \A w \in Workers : \A i \in DOMAIN batch[w] : batch[w][i] \in Range(batch[w])
         /\ \A w \in Workers : leader[w] # None => leader[w] \in Fibers
  BY DEF TypeOK, Range

LEMMA SuspendToServeStep ==
  ASSUME StrandInv, NEW w \in Workers, SuspendToServe(w)
  PROVE  StrandInv'
<1> USE DEF StrandInv
<1>0. PICK f \in Fibers : f = running[w]
  BY DEF TypeOK, SuspendToServe, Goto, At
<1>1. /\ pc[f] = "handover" /\ pc' = [pc EXCEPT ![f] = "serve"]
      /\ awaiter' = [awaiter EXCEPT ![f] = "leader"]
      /\ UNCHANGED <<runq, count, stack, next, serving>>
  BY <1>0 DEF TypeOK, SuspendToServe, Suspend, Goto, At
<1>2. /\ pc'[f] = "serve" /\ awaiter'[f] = "leader"
      /\ \A g \in Fibers : g # f => pc'[g] = pc[g] /\ awaiter'[g] = awaiter[g]
      /\ pc' \in [Fibers -> Labels]
      /\ awaiter' \in [Fibers -> {None, "yield", "leader", "strand"}]
  BY <1>1 DEF TypeOK, Labels
<1>3. TypeOK'
  BY <1>1, <1>2 DEF TypeOK, SuspendToServe, Suspend, CoroStates, serving
<1>4. JobsInv'
  BY <1>1 DEF JobsInv, serving
<1>5. LeadersInv'
  BY <1>1, <1>2, HeldAreFibers DEF LeadersInv, TaskPlaces, serving
<1>6. QueuedInv'
  <2>1. f \notin Range(stack) /\ \A v \in Workers : \A i \in DOMAIN batch[v] : batch[v][i] # f
    BY <1>1 DEF QueuedInv
  <2>2. \A g \in Fibers : awaiter'[g] = "strand" => pc'[g] = "wait"
    BY <1>1, <1>2 DEF QueuedInv
  <2>3. \A g \in Fibers : pc'[g] = "called" => pc[g] = "called"
    BY <1>1, <1>2
  <2> QED
    BY <1>1, <1>2, <2>1, <2>2, <2>3, HeldAreFibers DEF QueuedInv, NoDuplicates, serving
<1>7. LedInv'
  <2>1. \A g \in Fibers : Leads(g)' <=> Leads(g)
    BY <1>1, <1>2 DEF Leads
  <2> QED
    BY <1>1, <2>1 DEF LedInv, PlaceOfLeader, SomeLeader, TaskPlaces, Looks, serving
<1>8. CountIsExact'
  BY <1>1, <1>2, CountRests DEF Counted, serving
<1> QED
  BY <1>3, <1>4, <1>5, <1>6, <1>7, <1>8

LEMMA SuspendInCombineStep ==
  ASSUME StrandInv, NEW w \in Workers, SuspendInCombine(w)
  PROVE  StrandInv'
<1> USE DEF StrandInv
<1>0. PICK f \in Fibers : f = running[w]
  BY DEF TypeOK, SuspendInCombine, Goto, At
<1>1. /\ pc[f] = "join" /\ pc' = [pc EXCEPT ![f] = "wait"]
      /\ awaiter' = [awaiter EXCEPT ![f] = "strand"]
      /\ UNCHANGED <<runq, count, stack, next, serving>>
  BY <1>0 DEF TypeOK, SuspendInCombine, Suspend, Goto, At
<1>2. /\ pc'[f] = "wait" /\ awaiter'[f] = "strand"
      /\ \A g \in Fibers : g # f => pc'[g] = pc[g] /\ awaiter'[g] = awaiter[g]
      /\ pc' \in [Fibers -> Labels]
      /\ awaiter' \in [Fibers -> {None, "yield", "leader", "strand"}]
  BY <1>1 DEF TypeOK, Labels
<1>3. TypeOK'
  BY <1>1, <1>2 DEF TypeOK, SuspendInCombine, Suspend, CoroStates, serving
<1>4. JobsInv'
  BY <1>1 DEF JobsInv, serving
<1>5. LeadersInv'
  BY <1>1, <1>2, HeldAreFibers DEF LeadersInv, TaskPlaces, serving
<1>6. QueuedInv'
  <2>1. f \notin Range(stack) /\ \A v \in Workers : \A i \in DOMAIN batch[v] : batch[v][i] # f
    BY <1>1 DEF QueuedInv
  <2>2. \A g \in Fibers : awaiter'[g] = "strand" => pc'[g] = "wait"
    BY <1>1, <1>2 DEF QueuedInv
  <2>3. \A g \in Fibers : pc'[g] = "called" => pc[g] = "called"
    BY <1>1, <1>2
  <2> QED
    BY <1>1, <1>2, <2>1, <2>2, <2>3, HeldAreFibers DEF QueuedInv, NoDuplicates, serving
<1>7. LedInv'
  <2>1. \A g \in Fibers : Leads(g)' <=> Leads(g)
    BY <1>1, <1>2 DEF Leads, LeadersInv
  <2> QED
    BY <1>1, <2>1 DEF LedInv, PlaceOfLeader, SomeLeader, TaskPlaces, Looks, serving
<1>8. CountIsExact'
  BY <1>1, <1>2, CountRests DEF Counted, serving
<1> QED
  BY <1>3, <1>4, <1>5, <1>6, <1>7, <1>8

LEMMA RunLeaderAwaiterStep ==
  ASSUME StrandInv, NEW w \in Workers, RunLeaderAwaiter(w)
  PROVE  StrandInv'
<1> USE DEF StrandInv
<1>0. PICK f \in Fibers : f = after[w]
  BY DEF TypeOK, RunLeaderAwaiter, RunsAwaiter
<1>1. /\ awaiter[f] = "leader" /\ pc[f] = "serve"
      /\ awaiter' = [awaiter EXCEPT ![f] = None] /\ runq' = Append(runq, Task(f))
      /\ UNCHANGED <<running, coro, strand>>
  BY <1>0 DEF LeadersInv, RunLeaderAwaiter, RunsAwaiter, TakeAwaiter
<1>2. /\ awaiter'[f] = None
      /\ \A g \in Fibers : g # f => awaiter'[g] = awaiter[g]
      /\ awaiter' \in [Fibers -> {None, "yield", "leader", "strand"}]
  BY <1>1 DEF TypeOK
<1>3. Leads(f) /\ TaskPlaces = {} /\ (\A v \in Workers : ~Looks(v)) /\ count > 0
      /\ \A g \in Fibers : g # f => ~Leads(g)
  BY <1>1 DEF Leads, LedInv, PlaceOfLeader, SomeLeader
<1>4. PICK n : /\ runq' \in Seq(Entries) /\ TaskPlaces' = {n} /\ runq'[n] = Task(f)
  BY <1>1, <1>3, AppendTask DEF TypeOK, Entries
<1>5. TypeOK'
  BY <1>1, <1>2, <1>4 DEF TypeOK, RunLeaderAwaiter, TakeAwaiter, Entries, strand, serving
<1>6. JobsInv'
  BY <1>1 DEF JobsInv, strand, serving
<1>7. LeadersInv'
  <2>1. \A v \in Workers : leader[v] # f
    BY <1>1, StrandAssumption DEF LeadersInv
  <2>2. \A v \in Workers : leader[v] # None => awaiter'[leader[v]] = None
    BY <1>2, <2>1, HeldAreFibers DEF LeadersInv
  <2>3. \A g \in Fibers : awaiter'[g] = "leader" => awaiter[g] = "leader"
    BY <1>2, StrandAssumption
  <2>4. \A i \in TaskPlaces' : \E g \in Fibers :
          /\ runq'[i] = Task(g) /\ pc'[g] = "serve" /\ awaiter'[g] = None
          /\ \A v \in Workers : leader'[v] # g
    BY <1>1, <1>2, <1>4, <2>1 DEF strand, serving
  <2> QED
    BY <1>1, <2>2, <2>3, <2>4 DEF LeadersInv, strand, serving
<1>8. QueuedInv'
  <2>1. \A g \in Fibers : awaiter'[g] = "strand" => awaiter[g] = "strand"
    BY <1>2, StrandAssumption
  <2>2. \A g \in Fibers : awaiter[g] = None => awaiter'[g] = None
    BY <1>2
  <2> QED
    BY <1>1, <2>1, <2>2, HeldAreFibers DEF QueuedInv, NoDuplicates, strand, serving
<1>9. LedInv'
  <2>1. \A g \in Fibers : ~Leads(g)'
    BY <1>1, <1>2, <1>3, StrandAssumption DEF Leads, strand
  <2>2. \A v \in Workers : ~Looks(v)'
    BY <1>1, <1>3 DEF Looks, strand, serving
  <2> QED
    BY <1>1, <1>3, <1>4, <2>1, <2>2 DEF LedInv, PlaceOfLeader, SomeLeader, strand
<1>10. CountIsExact'
  BY <1>1, CountRests DEF Counted, strand, serving
<1> QED
  BY <1>5, <1>6, <1>7, <1>8, <1>9, <1>10

LEMMA RunStrandAwaiterStep ==
  ASSUME StrandInv, NEW w \in Workers, RunStrandAwaiter(w)
  PROVE  StrandInv'
<1> USE DEF StrandInv
<1>0. PICK f \in Fibers : f = after[w]
  BY DEF TypeOK, RunStrandAwaiter, RunsAwaiter
<1>1. /\ awaiter[f] = "strand" /\ pc[f] = "wait"
      /\ awaiter' = [awaiter EXCEPT ![f] = None] /\ stack' = <<f>> \o stack
      /\ UNCHANGED <<runq, running, coro, count, next, serving, pc>>
  BY <1>0 DEF QueuedInv, RunStrandAwaiter, RunsAwaiter, TakeAwaiter
<1>2. /\ awaiter'[f] = None
      /\ \A g \in Fibers : g # f => awaiter'[g] = awaiter[g]
      /\ awaiter' \in [Fibers -> {None, "yield", "leader", "strand"}]
  BY <1>1 DEF TypeOK
<1>3. f \notin Range(stack) /\ \A v \in Workers : \A i \in DOMAIN batch[v] : batch[v][i] # f
  BY <1>1, StrandAssumption DEF QueuedInv
<1>4. /\ stack' \in Seq(Fibers) /\ Range(stack') = Range(stack) \union {f} /\ NoDuplicates(stack')
  BY <1>1, <1>3, PrependRange DEF TypeOK, QueuedInv
<1>5. TypeOK'
  BY <1>1, <1>2, <1>4 DEF TypeOK, RunStrandAwaiter, TakeAwaiter, serving
<1>6. JobsInv'
  BY <1>1 DEF JobsInv, serving
<1>7. \A g \in Fibers : /\ awaiter[g] = None => awaiter'[g] = None
                        /\ awaiter'[g] = "strand" => awaiter[g] = "strand"
                        /\ awaiter'[g] = "leader" <=> awaiter[g] = "leader"
  BY <1>1, <1>2, StrandAssumption
<1>8. LeadersInv'
  BY <1>1, <1>7, HeldAreFibers DEF LeadersInv, TaskPlaces, serving
<1>9. QueuedInv'
  <2>1. \A g \in Range(stack') : pc[g] = "wait" /\ awaiter'[g] = None
    BY <1>1, <1>2, <1>4, <1>7, HeldAreFibers DEF QueuedInv
  <2>2. \A v \in Workers : Range(batch[v]) \intersect Range(stack') = {}
    BY <1>3, <1>4, SMTT(30) DEF QueuedInv, Range
  <2> QED
    BY <1>1, <1>4, <1>7, <2>1, <2>2, HeldAreFibers DEF QueuedInv, NoDuplicates, serving
<1>10. LedInv'
  <2>1. \A g \in Fibers : Leads(g)' <=> Leads(g)
    BY <1>1, <1>7 DEF Leads
  <2> QED
    BY <1>1, <2>1 DEF LedInv, PlaceOfLeader, SomeLeader, TaskPlaces, Looks, serving
<1>11. CountIsExact'
  BY <1>1, CountRests DEF Counted, serving
<1> QED
  BY <1>5, <1>6, <1>8, <1>9, <1>10, <1>11
-----------------------------------------------------------------------------
\* The worker that runs a leader's task is the only one with a batch.
LEMMA OnlyLooker ==
  ASSUME StrandInv, NEW w \in Workers, Looks(w)
  PROVE  /\ leader[w] \in Fibers /\ count > 0
         /\ TaskPlaces = {} /\ \A f \in Fibers : ~Leads(f)
         /\ \A v \in Workers : v # w => ~Looks(v) /\ batch[v] = <<>> /\ ran[v] = 0
         /\ count = Cardinality(Counted) + ran[w]
<1> USE DEF StrandInv
<1>1. leader[w] \in Fibers
  BY HeldAreFibers DEF JobsInv, Looks
<1>2. \A v \in Workers : v # w => ~Looks(v) /\ batch[v] = <<>> /\ ran[v] = 0
  BY DEF LedInv, PlaceOfLeader, JobsInv, Looks
<1>3. TaskPlaces = {} /\ (\A f \in Fibers : ~Leads(f)) /\ count > 0
  BY DEF LedInv, PlaceOfLeader, SomeLeader
<1>4. count = Cardinality(Counted) + ran[w]
  <2>1. CASE ran[w] # 0
    BY <2>1, CountIsNotSmaller
  <2>2. CASE ran[w] = 0
    <3>1. {v \in Workers : ran[v] # 0} = {}
      BY <1>2, <2>2
    <3>2. count = Cardinality(Counted)
      BY <3>1 DEF CountIsExact
    <3> QED
      BY <2>2, <3>2, CountedIsFinite
  <2> QED
    BY <2>1, <2>2
<1> QED
  BY <1>1, <1>2, <1>3, <1>4

\* What such a worker leaves: the count is exact by its own number.
LEMMA CountOfOne ==
  ASSUME NEW w \in Workers, ran' \in [Workers -> Nat], \A v \in Workers : v # w => ran'[v] = 0,
         NEW n \in Nat, n = Cardinality(Counted'), count' = n + ran'[w]
  PROVE  CountIsExact'
<1>1. CASE ran'[w] = 0
  <2>1. {v \in Workers : ran'[v] # 0} = {} /\ count' = n
    BY <1>1
  <2> QED
    BY <2>1 DEF CountIsExact
<1>2. CASE ran'[w] # 0
  <2>1. {v \in Workers : ran'[v] # 0} = {w}
    BY <1>2
  <2> QED
    BY <2>1 DEF CountIsExact
<1> QED
  BY <1>1, <1>2

LEMMA ReverseRange ==
  ASSUME NEW S, NEW s \in Seq(S)
  PROVE  /\ Reverse(s) \in Seq(S) /\ Len(Reverse(s)) = Len(s)
         /\ \A i \in 1 .. Len(s) : Reverse(s)[i] = s[Len(s) - i + 1]
         /\ Range(Reverse(s)) = Range(s)
         /\ NoDuplicates(s) => NoDuplicates(Reverse(s))
<1>1. /\ DOMAIN s = 1 .. Len(s) /\ Len(s) \in Nat
      /\ DOMAIN Reverse(s) = 1 .. Len(s)
      /\ \A i \in 1 .. Len(s) : Reverse(s)[i] = s[Len(s) - i + 1]
      /\ \A i \in 1 .. Len(s) : s[i] \in S
  BY DEF Reverse
<1>2. \A i \in 1 .. Len(s) : Len(s) - i + 1 \in 1 .. Len(s) /\ Len(s) - (Len(s) - i + 1) + 1 = i
  BY <1>1
<1>3. Reverse(s) \in Seq(S) /\ Len(Reverse(s)) = Len(s)
  <2>1. Reverse(s) = [i \in 1 .. Len(s) |-> s[Len(s) - i + 1]]
    BY DEF Reverse
  <2> QED
    BY <1>1, <1>2, <2>1
<1>4. Range(Reverse(s)) = Range(s)
  <2>1. \A i \in 1 .. Len(s) : Reverse(s)[Len(s) - i + 1] = s[i]
    BY <1>1, <1>2
  <2> QED
    BY <1>1, <1>2, <2>1 DEF Range
<1>5. ASSUME NoDuplicates(s), NEW i \in 1 .. Len(s), NEW j \in 1 .. Len(s),
             Reverse(s)[i] = Reverse(s)[j]
      PROVE  i = j
  <2>1. Len(s) - i + 1 = Len(s) - j + 1
    BY <1>1, <1>2, <1>5 DEF NoDuplicates
  <2> QED
    BY <1>1, <2>1
<1> QED
  BY <1>1, <1>3, <1>4, <1>5 DEF NoDuplicates

LEMMA TakeTaskStep ==
  ASSUME StrandInv, NEW w \in Workers, TakeTask(w)
  PROVE  StrandInv'
<1> USE DEF StrandInv
<1>1. /\ runq \in Seq(Entries) /\ runq # <<>> /\ Head(runq) \notin Fibers /\ runq' = Tail(runq)
      /\ \A i, j \in TaskPlaces : i = j
  BY DEF TakeTask, TypeOK, Entries, LedInv, PlaceOfLeader
<1>2. runq' \in Seq(Entries) /\ TaskPlaces' = {} /\ TaskPlaces = {1} /\ Head(runq) = runq[1]
  BY <1>1, TailTask
<1>3. PICK f \in Fibers : /\ Head(runq) = Task(f) /\ pc[f] = "serve" /\ awaiter[f] = None
                          /\ \A v \in Workers : leader[v] # f
  BY <1>2 DEF LeadersInv
<1>4. f = Head(runq).awaiter /\ f # None
  BY <1>3, StrandAssumption DEF Task
<1>5. /\ job[w] = "none" /\ job' = [job EXCEPT ![w] = "chain"]
      /\ leader' = [leader EXCEPT ![w] = f]
      /\ UNCHANGED <<running, after, awaiter, coro, count, stack, next, ptr, temp>>
      /\ UNCHANGED <<batch, ran, pc>>
  BY <1>4 DEF TakeTask, Work
<1>6. /\ job'[w] = "chain" /\ leader'[w] = f
      /\ \A v \in Workers : v # w => job'[v] = job[v] /\ leader'[v] = leader[v]
      /\ job' \in [Workers -> Jobs] /\ leader' \in [Workers -> Fibers \union {None}]
  BY <1>5 DEF TypeOK, Jobs
<1>7. /\ count > 0 /\ (\A v \in Workers : ~Looks(v)) /\ \A g \in Fibers : ~Leads(g)
  BY <1>2 DEF LedInv, PlaceOfLeader, SomeLeader
<1>8. TypeOK'
  BY <1>2, <1>5, <1>6 DEF TypeOK, Entries
<1>9. JobsInv'
  BY <1>4, <1>5, <1>6 DEF JobsInv
<1>10. LeadersInv'
  BY <1>2, <1>3, <1>5, <1>6 DEF LeadersInv
<1>11. QueuedInv'
  <2>1. \A v \in Workers : job'[v] = "call" <=> job[v] = "call"
    BY <1>5, <1>6
  <2> QED
    BY <1>5, <2>1 DEF QueuedInv, NoDuplicates
<1>12. LedInv'
  <2>1. \A g \in Fibers : ~Leads(g)'
    BY <1>5, <1>7 DEF Leads
  <2>2. \A v \in Workers : Looks(v)' <=> v = w
    BY <1>6, <1>7 DEF Looks
  <2> QED
    BY <1>2, <1>5, <1>7, <2>1, <2>2 DEF LedInv, PlaceOfLeader, SomeLeader
<1>13. CountIsExact'
  BY <1>5, CountRests DEF Counted
<1> QED
  BY <1>8, <1>9, <1>10, <1>11, <1>12, <1>13

\* The first of a chain, and its links.
LEMMA FirstIs ==
  ASSUME NEW s \in Seq(Fibers)
  PROVE  /\ First(s) \in Fibers \union {None} /\ (First(s) = None <=> s = <<>>)
         /\ s # <<>> => First(s) = Head(s)
<1>1. s # <<>> => Head(s) \in Fibers
  OBVIOUS
<1> QED
  BY <1>1, StrandAssumption DEF First

LEMMA LinkedIs ==
  ASSUME next \in [Fibers -> Fibers \union {None}], NEW s \in Seq(Fibers), NoDuplicates(s),
         next' = Linked(s)
  PROVE  next' \in [Fibers -> Fibers \union {None}] /\ Links(next', s)
<1>1. /\ DOMAIN s = 1 .. Len(s) /\ Len(s) \in Nat /\ \A i \in DOMAIN s : s[i] \in Fibers
      /\ \A i \in DOMAIN s : i # Len(s) => i + 1 \in DOMAIN s
  OBVIOUS
<1>2. ASSUME NEW f \in Fibers, NEW i \in DOMAIN s, s[i] = f
      PROVE  Linked(s)[f] = IF i = Len(s) THEN None ELSE s[i + 1]
  <2>1. (CHOOSE j \in DOMAIN s : s[j] = f) = i
    BY <1>1, <1>2 DEF NoDuplicates
  <2> QED
    BY <1>2, <2>1 DEF Linked
<1>3. \A f \in Fibers : (\A i \in DOMAIN s : s[i] # f) => Linked(s)[f] = next[f]
  BY DEF Linked
<1>4. \A f \in Fibers : Linked(s)[f] \in Fibers \union {None}
  BY <1>1, <1>2, <1>3
<1>5. Linked(s) \in [Fibers -> Fibers \union {None}]
  BY <1>4 DEF Linked
<1> QED
  BY <1>1, <1>2, <1>5 DEF Links

\* What ptr says of the batch.
LEMMA PtrIsFirst ==
  ASSUME StrandInv, LinksInv, NEW w \in Workers, job[w] \in {"batch", "call"}
  PROVE  /\ ptr[w] = None <=> batch[w] = <<>>
         /\ batch[w] # <<>> => ptr[w] = Head(batch[w]) /\ ptr[w] \in Fibers
<1>1. ptr[w] = First(batch[w]) /\ batch[w] \in Seq(Fibers)
  BY DEF LinksInv, StrandInv, TypeOK
<1> QED
  BY <1>1, FirstIs, StrandAssumption

LEMMA GetChainStep ==
  ASSUME StrandInv, NEW w \in Workers, GetChain(w)
  PROVE  StrandInv'
<1> USE DEF StrandInv
<1>1. /\ job[w] = "chain" /\ job' = [job EXCEPT ![w] = "batch"]
      /\ batch' = [batch EXCEPT ![w] = Reverse(stack)] /\ ran' = [ran EXCEPT ![w] = 0]
      /\ stack' = <<>>
      /\ next' = Linked(Reverse(stack)) /\ ptr' = [ptr EXCEPT ![w] = First(Reverse(stack))]
      /\ UNCHANGED <<runtime, count, temp, leader, pc>>
  BY DEF GetChain, Work
<1>2. Looks(w) /\ ran[w] = 0
  BY <1>1 DEF Looks, JobsInv
<1>3. /\ \A v \in Workers : v # w => ~Looks(v) /\ batch[v] = <<>> /\ ran[v] = 0
      /\ TaskPlaces = {} /\ (\A f \in Fibers : ~Leads(f)) /\ count > 0 /\ leader[w] \in Fibers
  BY <1>2, OnlyLooker
<1>4. /\ Reverse(stack) \in Seq(Fibers) /\ Range(Reverse(stack)) = Range(stack)
      /\ NoDuplicates(Reverse(stack))
  BY ReverseRange DEF TypeOK, QueuedInv
<1>5. /\ job'[w] = "batch" /\ batch'[w] = Reverse(stack)
      /\ \A v \in Workers : v # w => job'[v] = job[v] /\ batch'[v] = batch[v]
      /\ job' \in [Workers -> Jobs] /\ batch' \in [Workers -> Seq(Fibers)]
      /\ ran' = ran
  BY <1>1, <1>2, <1>4 DEF TypeOK, Jobs
<1>6. TypeOK'
  <2>1. next' \in [Fibers -> Fibers \union {None}] /\ First(Reverse(stack)) \in Fibers \union {None}
    BY <1>1, <1>4, LinkedIs, FirstIs DEF TypeOK
  <2> QED
    BY <1>1, <1>5, <2>1 DEF TypeOK, runtime
<1>7. JobsInv'
  BY <1>1, <1>5 DEF JobsInv
<1>8. LeadersInv'
  BY <1>1 DEF LeadersInv, TaskPlaces, runtime
<1>9. QueuedInv'
  <2>1. \A v \in Workers : job'[v] = "call" <=> job[v] = "call"
    BY <1>1, <1>5
  <2>2. \A v \in Workers : job'[v] # "call"
    BY <1>3, <1>5 DEF Looks
  <2>3. \A f \in Fibers : pc[f] # "called"
    BY <2>1, <2>2 DEF QueuedInv
  <2>4. Range(stack') = {} /\ NoDuplicates(stack')
    BY <1>1 DEF Range, NoDuplicates
  <2>5. \A i \in DOMAIN batch'[w] : batch'[w][i] \in Range(stack)
    BY <1>4, <1>5 DEF Range
  <2>6. \A v \in Workers : NoDuplicates(batch'[v])
    BY <1>4, <1>5 DEF QueuedInv
  <2>7. \A v \in Workers : \A i \in DOMAIN batch'[v] :
          awaiter[batch'[v][i]] = None /\ pc[batch'[v][i]] = "wait"
    <3>1. \A v \in Workers : v # w => DOMAIN batch'[v] = {}
      BY <1>3, <1>5
    <3> QED
      BY <2>5, <3>1 DEF QueuedInv
  <2> QED
    BY <1>1, <2>2, <2>3, <2>4, <2>6, <2>7 DEF QueuedInv, runtime
<1>10. LedInv'
  <2>1. (\A f \in Fibers : Leads(f)' <=> Leads(f)) /\ TaskPlaces' = TaskPlaces
    BY <1>1 DEF Leads, TaskPlaces, runtime
  <2>2. \A v \in Workers : Looks(v)' <=> Looks(v)
    BY <1>2, <1>5 DEF Looks
  <2> QED
    BY <1>1, <2>1, <2>2 DEF LedInv, PlaceOfLeader, SomeLeader
<1>11. CountIsExact'
  BY <1>1, <1>5, CountRests DEF Counted
<1> QED
  BY <1>6, <1>7, <1>8, <1>9, <1>10, <1>11

\* A batch that is not empty, without its first.
LEMMA BatchTail ==
  ASSUME StrandInv, NEW w \in Workers, batch[w] # <<>>
  PROVE  /\ Head(batch[w]) = batch[w][1] /\ 1 \in DOMAIN batch[w] /\ Head(batch[w]) \in Fibers
         /\ Tail(batch[w]) \in Seq(Fibers) /\ NoDuplicates(Tail(batch[w]))
         /\ Range(Tail(batch[w])) = Range(batch[w]) \ {Head(batch[w])}
         /\ \A i \in DOMAIN Tail(batch[w]) :
              i + 1 \in DOMAIN batch[w] /\ i + 1 # 1 /\ Tail(batch[w])[i] = batch[w][i + 1]
<1>1. batch[w] \in Seq(Fibers) /\ NoDuplicates(batch[w])
  BY DEF StrandInv, TypeOK, QueuedInv
<1>2. Range(Tail(batch[w])) = Range(batch[w]) \ {Head(batch[w])} /\ NoDuplicates(Tail(batch[w]))
  BY <1>1, TailRange
<1>3. ASSUME NEW s \in Seq(Fibers), s # <<>>
      PROVE  /\ Head(s) = s[1] /\ 1 \in DOMAIN s /\ Head(s) \in Fibers /\ Tail(s) \in Seq(Fibers)
             /\ \A i \in DOMAIN Tail(s) : i + 1 \in DOMAIN s /\ i + 1 # 1 /\ Tail(s)[i] = s[i + 1]
  BY <1>3
<1> QED
  BY <1>1, <1>2, <1>3

LEMMA RunCallBackStep ==
  ASSUME StrandInv, LinksInv, NEW w \in Workers, RunCallBack(w)
  PROVE  StrandInv'
<1> USE DEF StrandInv
<1>1. /\ batch[w] # <<>> /\ job[w] = "batch" /\ job' = [job EXCEPT ![w] = "call"]
      /\ pc' = [pc EXCEPT ![Head(batch[w])] = "called"]
      /\ temp' = [temp EXCEPT ![w] = next[ptr[w]]] /\ ptr[w] \in Fibers
      /\ UNCHANGED <<runtime, count, stack, next, ptr, batch, ran, leader>>
  BY PtrIsFirst, BatchTail DEF RunCallBack, Work
<1>2. PICK f \in Fibers : f = Head(batch[w]) /\ f = batch[w][1] /\ 1 \in DOMAIN batch[w]
  BY <1>1, BatchTail
<1>3. pc[f] = "wait" /\ awaiter[f] = None /\ f \in Range(batch[w]) /\ f \notin Range(stack)
  BY <1>1, <1>2, HeldAreFibers DEF QueuedInv
<1>4. Looks(w)
  BY <1>1 DEF Looks
<1>5. \A v \in Workers : v # w => ~Looks(v) /\ batch[v] = <<>>
  BY <1>4, OnlyLooker
<1>6. /\ job'[w] = "call" /\ \A v \in Workers : v # w => job'[v] = job[v]
      /\ job' \in [Workers -> Jobs] /\ pc' \in [Fibers -> Labels]
      /\ pc'[f] = "called" /\ \A g \in Fibers : g # f => pc'[g] = pc[g]
  BY <1>1, <1>2 DEF TypeOK, Jobs, Labels
<1>7. TypeOK'
  BY <1>1, <1>6 DEF TypeOK, runtime
<1>8. JobsInv'
  BY <1>1, <1>6 DEF JobsInv
<1>9. LeadersInv'
  BY <1>1, <1>3, <1>6, HeldAreFibers DEF LeadersInv, TaskPlaces, runtime
<1>10. QueuedInv'
  <2>1. \A i \in DOMAIN batch[w] : batch[w][i] = f <=> i = 1
    BY <1>2 DEF QueuedInv, NoDuplicates
  <2>2. \A i \in DOMAIN batch[w] : pc'[batch[w][i]] = IF i = 1 THEN "called" ELSE "wait"
    BY <1>1, <1>6, <2>1, HeldAreFibers DEF QueuedInv
  <2>3. \A v \in Workers : v # w => DOMAIN batch[v] = {}
    BY <1>5
  <2>4. \A v \in Workers : \A i \in DOMAIN batch[v] :
          /\ awaiter[batch[v][i]] = None
          /\ pc'[batch[v][i]] = IF i = 1 /\ job'[v] = "call" THEN "called" ELSE "wait"
    BY <1>6, <2>2, <2>3 DEF QueuedInv
  <2>5. \A g \in Range(stack) : pc'[g] = "wait"
    BY <1>3, <1>6, HeldAreFibers DEF QueuedInv
  <2>6. \A g \in Fibers : pc'[g] = "called" => job'[w] = "call" /\ Head(batch[w]) = g
    <3>1. \A g \in Fibers : pc[g] # "called"
      BY <1>1, <1>5 DEF QueuedInv, Looks
    <3> QED
      BY <1>2, <1>6, <3>1
  <2>7. \A g \in Fibers : awaiter[g] = "strand" => pc'[g] = "wait"
    BY <1>3, <1>6, StrandAssumption DEF QueuedInv
  <2> QED
    BY <1>1, <2>4, <2>5, <2>6, <2>7 DEF QueuedInv, NoDuplicates, runtime
<1>11. LedInv'
  <2>1. (\A g \in Fibers : Leads(g)' <=> Leads(g)) /\ TaskPlaces' = TaskPlaces
    BY <1>1, <1>3, <1>6 DEF Leads, TaskPlaces, runtime
  <2>2. \A v \in Workers : Looks(v)' <=> Looks(v)
    BY <1>4, <1>6 DEF Looks
  <2> QED
    BY <1>1, <2>1, <2>2 DEF LedInv, PlaceOfLeader, SomeLeader
<1>12. CountIsExact'
  BY <1>1, <1>3, <1>6, CountRests DEF Counted
<1> QED
  BY <1>7, <1>8, <1>9, <1>10, <1>11, <1>12

LEMMA CallBackEndsStep ==
  ASSUME StrandInv, LinksInv, NEW w \in Workers, CallBackEnds(w)
  PROVE  StrandInv'
<1> USE DEF StrandInv
<1>1. /\ job[w] = "call" /\ job' = [job EXCEPT ![w] = "next"]
      /\ pc' = [pc EXCEPT ![Head(batch[w])] = "back"]
      /\ runq' = Append(runq, Head(batch[w]))
      /\ batch' = [batch EXCEPT ![w] = Tail(@)] /\ ran' = [ran EXCEPT ![w] = @ + 1]
      /\ UNCHANGED <<running, after, awaiter, coro, count, stack, next, ptr, temp, leader>>
  BY PtrIsFirst DEF CallBackEnds, Work, Schedule, JobsInv
<1>2. batch[w] # <<>> /\ Looks(w)
  BY <1>1 DEF JobsInv, Looks
<1>3. PICK f \in Fibers : f = Head(batch[w]) /\ f = batch[w][1] /\ 1 \in DOMAIN batch[w]
  BY <1>2, BatchTail
<1>4. pc[f] = "called" /\ awaiter[f] = None /\ f \in Range(batch[w]) /\ f \notin Range(stack)
  BY <1>1, <1>3, HeldAreFibers DEF QueuedInv
<1>5. /\ \A v \in Workers : v # w => ~Looks(v) /\ batch[v] = <<>> /\ ran[v] = 0
      /\ count = Cardinality(Counted) + ran[w]
  BY <1>2, OnlyLooker
<1>6. runq' \in Seq(Entries) /\ TasksStay
  BY <1>1, <1>3, AppendFiber DEF TypeOK, Entries
<1>7. /\ job'[w] = "next" /\ \A v \in Workers : v # w => job'[v] = job[v]
      /\ job' \in [Workers -> Jobs] /\ pc' \in [Fibers -> Labels]
      /\ pc'[f] = "back" /\ \A g \in Fibers : g # f => pc'[g] = pc[g]
  BY <1>1, <1>3 DEF TypeOK, Jobs, Labels
<1>8. /\ batch'[w] = Tail(batch[w]) /\ \A v \in Workers : v # w => batch'[v] = batch[v]
      /\ ran'[w] = ran[w] + 1 /\ \A v \in Workers : v # w => ran'[v] = ran[v]
      /\ batch' \in [Workers -> Seq(Fibers)] /\ ran' \in [Workers -> Nat]
  BY <1>1, <1>2, BatchTail DEF TypeOK
<1>9. TypeOK'
  BY <1>1, <1>6, <1>7, <1>8 DEF TypeOK, Entries
<1>10. JobsInv'
  BY <1>1, <1>7, <1>8 DEF JobsInv
<1>11. LeadersInv'
  <2>1. \A g \in Fibers : pc[g] = "serve" => pc'[g] = "serve"
    BY <1>4, <1>7
  <2>2. \A g \in Fibers : awaiter'[g] = "leader" => pc'[g] = "serve"
    BY <1>1, <2>1 DEF LeadersInv
  <2>3. \A v \in Workers : leader'[v] # None =>
          pc'[leader'[v]] = "serve" /\ awaiter'[leader'[v]] = None
    BY <1>1, <2>1, HeldAreFibers DEF LeadersInv
  <2>4. \A i \in TaskPlaces' : \E g \in Fibers :
          /\ runq'[i] = Task(g) /\ pc'[g] = "serve" /\ awaiter'[g] = None
          /\ \A v \in Workers : leader'[v] # g
    <3>1. ASSUME NEW j \in TaskPlaces'
          PROVE  \E g \in Fibers :
                   /\ runq'[j] = Task(g) /\ pc'[g] = "serve" /\ awaiter'[g] = None
                   /\ \A v \in Workers : leader'[v] # g
      <4>1. PICK i \in TaskPlaces : runq'[j] = runq[i]
        BY <1>6, <3>1 DEF TasksStay
      <4>2. PICK g \in Fibers :
              /\ runq[i] = Task(g) /\ pc[g] = "serve" /\ awaiter[g] = None
              /\ \A v \in Workers : leader[v] # g
        BY DEF LeadersInv
      <4> QED
        BY <1>1, <2>1, <4>1, <4>2
    <3> QED
      BY <3>1
  <2>5. \A u, v \in Workers : leader'[u] = leader'[v] /\ leader'[u] # None => u = v
    BY <1>1 DEF LeadersInv
  <2> QED
    BY <2>2, <2>3, <2>4, <2>5 DEF LeadersInv
<1>12. QueuedInv'
  <2>1. \A v \in Workers : v # w => DOMAIN batch'[v] = {} /\ Range(batch'[v]) = {}
    <3>1. \A v \in Workers : v # w => batch'[v] = <<>>
      BY <1>5, <1>8
    <3>2. DOMAIN <<>> = {}
      OBVIOUS
    <3> QED
      BY <3>1, <3>2 DEF Range
  <2>2. \A i \in DOMAIN batch'[w] : /\ batch'[w][i] # f
                                    /\ awaiter[batch'[w][i]] = None
                                    /\ pc[batch'[w][i]] = "wait"
    <3>1. \A i \in DOMAIN batch[w] : i # 1 =>
            batch[w][i] # f /\ awaiter[batch[w][i]] = None /\ pc[batch[w][i]] = "wait"
      BY <1>3 DEF QueuedInv, NoDuplicates
    <3>2. \A i \in DOMAIN batch'[w] :
            i + 1 \in DOMAIN batch[w] /\ i + 1 # 1 /\ batch'[w][i] = batch[w][i + 1]
      BY <1>2, <1>8, BatchTail
    <3> QED
      BY <3>1, <3>2
  <2>3. \A i \in DOMAIN batch'[w] : pc'[batch'[w][i]] = "wait"
    <3>1. \A i \in DOMAIN batch'[w] : batch'[w][i] \in Fibers
      <4>1. batch'[w] \in Seq(Fibers)
        BY <1>8
      <4> QED
        BY <4>1
    <3> QED
      BY <1>7, <2>2, <3>1
  <2>4. \A v \in Workers : NoDuplicates(batch'[v]) /\ Range(batch'[v]) \intersect Range(stack) = {}
    <3>1. NoDuplicates(batch'[w]) /\ Range(batch'[w]) \subseteq Range(batch[w])
      BY <1>2, <1>8, BatchTail
    <3> QED
      BY <1>8, <2>1, <3>1 DEF QueuedInv
  <2>5. \A v \in Workers : job'[v] # "call"
    BY <1>5, <1>7 DEF Looks
  <2>6. \A g \in Fibers : pc'[g] # "called"
    <3>1. \A g \in Fibers : pc[g] = "called" => g = f
      BY <1>3, <1>5 DEF QueuedInv, Looks
    <3> QED
      BY <1>7, <3>1
  <2>7. \A g \in Range(stack) : pc'[g] = "wait"
    BY <1>4, <1>7, HeldAreFibers DEF QueuedInv
  <2>8. \A g \in Fibers : awaiter[g] = "strand" => pc'[g] = "wait"
    BY <1>4, <1>7, StrandAssumption DEF QueuedInv
  <2>9. \A v \in Workers : \A i \in DOMAIN batch'[v] :
          awaiter[batch'[v][i]] = None /\ pc'[batch'[v][i]] = "wait"
    BY <2>1, <2>2, <2>3
  <2> QED
    BY <1>1, <2>4, <2>5, <2>6, <2>7, <2>8, <2>9 DEF QueuedInv, NoDuplicates
<1>13. LedInv'
  <2>1. \A g \in Fibers : Leads(g)' <=> Leads(g)
    BY <1>1, <1>4, <1>7 DEF Leads
  <2>2. \A v \in Workers : Looks(v)' <=> Looks(v)
    BY <1>2, <1>7 DEF Looks
  <2> QED
    BY <1>1, <1>6, <2>1, <2>2 DEF LedInv, PlaceOfLeader, SomeLeader, TasksStay
<1>14. CountIsExact'
  <2>1. Cardinality(Counted') = Cardinality(Counted) - 1
    BY <1>4, <1>7, CountedLoses DEF Counted
  <2>2. Cardinality(Counted') \in Nat
    <3>1. Cardinality(Counted) \in Nat /\ Cardinality(Counted) # 0
      BY <1>4, CountedIsFinite, FS_EmptySet DEF Counted
    <3> QED
      BY <2>1, <3>1
  <2>3. count' = Cardinality(Counted') + ran'[w]
    BY <1>1, <1>5, <1>8, <2>1, CountedIsFinite DEF TypeOK
  <2> QED
    BY <1>5, <1>8, <2>2, <2>3, CountOfOne
<1> QED
  BY <1>9, <1>10, <1>11, <1>12, <1>13, <1>14

LEMMA AdvanceStep ==
  ASSUME StrandInv, NEW w \in Workers, Advance(w)
  PROVE  StrandInv'
<1> USE DEF StrandInv
<1>1. /\ job[w] = "next" /\ job' = [job EXCEPT ![w] = "batch"]
      /\ ptr' = [ptr EXCEPT ![w] = temp[w]] /\ temp' = [temp EXCEPT ![w] = None]
      /\ UNCHANGED <<runtime, count, stack, next, batch, ran, leader, pc>>
  BY DEF Advance, Work
<1>2. /\ job'[w] = "batch" /\ (\A v \in Workers : v # w => job'[v] = job[v])
      /\ job' \in [Workers -> Jobs]
  BY <1>1 DEF TypeOK, Jobs
<1>3. TypeOK'
  BY <1>1, <1>2 DEF TypeOK, runtime
<1>4. JobsInv'
  BY <1>1, <1>2 DEF JobsInv
<1>5. LeadersInv'
  BY <1>1 DEF LeadersInv, TaskPlaces, runtime
<1>6. QueuedInv'
  <2>1. \A v \in Workers : job'[v] = "call" <=> job[v] = "call"
    BY <1>1, <1>2
  <2> QED
    BY <1>1, <2>1 DEF QueuedInv, NoDuplicates, runtime
<1>7. LedInv'
  <2>1. (\A f \in Fibers : Leads(f)' <=> Leads(f)) /\ TaskPlaces' = TaskPlaces
    BY <1>1 DEF Leads, TaskPlaces, runtime
  <2>2. \A v \in Workers : Looks(v)' <=> Looks(v)
    BY <1>1, <1>2 DEF Looks
  <2> QED
    BY <1>1, <2>1, <2>2 DEF LedInv, PlaceOfLeader, SomeLeader
<1>8. CountIsExact'
  BY <1>1, CountRests DEF Counted
<1> QED
  BY <1>3, <1>4, <1>5, <1>6, <1>7, <1>8

LEMMA AccountStep ==
  ASSUME StrandInv, LinksInv, NEW w \in Workers, Account(w)
  PROVE  StrandInv'
<1> USE DEF StrandInv
<1>1. /\ batch[w] = <<>> /\ job[w] = "batch" /\ count' = count - ran[w]
      /\ job' = [job EXCEPT ![w] = IF ran[w] = count THEN "release" ELSE "again"]
      /\ ran' = [ran EXCEPT ![w] = 0]
      /\ UNCHANGED <<runtime, stack, next, ptr, temp, batch, leader, pc>>
  BY PtrIsFirst DEF Account, Work
<1>2. Looks(w)
  BY <1>1 DEF Looks
<1>3. /\ \A v \in Workers : v # w => ~Looks(v) /\ batch[v] = <<>> /\ ran[v] = 0
      /\ TaskPlaces = {} /\ (\A f \in Fibers : ~Leads(f))
      /\ count = Cardinality(Counted) + ran[w]
  BY <1>2, OnlyLooker
<1>4. count \in Nat /\ ran[w] \in Nat /\ Cardinality(Counted) \in Nat
  BY CountedIsFinite DEF TypeOK
<1>5. /\ job'[w] = IF ran[w] = count THEN "release" ELSE "again"
      /\ \A v \in Workers : v # w => job'[v] = job[v]
      /\ job' \in [Workers -> Jobs]
      /\ ran'[w] = 0 /\ (\A v \in Workers : v # w => ran'[v] = ran[v])
      /\ ran' \in [Workers -> Nat]
  BY <1>1 DEF TypeOK, Jobs
<1>6. count' = Cardinality(Counted) /\ (count' = 0 <=> ran[w] = count)
  BY <1>1, <1>3, <1>4
<1>7. TypeOK'
  BY <1>1, <1>4, <1>5, <1>6 DEF TypeOK, runtime
<1>8. JobsInv'
  BY <1>1, <1>5 DEF JobsInv
<1>9. LeadersInv'
  BY <1>1 DEF LeadersInv, TaskPlaces, runtime
<1>10. QueuedInv'
  <2>1. \A v \in Workers : job'[v] = "call" <=> job[v] = "call"
    BY <1>1, <1>5
  <2> QED
    BY <1>1, <2>1 DEF QueuedInv, NoDuplicates, runtime
<1>11. LedInv'
  <2>1. (\A f \in Fibers : ~Leads(f)') /\ TaskPlaces' = {}
    BY <1>1, <1>3 DEF Leads, TaskPlaces, runtime
  <2>2. /\ \A v \in Workers : v # w => ~Looks(v)'
        /\ Looks(w)' <=> ran[w] # count
    BY <1>3, <1>5 DEF Looks
  <2>3. count' > 0 <=> ran[w] # count
    BY <1>4, <1>6
  <2> QED
    BY <2>1, <2>2, <2>3 DEF LedInv, PlaceOfLeader, SomeLeader
<1>12. CountIsExact'
  <2>1. Counted' = Counted
    BY <1>1 DEF Counted
  <2> QED
    BY <1>3, <1>4, <1>5, <1>6, <2>1, CountOfOne
<1> QED
  BY <1>7, <1>8, <1>9, <1>10, <1>11, <1>12

LEMMA ReleaseStep ==
  ASSUME StrandInv, NEW w \in Workers, Release(w)
  PROVE  StrandInv'
<1> USE DEF StrandInv
<1>1. /\ job[w] = "release" /\ job' = [job EXCEPT ![w] = "none"]
      /\ pc' = [pc EXCEPT ![leader[w]] = "back"] /\ runq' = Append(runq, leader[w])
      /\ leader' = [leader EXCEPT ![w] = None]
      /\ UNCHANGED <<running, after, awaiter, coro, count, stack, next, ptr, temp, batch, ran>>
  BY DEF Release, Work, Schedule
<1>2. PICK f \in Fibers : f = leader[w] /\ f # None
  BY <1>1, HeldAreFibers, StrandAssumption DEF JobsInv
<1>3. pc[f] = "serve" /\ awaiter[f] = None /\ \A v \in Workers : v # w => leader[v] # f
  BY <1>2 DEF LeadersInv
<1>4. runq' \in Seq(Entries) /\ TasksStay
  BY <1>1, <1>2, AppendFiber DEF TypeOK, Entries
<1>5. /\ job'[w] = "none" /\ (\A v \in Workers : v # w => job'[v] = job[v])
      /\ job' \in [Workers -> Jobs] /\ pc' \in [Fibers -> Labels]
      /\ pc'[f] = "back" /\ (\A g \in Fibers : g # f => pc'[g] = pc[g])
      /\ leader'[w] = None /\ (\A v \in Workers : v # w => leader'[v] = leader[v])
      /\ leader' \in [Workers -> Fibers \union {None}]
  BY <1>1, <1>2 DEF TypeOK, Jobs, Labels
<1>6. TypeOK'
  BY <1>1, <1>4, <1>5 DEF TypeOK, Entries
<1>7. JobsInv'
  BY <1>1, <1>5 DEF JobsInv
<1>8. LeadersInv'
  <2>1. \A v \in Workers : leader'[v] # None => leader'[v] = leader[v] /\ v # w
    BY <1>5
  <2>2. \A g \in Fibers : awaiter'[g] = "leader" => pc'[g] = "serve"
    BY <1>1, <1>3, <1>5, StrandAssumption DEF LeadersInv
  <2>3. \A v \in Workers : leader'[v] # None =>
          pc'[leader'[v]] = "serve" /\ awaiter'[leader'[v]] = None
    BY <1>1, <1>3, <1>5, <2>1, HeldAreFibers DEF LeadersInv
  <2>4. \A i \in TaskPlaces' : \E g \in Fibers :
          /\ runq'[i] = Task(g) /\ pc'[g] = "serve" /\ awaiter'[g] = None
          /\ \A v \in Workers : leader'[v] # g
    <3>1. \A i \in TaskPlaces : \E g \in Fibers :
            /\ runq[i] = Task(g) /\ pc[g] = "serve" /\ awaiter[g] = None
            /\ g # f /\ \A v \in Workers : leader[v] # g
      BY <1>2 DEF LeadersInv
    <3>2. \A g \in Fibers : g # f /\ (\A v \in Workers : leader[v] # g) =>
            pc'[g] = pc[g] /\ \A v \in Workers : leader'[v] # g
      BY <1>5, StrandAssumption
    <3>3. ASSUME NEW j \in TaskPlaces'
          PROVE  \E g \in Fibers :
                   /\ runq'[j] = Task(g) /\ pc'[g] = "serve" /\ awaiter'[g] = None
                   /\ \A v \in Workers : leader'[v] # g
      <4>1. PICK i \in TaskPlaces : runq'[j] = runq[i]
        BY <1>4, <3>3 DEF TasksStay
      <4>2. PICK g \in Fibers :
              /\ runq[i] = Task(g) /\ pc[g] = "serve" /\ awaiter[g] = None
              /\ g # f /\ \A v \in Workers : leader[v] # g
        BY <3>1
      <4> QED
        BY <1>1, <3>2, <4>1, <4>2
    <3> QED
      BY <3>3
  <2>5. \A u, v \in Workers : leader'[u] = leader'[v] /\ leader'[u] # None => u = v
    BY <2>1 DEF LeadersInv
  <2> QED
    BY <2>2, <2>3, <2>4, <2>5 DEF LeadersInv
<1>9. QueuedInv'
  <2>1. \A v \in Workers : job'[v] = "call" <=> job[v] = "call"
    BY <1>1, <1>5
  <2>2. \A g \in Fibers : /\ pc[g] \in {"wait", "called"} => pc'[g] = pc[g]
                          /\ pc'[g] = "called" => pc[g] = "called"
    BY <1>3, <1>5
  <2>3. \A v \in Workers : \A i \in DOMAIN batch[v] : pc'[batch[v][i]] = pc[batch[v][i]]
    BY <2>2, HeldAreFibers DEF QueuedInv
  <2> QED
    BY <1>1, <2>1, <2>2, <2>3, HeldAreFibers DEF QueuedInv, NoDuplicates
<1>10. LedInv'
  <2>1. \A g \in Fibers : Leads(g)' <=> Leads(g)
    BY <1>1, <1>3, <1>5, StrandAssumption DEF Leads
  <2>2. \A v \in Workers : Looks(v)' <=> Looks(v)
    BY <1>1, <1>5 DEF Looks
  <2> QED
    BY <1>1, <1>4, <2>1, <2>2 DEF LedInv, PlaceOfLeader, SomeLeader, TasksStay
<1>11. CountIsExact'
  BY <1>1, <1>3, <1>5, CountRests DEF Counted
<1> QED
  BY <1>6, <1>7, <1>8, <1>9, <1>10, <1>11

LEMMA ResubmitStep ==
  ASSUME StrandInv, NEW w \in Workers, Resubmit(w)
  PROVE  StrandInv'
<1> USE DEF StrandInv
<1>1. /\ job[w] = "again" /\ job' = [job EXCEPT ![w] = "none"]
      /\ runq' = Append(runq, Task(leader[w])) /\ leader' = [leader EXCEPT ![w] = None]
      /\ UNCHANGED <<running, after, awaiter, coro, count, stack, next, ptr, temp>>
      /\ UNCHANGED <<batch, ran, pc>>
  BY DEF Resubmit, Work
<1>2. PICK f \in Fibers : f = leader[w] /\ f # None
  BY <1>1, HeldAreFibers, StrandAssumption DEF JobsInv
<1>3. pc[f] = "serve" /\ awaiter[f] = None /\ \A v \in Workers : v # w => leader[v] # f
  BY <1>2 DEF LeadersInv
<1>4. Looks(w)
  BY <1>1 DEF Looks
<1>5. /\ (\A v \in Workers : v # w => ~Looks(v))
      /\ TaskPlaces = {} /\ (\A g \in Fibers : ~Leads(g)) /\ count > 0
  BY <1>4, OnlyLooker
<1>6. PICK n : runq' \in Seq(Entries) /\ TaskPlaces' = {n} /\ runq'[n] = Task(f)
  BY <1>1, <1>2, <1>5, AppendTask DEF TypeOK, Entries
<1>7. /\ job'[w] = "none" /\ (\A v \in Workers : v # w => job'[v] = job[v])
      /\ job' \in [Workers -> Jobs]
      /\ leader'[w] = None /\ (\A v \in Workers : v # w => leader'[v] = leader[v])
      /\ leader' \in [Workers -> Fibers \union {None}]
  BY <1>1 DEF TypeOK, Jobs
<1>8. TypeOK'
  BY <1>1, <1>6, <1>7 DEF TypeOK, Entries
<1>9. JobsInv'
  BY <1>1, <1>7 DEF JobsInv
<1>10. LeadersInv'
  <2>1. \A v \in Workers : leader'[v] # None => leader'[v] = leader[v] /\ v # w
    BY <1>7
  <2>2. \A g \in Fibers : awaiter'[g] = "leader" => pc'[g] = "serve"
    BY <1>1 DEF LeadersInv
  <2>3. \A v \in Workers : leader'[v] # None =>
          pc'[leader'[v]] = "serve" /\ awaiter'[leader'[v]] = None
    BY <1>1, <2>1 DEF LeadersInv
  <2>4. \A i \in TaskPlaces' : \E g \in Fibers :
          /\ runq'[i] = Task(g) /\ pc'[g] = "serve" /\ awaiter'[g] = None
          /\ \A v \in Workers : leader'[v] # g
    <3>1. \A v \in Workers : leader'[v] # f
      BY <1>2, <1>3, <1>7
    <3> QED
      BY <1>1, <1>3, <1>6, <3>1
  <2>5. \A u, v \in Workers : leader'[u] = leader'[v] /\ leader'[u] # None => u = v
    BY <2>1 DEF LeadersInv
  <2> QED
    BY <2>2, <2>3, <2>4, <2>5 DEF LeadersInv
<1>11. QueuedInv'
  <2>1. \A v \in Workers : job'[v] = "call" <=> job[v] = "call"
    BY <1>1, <1>7
  <2> QED
    BY <1>1, <2>1 DEF QueuedInv, NoDuplicates
<1>12. LedInv'
  <2>1. \A g \in Fibers : ~Leads(g)'
    BY <1>1, <1>5 DEF Leads
  <2>2. \A v \in Workers : ~Looks(v)'
    BY <1>5, <1>7 DEF Looks
  <2> QED
    BY <1>1, <1>5, <1>6, <2>1, <2>2 DEF LedInv, PlaceOfLeader, SomeLeader
<1>13. CountIsExact'
  BY <1>1, CountRests DEF Counted
<1> QED
  BY <1>8, <1>9, <1>10, <1>11, <1>12, <1>13
-----------------------------------------------------------------------------
LEMMA StrandRests == StrandInv /\ UNCHANGED vars => StrandInv'
<1> SUFFICES ASSUME StrandInv, UNCHANGED vars PROVE StrandInv'
  OBVIOUS
<1>1. TypeOK'
  BY DEF StrandInv, TypeOK, vars, runtime, strand, serving
<1> QED
  BY <1>1, RuntimeRests, UnchangedStays DEF vars, runtime

LEMMA StrandStep == StrandInv /\ LinksInv /\ [Next]_vars => StrandInv'
<1>1. ASSUME StrandInv, LinksInv, NEW w \in Workers, OnWorker(w) PROVE StrandInv'
  BY <1>1, RunLeaderAwaiterStep, RunStrandAwaiterStep, TakeTaskStep, GetChainStep,
     RunCallBackStep, CallBackEndsStep, AdvanceStep, AccountStep, ReleaseStep, ResubmitStep,
     ResumeStep, ReapStep, RunYieldStep
     DEF OnWorker
<1>2. ASSUME StrandInv, NEW w \in Workers, OnFiber(w) PROVE StrandInv'
  BY <1>2, CombineStep, LeadEndsStep, SuspendToServeStep, SuspendInCombineStep,
     ReturnStep, YieldStep, FinishStep
     DEF OnFiber, Leave
<1> QED
  BY <1>1, <1>2, StartStep, StrandRests DEF Next

\* One place of the leader makes one leader.
LEMMA OneLeaderIsOne == StrandInv => OneLeader
<1> SUFFICES ASSUME StrandInv PROVE OneLeader
  OBVIOUS
<1> DEFINE fibers == {f \in Fibers : pc[f] = "lead" \/ pc[f] = "handover" \/ awaiter[f] = "leader"}
           jobs == {w \in Workers : job[w] \in {"chain", "batch", "call", "next", "again"}}
<1>1. fibers = {f \in Fibers : Leads(f)} /\ jobs = {w \in Workers : Looks(w)}
  BY DEF Leads, Looks
<1>2. PlaceOfLeader /\ (count > 0 <=> SomeLeader)
  BY DEF StrandInv, LedInv
<1>3. \A S : (\A x, y \in S : x = y) =>
        (S = {} => Cardinality(S) = 0) /\ (S # {} => Cardinality(S) = 1)
  <2>1. ASSUME NEW S, \A x, y \in S : x = y, S # {} PROVE Cardinality(S) = 1
    <3>1. PICK x : S = {x}
      BY <2>1
    <3> QED
      BY <3>1, FS_Singleton
  <2> QED
    BY <2>1, FS_EmptySet
<1> HIDE DEF fibers, jobs
<1>4. /\ \A x, y \in fibers : x = y
      /\ \A x, y \in TaskPlaces : x = y
      /\ \A x, y \in jobs : x = y
      /\ fibers # {} => TaskPlaces = {} /\ jobs = {}
      /\ TaskPlaces # {} => jobs = {}
      /\ count > 0 <=> fibers # {} \/ TaskPlaces # {} \/ jobs # {}
  BY <1>1, <1>2 DEF PlaceOfLeader, SomeLeader
<1>5. /\ Cardinality(fibers) = IF fibers = {} THEN 0 ELSE 1
      /\ Cardinality(TaskPlaces) = IF TaskPlaces = {} THEN 0 ELSE 1
      /\ Cardinality(jobs) = IF jobs = {} THEN 0 ELSE 1
  BY <1>3, <1>4
<1>6. IF count > 0 THEN Cardinality(fibers) + Cardinality(TaskPlaces) + Cardinality(jobs) = 1
                   ELSE Cardinality(fibers) + Cardinality(TaskPlaces) + Cardinality(jobs) = 0
  BY <1>4, <1>5
<1> QED
  BY <1>6 DEF OneLeader, fibers, jobs

\* Steps that leave the links and the local variables of Run alone.
LEMMA LinksRest ==
  ASSUME LinksInv, UNCHANGED <<next, ptr, temp, batch>>,
         \A w \in Workers : job'[w] = job[w] \/ job'[w] \notin {"batch", "call", "next"}
  PROVE  LinksInv'
  BY DEF LinksInv, Links

LEMMA LinksInit == Init => LinksInv
<1>1. DOMAIN <<>> = {}
  OBVIOUS
<1> QED
  BY <1>1 DEF Init, LinksInv, Links

LEMMA ReturnLinks ==
  ASSUME StrandInv, LinksInv, NEW w \in Workers, Return(w)
  PROVE  LinksInv'
<1>1. PICK f \in Fibers : /\ pc[f] = "back" /\ next' = [next EXCEPT ![f] = None]
                         /\ UNCHANGED serving
  BY DEF Return, Goto, At, StrandInv, TypeOK
<1>2. ASSUME NEW v \in Workers, NEW i \in DOMAIN batch[v] PROVE next'[batch[v][i]] = next[batch[v][i]]
  <2>1. pc[batch[v][i]] # "back" /\ batch[v][i] \in Fibers
    BY HeldAreFibers DEF StrandInv, QueuedInv
  <2> QED
    BY <1>1, <2>1 DEF StrandInv, TypeOK
<1> QED
  BY <1>1, <1>2 DEF LinksInv, Links, serving

LEMMA GetChainLinks ==
  ASSUME StrandInv, LinksInv, NEW w \in Workers, GetChain(w)
  PROVE  LinksInv'
<1>1. /\ job[w] = "chain" /\ job' = [job EXCEPT ![w] = "batch"]
      /\ batch' = [batch EXCEPT ![w] = Reverse(stack)]
      /\ next' = Linked(Reverse(stack)) /\ ptr' = [ptr EXCEPT ![w] = First(Reverse(stack))]
  BY DEF GetChain, Work
<1>2. \A v \in Workers : v # w => batch[v] = <<>> /\ ~Looks(v)
  BY <1>1, OnlyLooker DEF Looks
<1>3. Reverse(stack) \in Seq(Fibers) /\ NoDuplicates(Reverse(stack))
  BY ReverseRange DEF StrandInv, TypeOK, QueuedInv
<1>4. Links(next', Reverse(stack))
  BY <1>1, <1>3, LinkedIs DEF StrandInv, TypeOK
<1>5. /\ job'[w] = "batch" /\ batch'[w] = Reverse(stack) /\ ptr'[w] = First(batch'[w])
      /\ \A v \in Workers : v # w => batch'[v] = <<>> /\ job'[v] \notin {"batch", "call", "next"}
  BY <1>1, <1>2 DEF Looks, StrandInv, TypeOK
<1>6. \A v \in Workers : Links(next', batch'[v])
  <2>1. Links(next', batch'[w])
    BY <1>4, <1>5
  <2>2. DOMAIN <<>> = {}
    OBVIOUS
  <2> QED
    BY <1>5, <2>1, <2>2 DEF Links
<1> QED
  BY <1>5, <1>6 DEF LinksInv

\* next_ is read while the awaiter's fiber waits for its callback.
LEMMA RunCallBackLinks ==
  ASSUME StrandInv, LinksInv, NEW w \in Workers, RunCallBack(w)
  PROVE  LinksInv'
<1>1. /\ job[w] = "batch" /\ job' = [job EXCEPT ![w] = "call"]
      /\ temp' = [temp EXCEPT ![w] = next[ptr[w]]] /\ UNCHANGED <<next, ptr, batch>>
      /\ batch[w] # <<>> /\ ptr[w] = batch[w][1] /\ 1 \in DOMAIN batch[w]
  BY PtrIsFirst, BatchTail DEF RunCallBack, Work
<1>2. next[ptr[w]] = First(Tail(batch[w]))
  <2>1. ASSUME NEW t \in Seq(Fibers), t # <<>>, Links(next, t) PROVE next[t[1]] = First(Tail(t))
    <3>1. /\ Tail(t) \in Seq(Fibers) /\ Len(Tail(t)) = Len(t) - 1 /\ Len(t) \in Nat
          /\ 1 \in DOMAIN t /\ (Len(t) # 1 => Tail(t)[1] = t[1 + 1])
      <4>1. /\ Tail(t) \in Seq(Fibers) /\ Len(Tail(t)) = Len(t) - 1
            /\ Len(t) \in Nat /\ Len(t) > 0 /\ DOMAIN t = 1 .. Len(t)
        BY <2>1
      <4>2. \A i \in 1 .. Len(t) - 1 : Tail(t)[i] = t[i + 1]
        BY <2>1
      <4>3. Len(t) # 1 => 1 \in 1 .. Len(t) - 1
        BY <4>1
      <4> QED
        BY <4>1, <4>2, <4>3
    <3>2. \A u \in Seq(Fibers) : /\ u = <<>> <=> Len(u) = 0
                               /\ u # <<>> => Head(u) = u[1]
      OBVIOUS
    <3>3. Tail(t) = <<>> <=> 1 = Len(t)
      BY <3>1, <3>2
    <3>4. next[t[1]] = IF 1 = Len(t) THEN None ELSE t[1 + 1]
      BY <2>1, <3>1 DEF Links
    <3> QED
      BY <3>1, <3>2, <3>3, <3>4 DEF First
  <2> QED
    BY <1>1, <2>1 DEF LinksInv, StrandInv, TypeOK
<1>3. /\ job'[w] = "call" /\ temp'[w] = First(Tail(batch[w]))
      /\ \A v \in Workers : v # w => job'[v] = job[v] /\ temp'[v] = temp[v]
  BY <1>1, <1>2 DEF StrandInv, TypeOK
<1> QED
  BY <1>1, <1>3 DEF LinksInv, Links

LEMMA CallBackEndsLinks ==
  ASSUME StrandInv, LinksInv, NEW w \in Workers, CallBackEnds(w)
  PROVE  LinksInv'
<1>1. /\ job[w] = "call" /\ job' = [job EXCEPT ![w] = "next"]
      /\ batch' = [batch EXCEPT ![w] = Tail(@)] /\ UNCHANGED <<next, ptr, temp>>
  BY DEF CallBackEnds, Work
<1>2. batch[w] # <<>> /\ batch[w] \in Seq(Fibers)
  BY <1>1 DEF StrandInv, JobsInv, TypeOK
<1>3. /\ job'[w] = "next" /\ batch'[w] = Tail(batch[w])
      /\ \A v \in Workers : v # w => job'[v] = job[v] /\ batch'[v] = batch[v]
  BY <1>1 DEF StrandInv, TypeOK
<1>4. Links(next, Tail(batch[w]))
  <2>1. ASSUME NEW s \in Seq(Fibers), s # <<>>, Links(next, s) PROVE Links(next, Tail(s))
    <3>1. /\ Len(Tail(s)) = Len(s) - 1 /\ Len(s) \in Nat
          /\ DOMAIN s = 1 .. Len(s) /\ DOMAIN Tail(s) = 1 .. Len(s) - 1
          /\ \A i \in 1 .. Len(s) - 1 : Tail(s)[i] = s[i + 1]
      BY <2>1
    <3> QED
      BY <2>1, <3>1 DEF Links
  <2> QED
    BY <1>2, <2>1 DEF LinksInv
<1> QED
  BY <1>1, <1>3, <1>4 DEF LinksInv, Links

LEMMA AdvanceLinks ==
  ASSUME StrandInv, LinksInv, NEW w \in Workers, Advance(w)
  PROVE  LinksInv'
<1>1. /\ job[w] = "next" /\ job' = [job EXCEPT ![w] = "batch"]
      /\ ptr' = [ptr EXCEPT ![w] = temp[w]] /\ temp' = [temp EXCEPT ![w] = None]
      /\ UNCHANGED <<next, batch>>
  BY DEF Advance, Work
<1>2. /\ job'[w] = "batch" /\ ptr'[w] = First(batch[w])
      /\ \A v \in Workers : v # w => job'[v] = job[v] /\ ptr'[v] = ptr[v] /\ temp'[v] = temp[v]
  BY <1>1 DEF LinksInv, StrandInv, TypeOK
<1> QED
  BY <1>1, <1>2 DEF LinksInv, Links

LEMMA LinksStep == StrandInv /\ LinksInv /\ [Next]_vars => LinksInv'
<1> SUFFICES ASSUME StrandInv, LinksInv, [Next]_vars PROVE LinksInv'
  OBVIOUS
<1>1. CASE UNCHANGED serving /\ UNCHANGED next
  BY <1>1, LinksRest DEF serving
<1>2. ASSUME NEW w \in Workers, OnWorker(w) PROVE LinksInv'
  <2>1. CASE TakeTask(w) \/ Account(w) \/ Release(w) \/ Resubmit(w)
    <3>1. /\ UNCHANGED <<next, ptr, temp, batch>>
          /\ \A v \in Workers : job'[v] = job[v] \/ job'[v] \notin {"batch", "call", "next"}
      BY <2>1 DEF TakeTask, Account, Release, Resubmit, Work, StrandInv, TypeOK
    <3> QED
      BY <3>1, LinksRest
  <2> QED
    BY <1>1, <1>2, <2>1, GetChainLinks, RunCallBackLinks, CallBackEndsLinks, AdvanceLinks
       DEF OnWorker, RunLeaderAwaiter, RunStrandAwaiter, strand
<1>3. ASSUME NEW w \in Workers, OnFiber(w) PROVE LinksInv'
  BY <1>1, <1>3, ReturnLinks
     DEF OnFiber, Combine, LeadEnds, SuspendToServe, SuspendInCombine, Leave, Yield, Finish, strand
<1> QED
  BY <1>1, <1>2, <1>3 DEF Next, Start, vars, strand

LEMMA StrandInvsHold == Spec => [](StrandInv /\ LinksInv)
  BY StrandInit, LinksInit, StrandStep, LinksStep, PTL DEF Spec

THEOREM StrandInvHolds == Spec => []StrandInv
  BY StrandInvsHold, PTL

\* While anybody is counted there is one leader, at one place, and count_ is the
\* number of those whose callback has not run, up to the present batch: what the
\* next Combine and the leader read from count_ is right in every interleaving.
THEOREM LeaderHolds == Spec => []LeaderInv
<1>1. StrandInv => LeaderInv
  BY OneLeaderIsOne DEF StrandInv, LeaderInv
<1> QED
  BY <1>1, StrandInvHolds, PTL
-----------------------------------------------------------------------------
\* What the abstract strand sees: who waits, whose callback runs, who is served.
Served == {f \in Fibers : pc[f] \in {"handover", "serve", "back"}}

LEMMA PrependReverse ==
  ASSUME NEW S, NEW s \in Seq(S), NEW x \in S
  PROVE  Reverse(<<x>> \o s) = Append(Reverse(s), x)
<1> DEFINE t == <<x>> \o s
<1>1. /\ t \in Seq(S) /\ Len(t) = Len(s) + 1 /\ Len(s) \in Nat
      /\ t[1] = x /\ \A i \in 1 .. Len(s) : t[i + 1] = s[i]
  OBVIOUS
<1>2. /\ Reverse(t) \in Seq(S) /\ Len(Reverse(t)) = Len(t)
      /\ \A i \in 1 .. Len(t) : Reverse(t)[i] = t[Len(t) - i + 1]
  BY <1>1, ReverseRange
<1>3. /\ Reverse(s) \in Seq(S) /\ Len(Reverse(s)) = Len(s)
      /\ \A i \in 1 .. Len(s) : Reverse(s)[i] = s[Len(s) - i + 1]
  BY ReverseRange
<1> HIDE DEF t
<1>4. \A i \in 1 .. Len(s) : Reverse(t)[i] = Reverse(s)[i]
  <2> SUFFICES ASSUME NEW i \in 1 .. Len(s) PROVE Reverse(t)[i] = Reverse(s)[i]
    OBVIOUS
  <2>1. /\ Len(s) - i + 1 \in 1 .. Len(s) /\ i \in 1 .. Len(t)
        /\ Len(t) - i + 1 = (Len(s) - i + 1) + 1
    BY <1>1
  <2> QED
    BY <1>1, <1>2, <1>3, <2>1
<1>5. Reverse(t)[Len(s) + 1] = x
  BY <1>1, <1>2
<1>6. Reverse(t) = Append(Reverse(s), x)
  BY <1>1, <1>2, <1>3, <1>4, <1>5
<1> QED
  BY <1>6 DEF t

LEMMA ConcatSteps ==
  ASSUME NEW S, NEW s \in Seq(S), NEW t \in Seq(S), NEW x \in S
  PROVE  /\ s \o t \in Seq(S) /\ s \o <<>> = s /\ <<>> \o s = s
         /\ s \o Append(t, x) = Append(s \o t, x)
         /\ s # <<>> => /\ s \o t # <<>> /\ Head(s \o t) = Head(s)
                        /\ Tail(s \o t) = Tail(s) \o t
  OBVIOUS

\* One worker with a batch, or none.
LEMMA LineOf ==
  ASSUME NEW w \in Workers, TypeOK, \A v \in Workers : v # w => batch[v] = <<>>,
         job[w] = "call" => batch[w] # <<>>
  PROVE  Line = Serving(w) \o Reverse(stack)
<1>1. CASE batch[w] = <<>>
  <2>1. {v \in Workers : batch[v] # <<>>} = {} /\ Serving(w) = <<>>
    BY <1>1 DEF Serving
  <2> QED
    BY <2>1 DEF Line
<1>2. CASE batch[w] # <<>>
  <2>1. {v \in Workers : batch[v] # <<>>} = {w}
    BY <1>2
  <2> QED
    BY <2>1 DEF Line
<1> QED
  BY <1>1, <1>2

LineOfLooker == \A w \in Workers : Looks(w) => Line = Serving(w) \o Reverse(stack)

LineOfNobody == (\A w \in Workers : ~Looks(w)) => Line = Reverse(stack)

\* Who is inside is the leader or the first of the batch.
InsideIsOne == \A f \in Fibers : pc[f] \in {"lead", "called"} => Inside = f

InsideIsNone == (\A f \in Fibers : pc[f] \notin {"lead", "called"}) => Inside = None

LEMMA LineHolds == StrandInv => LineOfLooker /\ LineOfNobody
<1> SUFFICES ASSUME StrandInv PROVE LineOfLooker /\ LineOfNobody
  OBVIOUS
<1>1. LineOfLooker
  BY LineOf, OnlyLooker DEF LineOfLooker, StrandInv, JobsInv
<1>2. ASSUME \A w \in Workers : ~Looks(w) PROVE Line = Reverse(stack)
  <2>1. {v \in Workers : batch[v] # <<>>} = {}
    BY <1>2 DEF StrandInv, JobsInv, Looks
  <2>2. Reverse(stack) \in Seq(Fibers)
    BY ReverseRange DEF StrandInv, TypeOK
  <2> QED
    BY <2>1, <2>2, ConcatSteps DEF Line
<1> QED
  BY <1>1, <1>2 DEF LineOfNobody

LEMMA CalledBy ==
  ASSUME StrandInv, NEW f \in Fibers, pc[f] = "called"
  PROVE  \E w \in Workers : job[w] = "call" /\ Looks(w) /\ Head(batch[w]) = f
  BY DEF StrandInv, QueuedInv, Looks

LEMMA InsideHolds == StrandInv => InsideIsOne /\ InsideIsNone
<1> SUFFICES ASSUME StrandInv PROVE InsideIsOne /\ InsideIsNone
  OBVIOUS
<1>1. ASSUME NEW f \in Fibers, NEW g \in Fibers,
             pc[f] \in {"lead", "called"}, pc[g] \in {"lead", "called"}
      PROVE  f = g
  <2>1. \A h \in Fibers : pc[h] = "lead" => Leads(h)
    BY DEF Leads
  <2> QED
    BY <1>1, <2>1, CalledBy DEF StrandInv, LedInv, PlaceOfLeader
<1>2. ASSUME NEW f \in Fibers, pc[f] \in {"lead", "called"} PROVE Inside = f
  <2>1. {g \in Fibers : pc[g] \in {"lead", "called"}} = {f}
    BY <1>1, <1>2
  <2> QED
    BY <2>1 DEF Inside
<1>3. ASSUME \A f \in Fibers : pc[f] \notin {"lead", "called"} PROVE Inside = None
  <2>1. {g \in Fibers : pc[g] \in {"lead", "called"}} = {}
    BY <1>3
  <2> QED
    BY <2>1 DEF Inside
<1> QED
  BY <1>2, <1>3 DEF InsideIsOne, InsideIsNone

LEMMA ViewAfter ==
  StrandInv' => LineOfLooker' /\ LineOfNobody' /\ InsideIsOne' /\ InsideIsNone'
  BY LineHolds, InsideHolds, PTL

\* Those in the line wait with their awaiter taken.
LEMMA InLine ==
  ASSUME StrandInv
  PROVE  Line \in Seq(Fibers) /\ \A i \in DOMAIN Line : pc[Line[i]] = "wait" /\ awaiter[Line[i]] = None
<1>1. /\ Reverse(stack) \in Seq(Fibers) /\ Range(Reverse(stack)) = Range(stack)
  BY ReverseRange DEF StrandInv, TypeOK
<1>2. \A i \in DOMAIN Reverse(stack) : pc[Reverse(stack)[i]] = "wait" /\ awaiter[Reverse(stack)[i]] = None
  BY <1>1 DEF Range, StrandInv, QueuedInv
<1>3. ASSUME NEW w \in Workers, Looks(w)
      PROVE  Line \in Seq(Fibers) /\ \A i \in DOMAIN Line : pc[Line[i]] = "wait" /\ awaiter[Line[i]] = None
  <2>1. Line = Serving(w) \o Reverse(stack)
    BY <1>3, LineHolds DEF LineOfLooker
  <2>2. /\ Serving(w) \in Seq(Fibers)
        /\ \A i \in DOMAIN Serving(w) : pc[Serving(w)[i]] = "wait" /\ awaiter[Serving(w)[i]] = None
    <3>1. CASE job[w] = "call"
      <4>1. batch[w] # <<>> /\ Serving(w) = Tail(batch[w])
        BY <3>1 DEF StrandInv, JobsInv, Serving
      <4> QED
        BY <3>1, <4>1, BatchTail DEF StrandInv, QueuedInv
    <3>2. CASE job[w] # "call"
      BY <3>2 DEF StrandInv, QueuedInv, TypeOK, Serving
    <3> QED
      BY <3>1, <3>2
  <2>3. ASSUME NEW s \in Seq(Fibers), NEW t \in Seq(Fibers), NEW i \in DOMAIN (s \o t)
        PROVE  (i \in DOMAIN s /\ (s \o t)[i] = s[i]) \/ \E j \in DOMAIN t : (s \o t)[i] = t[j]
    <3>1. CASE i \in DOMAIN s
      BY <2>3, <3>1
    <3>2. CASE i \notin DOMAIN s
      <4>1. i - Len(s) \in DOMAIN t /\ (s \o t)[i] = t[i - Len(s)]
        BY <2>3, <3>2
      <4> QED
        BY <4>1
    <3> QED
      BY <3>1, <3>2
  <2>4. Line \in Seq(Fibers)
    BY <1>1, <2>1, <2>2
  <2> QED
    BY <1>1, <1>2, <2>1, <2>2, <2>3, <2>4
<1>4. CASE \A w \in Workers : ~Looks(w)
  <2>1. Line = Reverse(stack)
    BY <1>4, LineHolds DEF LineOfNobody
  <2> QED
    BY <1>1, <1>2, <2>1
<1> QED
  BY <1>3, <1>4
-----------------------------------------------------------------------------
StrandSteps == AbstractStrand!Next \/ UNCHANGED <<Line, Inside, Served>>

\* Steps that leave the batches alone leave the line alone.
LEMMA LineRests ==
  ASSUME UNCHANGED <<stack, batch>>, \A w \in Workers : job'[w] = "call" <=> job[w] = "call"
  PROVE  Line' = Line
<1> DEFINE busy == {w \in Workers : batch[w] # <<>>}
<1>1. busy' = busy
  OBVIOUS
<1>2. CASE busy = {}
  BY <1>2 DEF Line
<1>3. CASE busy # {}
  <2>1. (CHOOSE w \in busy : TRUE) \in Workers
    BY <1>3
  <2>2. Serving(CHOOSE w \in busy : TRUE)' = Serving(CHOOSE w \in busy : TRUE)
    BY <2>1 DEF Serving
  <2> QED
    BY <1>3, <2>2 DEF Line
<1> QED
  BY <1>2, <1>3

LEMMA InsideRests ==
  ASSUME \A f \in Fibers : pc'[f] \in {"lead", "called"} <=> pc[f] \in {"lead", "called"}
  PROVE  Inside' = Inside
<1> DEFINE in == {f \in Fibers : pc[f] \in {"lead", "called"}}
<1>1. in' = in
  OBVIOUS
<1>2. Inside = IF in = {} THEN None ELSE CHOOSE f \in in : TRUE
  BY DEF Inside
<1>3. Inside' = IF in' = {} THEN None ELSE CHOOSE f \in in' : TRUE
  BY DEF Inside
<1> HIDE DEF in
<1> QED
  BY <1>1, <1>2, <1>3

\* A fiber moves between labels of the same meaning.
LEMMA PcStutters ==
  ASSUME StrandInv, NEW f \in Fibers, NEW a, pc' = [pc EXCEPT ![f] = a],
         \/ pc[f] \in {"out", "join", "wait"} /\ a \in {"out", "join", "wait"}
         \/ pc[f] \in {"handover", "serve", "back"} /\ a \in {"handover", "serve", "back"}
  PROVE  UNCHANGED <<Inside, Served>>
<1>1. \A g \in Fibers : /\ pc'[g] \in {"lead", "called"} <=> pc[g] \in {"lead", "called"}
                        /\ pc'[g] \in {"handover", "serve", "back"} <=>
                             pc[g] \in {"handover", "serve", "back"}
  BY DEF StrandInv, TypeOK
<1> QED
  BY <1>1, InsideRests DEF Served

LEMMA PcRests == UNCHANGED pc => UNCHANGED <<Inside, Served>>
  BY InsideRests DEF Served

LEMMA CombineEnters ==
  ASSUME StrandInv, StrandInv', NEW w \in Workers, Combine(w)
  PROVE  StrandSteps
<1>0. PICK f \in Fibers : f = running[w]
  BY DEF StrandInv, TypeOK, Combine, Goto, At
<1>1. /\ pc[f] = "out" /\ pc' = [pc EXCEPT ![f] = IF count = 0 THEN "lead" ELSE "join"]
      /\ UNCHANGED <<runtime, stack, serving>>
  BY <1>0 DEF Combine, Goto, At
<1>2. Line' = Line
  BY <1>1, LineRests DEF serving
<1>3. CASE count # 0
  <2>1. pc' = [pc EXCEPT ![f] = "join"]
    BY <1>1, <1>3
  <2>2. UNCHANGED <<Inside, Served>>
    BY <1>1, <2>1, PcStutters
  <2> QED
    BY <1>2, <2>2 DEF StrandSteps
<1>4. CASE count = 0
  <2>1. pc'[f] = "lead" /\ \A g \in Fibers : g # f => pc'[g] = pc[g]
    BY <1>1, <1>4 DEF StrandInv, TypeOK
  <2>2. /\ \A v \in Workers : ~Looks(v)
        /\ \A g \in Fibers : pc[g] \notin {"lead", "join", "wait", "called"}
    BY <1>4, CountIsNotSmaller DEF StrandInv, LedInv, SomeLeader, Counted
  <2>3. Line = <<>>
    <3>1. stack = <<>>
      <4>1. stack \in Seq(Fibers)
        BY DEF StrandInv, TypeOK
      <4>2. ASSUME stack # <<>> PROVE FALSE
        <5>1. stack[1] \in Fibers /\ stack[1] \in Range(stack)
          BY <4>1, <4>2 DEF Range
        <5> QED
          BY <2>2, <5>1 DEF StrandInv, QueuedInv
      <4> QED
        BY <4>2
    <3>2. Reverse(stack) \in Seq(Fibers) /\ Len(Reverse(stack)) = 0
      BY <3>1, ReverseRange DEF StrandInv, TypeOK
    <3> QED
      BY <2>2, <3>2, LineHolds DEF LineOfNobody
  <2>4. Inside = None /\ Inside' = f
    BY <2>1, <2>2, InsideHolds, ViewAfter DEF InsideIsNone, InsideIsOne
  <2>5. Served' = Served /\ f \notin Served
    BY <1>1, <2>1 DEF Served
  <2>6. AbstractStrand!Enter(f)
    BY <1>2, <2>3, <2>4, <2>5, StrandAssumption
       DEF AbstractStrand!Enter, AbstractStrand!Out, Served
  <2> QED
    BY <2>6 DEF StrandSteps, AbstractStrand!Next
<1> QED
  BY <1>3, <1>4

LEMMA LeadEndsEnds ==
  ASSUME StrandInv, StrandInv', NEW w \in Workers, LeadEnds(w)
  PROVE  StrandSteps
<1>0. PICK f \in Fibers : f = running[w]
  BY DEF StrandInv, TypeOK, LeadEnds, Goto, At
<1>1. /\ pc[f] = "lead" /\ pc' = [pc EXCEPT ![f] = IF count = 1 THEN "back" ELSE "handover"]
      /\ UNCHANGED <<runtime, stack, serving>>
  BY <1>0 DEF LeadEnds, Goto, At
<1>2. Line' = Line
  BY <1>1, LineRests DEF serving
<1>3. pc'[f] \in {"back", "handover"} /\ \A g \in Fibers : g # f => pc'[g] = pc[g]
  BY <1>1 DEF StrandInv, TypeOK
<1>4. Inside = f /\ \A g \in Fibers : pc[g] \in {"lead", "called"} => g = f
  BY <1>1, InsideHolds DEF InsideIsOne
<1>5. Inside' = None
  BY <1>3, <1>4, ViewAfter DEF InsideIsNone
<1>6. Served' = Served \union {f}
  BY <1>3 DEF Served
<1>7. AbstractStrand!End
  BY <1>2, <1>4, <1>5, <1>6, StrandAssumption DEF AbstractStrand!End, Served
<1> QED
  BY <1>7 DEF StrandSteps, AbstractStrand!Next

LEMMA ReturnReturns ==
  ASSUME StrandInv, NEW w \in Workers, Return(w)
  PROVE  StrandSteps
<1>0. PICK f \in Fibers : f = running[w]
  BY DEF StrandInv, TypeOK, Return, Goto, At
<1>1. /\ pc[f] = "back" /\ pc' = [pc EXCEPT ![f] = "out"]
      /\ UNCHANGED <<runtime, stack, serving>>
  BY <1>0 DEF Return, Goto, At
<1>2. Line' = Line
  BY <1>1, LineRests DEF serving
<1>3. pc'[f] = "out" /\ \A g \in Fibers : g # f => pc'[g] = pc[g]
  BY <1>1 DEF StrandInv, TypeOK
<1>4. Inside' = Inside
  BY <1>1, <1>3, InsideRests
<1>5. Served' = Served \ {f} /\ f \in Served
  BY <1>1, <1>3 DEF Served
<1>6. AbstractStrand!Return(f)
  BY <1>2, <1>4, <1>5 DEF AbstractStrand!Return, Served
<1> QED
  BY <1>6 DEF StrandSteps, AbstractStrand!Next

LEMMA PushQueues ==
  ASSUME StrandInv, StrandInv', NEW w \in Workers, RunStrandAwaiter(w)
  PROVE  StrandSteps
<1>0. PICK f \in Fibers : f = after[w]
  BY DEF StrandInv, TypeOK, RunStrandAwaiter, RunsAwaiter
<1>1. /\ awaiter[f] = "strand" /\ pc[f] = "wait" /\ stack' = <<f>> \o stack
      /\ UNCHANGED <<serving, pc>>
  BY <1>0 DEF StrandInv, QueuedInv, RunStrandAwaiter, RunsAwaiter
<1>2. UNCHANGED <<Inside, Served>>
  BY <1>1, PcRests
<1>3. Reverse(stack') = Append(Reverse(stack), f) /\ Reverse(stack) \in Seq(Fibers)
  BY <1>1, PrependReverse, ReverseRange DEF StrandInv, TypeOK
<1>4. Line' = Append(Line, f)
  <2>1. CASE \A v \in Workers : ~Looks(v)
    <3>1. \A v \in Workers : ~Looks(v)'
      BY <1>1, <2>1 DEF Looks, serving
    <3> QED
      BY <1>3, <2>1, <3>1, LineHolds, ViewAfter DEF LineOfNobody
  <2>2. ASSUME NEW v \in Workers, Looks(v) PROVE Line' = Append(Line, f)
    <3>1. Looks(v)' /\ Serving(v)' = Serving(v)
      BY <1>1, <2>2 DEF Looks, Serving, serving
    <3>2. Line = Serving(v) \o Reverse(stack) /\ Line' = Serving(v) \o Reverse(stack')
      BY <2>2, <3>1, LineHolds, ViewAfter DEF LineOfLooker
    <3>3. Serving(v) \in Seq(Fibers)
      BY <2>2, BatchTail DEF Serving, StrandInv, TypeOK, JobsInv
    <3> QED
      BY <1>3, <3>2, <3>3, ConcatSteps
  <2> QED
    BY <2>1, <2>2
<1>5. Inside # f /\ f \notin Served
  <2>1. CASE \E g \in Fibers : pc[g] \in {"lead", "called"}
    BY <1>1, <2>1, InsideHolds DEF InsideIsOne, Served
  <2>2. CASE \A g \in Fibers : pc[g] \notin {"lead", "called"}
    BY <1>1, <2>2, InsideHolds, StrandAssumption DEF InsideIsNone, Served
  <2> QED
    BY <2>1, <2>2
<1>6. \A i \in DOMAIN Line : Line[i] # f
  BY <1>1, InLine, StrandAssumption
<1>7. AbstractStrand!Queue(f)
  BY <1>2, <1>4, <1>5, <1>6 DEF AbstractStrand!Queue, AbstractStrand!Out, Served
<1> QED
  BY <1>7 DEF StrandSteps, AbstractStrand!Next

LEMMA GetChainStutters ==
  ASSUME StrandInv, StrandInv', NEW w \in Workers, GetChain(w)
  PROVE  StrandSteps
<1>1. /\ job[w] = "chain" /\ job' = [job EXCEPT ![w] = "batch"] /\ stack' = <<>>
      /\ batch' = [batch EXCEPT ![w] = Reverse(stack)] /\ UNCHANGED pc
  BY DEF GetChain, Work
<1>2. /\ job'[w] = "batch" /\ Looks(w) /\ Looks(w)' /\ batch[w] = <<>>
      /\ batch'[w] = Reverse(stack)
  BY <1>1 DEF StrandInv, TypeOK, JobsInv, Looks
<1>3. Line = batch[w] \o Reverse(stack) /\ Line' = Reverse(stack) \o Reverse(stack')
  BY <1>1, <1>2, LineHolds, ViewAfter DEF LineOfLooker, Serving
<1>4. Reverse(stack) \in Seq(Fibers) /\ Reverse(stack') = <<>>
  <2>1. \A s \in Seq(Fibers) : Len(s) = 0 => s = <<>>
    OBVIOUS
  <2>2. <<>> \in Seq(Fibers) /\ Len(<<>>) = 0
    OBVIOUS
  <2>3. Reverse(<<>>) \in Seq(Fibers) /\ Len(Reverse(<<>>)) = 0
    BY <2>2, ReverseRange
  <2> QED
    BY <1>1, <2>1, <2>3, ReverseRange DEF StrandInv, TypeOK
<1>5. Line' = Line
  BY <1>2, <1>3, <1>4, ConcatSteps
<1> QED
  BY <1>1, <1>5, PcRests DEF StrandSteps

LEMMA RunCallBackBegins ==
  ASSUME StrandInv, LinksInv, StrandInv', NEW w \in Workers, RunCallBack(w)
  PROVE  StrandSteps
<1>1. /\ batch[w] # <<>> /\ job[w] = "batch" /\ job' = [job EXCEPT ![w] = "call"]
      /\ pc' = [pc EXCEPT ![Head(batch[w])] = "called"]
      /\ UNCHANGED <<stack, batch>>
  BY PtrIsFirst DEF RunCallBack, Work
<1>2. PICK f \in Fibers : f = Head(batch[w]) /\ f = batch[w][1] /\ 1 \in DOMAIN batch[w]
  BY <1>1, BatchTail
<1>3. /\ job'[w] = "call" /\ Looks(w) /\ Looks(w)'
      /\ pc[f] = "wait" /\ pc'[f] = "called" /\ \A g \in Fibers : g # f => pc'[g] = pc[g]
  BY <1>1, <1>2 DEF StrandInv, TypeOK, QueuedInv, Looks
<1>4. Line = batch[w] \o Reverse(stack) /\ Line' = Tail(batch[w]) \o Reverse(stack)
  BY <1>1, <1>3, LineHolds, ViewAfter DEF LineOfLooker, Serving
<1>5. batch[w] \in Seq(Fibers) /\ Reverse(stack) \in Seq(Fibers)
  BY ReverseRange DEF StrandInv, TypeOK
<1>6. Line # <<>> /\ Head(Line) = f /\ Line' = Tail(Line)
  <2>1. ASSUME NEW s \in Seq(Fibers), NEW t \in Seq(Fibers), s # <<>>
        PROVE  s \o t # <<>> /\ Head(s \o t) = Head(s) /\ Tail(s \o t) = Tail(s) \o t
    BY <2>1
  <2> QED
    BY <1>1, <1>2, <1>4, <1>5, <2>1
<1>7. Inside = None /\ Inside' = f
  <2>1. \A g \in Fibers : pc[g] \notin {"lead", "called"}
    <3>1. \A g \in Fibers : pc[g] # "lead"
      BY <1>3, OnlyLooker DEF Leads
    <3>2. \A v \in Workers : Looks(v) => v = w
      BY <1>3, OnlyLooker
    <3> QED
      BY <1>1, <3>1, <3>2, CalledBy
  <2> QED
    BY <1>3, <2>1, InsideHolds, ViewAfter DEF InsideIsNone, InsideIsOne
<1>8. Served' = Served
  BY <1>3 DEF Served
<1>9. AbstractStrand!Begin
  BY <1>6, <1>7, <1>8 DEF AbstractStrand!Begin, Served
<1> QED
  BY <1>9 DEF StrandSteps, AbstractStrand!Next

LEMMA CallBackEndsEnds ==
  ASSUME StrandInv, LinksInv, StrandInv', NEW w \in Workers, CallBackEnds(w)
  PROVE  StrandSteps
<1>1. /\ job[w] = "call" /\ job' = [job EXCEPT ![w] = "next"]
      /\ pc' = [pc EXCEPT ![Head(batch[w])] = "back"]
      /\ batch' = [batch EXCEPT ![w] = Tail(@)] /\ UNCHANGED stack
  BY PtrIsFirst DEF CallBackEnds, Work, StrandInv, JobsInv
<1>2. batch[w] # <<>> /\ Looks(w)
  BY <1>1 DEF StrandInv, JobsInv, Looks
<1>3. PICK f \in Fibers : f = Head(batch[w]) /\ f = batch[w][1] /\ 1 \in DOMAIN batch[w]
  BY <1>2, BatchTail
<1>4. /\ job'[w] = "next" /\ Looks(w)' /\ batch'[w] = Tail(batch[w])
      /\ pc[f] = "called" /\ pc'[f] = "back" /\ \A g \in Fibers : g # f => pc'[g] = pc[g]
  BY <1>1, <1>3 DEF StrandInv, TypeOK, QueuedInv, Looks
<1>5. Line' = Line
  BY <1>1, <1>2, <1>4, LineHolds, ViewAfter DEF LineOfLooker, Serving
<1>6. Inside = f /\ \A g \in Fibers : pc[g] \in {"lead", "called"} => g = f
  BY <1>4, InsideHolds DEF InsideIsOne
<1>7. Inside' = None
  BY <1>4, <1>6, ViewAfter DEF InsideIsNone
<1>8. Served' = Served \union {f}
  BY <1>4 DEF Served
<1>9. AbstractStrand!End
  BY <1>5, <1>6, <1>7, <1>8, StrandAssumption DEF AbstractStrand!End, Served
<1> QED
  BY <1>9 DEF StrandSteps, AbstractStrand!Next

LEMMA WorkerStutters ==
  ASSUME StrandInv, NEW w \in Workers,
         RunLeaderAwaiter(w) \/ TakeTask(w) \/ Advance(w) \/ Account(w) \/ Release(w) \/ Resubmit(w)
  PROVE  StrandSteps
<1>1. UNCHANGED <<stack, batch>>
  BY DEF RunLeaderAwaiter, TakeTask, Advance, Account, Release, Resubmit, strand, serving
<1>2. \A v \in Workers : job'[v] = "call" <=> job[v] = "call"
  BY DEF RunLeaderAwaiter, TakeTask, Advance, Account, Release, Resubmit, Work, strand, serving,
         StrandInv, TypeOK
<1>3. Line' = Line
  BY <1>1, <1>2, LineRests
<1>4. CASE Release(w)
  <2>1. leader[w] \in Fibers /\ pc[leader[w]] = "serve" /\ pc' = [pc EXCEPT ![leader[w]] = "back"]
    BY <1>4, HeldAreFibers DEF Release, Work, StrandInv, JobsInv, LeadersInv
  <2>2. UNCHANGED <<Inside, Served>>
    BY <2>1, PcStutters
  <2> QED
    BY <1>3, <2>2 DEF StrandSteps
<1>5. CASE UNCHANGED pc
  BY <1>3, <1>5, PcRests DEF StrandSteps
<1> QED
  BY <1>4, <1>5 DEF RunLeaderAwaiter, TakeTask, Advance, Account, Resubmit, strand

LEMMA FiberStutters ==
  ASSUME StrandInv, NEW w \in Workers, SuspendToServe(w) \/ SuspendInCombine(w)
  PROVE  StrandSteps
<1>0. PICK f \in Fibers : f = running[w]
  BY DEF StrandInv, TypeOK, SuspendToServe, SuspendInCombine, Goto, At
<1>1. /\ UNCHANGED <<stack, serving>>
      /\ \/ pc[f] = "handover" /\ pc' = [pc EXCEPT ![f] = "serve"]
         \/ pc[f] = "join" /\ pc' = [pc EXCEPT ![f] = "wait"]
  BY <1>0 DEF SuspendToServe, SuspendInCombine, Goto, At
<1>2. Line' = Line
  BY <1>1, LineRests DEF serving
<1>3. UNCHANGED <<Inside, Served>>
  BY <1>1, PcStutters
<1> QED
  BY <1>2, <1>3 DEF StrandSteps

LEMMA RuntimeStutters == UNCHANGED strand => StrandSteps
<1> SUFFICES ASSUME UNCHANGED strand PROVE StrandSteps
  OBVIOUS
<1>1. Line' = Line
  BY LineRests DEF strand, serving
<1> QED
  BY <1>1, PcRests DEF StrandSteps, strand

LEMMA CombinerStep == StrandInv /\ LinksInv /\ StrandInv' /\ [Next]_vars => StrandSteps
<1>1. ASSUME StrandInv, LinksInv, StrandInv', NEW w \in Workers, OnWorker(w) PROVE StrandSteps
  BY <1>1, PushQueues, GetChainStutters, RunCallBackBegins, CallBackEndsEnds,
     WorkerStutters, RuntimeStutters
     DEF OnWorker
<1>2. ASSUME StrandInv, StrandInv', NEW w \in Workers, OnFiber(w) PROVE StrandSteps
  BY <1>2, CombineEnters, LeadEndsEnds, FiberStutters, ReturnReturns, RuntimeStutters
     DEF OnFiber, Leave, Yield, Finish
<1> QED
  BY <1>1, <1>2, RuntimeStutters DEF Next, Start, vars

LEMMA CombinerInit == Init => AbstractStrand!Init
<1> SUFFICES ASSUME Init PROVE AbstractStrand!Init
  OBVIOUS
<1>1. StrandInv /\ (\A w \in Workers : ~Looks(w)) /\ stack = <<>>
  BY StrandInit DEF Init, Looks
<1>2. Reverse(stack) \in Seq(Fibers) /\ Len(Reverse(stack)) = 0
  BY <1>1, ReverseRange DEF StrandInv, TypeOK
<1>3. Line = <<>>
  BY <1>1, <1>2, LineHolds DEF LineOfNobody
<1>4. Inside = None
  BY <1>1, InsideHolds DEF InsideIsNone, Init
<1>5. Served = {}
  BY DEF Init, Served
<1> QED
  BY <1>3, <1>4, <1>5 DEF AbstractStrand!Init, Served

\* Strand is a strand: callbacks run one at a time and once per call, in the
\* order of the pushes for those that had to wait, and Combine returns only
\* when its callback has run, whoever ran it.
THEOREM StrandImplementsCombiner == Spec => ImplementsCombiner
<1>1. StrandInv /\ LinksInv /\ StrandInv' /\ [Next]_vars =>
        [AbstractStrand!Next]_(AbstractStrand!vars)
  BY CombinerStep DEF StrandSteps, AbstractStrand!vars, Served
<1>2. Spec => AbstractStrand!Spec
  BY <1>1, CombinerInit, StrandInvsHold, PTL DEF Spec, AbstractStrand!Spec
<1> QED
  BY <1>2 DEF ImplementsCombiner
-----------------------------------------------------------------------------
\* The scheduler's queue without the leader's task.
LEMMA RemoveAtIs ==
  ASSUME NEW S, NEW s \in Seq(S), NEW k \in 1 .. Len(s)
  PROVE  /\ RemoveAt(s, k) \in Seq(S) /\ Len(RemoveAt(s, k)) = Len(s) - 1
         /\ \A i \in 1 .. Len(s) - 1 : RemoveAt(s, k)[i] = IF i < k THEN s[i] ELSE s[i + 1]
<1> DEFINE a == SubSeq(s, 1, k - 1)
           b == SubSeq(s, k + 1, Len(s))
<1>1. /\ a \in Seq(S) /\ Len(a) = k - 1
      /\ \A i \in 1 .. k - 1 : a[i] = s[i]
  OBVIOUS
<1>2. /\ b \in Seq(S) /\ Len(b) = Len(s) - k
      /\ \A i \in 1 .. Len(s) - k : b[i] = s[i + k]
  OBVIOUS
<1>3. RemoveAt(s, k) = a \o b
  BY DEF RemoveAt
<1> HIDE DEF a, b
<1>4. /\ a \o b \in Seq(S) /\ Len(a \o b) = Len(s) - 1
      /\ \A i \in 1 .. k - 1 : (a \o b)[i] = a[i]
      /\ \A i \in k .. Len(s) - 1 : (a \o b)[i] = b[i - k + 1]
  <2>1. ASSUME NEW c \in Seq(S), NEW d \in Seq(S)
        PROVE  /\ c \o d \in Seq(S) /\ Len(c \o d) = Len(c) + Len(d)
               /\ Len(c) \in Nat /\ Len(d) \in Nat
               /\ \A i \in 1 .. Len(c) : (c \o d)[i] = c[i]
               /\ \A i \in Len(c) + 1 .. Len(c) + Len(d) : (c \o d)[i] = d[i - Len(c)]
    OBVIOUS
  <2>2. a \in Seq(S) /\ b \in Seq(S)
    BY <1>1, <1>2
  <2>3. /\ a \o b \in Seq(S) /\ Len(a \o b) = Len(a) + Len(b)
        /\ \A i \in 1 .. Len(a) : (a \o b)[i] = a[i]
        /\ \A i \in Len(a) + 1 .. Len(a) + Len(b) : (a \o b)[i] = b[i - Len(a)]
    BY <2>1, <2>2
  <2>4. Len(a) = k - 1 /\ Len(a) + 1 = k /\ Len(a) + Len(b) = Len(s) - 1
    BY <1>1, <1>2
  <2>5. \A i \in k .. Len(s) - 1 : i - Len(a) = i - k + 1
    BY <2>4
  <2> QED
    BY <2>3, <2>4, <2>5
<1>5. /\ \A i \in 1 .. Len(s) - 1 : i < k => i \in 1 .. k - 1
      /\ \A i \in 1 .. Len(s) - 1 : ~(i < k) =>
           i \in k .. Len(s) - 1 /\ i - k + 1 \in 1 .. Len(s) - k /\ (i - k + 1) + k = i + 1
  OBVIOUS
<1>6. \A i \in 1 .. Len(s) - 1 : (a \o b)[i] = IF i < k THEN s[i] ELSE s[i + 1]
  <2> SUFFICES ASSUME NEW i \in 1 .. Len(s) - 1
               PROVE  (a \o b)[i] = IF i < k THEN s[i] ELSE s[i + 1]
    OBVIOUS
  <2>1. CASE i < k
    BY <1>1, <1>4, <1>5, <2>1
  <2>2. CASE ~(i < k)
    <3>1. (a \o b)[i] = b[i - k + 1]
      BY <1>4, <1>5, <2>2
    <3>2. b[i - k + 1] = s[(i - k + 1) + k]
      BY <1>2, <1>5, <2>2
    <3> QED
      BY <1>5, <2>2, <3>1, <3>2
  <2> QED
    BY <2>1, <2>2
<1> QED
  BY <1>3, <1>4, <1>6

LEMMA QueueWith ==
  ASSUME runq \in Seq(Entries), NEW k, TaskPlaces = {k}
  PROVE  /\ FiberQueue \in Seq(Entries) /\ Len(FiberQueue) = Len(runq) - 1
         /\ k \in 1 .. Len(runq)
         /\ \A i \in 1 .. Len(runq) - 1 : FiberQueue[i] = IF i < k THEN runq[i] ELSE runq[i + 1]
<1>1. k \in 1 .. Len(runq)
  BY DEF TaskPlaces
<1>2. FiberQueue = RemoveAt(runq, k)
  BY DEF FiberQueue
<1> QED
  BY <1>1, <1>2, RemoveAtIs

LEMMA QueueWithAfter ==
  ASSUME runq' \in Seq(Entries), NEW k, TaskPlaces' = {k}
  PROVE  /\ FiberQueue' \in Seq(Entries) /\ Len(FiberQueue') = Len(runq') - 1
         /\ k \in 1 .. Len(runq')
         /\ \A i \in 1 .. Len(runq') - 1 :
              FiberQueue'[i] = IF i < k THEN runq'[i] ELSE runq'[i + 1]
<1>1. k \in 1 .. Len(runq')
  BY DEF TaskPlaces
<1>2. FiberQueue' = RemoveAt(runq', k)
  BY DEF FiberQueue
<1> QED
  BY <1>1, <1>2, RemoveAtIs

LEMMA SameSequence ==
  ASSUME NEW S, NEW s \in Seq(S), NEW t \in Seq(S), Len(s) = Len(t),
         \A i \in 1 .. Len(s) : s[i] = t[i]
  PROVE  s = t
  OBVIOUS

LEMMA QueueAppendsFiber ==
  ASSUME runq \in Seq(Entries), \A i, j \in TaskPlaces : i = j,
         NEW f \in Fibers, runq' = Append(runq, f)
  PROVE  FiberQueue' = Append(FiberQueue, f)
<1>1. /\ runq' \in Seq(Entries) /\ Len(runq') = Len(runq) + 1 /\ Len(runq) \in Nat
      /\ \A i \in 1 .. Len(runq) : runq'[i] = runq[i]
      /\ runq'[Len(runq) + 1] = f
      /\ DOMAIN runq = 1 .. Len(runq) /\ DOMAIN runq' = 1 .. Len(runq) + 1
  BY DEF Entries
<1>2. TaskPlaces' = TaskPlaces
  BY <1>1 DEF TaskPlaces
<1>3. CASE TaskPlaces = {}
  BY <1>2, <1>3 DEF FiberQueue
<1>4. ASSUME NEW k \in TaskPlaces PROVE FiberQueue' = Append(FiberQueue, f)
  <2>1. TaskPlaces = {k} /\ TaskPlaces' = {k}
    BY <1>2, <1>4
  <2>2. /\ FiberQueue \in Seq(Entries) /\ Len(FiberQueue) = Len(runq) - 1
        /\ k \in 1 .. Len(runq)
        /\ \A i \in 1 .. Len(runq) - 1 : FiberQueue[i] = IF i < k THEN runq[i] ELSE runq[i + 1]
    BY <2>1, QueueWith
  <2>3. /\ FiberQueue' \in Seq(Entries) /\ Len(FiberQueue') = Len(runq)
        /\ \A i \in 1 .. Len(runq) : FiberQueue'[i] = IF i < k THEN runq'[i] ELSE runq'[i + 1]
    BY <1>1, <2>1, QueueWithAfter
  <2> DEFINE q == Append(FiberQueue, f)
  <2>4. /\ q \in Seq(Entries) /\ Len(q) = Len(runq)
        /\ \A i \in 1 .. Len(runq) - 1 : q[i] = FiberQueue[i]
        /\ q[Len(runq)] = f
    <3>1. ASSUME NEW s \in Seq(Entries), NEW x \in Entries
          PROVE  /\ Append(s, x) \in Seq(Entries) /\ Len(Append(s, x)) = Len(s) + 1
                 /\ \A i \in 1 .. Len(s) : Append(s, x)[i] = s[i]
                 /\ Append(s, x)[Len(s) + 1] = x
      OBVIOUS
    <3>2. f \in Entries /\ (Len(runq) - 1) + 1 = Len(runq)
      BY <1>1 DEF Entries
    <3>3. /\ q \in Seq(Entries) /\ Len(q) = (Len(runq) - 1) + 1
          /\ \A i \in 1 .. Len(runq) - 1 : q[i] = FiberQueue[i]
          /\ q[(Len(runq) - 1) + 1] = f
      BY <2>2, <3>1, <3>2
    <3> QED
      BY <3>2, <3>3
  <2> HIDE DEF q
  <2>5. \A i \in 1 .. Len(runq) : FiberQueue'[i] = q[i]
    <3> SUFFICES ASSUME NEW i \in 1 .. Len(runq) PROVE FiberQueue'[i] = q[i]
      OBVIOUS
    <3>1. CASE i = Len(runq)
      BY <1>1, <2>2, <2>3, <2>4, <3>1
    <3>2. CASE i # Len(runq)
      <4>1. i \in 1 .. Len(runq) - 1 /\ i + 1 \in 1 .. Len(runq)
        <5>1. \A n \in Nat : \A j \in 1 .. n : j # n => j \in 1 .. n - 1 /\ j + 1 \in 1 .. n
          OBVIOUS
        <5> QED
          BY <1>1, <3>2, <5>1
      <4> QED
        BY <1>1, <2>2, <2>3, <2>4, <4>1
    <3> QED
      BY <3>1, <3>2
  <2>6. FiberQueue' = q
    BY <2>3, <2>4, <2>5, SameSequence
  <2> QED
    BY <2>6 DEF q
<1> QED
  BY <1>3, <1>4

LEMMA QueueKeepsWithTask ==
  ASSUME runq \in Seq(Entries), TaskPlaces = {}, NEW f \in Fibers, runq' = Append(runq, Task(f))
  PROVE  FiberQueue' = FiberQueue
<1>1. runq' \in Seq(Entries) /\ TaskPlaces' = {Len(runq) + 1}
  BY AppendTask
<1>2. Task(f) \in Entries
  BY DEF Entries
<1>3. Len(runq') = Len(runq) + 1 /\ \A i \in 1 .. Len(runq) : runq'[i] = runq[i]
  BY <1>2
<1>4. /\ FiberQueue' \in Seq(Entries) /\ Len(FiberQueue') = Len(runq)
      /\ \A i \in 1 .. Len(runq) : FiberQueue'[i] = runq'[i]
  BY <1>1, <1>3, QueueWithAfter
<1>5. FiberQueue' = runq
  BY <1>3, <1>4, SameSequence
<1> QED
  BY <1>5 DEF FiberQueue

LEMMA QueueTakesFiber ==
  ASSUME runq \in Seq(Entries), \A i, j \in TaskPlaces : i = j,
         runq # <<>>, Head(runq) \in Fibers, runq' = Tail(runq)
  PROVE  FiberQueue # <<>> /\ Head(FiberQueue) = Head(runq) /\ FiberQueue' = Tail(FiberQueue)
<1>1. /\ DOMAIN runq = 1 .. Len(runq) /\ DOMAIN runq' = 1 .. Len(runq) - 1
      /\ Len(runq) \in Nat /\ Len(runq) > 0 /\ Len(runq') = Len(runq) - 1
      /\ \A i \in 1 .. Len(runq) - 1 : runq'[i] = runq[i + 1]
      /\ Head(runq) = runq[1] /\ runq' \in Seq(Entries)
  OBVIOUS
<1>2. CASE TaskPlaces = {}
  <2>1. TaskPlaces' = {}
    BY <1>1, <1>2 DEF TaskPlaces
  <2> QED
    BY <1>2, <2>1 DEF FiberQueue
<1>3. ASSUME NEW k \in TaskPlaces
      PROVE  FiberQueue # <<>> /\ Head(FiberQueue) = Head(runq) /\ FiberQueue' = Tail(FiberQueue)
  <2>1. TaskPlaces = {k} /\ k \in 1 .. Len(runq) /\ k # 1
    BY <1>1, <1>3 DEF TaskPlaces
  <2>2. TaskPlaces' = {k - 1}
    <3>1. \A j \in TaskPlaces' : j + 1 \in TaskPlaces /\ j \in Nat
      BY <1>1 DEF TaskPlaces
    <3>2. k - 1 \in TaskPlaces'
      BY <1>1, <1>3, <2>1 DEF TaskPlaces
    <3>3. \A j \in TaskPlaces' : j = k - 1
      <4> SUFFICES ASSUME NEW j \in TaskPlaces' PROVE j = k - 1
        OBVIOUS
      <4>1. j + 1 = k /\ j \in Nat
        BY <2>1, <3>1
      <4> QED
        BY <2>1, <4>1
    <3> QED
      BY <3>2, <3>3
  <2>3. /\ FiberQueue \in Seq(Entries) /\ Len(FiberQueue) = Len(runq) - 1
        /\ \A i \in 1 .. Len(runq) - 1 : FiberQueue[i] = IF i < k THEN runq[i] ELSE runq[i + 1]
    BY <2>1, QueueWith
  <2>4. /\ FiberQueue' \in Seq(Entries) /\ Len(FiberQueue') = Len(runq) - 2
        /\ \A i \in 1 .. Len(runq) - 2 :
             FiberQueue'[i] = IF i < k - 1 THEN runq'[i] ELSE runq'[i + 1]
    <3>1. /\ FiberQueue' \in Seq(Entries) /\ Len(FiberQueue') = Len(runq') - 1
          /\ \A i \in 1 .. Len(runq') - 1 :
               FiberQueue'[i] = IF i < k - 1 THEN runq'[i] ELSE runq'[i + 1]
      BY <1>1, <2>2, QueueWithAfter
    <3>2. Len(runq') - 1 = Len(runq) - 2
      BY <1>1
    <3> QED
      BY <3>1, <3>2
  <2>5. Len(runq) > 1 /\ FiberQueue # <<>> /\ Head(FiberQueue) = runq[1]
    BY <1>1, <2>1, <2>3
  <2>6. /\ Tail(FiberQueue) \in Seq(Entries) /\ Len(Tail(FiberQueue)) = Len(runq) - 2
        /\ \A i \in 1 .. Len(runq) - 2 : Tail(FiberQueue)[i] = FiberQueue[i + 1]
    BY <2>3, <2>5
  <2>7. \A i \in 1 .. Len(runq) - 2 : FiberQueue'[i] = Tail(FiberQueue)[i]
    <3> SUFFICES ASSUME NEW i \in 1 .. Len(runq) - 2 PROVE FiberQueue'[i] = Tail(FiberQueue)[i]
      OBVIOUS
    <3>1. i \in 1 .. Len(runq) - 1 /\ i + 1 \in 1 .. Len(runq) - 1 /\ (i < k - 1 <=> i + 1 < k)
      BY <1>1, <2>1
    <3> QED
      BY <1>1, <2>3, <2>4, <2>6, <3>1, ZenonT(30)
  <2>8. FiberQueue' = Tail(FiberQueue)
    BY <2>4, <2>6, <2>7, SameSequence
  <2> QED
    BY <1>1, <2>5, <2>8
<1> QED
  BY <1>2, <1>3

LEMMA QueueLosesTask ==
  ASSUME runq \in Seq(Entries), \A i, j \in TaskPlaces : i = j,
         runq # <<>>, Head(runq) \notin Fibers, runq' = Tail(runq)
  PROVE  FiberQueue' = FiberQueue
<1>1. TaskPlaces' = {} /\ TaskPlaces = {1} /\ runq' \in Seq(Entries)
  BY TailTask
<1>2. /\ Len(runq') = Len(runq) - 1
      /\ \A i \in 1 .. Len(runq) - 1 : runq'[i] = runq[i + 1]
  OBVIOUS
<1>3. /\ FiberQueue \in Seq(Entries) /\ Len(FiberQueue) = Len(runq) - 1
      /\ \A i \in 1 .. Len(runq) - 1 : FiberQueue[i] = runq[i + 1]
  BY <1>1, QueueWith
<1>4. FiberQueue = runq'
  BY <1>1, <1>2, <1>3, SameSequence
<1> QED
  BY <1>1, <1>4 DEF FiberQueue
-----------------------------------------------------------------------------
\* A leader that serves has no awaiter but the one of its Suspend.
ServingInv == \A f \in Fibers : pc[f] = "serve" => awaiter[f] # "yield"

LEMMA ServingInit == Init => ServingInv
  BY DEF Init, ServingInv

LEMMA ServingStep == StrandInv /\ LinksInv /\ ServingInv /\ [Next]_vars => ServingInv'
<1> SUFFICES ASSUME StrandInv, LinksInv, ServingInv, [Next]_vars PROVE ServingInv'
  OBVIOUS
<1> USE DEF ServingInv
<1>1. ASSUME NEW f \in Fibers, Start(f) PROVE ServingInv'
  BY <1>1 DEF Start, Go, strand
<1>2. ASSUME NEW w \in Workers,
             Combine(w) \/ LeadEnds(w) \/ Return(w) \/ SuspendToServe(w) \/ SuspendInCombine(w)
      PROVE  ServingInv'
  <2>1. PICK f \in Fibers : f = running[w]
    BY <1>2 DEF Combine, LeadEnds, Return, SuspendToServe, SuspendInCombine, Goto, At,
                StrandInv, TypeOK
  <2>2. CASE SuspendToServe(w)
    BY <2>1, <2>2 DEF SuspendToServe, Suspend, Goto, StrandInv, TypeOK
  <2>3. CASE SuspendInCombine(w)
    BY <2>1, <2>3 DEF SuspendInCombine, Suspend, Goto, StrandInv, TypeOK
  <2>4. CASE Combine(w) \/ LeadEnds(w) \/ Return(w)
    BY <2>1, <2>4 DEF Combine, LeadEnds, Return, Goto, StrandInv, TypeOK, runtime
  <2> QED
    BY <1>2, <2>2, <2>3, <2>4
<1>3. ASSUME NEW w \in Workers, Yield(w) PROVE ServingInv'
  BY <1>3 DEF Yield, At, Suspend, strand, StrandInv, TypeOK
<1>4. ASSUME NEW w \in Workers, UNCHANGED pc, TakeAwaiter(w) PROVE ServingInv'
  BY <1>4, StrandAssumption DEF TakeAwaiter, StrandInv, TypeOK
<1>5. CASE UNCHANGED <<pc, awaiter>>
  BY <1>5
<1>6. ASSUME NEW w \in Workers, RunCallBack(w) \/ CallBackEnds(w) PROVE ServingInv'
  <2>1. batch[w] # <<>> /\ job[w] \in {"batch", "call"}
    BY <1>6, PtrIsFirst DEF RunCallBack, CallBackEnds, Work, StrandInv, JobsInv
  <2>2. ptr[w] \in Fibers
    BY <2>1, PtrIsFirst
  <2> QED
    BY <1>6, <2>2 DEF RunCallBack, CallBackEnds, runtime, StrandInv, TypeOK
<1>7. ASSUME NEW w \in Workers, Release(w) PROVE ServingInv'
  BY <1>7 DEF Release, StrandInv, TypeOK
<1>8. ASSUME NEW w \in Workers, OnWorker(w) PROVE ServingInv'
  BY <1>4, <1>5, <1>6, <1>7, <1>8
     DEF OnWorker, RunLeaderAwaiter, RunStrandAwaiter, TakeTask, GetChain, Advance, Account, Resubmit,
         ResumeFiber, Resume, Reap, RunYield, strand, runtime
<1>9. ASSUME NEW w \in Workers, OnFiber(w) PROVE ServingInv'
  BY <1>2, <1>3, <1>5, <1>9 DEF OnFiber, Leave, Finish, Complete, strand
<1> QED
  BY <1>1, <1>5, <1>8, <1>9 DEF Next, vars, runtime, strand

\* Who the strand has a handle of.
Parked ==
  Range(stack) \union InBatches \union {f \in Fibers : pc[f] = "serve" /\ awaiter[f] = None}

FibersSteps ==
  \/ Parking!Next
  \/ UNCHANGED <<FiberQueue, running, after, awaiter, coro, Parked>>

LEMMA BatchesOf ==
  ASSUME NEW w \in Workers, \A v \in Workers : v # w => batch[v] = <<>>
  PROVE  InBatches = Range(batch[w])
<1>1. Range(<<>>) = {}
  BY DEF Range
<1> QED
  BY <1>1 DEF InBatches

LEMMA BatchesOfAfter ==
  ASSUME NEW w \in Workers, \A v \in Workers : v # w => batch'[v] = <<>>
  PROVE  InBatches' = Range(batch'[w])
<1>1. Range(<<>>) = {}
  BY DEF Range
<1> QED
  BY <1>1 DEF InBatches

LEMMA ParkedRests ==
  ASSUME UNCHANGED <<stack, batch>>,
         \A f \in Fibers : pc'[f] = "serve" /\ awaiter'[f] = None <=> pc[f] = "serve" /\ awaiter[f] = None
  PROVE  Parked' = Parked
  BY DEF Parked, InBatches

\* Nobody in the stack or in a batch serves.
LEMMA ParkedApart ==
  ASSUME StrandInv
  PROVE  \A f \in Range(stack) \union InBatches : f \in Fibers /\ pc[f] \in {"wait", "called"}
<1>1. ASSUME NEW w \in Workers, NEW f \in Range(batch[w]) PROVE f \in Fibers /\ pc[f] \in {"wait", "called"}
  <2>1. PICK i \in DOMAIN batch[w] : batch[w][i] = f
    BY <1>1 DEF Range
  <2> QED
    BY <2>1, HeldAreFibers DEF StrandInv, QueuedInv
<1> QED
  BY <1>1, HeldAreFibers DEF StrandInv, QueuedInv, InBatches

LEMMA TheTaskIsOne == StrandInv => runq \in Seq(Entries) /\ \A i, j \in TaskPlaces : i = j
  BY DEF StrandInv, TypeOK, Entries, LedInv, PlaceOfLeader
-----------------------------------------------------------------------------
LEMMA QueueRests == UNCHANGED runq => FiberQueue' = FiberQueue
  BY DEF FiberQueue, TaskPlaces

LEMMA StartStarts ==
  ASSUME StrandInv, NEW f \in Fibers, Start(f)
  PROVE  FibersSteps
<1>1. FiberQueue' = Append(FiberQueue, f)
  BY TheTaskIsOne, QueueAppendsFiber DEF Start, Go, Schedule
<1>2. Parked' = Parked
  BY ParkedRests DEF Start, Go, strand, serving
<1>3. Parking!Start(f)
  BY <1>1, <1>2 DEF Start, Go, Parking!Start, Parking!Go, Parking!Schedule, Parked
<1> QED
  BY <1>3 DEF FibersSteps, Parking!Next

LEMMA ResumeResumes ==
  ASSUME StrandInv, NEW w \in Workers, ResumeFiber(w), UNCHANGED strand
  PROVE  FibersSteps
<1>1. FiberQueue # <<>> /\ Head(FiberQueue) = Head(runq) /\ FiberQueue' = Tail(FiberQueue)
  BY TheTaskIsOne, QueueTakesFiber DEF ResumeFiber, Resume
<1>2. Parked' = Parked
  BY ParkedRests DEF ResumeFiber, Resume, strand, serving
<1>3. Parking!Resume(w) /\ Parked' = Parked
  BY <1>1, <1>2 DEF ResumeFiber, Resume, Parking!Resume
<1> QED
  BY <1>3 DEF FibersSteps, Parking!Next, Parking!OnWorker, Parked

LEMMA RuntimeSteps ==
  ASSUME StrandInv, NEW w \in Workers, UNCHANGED strand, Reap(w) \/ Complete(w)
  PROVE  FibersSteps
<1>1. FiberQueue' = FiberQueue
  BY QueueRests DEF Reap, Complete
<1>2. Parked' = Parked
  BY ParkedRests DEF Reap, Complete, strand, serving
<1>3. Parking!Reap(w) \/ Parking!Complete(w)
  BY <1>1 DEF Reap, Complete, Parking!Reap, Parking!Complete
<1> QED
  BY <1>2, <1>3
     DEF FibersSteps, Parking!Next, Parking!OnWorker, Parking!OnFiber, Parked

LEMMA RunYieldYields ==
  ASSUME StrandInv, ServingInv, NEW w \in Workers, RunYield(w), UNCHANGED strand
  PROVE  FibersSteps
<1>0. PICK f \in Fibers : f = after[w]
  BY DEF StrandInv, TypeOK, RunYield, RunsAwaiter
<1>1. awaiter[f] = "yield" /\ awaiter' = [awaiter EXCEPT ![f] = None] /\ pc[f] # "serve"
  BY <1>0 DEF RunYield, RunsAwaiter, TakeAwaiter, ServingInv
<1>2. FiberQueue' = Append(FiberQueue, f)
  BY <1>0, TheTaskIsOne, QueueAppendsFiber DEF RunYield, Schedule
<1>3. Parked' = Parked
  BY <1>1, ParkedRests DEF strand, serving, StrandInv, TypeOK
<1>4. Parking!RunYield(w)
  BY <1>0, <1>2 DEF RunYield, RunsAwaiter, TakeAwaiter, Parking!RunYield, Parking!RunsAwaiter,
                    Parking!TakeAwaiter, Parking!Schedule
<1> QED
  BY <1>3, <1>4 DEF FibersSteps, Parking!Next, Parking!OnWorker, Parked

LEMMA SuspendSuspends ==
  ASSUME StrandInv, NEW w \in Workers, Yield(w) \/ SuspendToServe(w) \/ SuspendInCombine(w)
  PROVE  FibersSteps
<1>0. PICK f \in Fibers : f = running[w]
  BY DEF StrandInv, TypeOK, Yield, SuspendToServe, SuspendInCombine, Goto, At
<1>1. PICK a \in {"yield", "leader", "strand"} :
        /\ Suspend(w, a) /\ awaiter' = [awaiter EXCEPT ![f] = a]
        /\ UNCHANGED <<stack, batch>>
        /\ pc[f] # "serve" /\ pc'[f] \in {pc[f], "serve", "wait"}
        /\ \A g \in Fibers : g # f => pc'[g] = pc[g]
  <2>1. CASE Yield(w)
    BY <1>0, <2>1 DEF Yield, At, Suspend, strand, serving
  <2>2. CASE SuspendToServe(w)
    BY <1>0, <2>2 DEF SuspendToServe, Suspend, Goto, At, serving, StrandInv, TypeOK
  <2>3. CASE SuspendInCombine(w)
    BY <1>0, <2>3 DEF SuspendInCombine, Suspend, Goto, At, serving, StrandInv, TypeOK
  <2> QED
    BY <2>1, <2>2, <2>3
<1>2. FiberQueue' = FiberQueue
  BY <1>1, QueueRests DEF Suspend
<1>3. Parked' = Parked
  BY <1>1, ParkedRests, StrandAssumption DEF StrandInv, TypeOK
<1>4. Parking!Suspend(w, a)
  BY <1>1, <1>2 DEF Suspend, Parking!Suspend
<1> QED
  BY <1>3, <1>4 DEF FibersSteps, Parking!Next, Parking!OnFiber, Parking!SuspendIn, Parked

\* The leader's awaiter and the others park the fiber.
LEMMA AwaiterParks ==
  ASSUME StrandInv, NEW w \in Workers, RunLeaderAwaiter(w) \/ RunStrandAwaiter(w)
  PROVE  FibersSteps
<1>0. PICK f \in Fibers : f = after[w]
  BY DEF StrandInv, TypeOK, RunLeaderAwaiter, RunStrandAwaiter, RunsAwaiter
<1>1. CASE RunLeaderAwaiter(w)
  <2>1. /\ awaiter[f] = "leader" /\ pc[f] = "serve" /\ runq' = Append(runq, Task(f))
        /\ awaiter' = [awaiter EXCEPT ![f] = None] /\ UNCHANGED strand
    BY <1>0, <1>1 DEF RunLeaderAwaiter, RunsAwaiter, TakeAwaiter, StrandInv, LeadersInv
  <2>2. TaskPlaces = {}
    BY <2>1 DEF StrandInv, LedInv, PlaceOfLeader, Leads
  <2>3. FiberQueue' = FiberQueue
    BY <2>1, <2>2, TheTaskIsOne, QueueKeepsWithTask
  <2>4. {g \in Fibers : pc'[g] = "serve" /\ awaiter'[g] = None} =
          {g \in Fibers : pc[g] = "serve" /\ awaiter[g] = None} \union {f}
    BY <2>1 DEF strand, StrandInv, TypeOK
  <2>5. Parked' = Parked \union {f}
    BY <2>1, <2>4 DEF Parked, InBatches, strand, serving
  <2>6. Parking!RunAwaiter(w)
    BY <1>0, <1>1, <2>3, <2>5
       DEF RunLeaderAwaiter, RunsAwaiter, TakeAwaiter, Parking!RunAwaiter, Parking!RunsAwaiter,
           Parking!TakeAwaiter, Parked
  <2> QED
    BY <2>6 DEF FibersSteps, Parking!Next, Parking!OnWorker
<1>2. CASE RunStrandAwaiter(w)
  <2>1. /\ awaiter[f] = "strand" /\ pc[f] = "wait" /\ stack' = <<f>> \o stack
        /\ awaiter' = [awaiter EXCEPT ![f] = None] /\ UNCHANGED <<runq, batch, pc>>
    BY <1>0, <1>2 DEF RunStrandAwaiter, RunsAwaiter, TakeAwaiter, StrandInv, QueuedInv, serving
  <2>2. FiberQueue' = FiberQueue
    BY <2>1, QueueRests
  <2>3. {g \in Fibers : pc'[g] = "serve" /\ awaiter'[g] = None} =
          {g \in Fibers : pc[g] = "serve" /\ awaiter[g] = None}
    BY <2>1 DEF StrandInv, TypeOK
  <2>4. Range(stack') = Range(stack) \union {f}
    BY <2>1, PrependRange DEF StrandInv, TypeOK
  <2>5. Parked' = Parked \union {f}
    BY <2>1, <2>3, <2>4 DEF Parked, InBatches
  <2>6. Parking!RunAwaiter(w)
    BY <1>0, <1>2, <2>2, <2>5
       DEF RunStrandAwaiter, RunsAwaiter, TakeAwaiter, Parking!RunAwaiter, Parking!RunsAwaiter,
           Parking!TakeAwaiter, Parked
  <2> QED
    BY <2>6 DEF FibersSteps, Parking!Next, Parking!OnWorker
<1> QED
  BY <1>1, <1>2

\* A worker that has run a callback, or served to the end, wakes a fiber.
LEMMA EndsWake ==
  ASSUME StrandInv, LinksInv, NEW w \in Workers, CallBackEnds(w) \/ Release(w)
  PROVE  FibersSteps
<1>1. ASSUME NEW f \in Fibers, f \in Parked, Parked' = Parked \ {f},
             runq' = Append(runq, f), UNCHANGED <<running, after, awaiter, coro>>
      PROVE  FibersSteps
  <2>1. FiberQueue' = Append(FiberQueue, f)
    BY <1>1, TheTaskIsOne, QueueAppendsFiber
  <2>2. Parking!Wake(f)
    BY <1>1, <2>1 DEF Parking!Wake, Parking!Schedule, Parked
  <2> QED
    BY <2>2 DEF FibersSteps, Parking!Next
<1>2. CASE CallBackEnds(w)
  <2>1. /\ job[w] = "call" /\ pc' = [pc EXCEPT ![Head(batch[w])] = "back"]
        /\ runq' = Append(runq, Head(batch[w])) /\ batch' = [batch EXCEPT ![w] = Tail(@)]
        /\ UNCHANGED <<running, after, awaiter, coro, stack>>
    BY <1>2, PtrIsFirst DEF CallBackEnds, Work, Schedule, StrandInv, JobsInv
  <2>2. batch[w] # <<>> /\ Looks(w)
    BY <2>1 DEF StrandInv, JobsInv, Looks
  <2>3. PICK f \in Fibers : f = Head(batch[w]) /\ f = batch[w][1] /\ 1 \in DOMAIN batch[w]
    BY <2>2, BatchTail
  <2>4. pc[f] = "called" /\ f \notin Range(stack) /\ f \in Range(batch[w])
    BY <2>1, <2>3 DEF StrandInv, QueuedInv, Range
  <2>5. InBatches = Range(batch[w])
    BY <2>2, OnlyLooker, BatchesOf
  <2>6. InBatches' = Range(batch[w]) \ {f}
    <3>1. batch'[w] = Tail(batch[w]) /\ \A v \in Workers : v # w => batch'[v] = <<>>
      BY <2>1, <2>2, OnlyLooker DEF StrandInv, TypeOK
    <3> QED
      BY <2>2, <2>3, <3>1, BatchTail, BatchesOfAfter
  <2>7. {g \in Fibers : pc'[g] = "serve" /\ awaiter'[g] = None} =
          {g \in Fibers : pc[g] = "serve" /\ awaiter[g] = None}
    BY <2>1, <2>3, <2>4 DEF StrandInv, TypeOK
  <2>8. f \in Parked /\ Parked' = Parked \ {f}
    BY <2>1, <2>4, <2>5, <2>6, <2>7 DEF Parked
  <2> QED
    BY <1>1, <2>1, <2>3, <2>8
<1>3. CASE Release(w)
  <2>1. /\ job[w] = "release" /\ pc' = [pc EXCEPT ![leader[w]] = "back"]
        /\ runq' = Append(runq, leader[w])
        /\ UNCHANGED <<running, after, awaiter, coro, stack, batch>>
    BY <1>3 DEF Release, Work, Schedule
  <2>2. PICK f \in Fibers : f = leader[w] /\ pc[f] = "serve" /\ awaiter[f] = None
    BY <2>1, HeldAreFibers DEF StrandInv, JobsInv, LeadersInv
  <2>3. {g \in Fibers : pc'[g] = "serve" /\ awaiter'[g] = None} =
          {g \in Fibers : pc[g] = "serve" /\ awaiter[g] = None} \ {f}
    BY <2>1, <2>2 DEF StrandInv, TypeOK
  <2>4. f \notin Range(stack) \union InBatches
    BY <2>2, ParkedApart
  <2>5. f \in Parked /\ Parked' = Parked \ {f}
    BY <2>1, <2>2, <2>3, <2>4 DEF Parked, InBatches
  <2> QED
    BY <1>1, <2>1, <2>2, <2>5
<1> QED
  BY <1>2, <1>3

\* Steps of the strand that schedule and park nobody.
LEMMA StrandParks ==
  ASSUME StrandInv, LinksInv, NEW w \in Workers,
         \/ Combine(w) \/ LeadEnds(w) \/ Return(w)
         \/ TakeTask(w) \/ GetChain(w) \/ RunCallBack(w) \/ Advance(w) \/ Account(w) \/ Resubmit(w)
  PROVE  FibersSteps
<1>1. UNCHANGED <<running, after, awaiter, coro>>
  BY DEF Combine, LeadEnds, Return, TakeTask, GetChain, RunCallBack, Advance, Account, Resubmit, runtime
<1>2. FiberQueue' = FiberQueue
  <2>1. CASE TakeTask(w)
    BY <2>1, TheTaskIsOne, QueueLosesTask DEF TakeTask
  <2>2. CASE Resubmit(w)
    <3>1. Looks(w) /\ leader[w] \in Fibers /\ runq' = Append(runq, Task(leader[w]))
      BY <2>2, HeldAreFibers DEF Resubmit, Work, Looks, StrandInv, JobsInv
    <3> QED
      BY <3>1, OnlyLooker, TheTaskIsOne, QueueKeepsWithTask
  <2>3. CASE UNCHANGED runq
    BY <2>3, QueueRests
  <2> QED
    BY <2>1, <2>2, <2>3 DEF Combine, LeadEnds, Return, GetChain, RunCallBack, Advance, Account, runtime
<1>3. \A f \in Fibers : pc'[f] = "serve" <=> pc[f] = "serve"
  <2>1. CASE Combine(w) \/ LeadEnds(w) \/ Return(w)
    BY <2>1 DEF Combine, LeadEnds, Return, Goto, At, StrandInv, TypeOK
  <2>2. CASE RunCallBack(w)
    <3>1. PICK f \in Fibers : f = Head(batch[w]) /\ f = batch[w][1] /\ 1 \in DOMAIN batch[w]
      BY <2>2, BatchTail, PtrIsFirst DEF RunCallBack, Work
    <3>2. pc' = [pc EXCEPT ![f] = "called"]
      BY <2>2, <3>1, PtrIsFirst DEF RunCallBack, Work
    <3>3. pc[f] = "wait"
      BY <2>2, <3>1 DEF RunCallBack, Work, StrandInv, QueuedInv
    <3> QED
      BY <3>2, <3>3 DEF StrandInv, TypeOK
  <2>3. CASE UNCHANGED pc
    BY <2>3
  <2> QED
    BY <2>1, <2>2, <2>3 DEF TakeTask, GetChain, Advance, Account, Resubmit
<1>4. Parked' = Parked
  <2>1. CASE GetChain(w)
    <3>1. /\ job[w] = "chain" /\ stack' = <<>> /\ batch' = [batch EXCEPT ![w] = Reverse(stack)]
          /\ UNCHANGED <<awaiter, pc>>
      BY <2>1 DEF GetChain, Work, runtime
    <3>2. Looks(w) /\ batch[w] = <<>>
      BY <3>1 DEF Looks, StrandInv, JobsInv
    <3>3. /\ batch'[w] = Reverse(stack)
          /\ \A v \in Workers : v # w => batch[v] = <<>> /\ batch'[v] = <<>>
      BY <3>1, <3>2, OnlyLooker DEF StrandInv, TypeOK
    <3>4. InBatches = Range(<<>>) /\ InBatches' = Range(stack)
      BY <3>2, <3>3, BatchesOf, BatchesOfAfter, ReverseRange DEF StrandInv, TypeOK
    <3>5. Range(<<>>) = {}
      BY DEF Range
    <3> QED
      BY <3>1, <3>4, <3>5 DEF Parked
  <2>2. CASE UNCHANGED <<stack, batch>>
    BY <1>1, <1>3, <2>2, ParkedRests
  <2> QED
    BY <2>1, <2>2
       DEF Combine, LeadEnds, Return, TakeTask, RunCallBack, Advance, Account, Resubmit, serving
<1> QED
  BY <1>1, <1>2, <1>4 DEF FibersSteps

LEMMA FibersStepOfStrand == StrandInv /\ LinksInv /\ ServingInv /\ [Next]_vars => FibersSteps
<1>1. ASSUME StrandInv, LinksInv, ServingInv, NEW w \in Workers, OnWorker(w) PROVE FibersSteps
  BY <1>1, AwaiterParks, StrandParks, EndsWake, ResumeResumes, RuntimeSteps, RunYieldYields
     DEF OnWorker
<1>2. ASSUME StrandInv, LinksInv, NEW w \in Workers, OnFiber(w) PROVE FibersSteps
  BY <1>2, StrandParks, SuspendSuspends, RuntimeSteps DEF OnFiber, Leave, Finish
<1>3. ASSUME UNCHANGED vars PROVE FibersSteps
  <2>1. Parked' = Parked
    BY <1>3, ParkedRests DEF vars, runtime, strand, serving
  <2> QED
    BY <1>3, <2>1, QueueRests DEF FibersSteps, vars, runtime
<1> QED
  BY <1>1, <1>2, <1>3, StartStarts DEF Next

LEMMA FibersInitOfStrand == Init => Parking!Init
<1> SUFFICES ASSUME Init PROVE Parking!Init
  OBVIOUS
<1>1. FiberQueue = <<>>
  BY DEF Init, RuntimeInit, FiberQueue, TaskPlaces
<1>2. Parked = {}
  <2>1. Range(<<>>) = {}
    BY DEF Range
  <2> QED
    BY <2>1 DEF Init, Parked, InBatches
<1> QED
  BY <1>1, <1>2 DEF Init, RuntimeInit, Parking!Init, Parking!RuntimeInit, Parked

\* The strand schedules only fibers it was given a handle of, each of them once,
\* and none before it is off its stack: the leader out of its own task too.
THEOREM StrandImplementsFibers == Spec => ImplementsFibers
<1>1. StrandInv /\ LinksInv /\ ServingInv /\ [Next]_vars => [Parking!Next]_(Parking!vars)
  BY FibersStepOfStrand DEF FibersSteps, Parking!vars, Parking!runtime, Parked
<1>2. Spec => []ServingInv
  BY ServingInit, ServingStep, StrandInvsHold, PTL DEF Spec
<1>3. Spec => Parking!Spec
  BY <1>1, <1>2, FibersInitOfStrand, StrandInvsHold, PTL DEF Spec, Parking!Spec
<1> QED
  BY <1>3 DEF ImplementsFibers
=============================================================================
