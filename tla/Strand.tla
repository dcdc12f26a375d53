------------------------------- MODULE Strand -------------------------------
(***************************************************************************)
(* exe::fibers::Strand (exe/fibers/sync/strand.hpp), used by fibers on a   *)
(* scheduler.  Who finds the strand idle is the leader: it runs its own    *)
(* callback and, if others have come meanwhile, suspends and submits       *)
(* itself as a task that runs the callbacks of the others, batch after     *)
(* batch, before the leader is scheduled again.  One action is one atomic  *)
(* operation on count_ or on the stack, the start or the end of a          *)
(* callback, one Submit, or one step of the fiber runtime.                 *)
(*                                                                         *)
(* pc[f] says where fiber f is:                                            *)
(*   out       not in Combine                                              *)
(*   lead      the leader, in its own callback, which may yield            *)
(*   handover  the leader, before Suspend                                  *)
(*   serve     the leader, suspended                                       *)
(*   join      not the leader, before Suspend                              *)
(*   wait      suspended until its callback has been run                   *)
(*   called    suspended, its callback is running                          *)
(*   back      Combine returns as soon as f runs                           *)
(* job[w] says where worker w is in SimpleAwaiter::Run:                    *)
(*   none      not in it                                                   *)
(*   chain     before stack_.GetChain()                                    *)
(*   batch     at the head of the loop                                     *)
(*   call      in a callback                                               *)
(*   next      behind the Schedule of the fiber whose callback it was      *)
(*   release   before the leader's Schedule                                *)
(*   again     before the Submit of itself                                 *)
(*                                                                         *)
(* An awaiter is on the stack of its fiber: it is gone when Combine has    *)
(* returned, which may be as soon as its fiber has been scheduled.         *)
(***************************************************************************)
EXTENDS FiberRuntime, FiniteSets, SequencesExt

VARIABLES count,     \* count_
          stack,     \* stack_, the fibers of its awaiters, newest first
          next,      \* next[f]: next_ of f's awaiter, after Reverse
          ptr,       \* ptr[w], temp[w]: the fibers of the awaiters that
          temp,      \*   these local variables of Run point to
          ran,       \* ran[w]: how many of the batch it has run
          leader,    \* leader[w]: the fiber whose SimpleAwaiter w runs
          job, pc,
          batch      \* history: what w has taken and not run, oldest first

serving == <<ptr, temp, batch, ran, leader, job>>
strand == <<count, stack, next, serving, pc>>
vars == <<runtime, strand>>

Labels == {"out", "lead", "handover", "serve", "join", "wait", "called", "back"}

Jobs == {"none", "chain", "batch", "call", "next", "release", "again"}

\* A leader's SimpleAwaiter as a task in the scheduler's queue.
Task(f) == [awaiter |-> f]

ASSUME StrandAssumption ==
  /\ IsFiniteSet(Fibers) /\ None \notin Fibers \union {"yield", "leader", "strand"}
  /\ \A f \in Fibers : Task(f) \notin Fibers

Init ==
  /\ RuntimeInit
  /\ count = 0 /\ stack = <<>> /\ next = [f \in Fibers |-> None]
  /\ ptr = [w \in Workers |-> None] /\ temp = [w \in Workers |-> None]
  /\ batch = [w \in Workers |-> <<>>] /\ ran = [w \in Workers |-> 0]
  /\ leader = [w \in Workers |-> None] /\ job = [w \in Workers |-> "none"]
  /\ pc = [f \in Fibers |-> "out"]

At(w, label) == running[w] # None /\ pc[running[w]] = label

\* The fiber on w goes from one label to another.
Goto(w, from, to) == At(w, from) /\ pc' = [pc EXCEPT ![running[w]] = to]

\* Worker w goes from one label to another in SimpleAwaiter::Run.
Work(w, from, to) == job[w] = from /\ job' = [job EXCEPT ![w] = to]

\* The fiber of the first awaiter of a chain.
First(chain) == IF chain = <<>> THEN None ELSE Head(chain)

\* All next_ when the awaiters of a chain are linked in its order.
Linked(chain) ==
  [f \in Fibers |->
     IF \E i \in DOMAIN chain : chain[i] = f
       THEN LET i == CHOOSE i \in DOMAIN chain : chain[i] = f
            IN  IF i = Len(chain) THEN None ELSE chain[i + 1]
       ELSE next[f]]
-----------------------------------------------------------------------------
\* Faulty variants, one plausible slip each; no specification uses them.
\* The batch is taken without its reversal.
GetChainAsIs(w) ==
  /\ Work(w, "chain", "batch")
  /\ next' = Linked(stack)
  /\ ptr' = [ptr EXCEPT ![w] = First(stack)]
  /\ batch' = [batch EXCEPT ![w] = stack]
  /\ ran' = [ran EXCEPT ![w] = 0]
  /\ stack' = <<>>
  /\ UNCHANGED <<runtime, count, temp, leader, pc>>

\* next_ is read after Schedule, when the awaiter may be gone.
AdvanceLate(w) ==
  /\ Work(w, "next", "batch")
  /\ ptr' = [ptr EXCEPT ![w] = next[ptr[w]]]
  /\ temp' = [temp EXCEPT ![w] = None]
  /\ UNCHANGED <<runtime, count, stack, next, batch, ran, leader, pc>>

\* The leader is done when the stack is empty.
AccountByStack(w) ==
  /\ ptr[w] = None
  /\ Work(w, "batch", IF stack = <<>> THEN "release" ELSE "again")
  /\ count' = count - ran[w]
  /\ ran' = [ran EXCEPT ![w] = 0]
  /\ UNCHANGED <<runtime, stack, next, ptr, temp, batch, leader, pc>>
-----------------------------------------------------------------------------
\* Combine: count_.fetch_add(1), and the callback of a leader starts.
Combine(w) ==
  /\ Goto(w, "out", IF count = 0 THEN "lead" ELSE "join")
  /\ count' = count + 1
  /\ UNCHANGED <<runtime, stack, next, serving>>

\* Combine: the leader's callback has run, count_.fetch_sub(1).
LeadEnds(w) ==
  /\ Goto(w, "lead", IF count = 1 THEN "back" ELSE "handover")
  /\ count' = count - 1
  /\ UNCHANGED <<runtime, stack, next, serving>>

SuspendToServe(w) ==
  /\ Goto(w, "handover", "serve") /\ Suspend(w, "leader")
  /\ UNCHANGED <<count, stack, next, serving>>

SuspendInCombine(w) ==
  /\ Goto(w, "join", "wait") /\ Suspend(w, "strand")
  /\ UNCHANGED <<count, stack, next, serving>>

\* SimpleAwaiter::RunAwaiter: submit the task.
RunLeaderAwaiter(w) ==
  /\ RunsAwaiter(w, "leader")
  /\ TakeAwaiter(w)
  /\ runq' = Append(runq, Task(after[w]))
  /\ UNCHANGED strand

\* StrandAwaiter::RunAwaiter: push.
RunStrandAwaiter(w) ==
  /\ RunsAwaiter(w, "strand")
  /\ TakeAwaiter(w)
  /\ stack' = <<after[w]>> \o stack
  /\ UNCHANGED <<runq, count, next, serving, pc>>

\* A worker takes a leader's task off the scheduler's queue ...
TakeTask(w) ==
  /\ running[w] = None /\ after[w] = None
  /\ runq # <<>> /\ Head(runq) \notin Fibers
  /\ Work(w, "none", "chain")
  /\ leader' = [leader EXCEPT ![w] = Head(runq).awaiter]
  /\ runq' = Tail(runq)
  /\ UNCHANGED <<running, after, awaiter, coro, count, stack, next, ptr, temp, batch, ran, pc>>

\* ... and runs it: stack_.GetChain() and Reverse, which links the oldest to
\* the next oldest and so on.
GetChain(w) ==
  /\ Work(w, "chain", "batch")
  /\ next' = Linked(Reverse(stack))
  /\ ptr' = [ptr EXCEPT ![w] = First(Reverse(stack))]
  /\ batch' = [batch EXCEPT ![w] = Reverse(stack)]
  /\ ran' = [ran EXCEPT ![w] = 0]
  /\ stack' = <<>>
  /\ UNCHANGED <<runtime, count, temp, leader, pc>>

\* The loop: next_ is read, and the callback starts.
RunCallBack(w) ==
  /\ ptr[w] # None
  /\ Work(w, "batch", "call")
  /\ temp' = [temp EXCEPT ![w] = next[ptr[w]]]
  /\ pc' = [pc EXCEPT ![ptr[w]] = "called"]
  /\ UNCHANGED <<runtime, count, stack, next, ptr, batch, ran, leader>>

\* The callback has returned, and its fiber is scheduled.
CallBackEnds(w) ==
  /\ Work(w, "call", "next")
  /\ pc' = [pc EXCEPT ![ptr[w]] = "back"]
  /\ Schedule(ptr[w])
  /\ batch' = [batch EXCEPT ![w] = Tail(@)]
  /\ ran' = [ran EXCEPT ![w] = @ + 1]
  /\ UNCHANGED <<running, after, awaiter, coro, count, stack, next, ptr, temp, leader>>

\* On to the next awaiter.
Advance(w) ==
  /\ Work(w, "next", "batch")
  /\ ptr' = [ptr EXCEPT ![w] = temp[w]]
  /\ temp' = [temp EXCEPT ![w] = None]
  /\ UNCHANGED <<runtime, count, stack, next, batch, ran, leader, pc>>

\* count_.fetch_sub(count): is anybody counted and not run?
Account(w) ==
  /\ ptr[w] = None
  /\ Work(w, "batch", IF ran[w] = count THEN "release" ELSE "again")
  /\ count' = count - ran[w]
  /\ ran' = [ran EXCEPT ![w] = 0]
  /\ UNCHANGED <<runtime, stack, next, ptr, temp, batch, leader, pc>>

Release(w) ==
  /\ Work(w, "release", "none")
  /\ pc' = [pc EXCEPT ![leader[w]] = "back"]
  /\ Schedule(leader[w])
  /\ leader' = [leader EXCEPT ![w] = None]
  /\ UNCHANGED <<running, after, awaiter, coro, count, stack, next, ptr, temp, batch, ran>>

Resubmit(w) ==
  /\ Work(w, "again", "none")
  /\ runq' = Append(runq, Task(leader[w]))
  /\ leader' = [leader EXCEPT ![w] = None]
  /\ UNCHANGED <<running, after, awaiter, coro, count, stack, next, ptr, temp, batch, ran, pc>>

\* Combine returns, and the awaiter is gone with what it held.
Return(w) ==
  /\ Goto(w, "back", "out")
  /\ next' = [next EXCEPT ![running[w]] = None]
  /\ UNCHANGED <<runtime, count, stack, serving>>

\* The rest of the program: a fiber yields, also in the callback it runs as the
\* leader, or completes, and new ones start.
Yield(w) ==
  /\ At(w, "out") \/ At(w, "lead")
  /\ Suspend(w, "yield")
  /\ UNCHANGED strand

Finish(w) == At(w, "out") /\ Complete(w) /\ UNCHANGED strand

Leave(w) == Yield(w) \/ Finish(w)

Start(f) == Go(f) /\ UNCHANGED strand

\* A worker that is in no task takes a fiber off the queue.
ResumeFiber(w) == job[w] = "none" /\ runq # <<>> /\ Head(runq) \in Fibers /\ Resume(w)

OnWorker(w) ==
  \/ RunLeaderAwaiter(w) \/ RunStrandAwaiter(w)
  \/ TakeTask(w) \/ GetChain(w) \/ RunCallBack(w) \/ CallBackEnds(w)
  \/ Advance(w) \/ Account(w) \/ Release(w) \/ Resubmit(w)
  \/ (ResumeFiber(w) \/ Reap(w) \/ RunYield(w)) /\ UNCHANGED strand

OnFiber(w) ==
  \/ Combine(w) \/ LeadEnds(w) \/ SuspendToServe(w) \/ SuspendInCombine(w)
  \/ Return(w) \/ Leave(w)

Next ==
  \/ \E f \in Fibers : Start(f)
  \/ \E w \in Workers : OnWorker(w) \/ OnFiber(w)

Spec == Init /\ [][Next]_vars

\* Threads that can run do, callbacks return, however often a leader's yields,
\* and no fiber calls Combine for ever without leaving its worker now and then.
FairSpec ==
  /\ Spec
  /\ \A w \in Workers :
       /\ WF_vars(OnWorker(w)) /\ WF_vars(OnFiber(w))
       /\ SF_vars(Leave(w)) /\ SF_vars(LeadEnds(w))
-----------------------------------------------------------------------------
TypeOK ==
  /\ runq \in Seq(Fibers \union {Task(f) : f \in Fibers})
  /\ running \in [Workers -> Fibers \union {None}]
  /\ after \in [Workers -> Fibers \union {None}]
  /\ coro \in [Fibers -> CoroStates]
  /\ awaiter \in [Fibers -> {None, "yield", "leader", "strand"}]
  /\ count \in Nat /\ stack \in Seq(Fibers)
  /\ next \in [Fibers -> Fibers \union {None}]
  /\ ptr \in [Workers -> Fibers \union {None}] /\ temp \in [Workers -> Fibers \union {None}]
  /\ batch \in [Workers -> Seq(Fibers)] /\ ran \in [Workers -> Nat]
  /\ leader \in [Workers -> Fibers \union {None}]
  /\ job \in [Workers -> Jobs] /\ pc \in [Fibers -> Labels]

\* The fibers whose callback has not run to its end.
Counted == {f \in Fibers : pc[f] \in {"lead", "join", "wait", "called"}}

\* count_ is what the next Combine and the leader decide by: everyone whose
\* callback has not run, in the stack or on its way there, and those of the
\* present batch that have, of which one worker at most keeps a number.
CountIsExact ==
  LET some == {w \in Workers : ran[w] # 0}
  IN  \/ some = {} /\ count = Cardinality(Counted)
      \/ \E w \in Workers : some = {w} /\ count = Cardinality(Counted) + ran[w]

\* Where the scheduler's queue has a leader's task.
TaskPlaces == {i \in DOMAIN runq : runq[i] \notin Fibers}

\* While somebody is counted there is one leader to look after it: in its
\* callback, on its way to the scheduler, there, or being run by one worker.
OneLeader ==
  LET fibers == {f \in Fibers : pc[f] = "lead" \/ pc[f] = "handover" \/ awaiter[f] = "leader"}
      jobs   == {w \in Workers : job[w] \in {"chain", "batch", "call", "next", "again"}}
      leaders == Cardinality(fibers) + Cardinality(TaskPlaces) + Cardinality(jobs)
  IN  IF count > 0 THEN leaders = 1 ELSE leaders = 0

\* One leader as long as the exact count is not 0.
LeaderInv == TypeOK /\ CountIsExact /\ OneLeader

\* A call that is not the leader's returns.  (The leader may be kept serving by
\* fibers that keep coming.)
CombineReturns == \A f \in Fibers : pc[f] \in {"join", "wait"} ~> pc[f] = "out"

\* Awaiters in the stack and in a batch, and leaders whose task is submitted,
\* are parked fibers; the task in the scheduler's queue, of which there is one
\* at most, is none of their concern.
InBatches == UNION {Range(batch[w]) : w \in Workers}

FiberQueue ==
  IF TaskPlaces = {} THEN runq ELSE RemoveAt(runq, CHOOSE i \in TaskPlaces : TRUE)

Parking == INSTANCE Fibers WITH
  Awaiters <- {"yield", "leader", "strand"},
  runq <- FiberQueue,
  parked <- Range(stack) \union InBatches
              \union {f \in Fibers : pc[f] = "serve" /\ awaiter[f] = None}

ImplementsFibers == Parking!Spec

\* Strand is a strand.
Serving(w) == IF job[w] = "call" THEN Tail(batch[w]) ELSE batch[w]

Line ==
  LET busy == {w \in Workers : batch[w] # <<>>}
  IN  (IF busy = {} THEN <<>> ELSE Serving(CHOOSE w \in busy : TRUE)) \o Reverse(stack)

Inside ==
  LET in == {f \in Fibers : pc[f] \in {"lead", "called"}}
  IN  IF in = {} THEN None ELSE CHOOSE f \in in : TRUE

AbstractStrand == INSTANCE Combiner WITH
  Callers <- Fibers, Nobody <- None, line <- Line, inside <- Inside,
  served <- {f \in Fibers : pc[f] \in {"handover", "serve", "back"}}

ImplementsCombiner == AbstractStrand!Spec
=============================================================================
