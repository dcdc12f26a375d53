------------------------------ MODULE RunLoop ------------------------------
(***************************************************************************)
(* exe::sched::RunLoop (exe/sched/run_loop.cpp) over IntrusiveListSimple   *)
(* (exe/infra/queues/intrusive_queue.hpp), with the tasks it is given: on  *)
(* one thread, every task may submit others, itself, and call the loop     *)
(* from inside its own Run.                                                *)
(*                                                                         *)
(* frames is the thread's call stack as far as it is the loop's: one       *)
(* record per call of Run or RunAtMost that has not returned.  An action   *)
(* is a call, an iteration up to task->Run(), the return of that, or the   *)
(* return of the call; nothing interleaves with it but the task itself.    *)
(***************************************************************************)
EXTENDS Naturals, Sequences, FiniteSets, SequencesExt

CONSTANTS Jobs,       \* tasks made of functions: each deletes itself in Run
          Intrusive,  \* tasks that outlive their Run: fibers and the like
          NoTask,     \* nullptr
          Limits,     \* the limits of RunAtMost; RunNext has 1
          MaxDepth,   \* bound: calls of the loop inside one another
          MaxRuns     \* bound: the number of tasks submitted in one execution

ASSUME LoopAssumption ==
  /\ Jobs \intersect Intrusive = {} /\ NoTask \notin Jobs \union Intrusive
  /\ IsFiniteSet(Jobs) /\ IsFiniteSet(Intrusive)
  /\ Limits \subseteq Nat /\ MaxDepth \in Nat /\ MaxRuns \in Nat

VARIABLES head, tail, size,  \* queue_
          next,     \* next[t]: next_node_
          alive,    \* the tasks whose object exists
          frames,
          ran,      \* history: the tasks that have been run
          reported  \* history: the sum of what calls have returned

list == <<head, tail, size, next>>
loopVars == <<list, alive, frames, ran, reported>>

Tasks == Jobs \union Intrusive

\* A limit no execution reaches: Run has none.
NoLimit == MaxRuns + 1

Frame == [limit : Limits \union {1, NoLimit}, value : 0 .. MaxRuns, task : Tasks \union {NoTask}]

Top == Last(frames)

\* The frames under the changed top one.
WithTop(frame) == Append(Front(frames), frame)

\* The loop's own code runs; otherwise the program's, or the top frame's task.
InLoop == frames # <<>> /\ Top.task = NoTask

Running == {frames[i].task : i \in DOMAIN frames} \ {NoTask}

\* The list as its links have it.
Link(t) == IF t \in Tasks THEN next[t] ELSE NoTask

Line ==
  LET node[i \in 1 .. size] == IF i = 1 THEN head ELSE Link(node[i - 1])
  IN  [i \in 1 .. size |-> node[i]]

LoopInit ==
  /\ head = NoTask /\ tail = NoTask /\ size = 0
  /\ next = [t \in Tasks |-> NoTask]
  /\ alive = Intrusive
  /\ frames = <<>>
  /\ ran = 0 /\ reported = 0
-----------------------------------------------------------------------------
\* Faulty variants, one plausible slip each; no specification uses them.
\* The loop takes a task out of the list when it has been run.
PeekNext ==
  /\ InLoop /\ Top.value < Top.limit
  /\ size # 0
  /\ frames' = WithTop([Top EXCEPT !.task = head])
  /\ ran' = ran + 1
  /\ UNCHANGED <<list, alive, reported>>

\* Push looks at head_ where Pop has left tail_ alone.
PushInFront(t) ==
  /\ next' = [next EXCEPT ![t] = head]
  /\ head' = t
  /\ tail' = IF size = 0 THEN t ELSE tail
  /\ size' = size + 1
-----------------------------------------------------------------------------
\* IntrusiveListSimple::Push and Pop; Close has no caller.
Push(t) ==
  /\ next' = [u \in Tasks |->
       IF u = t THEN NoTask ELSE IF size # 0 /\ u = tail THEN t ELSE next[u]]
  /\ head' = IF size = 0 THEN t ELSE head
  /\ tail' = t
  /\ size' = size + 1

Pop ==
  /\ size # 0
  /\ head' = next[head]
  /\ tail' = IF head' = NoTask THEN NoTask ELSE tail
  /\ next' = [next EXCEPT ![head] = NoTask]
  /\ size' = size - 1
-----------------------------------------------------------------------------
\* Submit(scheduler, fun): new OtherFunctions, and into the list.
SubmitJob(t) ==
  /\ ~InLoop /\ ran + size < MaxRuns /\ t \in Jobs \ alive
  /\ alive' = alive \union {t}
  /\ Push(t)
  /\ UNCHANGED <<frames, ran, reported>>

\* Submit(scheduler, task): a task that is in no list, and not being run unless
\* it is the one that submits itself.
SubmitIntrusive(t) ==
  /\ ~InLoop /\ ran + size < MaxRuns /\ t \in Intrusive \ Range(Line)
  /\ t \in Running => t = Top.task
  /\ Push(t)
  /\ UNCHANGED <<alive, frames, ran, reported>>

\* Run, RunAtMost(limit) and RunNext.  A task that submits itself (a fiber that
\* yields, a strand) does nothing more but return.
Call(limit) ==
  /\ ~InLoop /\ Len(frames) < MaxDepth
  /\ Running \intersect Range(Line) = {}
  /\ frames' = Append(frames, [limit |-> limit, value |-> 0, task |-> NoTask])
  /\ UNCHANGED <<list, alive, ran, reported>>

\* An iteration: queue_.Pop(), and into task->Run().
Iterate ==
  /\ InLoop /\ Top.value < Top.limit
  /\ Pop
  /\ frames' = WithTop([Top EXCEPT !.task = head])
  /\ ran' = ran + 1
  /\ UNCHANGED <<alive, reported>>

\* task->Run() returns; OtherFunctions has deleted itself.
RunReturns ==
  /\ frames # <<>> /\ ~InLoop
  /\ alive' = IF Top.task \in Jobs THEN alive \ {Top.task} ELSE alive
  /\ frames' = WithTop([Top EXCEPT !.task = NoTask, !.value = @ + 1])
  /\ UNCHANGED <<list, ran, reported>>

\* The loop ends: the limit is reached or the list is empty.
CallReturns ==
  /\ InLoop
  /\ Top.value = Top.limit \/ size = 0
  /\ frames' = Front(frames)
  /\ reported' = reported + Top.value
  /\ UNCHANGED <<list, alive, ran>>

LoopNext ==
  \/ \E t \in Tasks : SubmitJob(t) \/ SubmitIntrusive(t)
  \/ \E limit \in Limits \union {1, NoLimit} : Call(limit)
  \/ Iterate \/ RunReturns \/ CallReturns

LoopSpec == LoopInit /\ [][LoopNext]_loopVars
-----------------------------------------------------------------------------
LoopTypeOK ==
  /\ {head, tail} \subseteq Tasks \union {NoTask} /\ size \in Nat
  /\ next \in [Tasks -> Tasks \union {NoTask}]
  /\ alive \subseteq Tasks
  /\ frames \in Seq(Frame)
  /\ ran \in 0 .. MaxRuns /\ reported \in 0 .. MaxRuns

\* head_, the links, tail_ and size_ agree, on tasks that exist and are in the
\* list once; a task that is not in it, above all one that is being run and may
\* be deleted or submitted again any moment, has no link left.
ListIsSound ==
  /\ Range(Line) \subseteq alive /\ IsInjective(Line)
  /\ IF size = 0 THEN head = NoTask /\ tail = NoTask ELSE tail = Last(Line)
  /\ \A t \in Tasks : t \notin Range(Line) \/ t = tail => next[t] = NoTask

\* A task is run by one call at a time, exists while it is run, and has been
\* taken out of the list unless it has just submitted itself.
RunningExist ==
  /\ \A t \in Running : Cardinality({i \in DOMAIN frames : frames[i].task = t}) = 1
  /\ Running \subseteq alive
  /\ Running \intersect Range(Line) \subseteq Intrusive

\* What the calls in progress have counted so far.
Counted(calls) ==
  LET upTo[i \in 0 .. Len(calls)] == IF i = 0 THEN 0 ELSE upTo[i - 1] + calls[i].value
  IN  upTo[Len(calls)]

\* Every task that was run is counted in exactly one call, the innermost: what
\* calls have returned, are about to, and are running add up.
CountsAddUp == ran = reported + Counted(frames) + Cardinality(Running)

\* The types, the list, and the calls of the loop inside one another.
LoopInv == LoopTypeOK /\ ListIsSound /\ RunningExist /\ CountsAddUp

\* Whatever tasks and nested calls do, the list changes only by a task at its
\* end or the loss of its first one: tasks run in the order of submission.
InOrder ==
  [][\/ Line' = Line
     \/ \E t \in Tasks : Line' = Append(Line, t)
     \/ Line # <<>> /\ Line' = Tail(Line) /\ ran' = ran + 1]_loopVars
=============================================================================
