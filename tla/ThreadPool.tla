----------------------------- MODULE ThreadPool -----------------------------
(***************************************************************************)
(* exe::sched::ThreadPool (exe/sched/thread_pool.cpp) with the two objects *)
(* it is made of, IntrusiveMPMCBlockingQueue and sync::WaitGroup, and the  *)
(* condition variable inside each.                                         *)
(*                                                                         *)
(* A critical section of queue_.mutex_ or wg_.mutex_ is one action: what   *)
(* it touches is touched under that mutex only, except count_ of the       *)
(* condition variable, which each section reads or adds to at most once.   *)
(* (FutexMutex shows that the mutex excludes.)  The notification a         *)
(* critical section is followed by is two further steps: count_.fetch_add  *)
(* and the futex call.                                                     *)
(*                                                                         *)
(* Labels besides those of CondVar:                                        *)
(*   new      a worker before Start                                        *)
(*   pop      a worker before queue_.mutex_.lock() in Pop, or in cv_.Wait  *)
(*   run      a worker inside task->Run()                                  *)
(*   done     a worker before wg_.Done()                                   *)
(*   exit     a worker whose WorkerRoutine has returned                    *)
(*   idle     a client, or Main, outside the pool                          *)
(*   push, notify, wakeone   the rest of Submit, in any thread             *)
(*   stop     Main in wg_.Wait(), before its first look at count_workers_  *)
(*   recheck  Main in wg_.Wait(), back from cv_.Wait()                     *)
(*   close, notifyall, wakeall, join   the rest of Stop                    *)
(*   stopped  Main, Stop has returned                                      *)
(***************************************************************************)
EXTENDS CondVar, Sequences, FiniteSets

CONSTANTS Workers,   \* the pool's threads
          Clients,   \* other threads that submit tasks
          Main,      \* the thread that starts and stops the pool, and submits
          Tasks,     \* the tasks of one execution, each submitted at most once
          NoTask

ASSUME ThreadsAssumption ==
  /\ Workers \intersect Clients = {} /\ Main \notin Workers \union Clients
  /\ IsFiniteSet(Workers) /\ IsFiniteSet(Clients) /\ IsFiniteSet(Tasks)
  /\ NoTask \notin Tasks
  /\ CondVars = {"queue", "wg"}

\* queue_.cv_ counts one notification for every task and one for Close: in an
\* execution of fewer tasks the word does not come round.
ASSUME NotificationsAssumption == Cardinality(Tasks) + 1 < WordSize

VARIABLES queue,     \* queue_: the intrusive list, oldest task first
          availible, \* queue_.availible_ (the source's spelling)
          workers,   \* wg_.count_workers_
          waiters,   \* wg_.waiters_
          cur,       \* cur[w]: the task worker w is running
          arg,       \* arg[t]: the task thread t is submitting
          finished   \* the tasks that have run

pool == <<queue, availible, workers, waiters, cur, arg, finished>>
vars == <<count, ticket, pc, pool>>

PoolThreads == Workers \union Clients \union {Main}

Labels == {"new", "pop", "run", "done", "exit", "idle", "push", "notify", "wakeone",
           "stop", "recheck", "close", "notifyall", "wakeall", "join", "stopped",
           "wait", "asleep", "reload"}

Holding(f) == {f[t] : t \in DOMAIN f} \ {NoTask}

Queued == {queue[i] : i \in DOMAIN queue}

Submitted == Queued \union Holding(cur) \union Holding(arg) \union finished

EmptyQueue == queue = <<>> /\ availible = TRUE

Init ==
  /\ count = [v \in CondVars |-> 0]
  /\ ticket = [t \in PoolThreads |-> [cv |-> "queue", value |-> 0]]
  /\ pc = [t \in PoolThreads |-> IF t \in Workers THEN "new" ELSE "idle"]
  /\ EmptyQueue
  /\ workers = 0 /\ waiters = 0
  /\ cur = [w \in Workers |-> NoTask] /\ arg = [t \in PoolThreads |-> NoTask]
  /\ finished = {}

\* Main has not called Stop; it may be in a Submit of its own.
BeforeStop == pc[Main] \in {"idle", "push", "notify", "wakeone"}
-----------------------------------------------------------------------------
\* Faulty variants, one plausible slip each; no specification uses them.
\* Submit does not count the tasks that tasks submit.
SubmitUncounted(t, k) ==
  /\ k \notin Submitted
  /\ Goto(t, IF t \in Workers THEN "run" ELSE "idle", "push")
  /\ t \in Clients => BeforeStop
  /\ arg' = [arg EXCEPT ![t] = k]
  /\ workers' = IF t \in Workers THEN workers ELSE workers + 1
  /\ UNCHANGED <<count, ticket, queue, availible, waiters, cur, finished>>

\* Push notifies only when the queue was empty.
PushQuietly(t) ==
  /\ Goto(t, "push", IF queue = <<>> THEN "notify" ELSE IF t \in Workers THEN "run" ELSE "idle")
  /\ queue' = Append(queue, arg[t])
  /\ arg' = [arg EXCEPT ![t] = NoTask]
  /\ UNCHANGED <<count, ticket, availible, workers, waiters, cur, finished>>

\* Close does not wake the workers that sleep.
CloseOne(t) ==
  /\ WakeOne(t, "queue", "wakeall", "join")
  /\ UNCHANGED pool

\* Stop closes the queue without waiting for the tasks.
CallStopAtOnce ==
  /\ \A w \in Workers : pc[w] # "new"
  /\ \A c \in Clients : pc[c] = "idle"
  /\ Goto(Main, "idle", "close")
  /\ UNCHANGED <<count, ticket, pool>>
-----------------------------------------------------------------------------
\* Start.
Start ==
  /\ pc[Main] = "idle" /\ \A w \in Workers : pc[w] = "new"
  /\ pc' = [t \in PoolThreads |-> IF t \in Workers THEN "pop" ELSE pc[t]]
  /\ UNCHANGED <<count, ticket, pool>>

\* Submit by a client, by Main or by the task a worker runs: wg_.Add(1).
\* Clients stop submitting before Main calls Stop.
Submit(t, k) ==
  /\ k \notin Submitted
  /\ Goto(t, IF t \in Workers THEN "run" ELSE "idle", "push")
  /\ t \in Clients => BeforeStop
  /\ arg' = [arg EXCEPT ![t] = k]
  /\ workers' = workers + 1
  /\ UNCHANGED <<count, ticket, queue, availible, waiters, cur, finished>>

\* queue_.Push, its critical section.
Push(t) ==
  /\ Goto(t, "push", "notify")
  /\ queue' = Append(queue, arg[t])
  /\ arg' = [arg EXCEPT ![t] = NoTask]
  /\ UNCHANGED <<count, ticket, availible, workers, waiters, cur, finished>>

\* queue_.Push and queue_.Close, cv_: the count and then the futex call.
NotifyQueue(t) ==
  /\ \/ Goto(t, "notify", "wakeone")
     \/ Goto(t, "notifyall", "wakeall")
  /\ Notify("queue")
  /\ UNCHANGED <<ticket, pool>>

WakeWorker(t) ==
  /\ WakeOne(t, "queue", "wakeone", IF t \in Workers THEN "run" ELSE "idle")
  /\ UNCHANGED pool

WakeWorkers(t) ==
  /\ WakeAll(t, "queue", "wakeall", "join")
  /\ UNCHANGED <<count, ticket, pool>>

\* The critical section of queue_.Pop: take a task, or give up on a closed
\* queue, or wait.
PopTask(w) ==
  /\ queue # <<>> /\ Goto(w, "pop", "run")
  /\ cur' = [cur EXCEPT ![w] = Head(queue)]
  /\ queue' = Tail(queue)
  /\ UNCHANGED <<count, ticket, availible, workers, waiters, arg, finished>>

PopClosed(w) ==
  /\ queue = <<>> /\ ~availible /\ Goto(w, "pop", "exit")
  /\ UNCHANGED <<count, ticket, pool>>

PopWait(w) ==
  /\ queue = <<>> /\ availible /\ BeginWait(w, "queue", "pop")
  /\ UNCHANGED <<count, pool>>

\* task->Run() returns.
RunReturns(w) ==
  /\ Goto(w, "run", "done")
  /\ finished' = finished \union {cur[w]}
  /\ cur' = [cur EXCEPT ![w] = NoTask]
  /\ UNCHANGED <<count, ticket, queue, availible, workers, waiters, arg>>

\* wg_.Done().
Done(w) ==
  /\ workers' = workers - 1
  /\ IF workers' = 0 /\ waiters # 0
       THEN /\ Notify("wg") /\ WakeAll(w, "wg", "done", "pop") /\ waiters' = 0
       ELSE Goto(w, "done", "pop") /\ UNCHANGED <<count, waiters>>
  /\ UNCHANGED <<ticket, queue, availible, cur, arg, finished>>

\* Main calls Stop.
CallStop ==
  /\ \A w \in Workers : pc[w] # "new"
  /\ \A c \in Clients : pc[c] = "idle"
  /\ Goto(Main, "idle", "stop")
  /\ UNCHANGED <<count, ticket, pool>>

\* wg_.Wait(), its critical sections: the first look at the count and the
\* looks after cv_.Wait.  Only the first one adds to waiters_.
WgWait ==
  /\ \/ /\ workers # 0
        /\ \/ BeginWait(Main, "wg", "stop") /\ waiters' = waiters + 1
           \/ BeginWait(Main, "wg", "recheck") /\ UNCHANGED waiters
     \/ /\ workers = 0
        /\ pc[Main] \in {"stop", "recheck"} /\ pc' = [pc EXCEPT ![Main] = "close"]
        /\ UNCHANGED <<ticket, waiters>>
  /\ UNCHANGED <<count, queue, availible, workers, cur, arg, finished>>

\* queue_.Close(), its critical section.
Close ==
  /\ Goto(Main, "close", "notifyall")
  /\ availible' = FALSE
  /\ UNCHANGED <<count, ticket, queue, workers, waiters, cur, arg, finished>>

\* thread.join() for every worker.
Join ==
  /\ \A w \in Workers : pc[w] = "exit"
  /\ Goto(Main, "join", "stopped")
  /\ UNCHANGED <<count, ticket, pool>>

\* The steps inside cv_.Wait.
CvWait(t) ==
  /\ FutexWait(t) \/ Reload(t, IF t \in Workers THEN "pop" ELSE "recheck")
  /\ UNCHANGED pool

SpuriousReturn(t) == SpuriousWake(t) /\ UNCHANGED pool

\* What thread t does once it is in a call of the pool or of a task.
Step(t) ==
  \/ Push(t) \/ NotifyQueue(t) \/ WakeWorker(t) \/ WakeWorkers(t) \/ CvWait(t)
  \/ /\ t \in Workers
     /\ PopTask(t) \/ PopClosed(t) \/ PopWait(t) \/ RunReturns(t) \/ Done(t)
  \/ t = Main /\ (WgWait \/ Close \/ Join)

\* The pool is stopped and every thread is out of it.
Stopped == pc[Main] = "stopped" /\ UNCHANGED vars

Next ==
  \/ Start \/ CallStop \/ Stopped
  \/ \E t \in PoolThreads : Step(t) \/ SpuriousReturn(t) \/ \E k \in Tasks : Submit(t, k)

Spec == Init /\ [][Next]_vars

\* Every thread that can run does; tasks return; Main starts the pool.  Nobody
\* is obliged to submit or to stop the pool, and no spurious wake-up is owed.
FairSpec == Spec /\ WF_vars(Start) /\ \A t \in PoolThreads : WF_vars(Step(t))
-----------------------------------------------------------------------------
TypeOK ==
  /\ count \in [CondVars -> 0 .. WordSize - 1]
  /\ ticket \in [PoolThreads -> [cv : CondVars, value : 0 .. WordSize - 1]]
  /\ pc \in [PoolThreads -> Labels]
  /\ queue \in Seq(Tasks) /\ availible \in BOOLEAN
  /\ workers \in Nat /\ waiters \in 0 .. 1
  /\ cur \in [Workers -> Tasks \union {NoTask}]
  /\ arg \in [PoolThreads -> Tasks \union {NoTask}]
  /\ finished \subseteq Tasks

\* wg_ counts exactly the tasks that Stop has to wait for: being submitted,
\* queued, running, or run and not yet reported by Done.
WaitGroupCountsTasks ==
  workers = Len(queue) + Cardinality({t \in PoolThreads : arg[t] # NoTask})
              + Cardinality({w \in Workers : cur[w] # NoTask \/ pc[w] = "done"})

\* The types, and the count that Stop relies on.
CountingInv == TypeOK /\ WaitGroupCountsTasks

\* A worker that will look into the queue without another wake-up.
WillPop(w) == pc[w] \in {"new", "pop"} \/ (pc[w] \in {"wait", "reload"} /\ ~Fresh(w))

\* No lost wake-up: while some worker sleeps, every queued task has a worker
\* on its way to Pop or a submitter about to wake one, whoever takes the wake.
NoTaskIsMissed ==
  Asleep("queue") # {} =>
    Len(queue) <= Cardinality({w \in Workers : WillPop(w)})
                    + Cardinality({t \in PoolThreads : pc[t] \in {"notify", "wakeone"}})

\* Every task that was submitted is run.
TasksRun == \A k \in Tasks : k \in Submitted ~> k \in finished

\* Stop returns, whatever the workers were doing when it was called.
StopReturns == pc[Main] = "stop" ~> pc[Main] = "stopped"

\* The pool is a task pool: every task once, in order, and Stop only when all
\* submitted tasks have run.
Tasking == INSTANCE TaskPool WITH
  line <- queue, running <- Holding(cur), stopped <- ~availible

ImplementsTaskPool == Tasking!Spec
=============================================================================
