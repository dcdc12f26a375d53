---------------------------- MODULE ThreadProofs -----------------------------
(***************************************************************************)
(* Proofs about what is made of threads: ThreadPool for any threads and    *)
(* any tasks, SyncWaitGroup for any threads and any rounds, and Coroutine  *)
(* for any threads, fibers and callables.                                  *)
(*                                                                         *)
(* Counting says where each thread can be and what it holds there, and     *)
(* that wg_ counts the tasks that are submitted and not reported.  It      *)
(* needs to be one invariant: the count is what tells Stop that no worker  *)
(* can submit any more, and that is what keeps the count at 0 from then    *)
(* on.                                                                     *)
(*                                                                         *)
(* Once says that a task is in one place.  With Counting it gives the      *)
(* refinement of TaskPool, where Push is the step that submits.            *)
(*                                                                         *)
(* NoTaskIsMissed speaks of workers that sleep.  It rests on a fact about  *)
(* those that may still fall asleep: whoever would sleep, because count_   *)
(* is what it read in Pop, has missed no task but those whose submitter    *)
(* has not counted its notification (FreshMissNothing).  That count_ does  *)
(* not come back to a value somebody waits for is CountIsNotifications,    *)
(* the only place where the size of the word plays a part.                 *)
(*                                                                         *)
(* The second part is about SyncWaitGroup, the other client of CondVar.    *)
(* GroupKept adds to GroupInv what it rests on.  count_workers_ is what is *)
(* still owed, so a Done at work keeps the count up.  A round of the group *)
(* has an Add of its own and notifies once, so count_ does not come back   *)
(* to a value a waiter has read while the word can tell the Adds apart.    *)
(* And a waiter that was released, and not overtaken since, reads a stale  *)
(* value or has the wake-up still to come (ReleasedWake).                  *)
(*                                                                         *)
(* The third part is about Coroutine.  ContextsKept says of every stack    *)
(* what is on top of it and what its context remembers: of a fiber that    *)
(* nobody runs, that it is at its own stack (AtOwnStack); of a stack that  *)
(* has resumed a fiber, that the loop's context was left there (AtResume). *)
(* Two threads do not meet on a stack because the stacks that wait hang    *)
(* together from each thread's own (StacksAreOwned).  For the Body objects *)
(* every operation is shown to keep one owner to a callable, where some    *)
(* have a moment in which one function object is not asked (OneOwnerBut).  *)
(***************************************************************************)
EXTENDS ThreadPool, SyncWaitGroup, Coroutine, FiniteSetTheorems, TLAPS

Submitting == {"push", "notify", "wakeone"}

WaitLabels == {"wait", "asleep", "reload"}

Stopping == {"close", "notifyall", "wakeall", "join", "stopped"}

WorkerLabels == {"new", "pop", "run", "done", "exit"} \union Submitting \union WaitLabels

ClientLabels == {"idle"} \union Submitting

MainLabels == ClientLabels \union WaitLabels \union Stopping \union {"stop", "recheck"}

\* Where each thread can be, what it holds there, and what the pool looks like
\* from there.
WorkerPlaces ==
  \A w \in Workers : /\ pc[w] \in WorkerLabels /\ ticket[w].cv = "queue"
                     /\ cur[w] # NoTask <=> pc[w] \in {"run"} \union Submitting

ClientPlaces ==
  /\ \A c \in Clients : pc[c] \in ClientLabels
  /\ pc[Main] \notin ClientLabels => \A c \in Clients : pc[c] = "idle"

MainPlaces ==
  /\ pc[Main] \in MainLabels
  /\ pc[Main] \in WaitLabels => ticket[Main].cv = "wg"
  /\ pc[Main] \in ClientLabels \union {"stop"} => waiters = 0
  /\ pc[Main] \in Stopping => workers = 0
  /\ availible <=> pc[Main] \notin Stopping \ {"close"}

ArgPlaces == \A t \in PoolThreads : arg[t] # NoTask <=> pc[t] = "push"

PoolPlaces == WorkerPlaces /\ ClientPlaces /\ MainPlaces /\ ArgPlaces

\* The threads that are submitting, and the workers Stop has to wait for.
Pushing == {t \in PoolThreads : arg[t] # NoTask}

Busy == {w \in Workers : cur[w] # NoTask \/ pc[w] = "done"}

Counting == TypeOK /\ PoolPlaces /\ WaitGroupCountsTasks

\* The three kinds of threads.
LEMMA ThreadsFinite ==
  /\ IsFiniteSet(PoolThreads) /\ Main \in PoolThreads
  /\ Workers \subseteq PoolThreads /\ Clients \subseteq PoolThreads
  /\ \A w \in Workers : w \notin Clients /\ w # Main
  /\ \A c \in Clients : c \notin Workers /\ c # Main
<1>1. IsFiniteSet(Workers \union Clients)
  BY ThreadsAssumption, FS_Union
<1>2. IsFiniteSet((Workers \union Clients) \union {Main})
  BY <1>1, FS_AddElement
<1> QED
  BY <1>2, ThreadsAssumption DEF PoolThreads

\* The sets that are counted are finite.
LEMMA CountsAreNumbers ==
  /\ IsFiniteSet(Pushing) /\ Cardinality(Pushing) \in Nat
  /\ IsFiniteSet(Busy) /\ Cardinality(Busy) \in Nat
<1>1. IsFiniteSet(Pushing)
  BY ThreadsFinite, FS_Subset DEF Pushing
<1>2. IsFiniteSet(Busy)
  BY ThreadsAssumption, FS_Subset DEF Busy
<1> QED
  BY <1>1, <1>2, FS_CardinalityType

\* What is not counted is not there.
LEMMA CountedIsThere ==
  ASSUME Counting
  PROVE  /\ workers = Len(queue) + Cardinality(Pushing) + Cardinality(Busy)
         /\ workers = 0 => queue = <<>> /\ Pushing = {} /\ Busy = {}
<1>1. workers = Len(queue) + Cardinality(Pushing) + Cardinality(Busy)
  BY DEF Counting, WaitGroupCountsTasks, Pushing, Busy
<1>2. queue \in Seq(Tasks)
  BY DEF Counting, TypeOK
<1>3. Len(queue) \in Nat /\ (Len(queue) = 0 => queue = <<>>)
  BY <1>2
<1>4. workers = 0 => Len(queue) = 0 /\ Cardinality(Pushing) = 0 /\ Cardinality(Busy) = 0
  BY <1>1, <1>3, CountsAreNumbers
<1>5. Cardinality(Pushing) = 0 => Pushing = {}
  BY CountsAreNumbers, FS_EmptySet
<1>6. Cardinality(Busy) = 0 => Busy = {}
  BY CountsAreNumbers, FS_EmptySet
<1> QED
  BY <1>1, <1>3, <1>4, <1>5, <1>6

\* count_.fetch_add(1): the word stays a word.
LEMMA NextCount ==
  \A n \in 0 .. WordSize - 1 : /\ (n + 1) % WordSize \in 0 .. WordSize - 1
                               /\ n + 1 < WordSize => (n + 1) % WordSize = n + 1
  BY WordSizeAssumption
-----------------------------------------------------------------------------
\* The types and the places, action by action.
LEMMA SubmitPlaces ==
  ASSUME Counting, NEW t \in PoolThreads, NEW k \in Tasks, Submit(t, k)
  PROVE  TypeOK' /\ PoolPlaces'
<1>1. /\ pc' = [pc EXCEPT ![t] = "push"] /\ arg' = [arg EXCEPT ![t] = k]
      /\ pc[t] = (IF t \in Workers THEN "run" ELSE "idle")
      /\ t \in Clients => pc[Main] \in ClientLabels
      /\ workers' = workers + 1
      /\ UNCHANGED <<count, ticket, queue, availible, waiters, cur, finished>>
  BY DEF Submit, Goto, BeforeStop, ClientLabels, Submitting
<1>2. k # NoTask
  BY ThreadsAssumption
<1>3. TypeOK'
  BY <1>1 DEF Counting, TypeOK, Labels
<1>4. pc[Main] \notin Stopping
  <2>1. CASE t \in Workers
    <3>1. t \in Busy
      BY <1>1, <2>1 DEF Counting, PoolPlaces, WorkerPlaces, Busy
    <3> QED
      BY <3>1, CountedIsThere DEF Counting, PoolPlaces, MainPlaces
  <2>2. CASE t \notin Workers
    BY <1>1, <2>2 DEF PoolThreads, Stopping, ClientLabels, Submitting
  <2> QED
    BY <2>1, <2>2
<1>5. WorkerPlaces'
  BY <1>1, ThreadsFinite DEF Counting, TypeOK, PoolPlaces, WorkerPlaces, WorkerLabels, Submitting
<1>6. ClientPlaces'
  BY <1>1, ThreadsFinite
     DEF Counting, TypeOK, PoolPlaces, ClientPlaces, ClientLabels, Submitting, PoolThreads
<1>7. MainPlaces'
  BY <1>1, <1>4, ThreadsFinite
     DEF Counting, TypeOK, PoolPlaces, MainPlaces, ClientLabels, Submitting, PoolThreads, MainLabels,
         Stopping, WaitLabels
<1>8. ArgPlaces'
  BY <1>1, <1>2 DEF Counting, TypeOK, PoolPlaces, ArgPlaces
<1> QED
  BY <1>3, <1>5, <1>6, <1>7, <1>8 DEF PoolPlaces

LEMMA PushPlaces ==
  ASSUME Counting, NEW t \in PoolThreads, Push(t)
  PROVE  TypeOK' /\ PoolPlaces'
<1>1. /\ pc[t] = "push" /\ pc' = [pc EXCEPT ![t] = "notify"]
      /\ queue' = Append(queue, arg[t]) /\ arg' = [arg EXCEPT ![t] = NoTask]
      /\ UNCHANGED <<count, ticket, availible, workers, waiters, cur, finished>>
  BY DEF Push, Goto
<1>2. arg[t] \in Tasks
  BY <1>1 DEF Counting, TypeOK, PoolPlaces, ArgPlaces
<1>3. queue' \in Seq(Tasks)
  BY <1>1, <1>2 DEF Counting, TypeOK
<1>4. TypeOK'
  BY <1>1, <1>2, <1>3, ThreadsFinite
     DEF Counting, TypeOK, Labels
<1>5. WorkerPlaces'
  BY <1>1, <1>2, <1>3, ThreadsFinite
     DEF Counting, TypeOK, PoolPlaces, WorkerPlaces, WorkerLabels, Submitting, WaitLabels
<1>6. ClientPlaces'
  BY <1>1, <1>2, <1>3, ThreadsFinite
     DEF Counting, TypeOK, PoolPlaces, ClientPlaces, ClientLabels, Submitting, PoolThreads
<1>7. MainPlaces'
  BY <1>1, <1>2, <1>3, ThreadsFinite
     DEF Counting, TypeOK, PoolPlaces, MainPlaces, MainLabels, ClientLabels, Submitting,
         Stopping, WaitLabels
<1>8. ArgPlaces'
  BY <1>1, <1>2, <1>3, ThreadsFinite
     DEF Counting, TypeOK, PoolPlaces, ArgPlaces
<1> QED
  BY <1>4, <1>5, <1>6, <1>7, <1>8 DEF PoolPlaces

LEMMA NotifyPlaces ==
  ASSUME Counting, NEW t \in PoolThreads, NotifyQueue(t)
  PROVE  TypeOK' /\ PoolPlaces'
<1>1. /\ \/ pc[t] = "notify" /\ pc' = [pc EXCEPT ![t] = "wakeone"]
         \/ pc[t] = "notifyall" /\ pc' = [pc EXCEPT ![t] = "wakeall"]
      /\ count' = [count EXCEPT !["queue"] = (count["queue"] + 1) % WordSize]
      /\ UNCHANGED <<ticket, pool>>
  BY DEF NotifyQueue, Goto, Notify
<1>2. "queue" \in CondVars /\ (count["queue"] + 1) % WordSize \in 0 .. WordSize - 1
  BY ThreadsAssumption, NextCount DEF Counting, TypeOK
<1>3. TypeOK'
  BY <1>1, <1>2, ThreadsFinite
     DEF Counting, TypeOK, Labels, pool
<1>4. WorkerPlaces'
  BY <1>1, <1>2, ThreadsFinite
     DEF Counting, TypeOK, PoolPlaces, WorkerPlaces, WorkerLabels, Submitting, WaitLabels, pool
<1>5. ClientPlaces'
  BY <1>1, <1>2, ThreadsFinite
     DEF Counting, TypeOK, PoolPlaces, ClientPlaces, ClientLabels, Submitting, PoolThreads, pool
<1>6. MainPlaces'
  BY <1>1, <1>2, ThreadsFinite
     DEF Counting, TypeOK, PoolPlaces, MainPlaces, MainLabels, ClientLabels, Submitting,
         Stopping, WaitLabels, pool
<1>7. ArgPlaces'
  BY <1>1, <1>2, ThreadsFinite
     DEF Counting, TypeOK, PoolPlaces, ArgPlaces, pool
<1> QED
  BY <1>3, <1>4, <1>5, <1>6, <1>7 DEF PoolPlaces

LEMMA WakeWorkerPlaces ==
  ASSUME Counting, NEW t \in PoolThreads, WakeWorker(t)
  PROVE  TypeOK' /\ PoolPlaces'
<1>1. /\ pc[t] = "wakeone" /\ UNCHANGED <<count, ticket, pool>>
      /\ \/ \E u \in Asleep("queue") :
               pc' = [pc EXCEPT ![t] = IF t \in Workers THEN "run" ELSE "idle", ![u] = "reload"]
         \/ pc' = [pc EXCEPT ![t] = IF t \in Workers THEN "run" ELSE "idle"]
  BY DEF WakeWorker, WakeOne
<1>2. \A u \in Asleep("queue") : u \in Workers /\ pc[u] = "asleep"
  BY ThreadsFinite
     DEF Asleep, Counting, TypeOK, PoolPlaces, ClientPlaces, MainPlaces, ClientLabels,
     Submitting, PoolThreads, WaitLabels
<1>3. pc' \in [PoolThreads -> Labels]
  BY <1>1, <1>2, ThreadsFinite DEF Counting, TypeOK, Labels
<1>4. TypeOK'
  BY <1>1, <1>2, <1>3, ThreadsFinite
     DEF Counting, TypeOK, Labels, pool
<1>5. WorkerPlaces'
  BY <1>1, <1>2, <1>3, ThreadsFinite
     DEF Counting, TypeOK, PoolPlaces, WorkerPlaces, WorkerLabels, Submitting, WaitLabels, pool
<1>6. ClientPlaces'
  BY <1>1, <1>2, <1>3, ThreadsFinite
     DEF Counting, TypeOK, PoolPlaces, ClientPlaces, ClientLabels, Submitting, PoolThreads, pool
<1>7. MainPlaces'
  BY <1>1, <1>2, <1>3, ThreadsFinite
     DEF Counting, TypeOK, PoolPlaces, MainPlaces, MainLabels, ClientLabels, Submitting,
         Stopping, WaitLabels, pool
<1>8. ArgPlaces'
  BY <1>1, <1>2, <1>3, ThreadsFinite
     DEF Counting, TypeOK, PoolPlaces, ArgPlaces, pool
<1> QED
  BY <1>4, <1>5, <1>6, <1>7, <1>8 DEF PoolPlaces

LEMMA WakeWorkersPlaces ==
  ASSUME Counting, NEW t \in PoolThreads, WakeWorkers(t)
  PROVE  TypeOK' /\ PoolPlaces'
<1>1. /\ pc[t] = "wakeall" /\ UNCHANGED <<count, ticket, pool>>
      /\ pc' = [u \in PoolThreads |->
                  IF u = t THEN "join" ELSE IF u \in Asleep("queue") THEN "reload" ELSE pc[u]]
  BY DEF WakeWorkers, WakeAll, Counting, TypeOK
<1>2. \A u \in Asleep("queue") : u \in Workers /\ pc[u] = "asleep"
  BY ThreadsFinite
     DEF Asleep, Counting, TypeOK, PoolPlaces, ClientPlaces, MainPlaces, ClientLabels,
     Submitting, PoolThreads, WaitLabels
<1>3. TypeOK'
  BY <1>1, <1>2, ThreadsFinite
     DEF Counting, TypeOK, Labels, pool
<1>4. WorkerPlaces'
  BY <1>1, <1>2, ThreadsFinite
     DEF Counting, TypeOK, PoolPlaces, WorkerPlaces, WorkerLabels, Submitting, WaitLabels, pool
<1>5. ClientPlaces'
  BY <1>1, <1>2, ThreadsFinite
     DEF Counting, TypeOK, PoolPlaces, ClientPlaces, ClientLabels, Submitting, PoolThreads, pool
<1>6. MainPlaces'
  BY <1>1, <1>2, ThreadsFinite
     DEF Counting, TypeOK, PoolPlaces, MainPlaces, MainLabels, ClientLabels, Submitting,
         Stopping, WaitLabels, pool
<1>7. ArgPlaces'
  BY <1>1, <1>2, ThreadsFinite
     DEF Counting, TypeOK, PoolPlaces, ArgPlaces, pool
<1> QED
  BY <1>3, <1>4, <1>5, <1>6, <1>7 DEF PoolPlaces

LEMMA WaitPlaces ==
  ASSUME Counting, NEW t \in PoolThreads, CvWait(t) \/ SpuriousReturn(t)
  PROVE  TypeOK' /\ PoolPlaces'
<1>1. /\ pc[t] \in WaitLabels /\ UNCHANGED <<count, ticket, pool>>
      /\ \E to \in WaitLabels \union {IF t \in Workers THEN "pop" ELSE "recheck"} :
            pc' = [pc EXCEPT ![t] = to]
  BY DEF CvWait, SpuriousReturn, FutexWait, Reload, SpuriousWake, Goto, WaitLabels
<1>2. t \notin Clients
  BY <1>1 DEF Counting, PoolPlaces, ClientPlaces, ClientLabels, Submitting, WaitLabels
<1>3. TypeOK'
  BY <1>1, <1>2, ThreadsFinite
     DEF Counting, TypeOK, Labels, pool, WaitLabels
<1>4. WorkerPlaces'
  BY <1>1, <1>2, ThreadsFinite
     DEF Counting, TypeOK, PoolPlaces, WorkerPlaces, WorkerLabels, Submitting, WaitLabels, pool
<1>5. ClientPlaces'
  BY <1>1, <1>2, ThreadsFinite
     DEF Counting, TypeOK, PoolPlaces, ClientPlaces, ClientLabels, Submitting, PoolThreads, pool,
         WaitLabels
<1>6. MainPlaces'
  BY <1>1, <1>2, ThreadsFinite
     DEF Counting, TypeOK, PoolPlaces, MainPlaces, MainLabels, ClientLabels, Submitting,
         Stopping, WaitLabels, pool
<1>7. ArgPlaces'
  BY <1>1, <1>2, ThreadsFinite
     DEF Counting, TypeOK, PoolPlaces, ArgPlaces, pool, WaitLabels
<1> QED
  BY <1>3, <1>4, <1>5, <1>6, <1>7 DEF PoolPlaces

LEMMA PopTaskPlaces ==
  ASSUME Counting, NEW w \in Workers, PopTask(w)
  PROVE  TypeOK' /\ PoolPlaces'
<1>1. /\ queue # <<>> /\ pc[w] = "pop" /\ pc' = [pc EXCEPT ![w] = "run"]
      /\ cur' = [cur EXCEPT ![w] = Head(queue)] /\ queue' = Tail(queue)
      /\ UNCHANGED <<count, ticket, availible, workers, waiters, arg, finished>>
  BY DEF PopTask, Goto
<1>2. Head(queue) \in Tasks /\ queue' \in Seq(Tasks)
  BY <1>1 DEF Counting, TypeOK
<1>3. Head(queue) # NoTask
  BY <1>2, ThreadsAssumption
<1>4. TypeOK'
  BY <1>1, <1>2, <1>3, ThreadsFinite
     DEF Counting, TypeOK, Labels
<1>5. WorkerPlaces'
  BY <1>1, <1>2, <1>3, ThreadsFinite
     DEF Counting, TypeOK, PoolPlaces, WorkerPlaces, WorkerLabels, Submitting, WaitLabels
<1>6. ClientPlaces'
  BY <1>1, <1>2, <1>3, ThreadsFinite
     DEF Counting, TypeOK, PoolPlaces, ClientPlaces, ClientLabels, Submitting, PoolThreads
<1>7. MainPlaces'
  BY <1>1, <1>2, <1>3, ThreadsFinite
     DEF Counting, TypeOK, PoolPlaces, MainPlaces, MainLabels, ClientLabels, Submitting,
         Stopping, WaitLabels
<1>8. ArgPlaces'
  BY <1>1, <1>2, <1>3, ThreadsFinite
     DEF Counting, TypeOK, PoolPlaces, ArgPlaces
<1> QED
  BY <1>4, <1>5, <1>6, <1>7, <1>8 DEF PoolPlaces

LEMMA PopLeavesPlaces ==
  ASSUME Counting, NEW w \in Workers, PopClosed(w) \/ PopWait(w)
  PROVE  TypeOK' /\ PoolPlaces'
<1>1. /\ pc[w] = "pop" /\ UNCHANGED <<count, pool>>
      /\ \E to \in {"exit", "wait"} : pc' = [pc EXCEPT ![w] = to]
      /\ \/ ticket' = ticket
         \/ ticket' = [ticket EXCEPT ![w] = [cv |-> "queue", value |-> count["queue"]]]
  BY DEF PopClosed, PopWait, BeginWait, Goto
<1>2. "queue" \in CondVars /\ count["queue"] \in 0 .. WordSize - 1
  BY ThreadsAssumption DEF Counting, TypeOK
<1>3. TypeOK'
  BY <1>1, <1>2, ThreadsFinite
     DEF Counting, TypeOK, Labels, pool
<1>4. WorkerPlaces'
  BY <1>1, <1>2, ThreadsFinite
     DEF Counting, TypeOK, PoolPlaces, WorkerPlaces, WorkerLabels, Submitting, WaitLabels, pool
<1>5. ClientPlaces'
  BY <1>1, <1>2, ThreadsFinite
     DEF Counting, TypeOK, PoolPlaces, ClientPlaces, ClientLabels, Submitting, PoolThreads, pool
<1>6. MainPlaces'
  BY <1>1, <1>2, ThreadsFinite
     DEF Counting, TypeOK, PoolPlaces, MainPlaces, MainLabels, ClientLabels, Submitting,
         Stopping, WaitLabels, pool
<1>7. ArgPlaces'
  BY <1>1, <1>2, ThreadsFinite
     DEF Counting, TypeOK, PoolPlaces, ArgPlaces, pool
<1> QED
  BY <1>3, <1>4, <1>5, <1>6, <1>7 DEF PoolPlaces

LEMMA RunReturnsPlaces ==
  ASSUME Counting, NEW w \in Workers, RunReturns(w)
  PROVE  TypeOK' /\ PoolPlaces'
<1>1. /\ pc[w] = "run" /\ pc' = [pc EXCEPT ![w] = "done"]
      /\ finished' = finished \union {cur[w]} /\ cur' = [cur EXCEPT ![w] = NoTask]
      /\ UNCHANGED <<count, ticket, queue, availible, workers, waiters, arg>>
  BY DEF RunReturns, Goto
<1>2. cur[w] \in Tasks
  BY <1>1 DEF Counting, TypeOK, PoolPlaces, WorkerPlaces
<1>3. TypeOK'
  BY <1>1, <1>2, ThreadsFinite
     DEF Counting, TypeOK, Labels
<1>4. WorkerPlaces'
  BY <1>1, <1>2, ThreadsFinite
     DEF Counting, TypeOK, PoolPlaces, WorkerPlaces, WorkerLabels, Submitting, WaitLabels
<1>5. ClientPlaces'
  BY <1>1, <1>2, ThreadsFinite
     DEF Counting, TypeOK, PoolPlaces, ClientPlaces, ClientLabels, Submitting, PoolThreads
<1>6. MainPlaces'
  BY <1>1, <1>2, ThreadsFinite
     DEF Counting, TypeOK, PoolPlaces, MainPlaces, MainLabels, ClientLabels, Submitting,
         Stopping, WaitLabels
<1>7. ArgPlaces'
  BY <1>1, <1>2, ThreadsFinite
     DEF Counting, TypeOK, PoolPlaces, ArgPlaces
<1> QED
  BY <1>3, <1>4, <1>5, <1>6, <1>7 DEF PoolPlaces

LEMMA DonePlaces ==
  ASSUME Counting, NEW w \in Workers, Done(w)
  PROVE  TypeOK' /\ PoolPlaces'
<1>1. /\ pc[w] = "done" /\ workers' = workers - 1
      /\ UNCHANGED <<ticket, queue, availible, cur, arg, finished>>
  BY DEF Done, Goto, WakeAll
<1>2. workers \in Nat \ {0} /\ workers' \in Nat
  <2>1. w \in Busy
    BY <1>1 DEF Busy
  <2> QED
    BY <1>1, <2>1, CountedIsThere DEF Counting, TypeOK
<1>3. \/ /\ count' = [count EXCEPT !["wg"] = (count["wg"] + 1) % WordSize] /\ waiters' = 0
         /\ pc' = [u \in PoolThreads |->
                     IF u = w THEN "pop" ELSE IF u \in Asleep("wg") THEN "reload" ELSE pc[u]]
      \/ UNCHANGED <<count, waiters>> /\ pc' = [pc EXCEPT ![w] = "pop"]
  BY DEF Done, Notify, WakeAll, Goto, Counting, TypeOK
<1>4. \A u \in Asleep("wg") : u = Main /\ pc[u] = "asleep"
  BY ThreadsFinite DEF Asleep, Counting, TypeOK, PoolPlaces, WorkerPlaces, ClientPlaces,
     ClientLabels, Submitting, PoolThreads, WaitLabels
<1>5. "wg" \in CondVars /\ (count["wg"] + 1) % WordSize \in 0 .. WordSize - 1
  BY ThreadsAssumption, NextCount DEF Counting, TypeOK
<1>6. TypeOK'
  <2>1. count' \in [CondVars -> 0 .. WordSize - 1] /\ waiters' \in 0 .. 1
    BY <1>3, <1>5 DEF Counting, TypeOK
  <2>2. pc' \in [PoolThreads -> Labels]
    BY <1>3, <1>4, ThreadsFinite DEF Counting, TypeOK, Labels
  <2> QED
    BY <1>1, <1>2, <2>1, <2>2 DEF Counting, TypeOK
<1>7. WorkerPlaces'
  BY <1>1, <1>2, <1>3, <1>4, <1>5, ThreadsFinite
     DEF Counting, TypeOK, PoolPlaces, WorkerPlaces, WorkerLabels, Submitting, WaitLabels
<1>8. ClientPlaces'
  BY <1>1, <1>2, <1>3, <1>4, <1>5, ThreadsFinite
     DEF Counting, TypeOK, PoolPlaces, ClientPlaces, ClientLabels, Submitting, PoolThreads
<1>9. MainPlaces'
  BY <1>1, <1>2, <1>3, <1>4, <1>5, ThreadsFinite
     DEF Counting, TypeOK, PoolPlaces, MainPlaces, MainLabels, ClientLabels, Submitting,
         Stopping, WaitLabels
<1>10. ArgPlaces'
  BY <1>1, <1>2, <1>3, <1>4, <1>5, ThreadsFinite
     DEF Counting, TypeOK, PoolPlaces, ArgPlaces
<1> QED
  BY <1>6, <1>7, <1>8, <1>9, <1>10 DEF PoolPlaces

LEMMA WgWaitPlaces ==
  ASSUME Counting, WgWait
  PROVE  TypeOK' /\ PoolPlaces'
<1>1. /\ pc[Main] \in {"stop", "recheck"}
      /\ UNCHANGED <<count, queue, availible, workers, cur, arg, finished>>
      /\ \/ /\ pc' = [pc EXCEPT ![Main] = "wait"]
            /\ ticket' = [ticket EXCEPT ![Main] = [cv |-> "wg", value |-> count["wg"]]]
            /\ waiters' = waiters \/ (pc[Main] = "stop" /\ waiters' = waiters + 1)
         \/ workers = 0 /\ pc' = [pc EXCEPT ![Main] = "close"] /\ UNCHANGED <<ticket, waiters>>
  BY DEF WgWait, BeginWait, Goto
<1>2. "wg" \in CondVars /\ count["wg"] \in 0 .. WordSize - 1
  BY ThreadsAssumption DEF Counting, TypeOK
<1>3. waiters' \in 0 .. 1
  BY <1>1 DEF Counting, TypeOK, PoolPlaces, MainPlaces
<1>4. TypeOK'
  <2>1. ticket' \in [PoolThreads -> [cv : CondVars, value : 0 .. WordSize - 1]]
    <3>1. [cv |-> "wg", value |-> count["wg"]] \in [cv : CondVars, value : 0 .. WordSize - 1]
      BY <1>2
    <3>2. ticket \in [PoolThreads -> [cv : CondVars, value : 0 .. WordSize - 1]]
      BY DEF Counting, TypeOK
    <3> QED
      BY <1>1, <3>1, <3>2, ThreadsFinite
  <2>2. pc' \in [PoolThreads -> Labels]
    BY <1>1, ThreadsFinite DEF Counting, TypeOK, Labels
  <2> QED
    BY <1>1, <1>3, <2>1, <2>2 DEF Counting, TypeOK
<1>5. WorkerPlaces'
  BY <1>1, <1>2, <1>3, ThreadsFinite
     DEF Counting, TypeOK, PoolPlaces, WorkerPlaces, WorkerLabels, Submitting, WaitLabels
<1>6. ClientPlaces'
  BY <1>1, <1>2, <1>3, ThreadsFinite
     DEF Counting, TypeOK, PoolPlaces, ClientPlaces, ClientLabels, Submitting, PoolThreads
<1>7. MainPlaces'
  BY <1>1, <1>2, <1>3, ThreadsFinite
     DEF Counting, TypeOK, PoolPlaces, MainPlaces, MainLabels, ClientLabels, Submitting,
         Stopping, WaitLabels
<1>8. ArgPlaces'
  BY <1>1, <1>2, <1>3, ThreadsFinite
     DEF Counting, TypeOK, PoolPlaces, ArgPlaces
<1> QED
  BY <1>4, <1>5, <1>6, <1>7, <1>8 DEF PoolPlaces

LEMMA StopPlaces ==
  ASSUME Counting, CallStop \/ Close \/ Join
  PROVE  TypeOK' /\ PoolPlaces'
<1>1. /\ UNCHANGED <<count, ticket, queue, workers, waiters, cur, arg, finished>>
      /\ \/ /\ pc[Main] = "idle" /\ pc' = [pc EXCEPT ![Main] = "stop"] /\ UNCHANGED availible
            /\ \A c \in Clients : pc[c] = "idle"
         \/ pc[Main] = "close" /\ pc' = [pc EXCEPT ![Main] = "notifyall"] /\ availible' = FALSE
         \/ pc[Main] = "join" /\ pc' = [pc EXCEPT ![Main] = "stopped"] /\ UNCHANGED availible
  BY DEF CallStop, Close, Join, Goto, pool
<1>2. TypeOK'
  BY <1>1, ThreadsFinite
     DEF Counting, TypeOK, Labels
<1>3. WorkerPlaces'
  BY <1>1, ThreadsFinite
     DEF Counting, TypeOK, PoolPlaces, WorkerPlaces, WorkerLabels, Submitting, WaitLabels
<1>4. ClientPlaces'
  BY <1>1, ThreadsFinite
     DEF Counting, TypeOK, PoolPlaces, ClientPlaces, ClientLabels, Submitting, PoolThreads
<1>5. MainPlaces'
  BY <1>1, ThreadsFinite
     DEF Counting, TypeOK, PoolPlaces, MainPlaces, MainLabels, ClientLabels, Submitting,
         Stopping, WaitLabels
<1>6. ArgPlaces'
  BY <1>1, ThreadsFinite
     DEF Counting, TypeOK, PoolPlaces, ArgPlaces
<1> QED
  BY <1>2, <1>3, <1>4, <1>5, <1>6 DEF PoolPlaces

LEMMA StartPlaces ==
  ASSUME Counting, Start
  PROVE  TypeOK' /\ PoolPlaces'
<1>1. /\ UNCHANGED <<count, ticket, pool>> /\ \A w \in Workers : pc[w] = "new"
      /\ pc' = [t \in PoolThreads |-> IF t \in Workers THEN "pop" ELSE pc[t]]
  BY DEF Start
<1>2. TypeOK'
  BY <1>1, ThreadsFinite
     DEF Counting, TypeOK, Labels, pool
<1>3. WorkerPlaces'
  BY <1>1, ThreadsFinite
     DEF Counting, TypeOK, PoolPlaces, WorkerPlaces, WorkerLabels, Submitting, WaitLabels, pool
<1>4. ClientPlaces'
  BY <1>1, ThreadsFinite
     DEF Counting, TypeOK, PoolPlaces, ClientPlaces, ClientLabels, Submitting, PoolThreads, pool
<1>5. MainPlaces'
  BY <1>1, ThreadsFinite
     DEF Counting, TypeOK, PoolPlaces, MainPlaces, MainLabels, ClientLabels, Submitting,
         Stopping, WaitLabels, pool
<1>6. ArgPlaces'
  BY <1>1, ThreadsFinite
     DEF Counting, TypeOK, PoolPlaces, ArgPlaces, pool
<1> QED
  BY <1>2, <1>3, <1>4, <1>5, <1>6 DEF PoolPlaces
-----------------------------------------------------------------------------
\* The steps that touch no task.
Quiet ==
  \/ UNCHANGED vars
  \/ Start \/ CallStop \/ Close \/ Join \/ WgWait
  \/ \E t \in PoolThreads : \/ NotifyQueue(t) \/ WakeWorker(t) \/ WakeWorkers(t)
                        \/ CvWait(t) \/ SpuriousReturn(t)
  \/ \E w \in Workers : PopClosed(w) \/ PopWait(w)

\* Next, sorted by what a step does to the tasks.
LEMMA NextSteps ==
  ASSUME [Next]_vars
  PROVE  \/ \E t \in PoolThreads : Push(t) \/ \E k \in Tasks : Submit(t, k)
         \/ \E w \in Workers : PopTask(w) \/ RunReturns(w) \/ Done(w)
         \/ Quiet
<1>1. CASE UNCHANGED vars \/ Start \/ CallStop \/ Stopped
  BY <1>1 DEF Quiet, Stopped
<1>2. ASSUME NEW t \in PoolThreads, Step(t)
      PROVE  Push(t) \/ (t \in Workers /\ (PopTask(t) \/ RunReturns(t) \/ Done(t))) \/ Quiet
  BY <1>2 DEF Step, Quiet
<1>3. ASSUME NEW t \in PoolThreads, SpuriousReturn(t) PROVE Quiet
  BY <1>3 DEF Quiet
<1> QED
  BY <1>1, <1>2, <1>3 DEF Next

LEMMA QuietKeeps ==
  ASSUME Counting, Quiet
  PROVE  UNCHANGED <<queue, workers, cur, arg, finished>> /\ Pushing' = Pushing /\ Busy' = Busy
<1>1. UNCHANGED <<queue, workers, cur, arg, finished>>
  BY DEF Quiet, vars, pool, Start, CallStop, Close, Join, WgWait, NotifyQueue, WakeWorker,
         WakeWorkers, CvWait, SpuriousReturn, PopClosed, PopWait
<1>2. \A w \in Workers : pc'[w] = "done" <=> pc[w] = "done"
  <2>1. CASE UNCHANGED vars \/ Start
    BY <2>1 DEF vars, Start, PoolThreads
  <2>2. CASE CallStop \/ Close \/ Join \/ WgWait
    BY <2>2, ThreadsFinite
       DEF CallStop, Close, Join, WgWait, BeginWait, Goto, Counting, TypeOK
  <2>3. ASSUME NEW t \in PoolThreads, NotifyQueue(t) \/ CvWait(t) \/ SpuriousReturn(t)
        PROVE  \A w \in Workers : pc'[w] = "done" <=> pc[w] = "done"
    BY <2>3, ThreadsFinite
       DEF NotifyQueue, CvWait, SpuriousReturn, FutexWait, Reload, SpuriousWake, Goto,
           Counting, TypeOK
  <2>4. ASSUME NEW t \in PoolThreads, WakeWorker(t) \/ WakeWorkers(t)
        PROVE  \A w \in Workers : pc'[w] = "done" <=> pc[w] = "done"
    BY <2>4, ThreadsFinite
       DEF WakeWorker, WakeWorkers, WakeOne, WakeAll, Asleep, Counting, TypeOK
  <2>5. ASSUME NEW v \in Workers, PopClosed(v) \/ PopWait(v)
        PROVE  \A w \in Workers : pc'[w] = "done" <=> pc[w] = "done"
    BY <2>5, ThreadsFinite DEF PopClosed, PopWait, BeginWait, Goto, Counting, TypeOK
  <2> QED
    BY <2>1, <2>2, <2>3, <2>4, <2>5 DEF Quiet
<1> QED
  BY <1>1, <1>2 DEF Pushing, Busy

LEMMA QuietPlaces ==
  ASSUME Counting, Quiet
  PROVE  TypeOK' /\ PoolPlaces'
<1>1. CASE UNCHANGED vars
  BY <1>1
     DEF vars, pool, Counting, TypeOK, PoolPlaces, WorkerPlaces, ClientPlaces, MainPlaces,
         ArgPlaces
<1> QED
  BY <1>1, StartPlaces, StopPlaces, WgWaitPlaces, NotifyPlaces, WakeWorkerPlaces,
     WakeWorkersPlaces, WaitPlaces, PopLeavesPlaces DEF Quiet

\* How the accounts move, a task at a time.
LEMMA SubmitCounts ==
  ASSUME Counting, NEW t \in PoolThreads, NEW k \in Tasks, Submit(t, k)
  PROVE  /\ t \notin Pushing /\ Pushing' = Pushing \union {t} /\ Busy' = Busy
         /\ workers' = workers + 1 /\ queue' = queue
<1>1. /\ pc' = [pc EXCEPT ![t] = "push"] /\ arg' = [arg EXCEPT ![t] = k]
      /\ pc[t] \in {"run", "idle"} /\ UNCHANGED <<queue, cur>> /\ workers' = workers + 1
  BY DEF Submit, Goto
<1>2. arg[t] = NoTask /\ k # NoTask
  BY <1>1, ThreadsAssumption DEF Counting, PoolPlaces, ArgPlaces
<1>3. Pushing' = Pushing \union {t} /\ t \notin Pushing
  BY <1>1, <1>2 DEF Pushing, Counting, TypeOK
<1>4. Busy' = Busy
  BY <1>1, ThreadsFinite DEF Busy, Counting, TypeOK
<1> QED
  BY <1>1, <1>3, <1>4

LEMMA PushCounts ==
  ASSUME Counting, NEW t \in PoolThreads, Push(t)
  PROVE  /\ t \in Pushing /\ Pushing' = Pushing \ {t} /\ Busy' = Busy
         /\ workers' = workers /\ Len(queue') = Len(queue) + 1
<1>1. /\ pc' = [pc EXCEPT ![t] = "notify"] /\ arg' = [arg EXCEPT ![t] = NoTask]
      /\ pc[t] = "push" /\ UNCHANGED <<workers, cur>>
      /\ queue' = Append(queue, arg[t])
  BY DEF Push, Goto
<1>2. arg[t] \in Tasks /\ arg[t] # NoTask
  BY <1>1 DEF Counting, TypeOK, PoolPlaces, ArgPlaces
<1>3. Pushing' = Pushing \ {t} /\ t \in Pushing
  BY <1>1, <1>2 DEF Pushing, Counting, TypeOK
<1>4. Busy' = Busy
  BY <1>1, ThreadsFinite DEF Busy, Counting, TypeOK
<1>5. Len(queue') = Len(queue) + 1
  BY <1>1, <1>2 DEF Counting, TypeOK
<1> QED
  BY <1>1, <1>3, <1>4, <1>5

LEMMA PopCounts ==
  ASSUME Counting, NEW w \in Workers, PopTask(w)
  PROVE  /\ w \notin Busy /\ Busy' = Busy \union {w} /\ Pushing' = Pushing
         /\ workers' = workers /\ Len(queue') = Len(queue) - 1
<1>1. /\ pc' = [pc EXCEPT ![w] = "run"] /\ cur' = [cur EXCEPT ![w] = Head(queue)]
      /\ pc[w] = "pop" /\ UNCHANGED <<workers, arg>>
      /\ queue # <<>> /\ queue' = Tail(queue)
  BY DEF PopTask, Goto
<1>2. Head(queue) # NoTask /\ Len(queue') = Len(queue) - 1
  BY <1>1, ThreadsAssumption DEF Counting, TypeOK
<1>3. cur[w] = NoTask
  BY <1>1 DEF Counting, PoolPlaces, WorkerPlaces, Submitting
<1>4. Busy' = Busy \union {w} /\ w \notin Busy
  BY <1>1, <1>2, <1>3, ThreadsFinite DEF Busy, Counting, TypeOK
<1> QED
  BY <1>1, <1>2, <1>4 DEF Pushing

LEMMA DoneCounts ==
  ASSUME Counting, NEW w \in Workers, Done(w)
  PROVE  /\ w \in Busy /\ Busy' = Busy \ {w} /\ Pushing' = Pushing
         /\ workers' = workers - 1 /\ queue' = queue
<1>1. /\ pc[w] = "done" /\ workers' = workers - 1 /\ UNCHANGED <<queue, cur, arg>>
      /\ pc'[w] = "pop" /\ \A v \in Workers \ {w} : pc'[v] = "done" <=> pc[v] = "done"
  BY ThreadsFinite DEF Done, Goto, WakeAll, Asleep, Counting, TypeOK
<1>2. cur[w] = NoTask
  BY <1>1 DEF Counting, PoolPlaces, WorkerPlaces, Submitting
<1> QED
  BY <1>1, <1>2 DEF Busy, Pushing

LEMMA RunCounts ==
  ASSUME Counting, NEW w \in Workers, RunReturns(w)
  PROVE  UNCHANGED <<queue, workers>> /\ Busy' = Busy /\ Pushing' = Pushing
<1>1. /\ pc' = [pc EXCEPT ![w] = "done"] /\ cur' = [cur EXCEPT ![w] = NoTask]
      /\ pc[w] = "run" /\ UNCHANGED <<workers, arg, queue>>
  BY DEF RunReturns, Goto
<1>2. cur[w] # NoTask
  BY <1>1 DEF Counting, PoolPlaces, WorkerPlaces
<1> QED
  BY <1>1, <1>2, ThreadsFinite DEF Busy, Pushing, Counting, TypeOK

\* The inductive step: a task is counted until Done reports it.
LEMMA CountingStep ==
  ASSUME Counting, [Next]_vars
  PROVE  Counting'
<1> DEFINE Counted == workers = Len(queue) + Cardinality(Pushing) + Cardinality(Busy)
<1>0. /\ Counted /\ (Counted' => WaitGroupCountsTasks')
      /\ Len(queue) \in Nat /\ IsFiniteSet(Pushing) /\ Cardinality(Pushing) \in Nat
      /\ IsFiniteSet(Busy) /\ Cardinality(Busy) \in Nat
  BY CountsAreNumbers, CountedIsThere
     DEF Counting, TypeOK, WaitGroupCountsTasks, Pushing, Busy
<1> HIDE DEF Counted
<1>1. ASSUME NEW t \in PoolThreads, NEW k \in Tasks, Submit(t, k) PROVE Counting'
  <2>1. Cardinality(Pushing') = Cardinality(Pushing) + 1
    BY <1>0, <1>1, SubmitCounts, FS_AddElement
  <2>2. Counted'
    BY <1>0, <1>1, <2>1, SubmitCounts DEF Counted
  <2> QED
    BY <1>0, <1>1, <2>2, SubmitPlaces DEF Counting
<1>2. ASSUME NEW t \in PoolThreads, Push(t) PROVE Counting'
  <2>1. Cardinality(Pushing') = Cardinality(Pushing) - 1
    BY <1>0, <1>2, PushCounts, FS_RemoveElement
  <2>2. Counted'
    BY <1>0, <1>2, <2>1, PushCounts DEF Counted
  <2> QED
    BY <1>0, <1>2, <2>2, PushPlaces DEF Counting
<1>3. ASSUME NEW w \in Workers, PopTask(w) PROVE Counting'
  <2>1. Cardinality(Busy') = Cardinality(Busy) + 1
    BY <1>0, <1>3, PopCounts, FS_AddElement
  <2>2. Counted'
    BY <1>0, <1>3, <2>1, PopCounts DEF Counted
  <2> QED
    BY <1>0, <1>3, <2>2, PopTaskPlaces DEF Counting
<1>4. ASSUME NEW w \in Workers, RunReturns(w) PROVE Counting'
  <2>1. Counted'
    BY <1>0, <1>4, RunCounts DEF Counted
  <2> QED
    BY <1>0, <1>4, <2>1, RunReturnsPlaces DEF Counting
<1>5. ASSUME NEW w \in Workers, Done(w) PROVE Counting'
  <2>1. Cardinality(Busy') = Cardinality(Busy) - 1
    BY <1>0, <1>5, DoneCounts, FS_RemoveElement
  <2>2. Counted'
    BY <1>0, <1>5, <2>1, DoneCounts DEF Counted
  <2> QED
    BY <1>0, <1>5, <2>2, DonePlaces DEF Counting
<1>6. CASE Quiet
  <2>1. Counted'
    BY <1>0, <1>6, QuietKeeps DEF Counted
  <2> QED
    BY <1>0, <1>6, <2>1, QuietPlaces DEF Counting
<1> QED
  BY <1>1, <1>2, <1>3, <1>4, <1>5, <1>6, NextSteps

\* The pool begins with nothing to wait for.
LEMMA CountingInit == Init => Counting
<1> SUFFICES ASSUME Init PROVE Counting
  OBVIOUS
<1>1. TypeOK
  BY WordSizeAssumption, ThreadsAssumption DEF Init, EmptyQueue, TypeOK, Labels, PoolThreads
<1>2. PoolPlaces
  BY ThreadsFinite
     DEF Init, EmptyQueue, PoolPlaces, WorkerPlaces, ClientPlaces, MainPlaces, ArgPlaces, WorkerLabels,
     ClientLabels, MainLabels, Submitting, Stopping, WaitLabels
<1>3. Pushing = {} /\ Busy = {}
  BY ThreadsFinite DEF Init, EmptyQueue, Pushing, Busy
<1>4. Len(queue) = 0 /\ workers = 0
  BY DEF Init, EmptyQueue
<1>5. WaitGroupCountsTasks
  <2>1. Cardinality(Pushing) = 0 /\ Cardinality(Busy) = 0
    BY <1>3, FS_EmptySet
  <2> QED
    BY <1>4, <2>1 DEF WaitGroupCountsTasks, Pushing, Busy
<1> QED
  BY <1>1, <1>2, <1>5 DEF Counting

\* wg_ counts exactly the tasks that are being submitted, queued, running, or
\* run and not reported yet, in any pool: Add before Push, Done after Run.
THEOREM CountingHolds == Spec => []CountingInv
<1>1. Counting => CountingInv
  BY DEF Counting, CountingInv
<1>2. Counting /\ [Next]_vars => Counting'
  BY CountingStep
<1> QED
  BY <1>1, <1>2, CountingInit, PTL DEF Spec
-----------------------------------------------------------------------------
\* Every task is in one place: in the queue once, with one thread, or finished.
NoDuplicates(s) == \A i, j \in DOMAIN s : s[i] = s[j] => i = j

HeldOnce(f) == \A s, t \in DOMAIN f : f[s] = f[t] => s = t \/ f[s] = NoTask

Apart ==
  /\ Queued \intersect (Holding(cur) \union Holding(arg) \union finished) = {}
  /\ Holding(cur) \intersect (Holding(arg) \union finished) = {}
  /\ Holding(arg) \intersect finished = {}

Once == NoDuplicates(queue) /\ HeldOnce(cur) /\ HeldOnce(arg) /\ Apart

\* What Push and Pop do to the queue as a set.
LEMMA Appended ==
  ASSUME TypeOK, NEW k \in Tasks, queue' = Append(queue, k)
  PROVE  /\ Queued' = Queued \union {k}
         /\ NoDuplicates(queue) /\ k \notin Queued => NoDuplicates(queue')
<1>1. /\ DOMAIN queue' = 1 .. Len(queue) + 1 /\ DOMAIN queue = 1 .. Len(queue)
      /\ Len(queue) \in Nat
      /\ \A i \in 1 .. Len(queue) : queue'[i] = queue[i]
      /\ queue'[Len(queue) + 1] = k
  BY DEF TypeOK
<1>2. Queued' = Queued \union {k}
  BY <1>1 DEF Queued
<1>3. ASSUME NoDuplicates(queue), k \notin Queued PROVE NoDuplicates(queue')
  BY <1>1, <1>3 DEF NoDuplicates, Queued
<1> QED
  BY <1>2, <1>3

LEMMA HeadTaken ==
  ASSUME TypeOK, NoDuplicates(queue), queue # <<>>, queue' = Tail(queue)
  PROVE  Head(queue) \in Queued /\ Queued' = Queued \ {Head(queue)} /\ NoDuplicates(queue')
<1>1. /\ DOMAIN queue = 1 .. Len(queue) /\ Len(queue) \in Nat \ {0} /\ Head(queue) = queue[1]
      /\ DOMAIN queue' = 1 .. Len(queue) - 1
      /\ \A i \in 1 .. Len(queue) - 1 : queue'[i] = queue[i + 1]
  BY DEF TypeOK
<1>2. Head(queue) \in Queued
  BY <1>1 DEF Queued
<1>3. NoDuplicates(queue')
  BY <1>1 DEF NoDuplicates
<1>4. Queued' = Queued \ {Head(queue)}
  <2>1. ASSUME NEW x \in Queued' PROVE x \in Queued \ {Head(queue)}
    BY <1>1, <2>1 DEF Queued, NoDuplicates
  <2>2. ASSUME NEW i \in DOMAIN queue, queue[i] # Head(queue) PROVE queue[i] \in Queued'
    <3>1. i - 1 \in DOMAIN queue' /\ queue'[i - 1] = queue[i]
      BY <1>1, <2>2
    <3> QED
      BY <3>1 DEF Queued
  <2> QED
    BY <2>1, <2>2 DEF Queued
<1> QED
  BY <1>2, <1>3, <1>4

\* What a thread that takes or gives up a task does to the tasks that are held.
LEMMA TaskTaken ==
  ASSUME NEW S, NEW f \in [S -> Tasks \union {NoTask}], NEW t \in S, f[t] \notin Tasks,
         NEW k \in Tasks, HeldOnce(f), k \notin Holding(f)
  PROVE  LET g == [f EXCEPT ![t] = k] IN Holding(g) = Holding(f) \union {k} /\ HeldOnce(g)
<1>1. k # NoTask
  BY ThreadsAssumption
<1> QED
  BY <1>1 DEF Holding, HeldOnce

LEMMA TaskGiven ==
  ASSUME NEW S, NEW f \in [S -> Tasks \union {NoTask}], NEW t \in S, f[t] # NoTask, HeldOnce(f),
         NEW g, g = [f EXCEPT ![t] = NoTask]
  PROVE  f[t] \in Holding(f) /\ Holding(g) = Holding(f) \ {f[t]} /\ HeldOnce(g)
  BY DEF Holding, HeldOnce

\* The five ways of a task through the pool.
LEMMA OnceKept ==
  ASSUME Once, UNCHANGED <<queue, cur, arg, finished>>
  PROVE  Once' /\ Submitted' = Submitted
  BY DEF Once, Apart, NoDuplicates, HeldOnce, Queued, Holding, Submitted

LEMMA SubmitOnce ==
  ASSUME Counting, Once, NEW t \in PoolThreads, NEW k \in Tasks, Submit(t, k)
  PROVE  Once' /\ k \notin Submitted /\ Submitted' = Submitted \union {k}
<1>1. /\ k \notin Submitted /\ arg' = [arg EXCEPT ![t] = k]
      /\ pc[t] \in {"run", "idle"} /\ UNCHANGED <<queue, cur, finished>>
  BY DEF Submit, Goto
<1>2. arg[t] = NoTask /\ arg \in [PoolThreads -> Tasks \union {NoTask}]
  BY <1>1 DEF Counting, TypeOK, PoolPlaces, ArgPlaces
<1>3. Holding(arg') = Holding(arg) \union {k} /\ HeldOnce(arg')
  <2>1. k \notin Holding(arg) /\ HeldOnce(arg)
    BY <1>1 DEF Once, Submitted
  <2>2. arg[t] \notin Tasks
    BY <1>2, ThreadsAssumption
  <2>3. LET g == [arg EXCEPT ![t] = k]
        IN  Holding(g) = Holding(arg) \union {k} /\ HeldOnce(g)
    BY <1>2, <2>1, <2>2, TaskTaken
  <2> QED
    BY <1>1, <2>3
<1>4. /\ Queued' = Queued /\ Holding(cur') = Holding(cur) /\ HeldOnce(cur')
      /\ NoDuplicates(queue')
  BY <1>1 DEF Queued, Holding, Once, HeldOnce, NoDuplicates
<1> QED
  BY <1>1, <1>3, <1>4 DEF Once, Apart, Submitted

LEMMA PushOnce ==
  ASSUME Counting, Once, NEW t \in PoolThreads, Push(t)
  PROVE  /\ Once' /\ Submitted' = Submitted
         /\ arg[t] \in Tasks /\ arg[t] \notin Queued \union Holding(cur) \union finished
         /\ UNCHANGED <<cur, finished, availible>>
<1>1. /\ pc[t] = "push" /\ arg' = [arg EXCEPT ![t] = NoTask]
      /\ queue' = Append(queue, arg[t]) /\ UNCHANGED <<cur, finished, availible>>
  BY DEF Push, Goto
<1>2. /\ arg[t] # NoTask /\ arg[t] \in Tasks /\ arg \in [PoolThreads -> Tasks \union {NoTask}]
  BY <1>1 DEF Counting, TypeOK, PoolPlaces, ArgPlaces
<1>3. /\ arg[t] \in Holding(arg) /\ Holding(arg') = Holding(arg) \ {arg[t]} /\ HeldOnce(arg')
  BY <1>1, <1>2, TaskGiven DEF Once
<1>4. arg[t] \notin Queued \union Holding(cur) \union finished
  BY <1>3 DEF Once, Apart
<1>5. Queued' = Queued \union {arg[t]} /\ NoDuplicates(queue')
  BY <1>1, <1>2, <1>4, Appended DEF Counting, Once
<1>6. Holding(cur') = Holding(cur) /\ HeldOnce(cur')
  BY <1>1 DEF Holding, Once, HeldOnce
<1> QED
  BY <1>1, <1>2, <1>3, <1>4, <1>5, <1>6 DEF Once, Apart, Submitted

LEMMA PopOnce ==
  ASSUME Counting, Once, NEW w \in Workers, PopTask(w)
  PROVE  /\ Once' /\ Submitted' = Submitted
         /\ Holding(cur') = Holding(cur) \union {Head(queue)}
         /\ queue # <<>> /\ queue' = Tail(queue) /\ UNCHANGED <<finished, availible>>
<1>1. /\ pc[w] = "pop" /\ cur' = [cur EXCEPT ![w] = Head(queue)]
      /\ queue # <<>> /\ queue' = Tail(queue) /\ UNCHANGED <<arg, finished, availible>>
  BY DEF PopTask, Goto
<1>2. /\ cur[w] = NoTask /\ Head(queue) \in Tasks /\ cur \in [Workers -> Tasks \union {NoTask}]
  <2>1. Head(queue) \in Tasks
    BY <1>1 DEF Counting, TypeOK
  <2>2. cur[w] = NoTask
    BY <1>1 DEF Counting, PoolPlaces, WorkerPlaces, Submitting
  <2>3. cur \in [Workers -> Tasks \union {NoTask}]
    BY DEF Counting, TypeOK
  <2> QED
    BY <2>1, <2>2, <2>3
<1>3. Head(queue) \in Queued /\ Queued' = Queued \ {Head(queue)} /\ NoDuplicates(queue')
  BY <1>1, HeadTaken DEF Counting, Once
<1>4. Head(queue) \notin Holding(cur)
  BY <1>3 DEF Once, Apart
<1>5. Holding(cur') = Holding(cur) \union {Head(queue)} /\ HeldOnce(cur')
  <2>1. HeldOnce(cur)
    BY DEF Once
  <2>2. cur[w] \notin Tasks
    BY <1>2, ThreadsAssumption
  <2>3. LET g == [cur EXCEPT ![w] = Head(queue)]
        IN  Holding(g) = Holding(cur) \union {Head(queue)} /\ HeldOnce(g)
    BY <1>2, <1>4, <2>1, <2>2, TaskTaken
  <2> QED
    BY <1>1, <2>3
<1>6. Holding(arg') = Holding(arg) /\ HeldOnce(arg')
  BY <1>1 DEF Holding, Once, HeldOnce
<1> QED
  BY <1>1, <1>3, <1>5, <1>6 DEF Once, Apart, Submitted

LEMMA RunReturnsOnce ==
  ASSUME Counting, Once, NEW w \in Workers, RunReturns(w)
  PROVE  /\ Once' /\ Submitted' = Submitted
         /\ cur[w] \in Tasks /\ cur[w] \in Holding(cur)
         /\ Holding(cur') = Holding(cur) \ {cur[w]} /\ finished' = finished \union {cur[w]}
         /\ UNCHANGED <<queue, availible>>
<1>1. /\ pc[w] = "run" /\ cur' = [cur EXCEPT ![w] = NoTask]
      /\ finished' = finished \union {cur[w]} /\ UNCHANGED <<arg, queue, availible>>
  BY DEF RunReturns, Goto
<1>2. /\ cur[w] # NoTask /\ cur[w] \in Tasks /\ cur \in [Workers -> Tasks \union {NoTask}]
  BY <1>1 DEF Counting, TypeOK, PoolPlaces, WorkerPlaces
<1>3. cur[w] \in Holding(cur) /\ Holding(cur') = Holding(cur) \ {cur[w]} /\ HeldOnce(cur')
  BY <1>1, <1>2, TaskGiven DEF Once
<1>4. /\ Queued' = Queued /\ NoDuplicates(queue')
      /\ Holding(arg') = Holding(arg) /\ HeldOnce(arg')
  BY <1>1 DEF Holding, Once, HeldOnce, Queued, NoDuplicates
<1> QED
  BY <1>1, <1>2, <1>3, <1>4 DEF Once, Apart, Submitted

LEMMA OnceStep ==
  ASSUME Counting, Once, [Next]_vars
  PROVE  Once'
<1>1. ASSUME NEW w \in Workers, Done(w) PROVE Once'
  BY <1>1, OnceKept DEF Done, Goto, WakeAll
<1>2. CASE Quiet
  BY <1>2, QuietKeeps, OnceKept
<1> QED
  BY <1>1, <1>2, NextSteps, SubmitOnce, PushOnce, PopOnce, RunReturnsOnce

LEMMA OnceInit == Init => Once
<1> SUFFICES ASSUME Init PROVE Once
  OBVIOUS
<1>1. NoDuplicates(queue) /\ HeldOnce(cur) /\ HeldOnce(arg)
  BY DEF Init, EmptyQueue, NoDuplicates, HeldOnce
<1>2. Queued = {} /\ Holding(cur) = {} /\ Holding(arg) = {} /\ finished = {}
  BY DEF Init, EmptyQueue, Queued, Holding
<1> QED
  BY <1>1, <1>2 DEF Once, Apart

\* Whoever submits a task keeps Stop from closing the queue.
LEMMA OpenForPush ==
  ASSUME Counting, NEW t \in PoolThreads, Push(t)
  PROVE  availible
<1>1. t \in Pushing
  BY PushCounts
<1> QED
  BY <1>1, CountedIsThere DEF Counting, PoolPlaces, MainPlaces

\* Every step is a step of TaskPool or none.
LEMMA TaskPoolStep ==
  ASSUME Counting, Once, [Next]_vars
  PROVE  [Tasking!Next]_Tasking!vars
<1>1. ASSUME NEW t \in PoolThreads, Push(t) PROVE Tasking!Next
  <2>1. Tasking!Submit(arg[t])
    BY <1>1, PushOnce, OpenForPush DEF Tasking!Submit, Tasking!Known, Queued, Push, Holding
  <2> QED
    BY <1>1, <2>1, PushOnce DEF Tasking!Next
<1>2. ASSUME NEW t \in PoolThreads, NEW k \in Tasks, Submit(t, k) PROVE UNCHANGED Tasking!vars
  BY <1>2 DEF Submit, Tasking!vars, Holding
<1>3. ASSUME NEW w \in Workers, PopTask(w) PROVE Tasking!Next
  BY <1>3, PopOnce DEF Tasking!Start, Tasking!Next
<1>4. ASSUME NEW w \in Workers, RunReturns(w) PROVE Tasking!Next
  BY <1>4, RunReturnsOnce DEF Tasking!Finish, Tasking!Next
<1>5. ASSUME NEW w \in Workers, Done(w) PROVE UNCHANGED Tasking!vars
  BY <1>5 DEF Done, Tasking!vars, Holding
<1>6. CASE Close
  <2>1. pc[Main] = "close" /\ availible' = FALSE /\ UNCHANGED <<queue, cur, finished>>
    BY <1>6 DEF Close, Goto
  <2>2. availible /\ workers = 0
    BY <2>1 DEF Counting, PoolPlaces, MainPlaces, Stopping
  <2>3. queue = <<>> /\ Holding(cur) = {}
    BY <2>2, CountedIsThere DEF Counting, TypeOK, Busy, Holding
  <2>4. Holding(cur') = Holding(cur)
    BY <2>1 DEF Holding
  <2> QED
    BY <2>1, <2>2, <2>3, <2>4 DEF Tasking!Stop, Tasking!Next
<1>7. CASE Quiet /\ ~Close
  <2>1. UNCHANGED <<queue, cur, finished>>
    BY <1>7, QuietKeeps
  <2>2. availible' = availible
    BY <1>7 DEF Quiet, vars, pool, Start, CallStop, Join, WgWait, NotifyQueue, WakeWorker,
                WakeWorkers, CvWait, SpuriousReturn, PopClosed, PopWait
  <2> QED
    BY <2>1, <2>2 DEF Tasking!vars, Holding
<1> QED
  BY <1>1, <1>2, <1>3, <1>4, <1>5, <1>6, <1>7, NextSteps

\* The pool runs every task once, starts them in the order of their pushes, and
\* Stop closes the queue when all submitted tasks have run and none is left.
THEOREM PoolImplementsTaskPool == Spec => ImplementsTaskPool
<1>1. Init => Tasking!Init
  <2> SUFFICES ASSUME Init PROVE Tasking!Init
    OBVIOUS
  <2>1. Holding(cur) = {}
    BY DEF Init, EmptyQueue, Holding
  <2> QED
    BY <2>1 DEF Init, EmptyQueue, Tasking!Init
<1>2. Counting /\ Once /\ [Next]_vars => Counting' /\ Once'
  BY CountingStep, OnceStep
<1>3. Counting /\ Once /\ [Next]_vars => [Tasking!Next]_Tasking!vars
  BY TaskPoolStep
<1> QED
  BY <1>1, <1>2, <1>3, CountingInit, OnceInit, PTL DEF Spec, ImplementsTaskPool, Tasking!Spec
-----------------------------------------------------------------------------
\* The sets NoTaskIsMissed counts, and who has yet to count its notification.
ToPop == {w \in Workers : WillPop(w)}

ToWake == {t \in PoolThreads : pc[t] \in {"notify", "wakeone"}}

ToNotify == {t \in PoolThreads : pc[t] = "notify"}

ToCount == {t \in PoolThreads : pc[t] \in {"push", "notify"}}

ClosingNotified == IF pc[Main] \in {"wakeall", "join", "stopped"} THEN 1 ELSE 0

\* cv_.count_ of the queue has gone up once for every submitted task that is
\* past its notification, and once for Close; nobody waits for a later value.
CountIsNotifications ==
  /\ count["queue"] + Cardinality(ToCount) = Cardinality(Submitted) + ClosingNotified
  /\ \A w \in Workers : ticket[w].value <= count["queue"]

\* A worker that would still fall asleep has missed only tasks whose submitter
\* has yet to notify.
FreshMissNothing ==
  (\E w \in Workers : pc[w] \in WaitLabels /\ Fresh(w)) => Len(queue) <= Cardinality(ToNotify)

LEMMA WatchersAreNumbers ==
  /\ IsFiniteSet(ToPop) /\ Cardinality(ToPop) \in Nat
  /\ IsFiniteSet(ToWake) /\ Cardinality(ToWake) \in Nat
  /\ IsFiniteSet(ToNotify) /\ Cardinality(ToNotify) \in Nat
  /\ IsFiniteSet(ToCount) /\ Cardinality(ToCount) \in Nat
  /\ Cardinality(ToNotify) <= Cardinality(ToWake)
<1>1. IsFiniteSet(ToPop)
  BY ThreadsAssumption, FS_Subset DEF ToPop
<1>2. IsFiniteSet(ToWake) /\ IsFiniteSet(ToCount)
  BY ThreadsFinite, FS_Subset DEF ToWake, ToCount
<1>3. ToNotify \subseteq ToWake
  BY DEF ToNotify, ToWake
<1>4. IsFiniteSet(ToNotify) /\ Cardinality(ToNotify) <= Cardinality(ToWake)
  BY <1>2, <1>3, FS_Subset
<1> QED
  BY <1>1, <1>2, <1>4, FS_CardinalityType

LEMMA NextWatchersAreNumbers ==
  /\ IsFiniteSet(ToPop') /\ Cardinality(ToPop') \in Nat
  /\ IsFiniteSet(ToWake') /\ Cardinality(ToWake') \in Nat
  /\ IsFiniteSet(ToNotify') /\ Cardinality(ToNotify') \in Nat
  /\ Cardinality(ToNotify') <= Cardinality(ToWake')
<1>1. IsFiniteSet(ToPop')
  BY ThreadsAssumption, FS_Subset DEF ToPop
<1>2. IsFiniteSet(ToWake')
  BY ThreadsFinite, FS_Subset DEF ToWake
<1>3. ToNotify' \subseteq ToWake'
  BY DEF ToNotify, ToWake
<1>4. IsFiniteSet(ToNotify') /\ Cardinality(ToNotify') <= Cardinality(ToWake')
  BY <1>2, <1>3, FS_Subset
<1> QED
  BY <1>1, <1>2, <1>4, FS_CardinalityType

\* Only workers wait for the queue.
LEMMA WorkersWait ==
  /\ Counting => /\ Asleep("queue") = {w \in Workers : pc[w] = "asleep"}
                 /\ \A w \in Workers : Fresh(w) <=> count["queue"] = ticket[w].value
  /\ Counting' => /\ Asleep("queue")' = {w \in Workers : pc'[w] = "asleep"}
                  /\ \A w \in Workers : Fresh(w)' <=> count'["queue"] = ticket'[w].value
<1>1. ASSUME Counting PROVE Asleep("queue") = {w \in Workers : pc[w] = "asleep"}
  BY <1>1, ThreadsFinite
     DEF Counting, TypeOK, PoolPlaces, WorkerPlaces, ClientPlaces, MainPlaces, ClientLabels,
         Submitting, PoolThreads, WaitLabels, Asleep
<1>2. ASSUME Counting' PROVE Asleep("queue")' = {w \in Workers : pc'[w] = "asleep"}
  BY <1>2, ThreadsFinite
     DEF Counting, TypeOK, PoolPlaces, WorkerPlaces, ClientPlaces, MainPlaces, ClientLabels,
         Submitting, PoolThreads, WaitLabels, Asleep
<1> QED
  BY <1>1, <1>2 DEF Counting, PoolPlaces, WorkerPlaces, Fresh

\* With nothing in the queue nobody can miss a task.
LEMMA EmptyIsWatched ==
  ASSUME Len(queue') = 0
  PROVE  FreshMissNothing' /\ NoTaskIsMissed'
<1>1. Len(queue') <= Cardinality(ToNotify') /\ Len(queue') <= Cardinality(ToPop') + Cardinality(ToWake')
  BY NextWatchersAreNumbers
<1> QED
  BY <1>1 DEF FreshMissNothing, NoTaskIsMissed, ToNotify, ToPop, ToWake

\* What keeps both: nobody begins to wait or falls asleep, and the queue grows
\* no faster than the number of those who see to it.
LEMMA Watched ==
  ASSUME Counting, Counting', FreshMissNothing, NoTaskIsMissed,
         \A w \in Workers :
           /\ pc'[w] = "asleep" => pc[w] = "asleep"
           /\ pc'[w] \in WaitLabels /\ Fresh(w)' =>
                /\ pc[w] \in WaitLabels /\ Fresh(w)
                /\ Len(queue') + Cardinality(ToNotify) <= Len(queue) + Cardinality(ToNotify'),
         Len(queue') + Cardinality(ToPop) + Cardinality(ToWake)
           <= Len(queue) + Cardinality(ToPop') + Cardinality(ToWake')
  PROVE  FreshMissNothing' /\ NoTaskIsMissed'
<1>1. Len(queue') \in Nat /\ Len(queue) \in Nat
  BY DEF Counting, TypeOK
<1>2. FreshMissNothing'
  <2>1. SUFFICES ASSUME NEW w \in Workers, pc'[w] \in WaitLabels, Fresh(w)'
                 PROVE  Len(queue') <= Cardinality(ToNotify')
    BY DEF FreshMissNothing
  <2>2. Len(queue) <= Cardinality(ToNotify)
    BY <2>1 DEF FreshMissNothing
  <2>3. Len(queue') + Cardinality(ToNotify) <= Len(queue) + Cardinality(ToNotify')
    BY <2>1
  <2> QED
    BY <1>1, <2>2, <2>3, WatchersAreNumbers, NextWatchersAreNumbers
<1>3. NoTaskIsMissed'
  <2>1. SUFFICES ASSUME Asleep("queue")' # {}
                 PROVE  Len(queue') <= Cardinality(ToPop') + Cardinality(ToWake')
    BY DEF NoTaskIsMissed, ToPop, ToWake
  <2>2. Asleep("queue") # {}
    BY <2>1, WorkersWait
  <2>3. Len(queue) <= Cardinality(ToPop) + Cardinality(ToWake)
    BY <2>2 DEF NoTaskIsMissed, ToPop, ToWake
  <2> QED
    BY <1>1, <2>3, WatchersAreNumbers, NextWatchersAreNumbers
<1> QED
  BY <1>2, <1>3

\* A step by which nobody begins to wait or falls asleep, and nobody gives up
\* looking into the queue or waking.
Still ==
  /\ UNCHANGED queue /\ count'["queue"] = count["queue"]
  /\ \A w \in Workers :
       /\ ticket'[w] = ticket[w]
       /\ pc[w] \in {"new", "pop"} => pc'[w] \in {"new", "pop"}
       /\ pc'[w] \in WaitLabels => pc[w] \in WaitLabels
       /\ pc'[w] = "asleep" => pc[w] = "asleep"
       /\ pc[w] \in {"wait", "reload"} /\ ~Fresh(w) => pc'[w] \in {"wait", "reload", "pop"}
  /\ \A t \in PoolThreads : pc[t] \in {"notify", "wakeone"} => pc'[t] = pc[t]

LEMMA StillIsWatched ==
  ASSUME Counting, Counting', Still, FreshMissNothing, NoTaskIsMissed
  PROVE  FreshMissNothing' /\ NoTaskIsMissed'
<1>1. Len(queue') = Len(queue) /\ Len(queue) \in Nat
  BY DEF Still, Counting, TypeOK
<1>2. \A w \in Workers : Fresh(w)' <=> Fresh(w)
  BY WorkersWait DEF Still
<1>3. ToPop \subseteq ToPop'
  BY <1>2 DEF ToPop, WillPop, Still
<1>4. ToWake \subseteq ToWake' /\ ToNotify \subseteq ToNotify'
  BY DEF ToWake, ToNotify, Still
<1>5. /\ Cardinality(ToPop) <= Cardinality(ToPop') /\ Cardinality(ToWake) <= Cardinality(ToWake')
      /\ Cardinality(ToNotify) <= Cardinality(ToNotify')
  BY <1>3, <1>4, FS_Subset, NextWatchersAreNumbers
<1>6. /\ Len(queue') + Cardinality(ToNotify) <= Len(queue) + Cardinality(ToNotify')
      /\ Len(queue') + Cardinality(ToPop) + Cardinality(ToWake)
           <= Len(queue) + Cardinality(ToPop') + Cardinality(ToWake')
  BY <1>1, <1>5, WatchersAreNumbers, NextWatchersAreNumbers
<1> QED
  BY <1>2, <1>6, Watched DEF Still

\* Only Main closes the pool, and then there is nothing left in it.
LEMMA PlaceOf ==
  ASSUME Counting
  PROVE  /\ \A t \in PoolThreads : pc[t] \in {"notifyall", "wakeall"} => t = Main
         /\ \A t \in PoolThreads : pc[t] \in WaitLabels => t \in Workers \union {Main}
         /\ pc[Main] \in Stopping => Len(queue) = 0
<1>1. pc[Main] \in Stopping => Len(queue) = 0
  BY CountedIsThere DEF Counting, PoolPlaces, MainPlaces
<1> QED
  BY <1>1 DEF Counting, PoolPlaces, WorkerPlaces, ClientPlaces, WorkerLabels, ClientLabels,
              Submitting, WaitLabels, PoolThreads

\* Which steps are still.
LEMMA StillSteps ==
  ASSUME Counting,
         \/ UNCHANGED vars \/ Start \/ CallStop \/ Close \/ Join \/ WgWait
         \/ \E t \in PoolThreads : SpuriousReturn(t) \/ \E k \in Tasks : Submit(t, k)
         \/ \E w \in Workers : RunReturns(w) \/ Done(w)
         \/ \E t \in PoolThreads : CvWait(t) /\ ~(t \in Workers /\ pc[t] = "wait" /\ Fresh(t))
  PROVE  Still
<1>1. CASE UNCHANGED vars
  BY <1>1 DEF Still, vars, pool
<1>2. CASE Start
  BY <1>2, ThreadsFinite DEF Still, Start, pool, WaitLabels
<1>3. CASE CallStop \/ Close \/ Join
  <2>1. /\ UNCHANGED <<count, ticket, queue>> /\ pc[Main] \in {"idle", "close", "join"}
        /\ \E to \in Labels : pc' = [pc EXCEPT ![Main] = to]
    BY <1>3 DEF CallStop, Close, Join, Goto, pool, Labels
  <2> QED
    BY <2>1, ThreadsFinite DEF Still, Counting, TypeOK, WaitLabels
<1>4. CASE WgWait
  <2>1. /\ UNCHANGED <<count, queue>> /\ pc[Main] \in {"stop", "recheck"}
        /\ \E to \in Labels : pc' = [pc EXCEPT ![Main] = to]
        /\ ticket' = ticket \/ \E x : ticket' = [ticket EXCEPT ![Main] = x]
    BY <1>4 DEF WgWait, BeginWait, Goto, Labels
  <2> QED
    BY <2>1, ThreadsFinite DEF Still, Counting, TypeOK, WaitLabels
<1>5. ASSUME NEW t \in PoolThreads, SpuriousReturn(t) PROVE Still
  BY <1>5 DEF SpuriousReturn, SpuriousWake, Goto, pool, Still, Counting, TypeOK, WaitLabels
<1>6. ASSUME NEW t \in PoolThreads, NEW k \in Tasks, Submit(t, k) PROVE Still
  BY <1>6 DEF Submit, Goto, Still, Counting, TypeOK, WaitLabels
<1>7. ASSUME NEW w \in Workers, RunReturns(w) PROVE Still
  BY <1>7 DEF RunReturns, Goto, Still, Counting, TypeOK, WaitLabels
<1>8. ASSUME NEW w \in Workers, Done(w) PROVE Still
  <2>1. pc[w] = "done" /\ UNCHANGED <<ticket, queue>>
    BY <1>8 DEF Done, Goto, WakeAll
  <2>2. count'["queue"] = count["queue"]
    <3>1. count' = count \/ count' = [count EXCEPT !["wg"] = (@ + 1) % WordSize]
      BY <1>8 DEF Done, Notify
    <3> QED
      BY <3>1, ThreadsAssumption DEF Counting, TypeOK
  <2>3. \A t \in Asleep("wg") : t = Main /\ pc[t] = "asleep"
    BY ThreadsFinite, ZenonT(30) DEF Asleep, Counting, TypeOK, PoolPlaces, WorkerPlaces, ClientPlaces,
       ClientLabels, Submitting, PoolThreads, WaitLabels
  <2>4. \/ pc' = [pc EXCEPT ![w] = "pop"]
        \/ pc' = [u \in PoolThreads |->
                    IF u = w THEN "pop" ELSE IF u \in Asleep("wg") THEN "reload" ELSE pc[u]]
    BY <1>8 DEF Done, Goto, WakeAll, Counting, TypeOK
  <2>5. /\ pc'[w] = "pop" /\ \A v \in Workers \ {w} : pc'[v] = pc[v]
        /\ \A t \in PoolThreads : pc[t] \in {"notify", "wakeone"} => pc'[t] = pc[t]
    BY <2>1, <2>3, <2>4, ThreadsFinite DEF Counting, TypeOK
  <2> QED
    BY <2>1, <2>2, <2>5 DEF Still, WaitLabels
<1>9. ASSUME NEW t \in PoolThreads, CvWait(t), ~(t \in Workers /\ pc[t] = "wait" /\ Fresh(t))
      PROVE  Still
  <2>1. UNCHANGED <<count, ticket, queue>> /\ pc[t] \in {"wait", "reload"}
    BY <1>9 DEF CvWait, FutexWait, Reload, Goto, pool
  <2>2. CASE t \in Workers
    <3>1. \E to \in {"wait", "reload", "pop"} : /\ pc' = [pc EXCEPT ![t] = to]
      BY <1>9, <2>2 DEF CvWait, FutexWait, Reload, Goto
    <3> QED
      BY <2>1, <2>2, <3>1 DEF Still, Counting, TypeOK, WaitLabels
  <2>3. CASE t \notin Workers
    <3>1. \E to \in Labels : pc' = [pc EXCEPT ![t] = to]
      BY <1>9, <2>3 DEF CvWait, FutexWait, Reload, Goto, Labels
    <3> QED
      BY <2>1, <2>3, <3>1, ThreadsFinite DEF Still, Counting, TypeOK, WaitLabels
  <2> QED
    BY <2>2, <2>3
<1> QED
  BY <1>1, <1>2, <1>3, <1>4, <1>5, <1>6, <1>7, <1>8, <1>9

\* A notification wakes everybody's interest: whoever has not fallen asleep yet
\* does not, and goes on to look into the queue.
LEMMA NotifyIsWatched ==
  ASSUME Counting, Counting', CountIsNotifications, FreshMissNothing, NoTaskIsMissed,
         NEW t \in PoolThreads, NotifyQueue(t), count["queue"] + 1 < WordSize
  PROVE  FreshMissNothing' /\ NoTaskIsMissed'
<1>1. /\ UNCHANGED <<ticket, queue>>
      /\ \/ pc[t] = "notify" /\ pc' = [pc EXCEPT ![t] = "wakeone"]
         \/ pc[t] = "notifyall" /\ pc' = [pc EXCEPT ![t] = "wakeall"]
  BY DEF NotifyQueue, Goto, pool
<1>2. count'["queue"] = count["queue"] + 1 /\ count["queue"] \in Nat
  <2>1. count["queue"] \in 0 .. WordSize - 1 /\ "queue" \in CondVars
    BY ThreadsAssumption DEF Counting, TypeOK
  <2>2. count'["queue"] = (count["queue"] + 1) % WordSize
    BY <2>1 DEF NotifyQueue, Notify, Counting, TypeOK
  <2> QED
    BY <2>1, <2>2, NextCount
<1>3. \A w \in Workers : ~Fresh(w)'
  <2>1. ASSUME NEW w \in Workers PROVE count'["queue"] # ticket'[w].value
    <3>1. ticket[w].value \in Nat /\ ticket'[w] = ticket[w]
      BY <1>1, ThreadsFinite DEF Counting, TypeOK
    <3> QED
      BY <1>2, <3>1 DEF CountIsNotifications
  <2> QED
    BY <2>1, WorkersWait
<1>4. /\ ToPop \subseteq ToPop' /\ ToWake \subseteq ToWake'
      /\ \A w \in Workers : pc'[w] = "asleep" => pc[w] = "asleep"
  BY <1>1, <1>3, ThreadsFinite DEF ToPop, ToWake, WillPop, Counting, TypeOK
<1>5. Cardinality(ToPop) <= Cardinality(ToPop') /\ Cardinality(ToWake) <= Cardinality(ToWake')
  BY <1>4, FS_Subset, NextWatchersAreNumbers
<1>6. Len(queue') + Cardinality(ToPop) + Cardinality(ToWake)
        <= Len(queue) + Cardinality(ToPop') + Cardinality(ToWake')
  <2>1. Len(queue') = Len(queue) /\ Len(queue) \in Nat
    BY <1>1 DEF Counting, TypeOK
  <2> QED
    BY <1>5, <2>1, WatchersAreNumbers, NextWatchersAreNumbers
<1> QED
  BY <1>3, <1>4, <1>6, Watched

\* Push leaves a submitter behind that is about to notify.
LEMMA PushIsWatched ==
  ASSUME Counting, Counting', FreshMissNothing, NoTaskIsMissed, NEW t \in PoolThreads, Push(t)
  PROVE  FreshMissNothing' /\ NoTaskIsMissed'
<1>1. /\ pc[t] = "push" /\ pc' = [pc EXCEPT ![t] = "notify"] /\ UNCHANGED <<count, ticket>>
  BY DEF Push, Goto
<1>2. Len(queue') = Len(queue) + 1 /\ Len(queue) \in Nat
  BY PushCounts DEF Counting, TypeOK
<1>3. \A w \in Workers : Fresh(w)' <=> Fresh(w)
  BY <1>1, WorkersWait
<1>4. /\ t \notin ToNotify /\ ToNotify' = ToNotify \union {t}
      /\ t \notin ToWake /\ ToWake' = ToWake \union {t}
  BY <1>1 DEF ToNotify, ToWake, Counting, TypeOK
<1>5. ToPop' = ToPop
  BY <1>1, <1>3, ThreadsFinite DEF ToPop, WillPop, Counting, TypeOK
<1>6. /\ Cardinality(ToNotify') = Cardinality(ToNotify) + 1
      /\ Cardinality(ToWake') = Cardinality(ToWake) + 1
  BY <1>4, FS_AddElement, WatchersAreNumbers
<1>7. \A w \in Workers : /\ pc'[w] = "asleep" => pc[w] = "asleep"
                         /\ pc'[w] \in WaitLabels => pc[w] \in WaitLabels
  BY <1>1, ThreadsFinite DEF Counting, TypeOK, WaitLabels
<1>8. /\ Len(queue') + Cardinality(ToNotify) <= Len(queue) + Cardinality(ToNotify')
      /\ Len(queue') + Cardinality(ToPop) + Cardinality(ToWake)
           <= Len(queue) + Cardinality(ToPop') + Cardinality(ToWake')
  BY <1>2, <1>5, <1>6, WatchersAreNumbers
<1> QED
  BY <1>3, <1>7, <1>8, Watched

\* A worker that takes a task is one fewer to look, at one task fewer.
LEMMA PopIsWatched ==
  ASSUME Counting, Counting', FreshMissNothing, NoTaskIsMissed, NEW w \in Workers, PopTask(w)
  PROVE  FreshMissNothing' /\ NoTaskIsMissed'
<1>1. pc[w] = "pop" /\ pc' = [pc EXCEPT ![w] = "run"] /\ UNCHANGED <<count, ticket>>
  BY DEF PopTask, Goto
<1>2. Len(queue') = Len(queue) - 1 /\ Len(queue) \in Nat
  BY PopCounts DEF Counting, TypeOK
<1>3. \A v \in Workers : Fresh(v)' <=> Fresh(v)
  BY <1>1, WorkersWait
<1>4. ToNotify' = ToNotify /\ ToWake' = ToWake
  BY <1>1, ThreadsFinite DEF ToNotify, ToWake, Counting, TypeOK
<1>5. w \in ToPop /\ ToPop' = ToPop \ {w}
  BY <1>1, <1>3, ThreadsFinite DEF ToPop, WillPop, Counting, TypeOK
<1>6. Cardinality(ToPop') = Cardinality(ToPop) - 1
  BY <1>5, FS_RemoveElement, WatchersAreNumbers
<1>7. \A v \in Workers : /\ pc'[v] = "asleep" => pc[v] = "asleep"
                         /\ pc'[v] \in WaitLabels => pc[v] \in WaitLabels
  BY <1>1, ThreadsFinite DEF Counting, TypeOK, WaitLabels
<1>8. /\ Len(queue') + Cardinality(ToNotify) <= Len(queue) + Cardinality(ToNotify')
      /\ Len(queue') + Cardinality(ToPop) + Cardinality(ToWake)
           <= Len(queue) + Cardinality(ToPop') + Cardinality(ToWake')
  BY <1>2, <1>4, <1>6, WatchersAreNumbers
<1> QED
  BY <1>3, <1>7, <1>8, Watched

\* A worker that falls asleep has missed nothing that somebody will not announce.
LEMMA SleepIsWatched ==
  ASSUME Counting, Counting', FreshMissNothing, NEW w \in Workers,
         pc[w] = "wait", Fresh(w), CvWait(w)
  PROVE  FreshMissNothing' /\ NoTaskIsMissed'
<1>1. /\ pc' = [pc EXCEPT ![w] = "asleep"] /\ UNCHANGED <<count, ticket, queue>>
  BY DEF CvWait, FutexWait, Reload, Goto, pool
<1>2. Len(queue) <= Cardinality(ToNotify) /\ Len(queue) \in Nat
  BY DEF FreshMissNothing, WaitLabels, Counting, TypeOK
<1>3. ToNotify' = ToNotify
  BY <1>1, ThreadsFinite DEF ToNotify, Counting, TypeOK
<1>4. Len(queue') <= Cardinality(ToNotify')
  BY <1>1, <1>2, <1>3
<1>5. Len(queue') <= Cardinality(ToPop') + Cardinality(ToWake')
  BY <1>1, <1>2, <1>4, NextWatchersAreNumbers
<1> QED
  BY <1>4, <1>5 DEF FreshMissNothing, NoTaskIsMissed, ToPop, ToWake

\* The worker that is woken either looks into the queue, or missed nothing.
LEMMA WakeIsWatched ==
  ASSUME Counting, Counting', FreshMissNothing, NoTaskIsMissed, NEW t \in PoolThreads, WakeWorker(t)
  PROVE  FreshMissNothing' /\ NoTaskIsMissed'
<1> DEFINE to == IF t \in Workers THEN "run" ELSE "idle"
<1>1. pc[t] = "wakeone" /\ UNCHANGED <<count, ticket, queue>>
  BY DEF WakeWorker, WakeOne, pool
<1>2. Len(queue') = Len(queue) /\ Len(queue) \in Nat
  BY <1>1 DEF Counting, TypeOK
<1>3. \A w \in Workers : Fresh(w)' <=> Fresh(w)
  BY <1>1, WorkersWait
<1>4. CASE Asleep("queue") = {} /\ pc' = [pc EXCEPT ![t] = to]
  <2>1. ToNotify' = ToNotify /\ Asleep("queue")' = {}
    BY <1>1, <1>4, ThreadsFinite, WorkersWait DEF ToNotify, Counting, TypeOK
  <2>2. \A w \in Workers : pc'[w] \in WaitLabels => pc[w] \in WaitLabels
    BY <1>1, <1>4, ThreadsFinite DEF Counting, TypeOK, WaitLabels
  <2> QED
    BY <1>1, <1>3, <2>1, <2>2 DEF FreshMissNothing, NoTaskIsMissed
<1>5. ASSUME NEW u \in Workers, pc[u] = "asleep",
             pc' = [pc EXCEPT ![t] = to, ![u] = "reload"]
      PROVE  FreshMissNothing' /\ NoTaskIsMissed'
  <2>1. /\ ToNotify' = ToNotify /\ t \in ToWake /\ ToWake' = ToWake \ {t}
        /\ \A w \in Workers : /\ pc'[w] = "asleep" => pc[w] = "asleep"
                              /\ pc'[w] \in WaitLabels => pc[w] \in WaitLabels
    BY <1>1, <1>5, ThreadsFinite DEF ToNotify, ToWake, Counting, TypeOK, WaitLabels
  <2>2. CASE Fresh(u)
    <3>1. Len(queue) <= Cardinality(ToNotify)
      BY <1>5, <2>2 DEF FreshMissNothing, WaitLabels
    <3>2. /\ Len(queue') <= Cardinality(ToNotify')
          /\ Len(queue') <= Cardinality(ToPop') + Cardinality(ToWake')
      BY <1>2, <2>1, <3>1, NextWatchersAreNumbers
    <3> QED
      BY <3>2 DEF FreshMissNothing, NoTaskIsMissed, ToPop, ToWake
  <2>3. CASE ~Fresh(u)
    <3>1. u \notin ToPop /\ ToPop' = ToPop \union {u}
      BY <1>1, <1>3, <1>5, <2>3, ThreadsFinite DEF ToPop, WillPop, Counting, TypeOK
    <3>2. /\ Cardinality(ToPop') = Cardinality(ToPop) + 1
          /\ Cardinality(ToWake') = Cardinality(ToWake) - 1
      BY <2>1, <3>1, FS_AddElement, FS_RemoveElement, WatchersAreNumbers
    <3>3. /\ Len(queue') + Cardinality(ToNotify) <= Len(queue) + Cardinality(ToNotify')
          /\ Len(queue') + Cardinality(ToPop) + Cardinality(ToWake)
               <= Len(queue) + Cardinality(ToPop') + Cardinality(ToWake')
      BY <1>2, <2>1, <3>2, WatchersAreNumbers
    <3> QED
      BY <1>3, <2>1, <3>3, Watched
  <2> QED
    BY <2>2, <2>3
<1>6. \/ Asleep("queue") = {} /\ pc' = [pc EXCEPT ![t] = to]
      \/ \E u \in Workers : pc[u] = "asleep" /\ pc' = [pc EXCEPT ![t] = to, ![u] = "reload"]
  BY WorkersWait DEF WakeWorker, WakeOne
<1> QED
  BY <1>4, <1>5, <1>6

\* There are no more notifications than tasks, and one for Close: none brings
\* the word round.
LEMMA SubmittedAreTasks ==
  ASSUME Counting
  PROVE  /\ IsFiniteSet(Submitted) /\ Cardinality(Submitted) \in Nat
         /\ Cardinality(Submitted) + 1 < WordSize
<1>1. Queued \subseteq Tasks
  BY DEF Queued, Counting, TypeOK
<1>2. Holding(cur) \subseteq Tasks /\ Holding(arg) \subseteq Tasks /\ finished \subseteq Tasks
  BY DEF Holding, Counting, TypeOK
<1>3. Submitted \subseteq Tasks
  BY <1>1, <1>2 DEF Submitted
<1>4. IsFiniteSet(Submitted) /\ Cardinality(Submitted) <= Cardinality(Tasks)
  BY <1>3, ThreadsAssumption, FS_Subset
<1>5. Cardinality(Submitted) \in Nat /\ Cardinality(Tasks) \in Nat
  BY <1>4, ThreadsAssumption, FS_CardinalityType
<1> QED
  BY <1>4, <1>5, NotificationsAssumption, WordSizeAssumption

LEMMA WordLasts ==
  ASSUME Counting, CountIsNotifications, NEW t \in PoolThreads, NotifyQueue(t)
  PROVE  count["queue"] + 1 < WordSize
<1>1. count["queue"] \in Nat
  BY ThreadsAssumption DEF Counting, TypeOK
<1>2. count["queue"] + Cardinality(ToCount) = Cardinality(Submitted) + ClosingNotified
  BY DEF CountIsNotifications
<1>3. CASE pc[t] = "notify"
  <2>1. t \in ToCount
    BY <1>3 DEF ToCount
  <2>2. Cardinality(ToCount) # 0
    BY <2>1, WatchersAreNumbers, FS_EmptySet
  <2> QED
    BY <1>1, <1>2, <2>2, SubmittedAreTasks, WatchersAreNumbers, WordSizeAssumption
       DEF ClosingNotified
<1>4. CASE pc[t] = "notifyall"
  <2>1. ClosingNotified = 0
    BY <1>4, PlaceOf DEF ClosingNotified
  <2> QED
    BY <1>1, <1>2, <2>1, SubmittedAreTasks, WatchersAreNumbers, WordSizeAssumption
<1> QED
  BY <1>3, <1>4 DEF NotifyQueue, Goto

\* The steps that neither count a notification nor owe one.
Uncounted ==
  /\ count'["queue"] = count["queue"]
  /\ \A t \in PoolThreads : pc'[t] \in {"push", "notify"} <=> pc[t] \in {"push", "notify"}
  /\ pc'[Main] \in {"wakeall", "join", "stopped"} <=> pc[Main] \in {"wakeall", "join", "stopped"}
  /\ \A w \in Workers : ticket'[w] = ticket[w] \/ ticket'[w].value = count["queue"]

LEMMA UncountedSteps ==
  ASSUME Counting,
         \/ Quiet /\ ~(\E t \in PoolThreads : NotifyQueue(t))
         \/ \E w \in Workers : PopTask(w) \/ RunReturns(w) \/ Done(w)
  PROVE  Uncounted
<1>1. CASE UNCHANGED vars
  BY <1>1 DEF Uncounted, vars
<1>2. CASE Start
  BY <1>2, ThreadsFinite DEF Uncounted, Start
<1>3. CASE CallStop \/ Close \/ Join
  <2>1. /\ UNCHANGED <<count, ticket>>
        /\ \/ pc[Main] = "idle" /\ pc' = [pc EXCEPT ![Main] = "stop"]
           \/ pc[Main] = "close" /\ pc' = [pc EXCEPT ![Main] = "notifyall"]
           \/ pc[Main] = "join" /\ pc' = [pc EXCEPT ![Main] = "stopped"]
    BY <1>3 DEF CallStop, Close, Join, Goto
  <2> QED
    BY <2>1, ThreadsFinite DEF Uncounted, Counting, TypeOK
<1>4. CASE WgWait
  <2>1. /\ UNCHANGED count /\ pc[Main] \in {"stop", "recheck"}
        /\ \E to \in {"wait", "close"} : pc' = [pc EXCEPT ![Main] = to]
        /\ ticket' = ticket \/ \E x : ticket' = [ticket EXCEPT ![Main] = x]
    BY <1>4 DEF WgWait, BeginWait, Goto
  <2> QED
    BY <2>1, ThreadsFinite DEF Uncounted, Counting, TypeOK
<1>5. ASSUME NEW t \in PoolThreads, CvWait(t) \/ SpuriousReturn(t) PROVE Uncounted
  <2>1. /\ pc[t] \in WaitLabels /\ UNCHANGED <<count, ticket>>
        /\ \E to \in WaitLabels \union {"pop", "recheck"} : pc' = [pc EXCEPT ![t] = to]
    BY <1>5 DEF CvWait, SpuriousReturn, FutexWait, Reload, SpuriousWake, Goto, WaitLabels
  <2> QED
    BY <2>1 DEF Uncounted, Counting, TypeOK, WaitLabels
<1>6. ASSUME NEW t \in PoolThreads, WakeWorker(t) PROVE Uncounted
  <2>1. /\ pc[t] = "wakeone" /\ UNCHANGED <<count, ticket>>
        /\ \/ \E u \in Asleep("queue") :
                 pc' = [pc EXCEPT ![t] = IF t \in Workers THEN "run" ELSE "idle", ![u] = "reload"]
           \/ pc' = [pc EXCEPT ![t] = IF t \in Workers THEN "run" ELSE "idle"]
    BY <1>6 DEF WakeWorker, WakeOne
  <2>2. \A u \in Asleep("queue") : u \in PoolThreads /\ pc[u] = "asleep"
    BY DEF Asleep, Counting, TypeOK
  <2> QED
    BY <2>1, <2>2, ThreadsFinite DEF Uncounted, Counting, TypeOK
<1>7. ASSUME NEW t \in PoolThreads, WakeWorkers(t) PROVE Uncounted
  <2>1. /\ pc[t] = "wakeall" /\ UNCHANGED <<count, ticket>> /\ t = Main
        /\ pc' = [u \in PoolThreads |->
                    IF u = t THEN "join" ELSE IF u \in Asleep("queue") THEN "reload" ELSE pc[u]]
    BY <1>7, PlaceOf DEF WakeWorkers, WakeAll, Counting, TypeOK
  <2>2. \A u \in Asleep("queue") : u \in PoolThreads /\ pc[u] = "asleep"
    BY DEF Asleep, Counting, TypeOK
  <2> QED
    BY <2>1, <2>2, ThreadsFinite DEF Uncounted
<1>8. ASSUME NEW w \in Workers, PopClosed(w) \/ PopWait(w) PROVE Uncounted
  <2>1. /\ pc[w] = "pop" /\ UNCHANGED count
        /\ \E to \in {"exit", "wait"} : pc' = [pc EXCEPT ![w] = to]
        /\ \/ ticket' = ticket
           \/ ticket' = [ticket EXCEPT ![w] = [cv |-> "queue", value |-> count["queue"]]]
    BY <1>8 DEF PopClosed, PopWait, BeginWait, Goto
  <2> QED
    BY <2>1, ThreadsFinite DEF Uncounted, Counting, TypeOK
<1>9. ASSUME NEW w \in Workers, PopTask(w) \/ RunReturns(w) PROVE Uncounted
  BY <1>9, ThreadsFinite DEF PopTask, RunReturns, Goto, Uncounted, Counting, TypeOK
<1>10. ASSUME NEW w \in Workers, Done(w) PROVE Uncounted
  <2>1. pc[w] = "done" /\ UNCHANGED ticket
    BY <1>10 DEF Done, Goto, WakeAll
  <2>2. count'["queue"] = count["queue"]
    <3>1. count' = count \/ count' = [count EXCEPT !["wg"] = (@ + 1) % WordSize]
      BY <1>10 DEF Done, Notify
    <3> QED
      BY <3>1, ThreadsAssumption DEF Counting, TypeOK
  <2>3. \A u \in Asleep("wg") : u \in PoolThreads /\ pc[u] = "asleep"
    BY DEF Asleep, Counting, TypeOK
  <2>4. \/ pc' = [pc EXCEPT ![w] = "pop"]
        \/ pc' = [u \in PoolThreads |->
                    IF u = w THEN "pop" ELSE IF u \in Asleep("wg") THEN "reload" ELSE pc[u]]
    BY <1>10 DEF Done, Goto, WakeAll, Counting, TypeOK
  <2> QED
    BY <2>1, <2>2, <2>3, <2>4, ThreadsFinite DEF Uncounted, Counting, TypeOK
<1> QED
  BY <1>1, <1>2, <1>3, <1>4, <1>5, <1>6, <1>7, <1>8, <1>9, <1>10 DEF Quiet

\* Submit owes a notification, Notify counts it.
LEMMA CountIsNotificationsStep ==
  ASSUME Counting, Once, CountIsNotifications, [Next]_vars
  PROVE  CountIsNotifications'
<1>0. /\ count["queue"] \in Nat
      /\ count["queue"] + Cardinality(ToCount) = Cardinality(Submitted) + ClosingNotified
      /\ \A w \in Workers : ticket[w].value <= count["queue"] /\ ticket[w].value \in Nat
  <2>1. count["queue"] \in Nat
    BY ThreadsAssumption DEF Counting, TypeOK
  <2>2. \A w \in Workers : ticket[w].value \in Nat
    BY ThreadsFinite DEF Counting, TypeOK
  <2> QED
    BY <2>1, <2>2 DEF CountIsNotifications
<1>1. ASSUME Uncounted, Submitted' = Submitted PROVE CountIsNotifications'
  <2>1. ToCount' = ToCount /\ ClosingNotified' = ClosingNotified
    BY <1>1 DEF Uncounted, ToCount, ClosingNotified
  <2>2. \A w \in Workers : ticket'[w].value <= count'["queue"]
    BY <1>0, <1>1 DEF Uncounted
  <2> QED
    BY <1>0, <1>1, <2>1, <2>2 DEF CountIsNotifications, Uncounted
<1>2. ASSUME NEW t \in PoolThreads, NEW k \in Tasks, Submit(t, k) PROVE CountIsNotifications'
  <2>1. /\ pc[t] \in {"run", "idle"} /\ pc' = [pc EXCEPT ![t] = "push"]
        /\ UNCHANGED <<count, ticket>>
    BY <1>2 DEF Submit, Goto
  <2>2. /\ t \notin ToCount /\ ToCount' = ToCount \union {t}
        /\ ClosingNotified' = ClosingNotified
    BY <2>1, ThreadsFinite DEF ToCount, ClosingNotified, Counting, TypeOK
  <2>3. Cardinality(ToCount') = Cardinality(ToCount) + 1
    BY <2>2, FS_AddElement, WatchersAreNumbers
  <2>4. Cardinality(Submitted') = Cardinality(Submitted) + 1
    BY <1>2, SubmitOnce, SubmittedAreTasks, FS_AddElement
  <2>5. ClosingNotified \in Nat
    BY DEF ClosingNotified
  <2> QED
    BY <1>0, <2>1, <2>2, <2>3, <2>4, <2>5, WatchersAreNumbers, SubmittedAreTasks
       DEF CountIsNotifications
<1>3. ASSUME NEW t \in PoolThreads, Push(t) PROVE CountIsNotifications'
  <2>1. pc[t] = "push" /\ pc' = [pc EXCEPT ![t] = "notify"] /\ UNCHANGED <<count, ticket>>
    BY <1>3 DEF Push, Goto
  <2>2. Uncounted
    BY <2>1, ThreadsFinite DEF Uncounted, Counting, TypeOK
  <2> QED
    BY <1>1, <1>3, <2>2, PushOnce
<1>4. ASSUME NEW t \in PoolThreads, NotifyQueue(t) PROVE CountIsNotifications'
  <2>1. /\ UNCHANGED <<ticket, queue, cur, arg, finished>>
        /\ \/ pc[t] = "notify" /\ pc' = [pc EXCEPT ![t] = "wakeone"]
           \/ pc[t] = "notifyall" /\ t = Main /\ pc' = [pc EXCEPT ![t] = "wakeall"]
    BY <1>4, PlaceOf DEF NotifyQueue, Goto, pool
  <2>2. count'["queue"] = count["queue"] + 1
    <3>1. count["queue"] \in 0 .. WordSize - 1 /\ "queue" \in CondVars
      BY ThreadsAssumption DEF Counting, TypeOK
    <3>2. count'["queue"] = (count["queue"] + 1) % WordSize
      BY <1>4, <3>1 DEF NotifyQueue, Notify, Counting, TypeOK
    <3> QED
      BY <1>4, <3>1, <3>2, NextCount, WordLasts
  <2>3. Submitted' = Submitted
    BY <2>1, OnceKept
  <2>4. \A w \in Workers : ticket'[w].value <= count'["queue"]
    BY <1>0, <2>1, <2>2
  <2>5. CASE pc[t] = "notify"
    <3>1. /\ t \in ToCount /\ ToCount' = ToCount \ {t} /\ ClosingNotified' = ClosingNotified
      BY <2>1, <2>5, ThreadsFinite DEF ToCount, ClosingNotified, Counting, TypeOK
    <3>2. Cardinality(ToCount') = Cardinality(ToCount) - 1
      BY <3>1, FS_RemoveElement, WatchersAreNumbers
    <3> QED
      BY <1>0, <2>2, <2>3, <2>4, <3>1, <3>2, WatchersAreNumbers DEF CountIsNotifications
  <2>6. CASE pc[t] = "notifyall"
    <3>1. ToCount' = ToCount /\ ClosingNotified = 0 /\ ClosingNotified' = 1
      BY <2>1, <2>6, ThreadsFinite DEF ToCount, ClosingNotified, Counting, TypeOK
    <3> QED
      BY <1>0, <2>2, <2>3, <2>4, <3>1, WatchersAreNumbers, SubmittedAreTasks
         DEF CountIsNotifications
  <2> QED
    BY <2>1, <2>5, <2>6
<1>5. ASSUME NEW w \in Workers, PopTask(w) \/ RunReturns(w) \/ Done(w) PROVE CountIsNotifications'
  <2>1. Submitted' = Submitted
    <3>1. CASE Done(w)
      BY <3>1, OnceKept DEF Done, Goto, WakeAll
    <3> QED
      BY <1>5, <3>1, PopOnce, RunReturnsOnce
  <2> QED
    BY <1>1, <1>5, <2>1, UncountedSteps
<1>6. CASE Quiet
  BY <1>1, <1>4, <1>6, QuietKeeps, OnceKept, UncountedSteps
<1> QED
  BY <1>2, <1>3, <1>4, <1>5, <1>6, NextSteps

\* The inductive step of NoTaskIsMissed.
LEMMA WatchStep ==
  ASSUME Counting, Counting', CountIsNotifications, FreshMissNothing, NoTaskIsMissed, [Next]_vars
  PROVE  FreshMissNothing' /\ NoTaskIsMissed'
<1>1. CASE Still
  BY <1>1, StillIsWatched
<1>2. ASSUME NEW t \in PoolThreads, NotifyQueue(t) PROVE FreshMissNothing' /\ NoTaskIsMissed'
  BY <1>2, NotifyIsWatched, WordLasts
<1>3. ASSUME NEW t \in PoolThreads, WakeWorkers(t) PROVE FreshMissNothing' /\ NoTaskIsMissed'
  <2>1. t = Main /\ pc[t] = "wakeall" /\ queue' = queue
    BY <1>3, PlaceOf DEF WakeWorkers, WakeAll, pool
  <2> QED
    BY <2>1, PlaceOf, EmptyIsWatched DEF Stopping
<1>4. ASSUME NEW w \in Workers, PopClosed(w) \/ PopWait(w)
      PROVE  FreshMissNothing' /\ NoTaskIsMissed'
  <2>1. Len(queue') = 0
    BY <1>4 DEF PopClosed, PopWait, pool
  <2> QED
    BY <2>1, EmptyIsWatched
<1>5. ASSUME NEW t \in PoolThreads, CvWait(t) PROVE FreshMissNothing' /\ NoTaskIsMissed'
  BY <1>1, <1>5, SleepIsWatched, StillSteps
<1>6. CASE Quiet
  BY <1>1, <1>2, <1>3, <1>4, <1>5, <1>6, WakeIsWatched, StillSteps DEF Quiet
<1> QED
  BY <1>1, <1>6, NextSteps, StillSteps, PushIsWatched, PopIsWatched

\* Nobody waits before Start.
LEMMA WatchInit == Init => CountIsNotifications /\ FreshMissNothing /\ NoTaskIsMissed
<1> SUFFICES ASSUME Init PROVE CountIsNotifications /\ FreshMissNothing /\ NoTaskIsMissed
  OBVIOUS
<1>1. ToCount = {} /\ Submitted = {} /\ ClosingNotified = 0
  BY ThreadsFinite DEF Init, EmptyQueue, ToCount, Submitted, Queued, Holding, ClosingNotified
<1>2. CountIsNotifications
  <2>1. Cardinality(ToCount) = 0 /\ Cardinality(Submitted) = 0
    BY <1>1, FS_EmptySet
  <2>2. count["queue"] = 0 /\ \A w \in Workers : ticket[w].value = 0
    BY ThreadsAssumption, ThreadsFinite DEF Init, EmptyQueue
  <2> QED
    BY <1>1, <2>1, <2>2 DEF CountIsNotifications
<1>3. \A t \in PoolThreads : pc[t] \notin WaitLabels
  BY DEF Init, EmptyQueue, WaitLabels
<1>4. Asleep("queue") = {}
  BY DEF Init, EmptyQueue, Asleep
<1> QED
  BY <1>2, <1>3, <1>4, ThreadsFinite DEF FreshMissNothing, NoTaskIsMissed

\* No wake-up is lost between Push and Pop, for any number of workers and tasks
\* the word of the condition variable can count: while a worker sleeps, every
\* queued task has a worker on its way or a submitter about to wake one.
THEOREM NoTaskIsMissedHolds == Spec => []NoTaskIsMissed
<1> DEFINE Inv == Counting /\ Once /\ CountIsNotifications /\ FreshMissNothing /\ NoTaskIsMissed
<1>1. Init => Inv
  BY CountingInit, OnceInit, WatchInit
<1>2. Inv /\ [Next]_vars => Inv'
  BY CountingStep, OnceStep, CountIsNotificationsStep, WatchStep
<1> QED
  BY <1>1, <1>2, PTL DEF Spec
-------------------------------------------------------------------------------
AdderLabels ==
  {"out", "add", "adding", "done", "doing", "notify", "wakeall", "clear", "unlock", "leave"}

WaiterLabels == {"out", "entry", "entered", "leave"} \union Sleeping

\* Who is where, and that mutex_ is held by one thread.
GroupPlaces ==
  /\ \A t \in Adders : pc[t] \in AdderLabels
  /\ \A t \in Waiters : pc[t] \in WaiterLabels
  /\ \A t \in Users : ticket[t].cv = "wg"
  /\ \A t, u \in Users : pc[t] \in Critical /\ pc[u] \in Critical => t = u

Arriving == {t \in Adders : pc[t] \in {"add", "adding"}}

Reporting == {t \in Adders : pc[t] \in {"done", "doing"}}

\* count_workers_ is the Dones to come.
WorkersAreOwed == countWorkers = owed + Cardinality(Reporting)

NotifyDue == \E t \in Adders : pc[t] = "notify"

\* A round has an Add of its own, and a notification at most; so count_ does not
\* come back to a value that a waiter has read.
RoundsAreCounted ==
  /\ count["wg"] + (IF NotifyDue THEN 1 ELSE 0) + (IF countWorkers > 0 THEN 1 ELSE 0)
       + Cardinality(Arriving) <= adds
  /\ \A t \in Users : ticket[t].value <= count["wg"]

\* Who was released is still in the loop, and while the count is 0 everybody in
\* it was.
Released ==
  /\ released \subseteq InLoop
  /\ countWorkers = 0 => InLoop \subseteq released
  /\ Notifying => countWorkers = 0

\* Who was released and not overtaken will not sleep on.
ReleasedWake ==
  \A t \in released \ overtaken :
    /\ pc[t] \in {"wait", "asleep", "reload"} /\ Fresh(t) => NotifyDue
    /\ pc[t] = "asleep" => NotifyDue \/ \E u \in Adders : pc[u] = "wakeall"

\* Once a waiter is back for good, no Done is at work in the group.
Settled ==
  /\ settled # {} =>
       /\ countWorkers = 0
       /\ \A u \in Adders : pc[u] \in {"out", "add", "adding", "leave"}
  /\ ~intact => owed = 0

GroupKept ==
  /\ GroupTypeOK /\ GroupPlaces /\ WorkersAreOwed /\ RoundsAreCounted
  /\ Released /\ WaitersAreRegistered /\ ReleasedWake
  /\ Settled /\ DestroyedIsUnused

LEMMA UsersFinite ==
  /\ IsFiniteSet(Arriving) /\ Cardinality(Arriving) \in Nat
  /\ IsFiniteSet(Reporting) /\ Cardinality(Reporting) \in Nat
  /\ IsFiniteSet(InLoop) /\ IsFiniteSet(InLoop \ released) /\ Cardinality(InLoop \ released) \in Nat
  /\ Reporting = {} <=> Cardinality(Reporting) = 0
  /\ InLoop \ released = {} <=> Cardinality(InLoop \ released) = 0
<1>1. /\ IsFiniteSet(Arriving) /\ IsFiniteSet(Reporting) /\ IsFiniteSet(InLoop)
      /\ IsFiniteSet(InLoop \ released)
  BY GroupAssumption, FS_Subset DEF Arriving, Reporting, InLoop
<1> QED
  BY <1>1, FS_CardinalityType, FS_EmptySet

\* The two kinds of threads do not mix, and a Done at work is counted.
LEMMA AtWork ==
  ASSUME GroupKept
  PROVE  /\ \A t \in Adders : t \in Users /\ t \notin Waiters /\ pc[t] \notin Sleeping
         /\ \A t \in Waiters : t \in Users /\ t \notin Adders
         /\ \A t \in Adders : pc[t] \in {"done", "doing"} => countWorkers > 0
         /\ countWorkers = 0 => owed = 0
         /\ owed \in Nat /\ countWorkers \in Nat
<1>1. \A t \in Adders : pc[t] \in {"done", "doing"} => Reporting # {}
  BY DEF Reporting
<1>2. /\ owed \in Nat /\ countWorkers \in Nat
      /\ countWorkers = owed + Cardinality(Reporting)
  BY DEF GroupKept, GroupTypeOK, WorkersAreOwed
<1>3. \A t \in Adders : pc[t] \in {"done", "doing"} => countWorkers > 0
  BY <1>1, <1>2, UsersFinite
<1>4. countWorkers = 0 => owed = 0
  BY <1>2, UsersFinite
<1>5. \A t \in Adders : t \in Users /\ t \notin Waiters /\ pc[t] \notin Sleeping
  BY GroupAssumption DEF Users, GroupKept, GroupPlaces, AdderLabels, Sleeping
<1>6. \A t \in Waiters : t \in Users /\ t \notin Adders
  BY GroupAssumption DEF Users
<1> QED
  BY <1>2, <1>3, <1>4, <1>5, <1>6

LEMMA GroupTyped == ASSUME GroupKept, [GroupNext]_groupVars PROVE GroupTypeOK'
<1> DEFINE Words == /\ count \in [CondVars -> 0 .. WordSize - 1]
                    /\ ticket \in [Users -> [cv : CondVars, value : 0 .. WordSize - 1]]
                    /\ pc \in [Users -> GroupLabels]
<1> USE DEF GroupTypeOK, GroupLabels, Critical, Sleeping, Goto, group, world
<1>0. /\ GroupTypeOK
      /\ \A t \in Users : pc[t] = "doing" /\ t \in Adders => countWorkers > 0
      /\ MaxAdds \in Nat /\ MaxWaits \in Nat /\ WordSize \in Nat
  BY AtWork, GroupAssumption, WordSizeAssumption DEF GroupKept
<1>1. ASSUME NEW t \in Adders, CallAdd(t) PROVE GroupTypeOK'
  <2>1. Words'
    BY <1>0, <1>1 DEF CallAdd
  <2> QED
    BY <2>1, <1>0, <1>1 DEF CallAdd
<1>2. ASSUME NEW t \in Adders, CallDone(t) PROVE GroupTypeOK'
  <2>1. Words'
    BY <1>0, <1>2 DEF CallDone
  <2> QED
    BY <2>1, <1>0, <1>2 DEF CallDone
<1>3. ASSUME NEW t \in Waiters, CallWait(t) PROVE GroupTypeOK'
  <2>1. Words'
    BY <1>0, <1>3 DEF CallWait
  <2> QED
    BY <2>1, <1>0, <1>3 DEF CallWait
<1>4. ASSUME NEW t \in Users, Acquire(t) \/ Leave(t) PROVE GroupTypeOK'
  BY <1>0, <1>4 DEF Acquire, Leave
<1>5. ASSUME NEW t \in Adders, NEW n \in 1 .. MaxCount, Add(t, n) PROVE GroupTypeOK'
  <2>1. Words'
    BY <1>0, <1>5 DEF Add
  <2> QED
    BY <2>1, <1>0, <1>5 DEF Add
<1>6. ASSUME NEW t \in Adders, CountDown(t) PROVE GroupTypeOK'
  <2>1. countWorkers > 0
    BY <1>0, <1>6 DEF CountDown, Users
  <2>2. Words'
    BY <1>0, <1>6 DEF CountDown
  <2> QED
    BY <2>1, <2>2, <1>0, <1>6 DEF CountDown, InLoop
<1>7. ASSUME NEW t \in Adders, NotifyAll(t) PROVE GroupTypeOK'
  <2>1. count' \in [CondVars -> 0 .. WordSize - 1]
    <3>1. count["wg"] \in 0 .. WordSize - 1
      BY <1>0, GroupAssumption
    <3>2. (count["wg"] + 1) % WordSize \in 0 .. WordSize - 1
      BY <3>1, WordSizeAssumption
    <3> QED
      BY <3>2, <1>0, <1>7 DEF NotifyAll, Notify
  <2> QED
    BY <2>1, <1>0, <1>7 DEF NotifyAll
<1>8. ASSUME NEW t \in Adders, WakeWaiters(t) PROVE GroupTypeOK'
  BY <1>0, <1>8 DEF WakeWaiters, WakeAll
<1>9. ASSUME NEW t \in Adders, ClearWaiters(t) \/ Unlock(t) PROVE GroupTypeOK'
  BY <1>0, <1>9 DEF ClearWaiters, Unlock
<1>10. ASSUME NEW t \in Waiters, WaitEnds(t) PROVE GroupTypeOK'
  BY <1>0, <1>10 DEF WaitEnds
<1>11. ASSUME NEW t \in Waiters, WaitBegins(t) \/ WaitGoesOn(t) PROVE GroupTypeOK'
  <2>1. ticket' \in [Users -> [cv : CondVars, value : 0 .. WordSize - 1]]
    BY <1>0, <1>11, GroupAssumption DEF WaitBegins, WaitGoesOn, BeginWait
  <2> QED
    BY <2>1, <1>0, <1>11 DEF WaitBegins, WaitGoesOn, BeginWait
<1>12. ASSUME NEW t \in Waiters, SleepInWait(t) \/ ReturnsSpuriously(t) PROVE GroupTypeOK'
  BY <1>0, <1>12 DEF SleepInWait, FutexWait, Reload, ReturnsSpuriously, SpuriousWake
<1>13. CASE DestroyGroup
  BY <1>0, <1>13 DEF DestroyGroup
<1>14. CASE UNCHANGED groupVars
  BY <1>0, <1>14 DEF groupVars
<1> QED
  BY <1>1, <1>2, <1>3, <1>4, <1>5, <1>6, <1>7, <1>8, <1>9, <1>10, <1>11, <1>12, <1>13, <1>14
  DEF GroupNext, GroupStep

LEMMA PlacesKept == ASSUME GroupKept, [GroupNext]_groupVars PROVE GroupPlaces'
<1> USE DEF GroupPlaces, AdderLabels, WaiterLabels, Critical, Sleeping, Goto, group, world
<1>0. /\ GroupPlaces /\ pc \in [Users -> GroupLabels]
      /\ ticket \in [Users -> [cv : CondVars, value : 0 .. WordSize - 1]]
      /\ \A t \in Adders : t \in Users /\ t \notin Waiters
      /\ \A t \in Waiters : t \in Users /\ t \notin Adders
  BY AtWork DEF GroupKept, GroupTypeOK
<1>1. ASSUME NEW t \in Adders, CallAdd(t) \/ CallDone(t) PROVE GroupPlaces'
  BY <1>0, <1>1 DEF CallAdd, CallDone
<1>2. ASSUME NEW t \in Waiters, CallWait(t) PROVE GroupPlaces'
  BY <1>0, <1>2 DEF CallWait
<1>3. ASSUME NEW t \in Users, Acquire(t) PROVE GroupPlaces'
  BY <1>0, <1>3 DEF Acquire, MutexFree
<1>4. ASSUME NEW t \in Users, Leave(t) PROVE GroupPlaces'
  BY <1>0, <1>4 DEF Leave
<1>5. ASSUME NEW t \in Adders, NEW n \in 1 .. MaxCount, Add(t, n) PROVE GroupPlaces'
  BY <1>0, <1>5 DEF Add
<1>6. ASSUME NEW t \in Adders, CountDown(t) PROVE GroupPlaces'
  BY <1>0, <1>6 DEF CountDown
<1>7. ASSUME NEW t \in Adders, NotifyAll(t) \/ ClearWaiters(t) \/ Unlock(t) PROVE GroupPlaces'
  BY <1>0, <1>7 DEF NotifyAll, ClearWaiters, Unlock
<1>8. ASSUME NEW t \in Adders, WakeWaiters(t) PROVE GroupPlaces'
  <2>1. /\ pc[t] = "wakeall" /\ pc'[t] = "clear" /\ ticket' = ticket
        /\ \A u \in Users \ {t} : pc'[u] = pc[u] \/ (pc[u] = "asleep" /\ pc'[u] = "reload")
    BY <1>0, <1>8 DEF WakeWaiters, WakeAll, Asleep
  <2> QED
    BY <2>1, <1>0
<1>10. ASSUME NEW t \in Waiters, WaitEnds(t) PROVE GroupPlaces'
  BY <1>0, <1>10 DEF WaitEnds
<1>11. ASSUME NEW t \in Waiters, WaitBegins(t) \/ WaitGoesOn(t) PROVE GroupPlaces'
  BY <1>0, <1>11 DEF WaitBegins, WaitGoesOn, BeginWait
<1>12. ASSUME NEW t \in Waiters, SleepInWait(t) \/ ReturnsSpuriously(t) PROVE GroupPlaces'
  BY <1>0, <1>12 DEF SleepInWait, FutexWait, Reload, ReturnsSpuriously, SpuriousWake
<1>13. CASE DestroyGroup
  BY <1>0, <1>13 DEF DestroyGroup
<1>14. CASE UNCHANGED groupVars
  BY <1>0, <1>14 DEF groupVars
<1> QED
  BY <1>1, <1>2, <1>3, <1>4, <1>5, <1>6, <1>7, <1>8, <1>10, <1>11, <1>12, <1>13, <1>14
  DEF GroupNext, GroupStep

\* Steps between which the counts are as they were.
CountsStay ==
  /\ Arriving' = Arriving /\ Reporting' = Reporting
  /\ UNCHANGED <<countWorkers, owed, adds>>

LEMMA QuietCounts ==
  ASSUME GroupKept
  PROVE  /\ \A t \in Waiters :
              CallWait(t) \/ WaitEnds(t) \/ WaitBegins(t) \/ WaitGoesOn(t) \/ SleepInWait(t)
                \/ ReturnsSpuriously(t) => CountsStay
         /\ \A t \in Users : Acquire(t) \/ Leave(t) => CountsStay
         /\ \A t \in Adders :
              NotifyAll(t) \/ WakeWaiters(t) \/ ClearWaiters(t) \/ Unlock(t) => CountsStay
         /\ DestroyGroup \/ UNCHANGED groupVars => CountsStay
<1> USE DEF CountsStay, Arriving, Reporting, Goto, group, world
<1>0. /\ pc \in [Users -> GroupLabels]
      /\ \A t \in Adders : t \in Users /\ t \notin Waiters
      /\ \A t \in Waiters : t \in Users /\ t \notin Adders
  BY AtWork DEF GroupKept, GroupTypeOK
<1>1. ASSUME NEW t \in Waiters,
             CallWait(t) \/ WaitEnds(t) \/ WaitBegins(t) \/ WaitGoesOn(t) \/ SleepInWait(t)
               \/ ReturnsSpuriously(t)
      PROVE  CountsStay
  <2>1. \A u \in Adders : pc'[u] = pc[u]
    BY <1>0, <1>1
    DEF CallWait, WaitEnds, WaitBegins, WaitGoesOn, SleepInWait, ReturnsSpuriously, BeginWait,
        FutexWait, Reload, SpuriousWake
  <2>2. UNCHANGED <<countWorkers, owed, adds>>
    BY <1>1
    DEF CallWait, WaitEnds, WaitBegins, WaitGoesOn, SleepInWait, ReturnsSpuriously
  <2> QED
    BY <2>1, <2>2
<1>2. ASSUME NEW t \in Users, Acquire(t) \/ Leave(t) PROVE CountsStay
  BY <1>0, <1>2 DEF Acquire, Leave
<1>3. ASSUME NEW t \in Adders, NotifyAll(t) \/ ClearWaiters(t) \/ Unlock(t) PROVE CountsStay
  BY <1>0, <1>3 DEF NotifyAll, ClearWaiters, Unlock
<1>4. ASSUME NEW t \in Adders, WakeWaiters(t) PROVE CountsStay
  BY <1>0, <1>4 DEF WakeWaiters, WakeAll, Asleep
<1>5. ASSUME DestroyGroup \/ UNCHANGED groupVars PROVE CountsStay
  BY <1>5 DEF DestroyGroup, groupVars
<1> QED
  BY <1>1, <1>2, <1>3, <1>4, <1>5

\* The steps that count, seen through the sets they change.
LEMMA CountingSteps ==
  ASSUME GroupKept, NEW t \in Adders
  PROVE  /\ CallAdd(t) =>
              /\ Cardinality(Arriving') = Cardinality(Arriving) + 1 /\ Reporting' = Reporting
              /\ adds' = adds + 1 /\ UNCHANGED <<countWorkers, owed>>
         /\ CallDone(t) =>
              /\ Cardinality(Reporting') = Cardinality(Reporting) + 1 /\ Arriving' = Arriving
              /\ owed' = owed - 1 /\ UNCHANGED <<countWorkers, adds>>
         /\ \A n \in 1 .. MaxCount : Add(t, n) =>
              /\ Cardinality(Arriving') = Cardinality(Arriving) - 1 /\ Reporting' = Reporting
              /\ countWorkers' = countWorkers + n /\ owed' = owed + n /\ adds' = adds
         /\ CountDown(t) =>
              /\ Cardinality(Reporting') = Cardinality(Reporting) - 1 /\ Arriving' = Arriving
              /\ countWorkers' = countWorkers - 1 /\ UNCHANGED <<owed, adds>>
<1> USE DEF Arriving, Reporting, Goto
<1>0. pc \in [Users -> GroupLabels] /\ \A u \in Adders : u \in Users
  BY AtWork DEF GroupKept, GroupTypeOK
<1>f. IsFiniteSet(Arriving) /\ IsFiniteSet(Reporting)
  BY UsersFinite
<1>1. ASSUME CallAdd(t)
      PROVE  Arriving' = Arriving \union {t} /\ t \notin Arriving /\ Reporting' = Reporting
  BY <1>0, <1>1 DEF CallAdd
<1>2. ASSUME CallDone(t)
      PROVE  Reporting' = Reporting \union {t} /\ t \notin Reporting /\ Arriving' = Arriving
  BY <1>0, <1>2 DEF CallDone
<1>3. ASSUME NEW n \in 1 .. MaxCount, Add(t, n)
      PROVE  Arriving' = Arriving \ {t} /\ t \in Arriving /\ Reporting' = Reporting
  BY <1>0, <1>3 DEF Add
<1>4. ASSUME CountDown(t)
      PROVE  Reporting' = Reporting \ {t} /\ t \in Reporting /\ Arriving' = Arriving
  BY <1>0, <1>4 DEF CountDown
<1> USE <1>f, FS_AddElement, FS_RemoveElement
<1> HIDE DEF Arriving, Reporting
<1>5. CallAdd(t) => Cardinality(Arriving') = Cardinality(Arriving) + 1
  BY <1>1
<1>6. CallDone(t) => Cardinality(Reporting') = Cardinality(Reporting) + 1
  BY <1>2
<1>7. \A n \in 1 .. MaxCount : Add(t, n) => Cardinality(Arriving') = Cardinality(Arriving) - 1
  BY <1>3
<1>8. CountDown(t) => Cardinality(Reporting') = Cardinality(Reporting) - 1
  BY <1>4
<1> QED
  BY <1>1, <1>2, <1>3, <1>4, <1>5, <1>6, <1>7, <1>8
  DEF CallAdd, CallDone, Add, CountDown, group

LEMMA OwedKept == ASSUME GroupKept, [GroupNext]_groupVars PROVE WorkersAreOwed'
<1> USE DEF WorkersAreOwed
<1>0. /\ WorkersAreOwed /\ owed \in Nat /\ Cardinality(Reporting) \in Nat /\ countWorkers \in Nat
  BY UsersFinite DEF GroupKept, GroupTypeOK
<1>1. CASE CountsStay
  BY <1>0, <1>1 DEF CountsStay
<1>2. ASSUME NEW t \in Adders,
             CallAdd(t) \/ CallDone(t) \/ CountDown(t) \/ \E n \in 1 .. MaxCount : Add(t, n)
      PROVE  WorkersAreOwed'
  <2>1. CASE CallAdd(t)
    BY <2>1, <1>0, CountingSteps
  <2>2. CASE CallDone(t)
    BY <2>2, <1>0, CountingSteps
  <2>3. ASSUME NEW n \in 1 .. MaxCount, Add(t, n) PROVE WorkersAreOwed'
    BY <2>3, <1>0, CountingSteps, GroupAssumption
  <2>4. CASE CountDown(t)
    BY <2>4, <1>0, CountingSteps
  <2> QED
    BY <1>2, <2>1, <2>2, <2>3, <2>4
<1> QED
  BY <1>1, <1>2, QuietCounts DEF GroupNext, GroupStep

\* Who can be at "notify", and when it stops.
LEMMA NotifyDueAfter ==
  ASSUME GroupKept
  PROVE  /\ \A t \in Waiters :
              CallWait(t) \/ WaitEnds(t) \/ WaitBegins(t) \/ WaitGoesOn(t) \/ SleepInWait(t)
                \/ ReturnsSpuriously(t) => NotifyDue' = NotifyDue
         /\ \A t \in Users : Acquire(t) \/ Leave(t) => NotifyDue' = NotifyDue
         /\ \A t \in Adders :
              /\ CallAdd(t) \/ CallDone(t) \/ WakeWaiters(t) \/ ClearWaiters(t) \/ Unlock(t)
                   => NotifyDue' = NotifyDue
              /\ \A n \in 1 .. MaxCount : Add(t, n) => NotifyDue' = NotifyDue
              /\ CountDown(t) => /\ NotifyDue = FALSE
                                 /\ NotifyDue' = (countWorkers = 1 /\ registered # 0)
              /\ NotifyAll(t) => NotifyDue = TRUE /\ NotifyDue' = FALSE
         /\ DestroyGroup \/ UNCHANGED groupVars => NotifyDue' = NotifyDue
<1> USE DEF NotifyDue, Goto
<1>0. /\ pc \in [Users -> GroupLabels]
      /\ \A t \in Adders : t \in Users /\ t \notin Waiters
      /\ \A t \in Waiters : t \in Users /\ t \notin Adders
      /\ \A t, u \in Adders : pc[t] \in Critical /\ pc[u] \in Critical => t = u
  BY AtWork DEF GroupKept, GroupTypeOK, GroupPlaces
<1>1. ASSUME NEW t \in Waiters,
             CallWait(t) \/ WaitEnds(t) \/ WaitBegins(t) \/ WaitGoesOn(t) \/ SleepInWait(t)
               \/ ReturnsSpuriously(t)
      PROVE  NotifyDue' = NotifyDue
  <2>1. \A u \in Adders : pc'[u] = pc[u]
    BY <1>0, <1>1
    DEF CallWait, WaitEnds, WaitBegins, WaitGoesOn, SleepInWait, ReturnsSpuriously, BeginWait,
        FutexWait, Reload, SpuriousWake
  <2> QED
    BY <2>1
<1>2. ASSUME NEW t \in Users, Acquire(t) \/ Leave(t) PROVE NotifyDue' = NotifyDue
  BY <1>0, <1>2 DEF Acquire, Leave
<1>3. ASSUME NEW t \in Adders,
             CallAdd(t) \/ CallDone(t) \/ ClearWaiters(t) \/ Unlock(t)
               \/ \E n \in 1 .. MaxCount : Add(t, n)
      PROVE  NotifyDue' = NotifyDue
  BY <1>0, <1>3 DEF CallAdd, CallDone, ClearWaiters, Unlock, Add
<1>4. ASSUME NEW t \in Adders, WakeWaiters(t) PROVE NotifyDue' = NotifyDue
  BY <1>0, <1>4 DEF WakeWaiters, WakeAll, Asleep
<1>5. ASSUME NEW t \in Adders, CountDown(t)
      PROVE  /\ NotifyDue = FALSE
             /\ NotifyDue' = (countWorkers = 1 /\ registered # 0)
  BY <1>0, <1>5 DEF CountDown, Critical
<1>6. ASSUME NEW t \in Adders, NotifyAll(t) PROVE NotifyDue = TRUE /\ NotifyDue' = FALSE
  BY <1>0, <1>6 DEF NotifyAll, Critical
<1>7. ASSUME DestroyGroup \/ UNCHANGED groupVars PROVE NotifyDue' = NotifyDue
  BY <1>7 DEF DestroyGroup, groupVars
<1> QED
  BY <1>1, <1>2, <1>3, <1>4, <1>5, <1>6, <1>7

\* count_ grows, by 1, and nobody has read a value from the future.
LEMMA CountGrows ==
  ASSUME GroupKept
  PROVE  /\ count["wg"] \in Nat /\ adds \in Nat /\ adds < WordSize
         /\ NotifyDue => (count["wg"] + 1) % WordSize = count["wg"] + 1
<1>1. /\ "wg" \in CondVars /\ WordSize \in Nat /\ MaxAdds \in Nat /\ MaxAdds < WordSize
  BY GroupAssumption, WordSizeAssumption
<1>2. count["wg"] \in 0 .. WordSize - 1 /\ adds \in 0 .. MaxAdds
  BY <1>1 DEF GroupKept, GroupTypeOK
<1>3. ASSUME NotifyDue PROVE count["wg"] + 1 <= adds
  BY <1>1, <1>2, <1>3, UsersFinite DEF GroupKept, RoundsAreCounted, GroupTypeOK
<1>4. ASSUME count["wg"] + 1 <= adds PROVE (count["wg"] + 1) % WordSize = count["wg"] + 1
  BY <1>1, <1>2, <1>4
<1> QED
  BY <1>1, <1>2, <1>3, <1>4

LEMMA RoundsKept == ASSUME GroupKept, [GroupNext]_groupVars PROVE RoundsAreCounted'
<1> DEFINE Due == IF NotifyDue THEN 1 ELSE 0
           Open == IF countWorkers > 0 THEN 1 ELSE 0
           Sum == count["wg"] + Due + Open + Cardinality(Arriving) <= adds
           Old == \A t \in Users : ticket[t].value <= count["wg"]
<1>0. /\ countWorkers \in Nat /\ adds \in Nat /\ count["wg"] \in Nat
      /\ Cardinality(Arriving) \in Nat
      /\ ticket \in [Users -> [cv : CondVars, value : 0 .. WordSize - 1]]
      /\ Sum /\ Old /\ WordSize \in Nat
  BY UsersFinite, CountGrows, WordSizeAssumption DEF GroupKept, GroupTypeOK, RoundsAreCounted
<1>1. ASSUME NEW t \in Adders, NotifyAll(t) PROVE Sum' /\ Old'
  <2>1. count["wg"]' = count["wg"] + 1 /\ ticket' = ticket /\ NotifyDue = TRUE /\ NotifyDue' = FALSE
    <3>1. count' = [count EXCEPT !["wg"] = (count["wg"] + 1) % WordSize] /\ ticket' = ticket
      BY <1>1 DEF NotifyAll, Notify
    <3>2. NotifyDue = TRUE /\ NotifyDue' = FALSE
      BY <1>1, NotifyDueAfter
    <3>3. count'["wg"] = (count["wg"] + 1) % WordSize
      BY <3>1, GroupAssumption DEF GroupKept, GroupTypeOK
    <3> QED
      BY <3>1, <3>2, <3>3, CountGrows
  <2>2. CountsStay
    BY <1>1, QuietCounts
  <2> HIDE DEF NotifyDue
  <2>3. Sum'
    BY <2>1, <2>2, <1>0 DEF CountsStay
  <2>4. Old'
    BY <2>1, <1>0
  <2> QED
    BY <2>3, <2>4
<1>2. ASSUME CountsStay, NotifyDue' = NotifyDue, count' = count PROVE Sum'
  BY <1>0, <1>2 DEF CountsStay
<1>3. ASSUME count' = count, ticket' = ticket PROVE Old'
  BY <1>0, <1>3
<1>4. ASSUME NEW t \in Adders, CallAdd(t) PROVE Sum' /\ Old'
  <2>1. count' = count /\ ticket' = ticket
    BY <1>4 DEF CallAdd
  <2>2. NotifyDue' = NotifyDue
    BY <1>4, NotifyDueAfter
  <2>3. Cardinality(Arriving') = Cardinality(Arriving) + 1 /\ adds' = adds + 1 /\ countWorkers' = countWorkers
    BY <1>4, CountingSteps
  <2> QED
    BY <2>1, <2>2, <2>3, <1>0, <1>3
<1>5. ASSUME NEW t \in Adders, NEW n \in 1 .. MaxCount, Add(t, n) PROVE Sum' /\ Old'
  <2>1. count' = count /\ ticket' = ticket
    BY <1>5 DEF Add
  <2>2. NotifyDue' = NotifyDue
    BY <1>5, NotifyDueAfter
  <2>3. Cardinality(Arriving') = Cardinality(Arriving) - 1 /\ adds' = adds
    BY <1>5, CountingSteps
  <2>4. Open' <= 1 /\ Open >= 0 /\ Open \in Nat /\ Open' \in Nat /\ Due \in Nat /\ Due' = Due
    BY <2>2
  <2> HIDE DEF Open, Due
  <2> QED
    BY <2>1, <2>3, <2>4, <1>0, <1>3
<1>6. ASSUME NEW t \in Adders, CountDown(t) PROVE Sum' /\ Old'
  <2>1. count' = count /\ ticket' = ticket
    BY <1>6 DEF CountDown
  <2>2. NotifyDue = FALSE /\ NotifyDue' = (countWorkers = 1 /\ registered # 0)
    BY <1>6, NotifyDueAfter
  <2>3. Arriving' = Arriving /\ adds' = adds /\ countWorkers' = countWorkers - 1
    BY <1>6, CountingSteps
  <2>4. countWorkers > 0
    BY <1>6, AtWork DEF CountDown, Goto
  <2>5. Due = 0 /\ Open = 1
    BY <2>2, <2>4, <1>0
  <2>6. \/ Open' = 0 /\ Due' \in {0, 1}
        \/ Due' = 0 /\ Open' \in {0, 1}
    <3>1. CASE countWorkers = 1
      <4>1. countWorkers' = 0
        BY <3>1, <2>3
      <4> QED
        BY <4>1
    <3>2. CASE countWorkers # 1
      <4>1. NotifyDue' = FALSE
        BY <3>2, <2>2
      <4> QED
        BY <4>1
    <3> QED
      BY <3>1, <3>2
  <2>7. Sum'
    <3>1. count["wg"] + 0 + 1 + Cardinality(Arriving) <= adds
      BY <1>0, <2>5
    <3>2. (count["wg"] + Due + Open + Cardinality(Arriving))' <= count["wg"] + 0 + 1 + Cardinality(Arriving)
      <4>1. count["wg"]' = count["wg"] /\ Cardinality(Arriving)' = Cardinality(Arriving)
        BY <2>1, <2>3
      <4> HIDE DEF Due, Open
      <4> QED
        BY <4>1, <2>6, <1>0
    <3>3. (count["wg"] + Due + Open + Cardinality(Arriving))' \in Nat
      <4>1. count["wg"]' \in Nat /\ Cardinality(Arriving)' \in Nat
        BY <1>0, <2>1, <2>3
      <4> HIDE DEF Due, Open
      <4> QED
        BY <4>1, <2>6
    <3> HIDE DEF Due, Open
    <3> QED
      BY <3>1, <3>2, <3>3, <1>0, <2>3
  <2> QED
    BY <2>7, <2>1, <1>3
<1>7. ASSUME NEW t \in Adders, CallDone(t) PROVE Sum' /\ Old'
  <2>1. count' = count /\ ticket' = ticket
    BY <1>7 DEF CallDone
  <2>2. NotifyDue' = NotifyDue /\ Arriving' = Arriving /\ adds' = adds /\ countWorkers' = countWorkers
    BY <1>7, NotifyDueAfter, CountingSteps
  <2> QED
    BY <2>1, <2>2, <1>0, <1>3
<1>8. ASSUME NEW t \in Adders, WakeWaiters(t) \/ ClearWaiters(t) \/ Unlock(t) PROVE Sum' /\ Old'
  <2>1. count' = count /\ ticket' = ticket
    BY <1>8 DEF WakeWaiters, ClearWaiters, Unlock
  <2> QED
    BY <2>1, <1>2, <1>3, <1>8, QuietCounts, NotifyDueAfter
<1>9. ASSUME NEW t \in Users, Acquire(t) \/ Leave(t) PROVE Sum' /\ Old'
  <2>1. count' = count /\ ticket' = ticket
    BY <1>9 DEF Acquire, Leave
  <2> QED
    BY <2>1, <1>2, <1>3, <1>9, QuietCounts, NotifyDueAfter
<1>10. ASSUME NEW t \in Waiters, WaitBegins(t) \/ WaitGoesOn(t) PROVE Sum' /\ Old'
  <2>1. count' = count /\ ticket' = [ticket EXCEPT ![t] = [cv |-> "wg", value |-> count["wg"]]]
    BY <1>10 DEF WaitBegins, WaitGoesOn, BeginWait
  <2>2. Old'
    BY <2>1, <1>0
  <2> QED
    BY <2>1, <2>2, <1>2, <1>10, QuietCounts, NotifyDueAfter
<1>11. ASSUME NEW t \in Waiters, CallWait(t) \/ WaitEnds(t) \/ SleepInWait(t) \/ ReturnsSpuriously(t)
       PROVE  Sum' /\ Old'
  <2>1. count' = count /\ ticket' = ticket
    BY <1>11
    DEF CallWait, WaitEnds, SleepInWait, ReturnsSpuriously, FutexWait, Reload, SpuriousWake
  <2> QED
    BY <2>1, <1>2, <1>3, <1>11, QuietCounts, NotifyDueAfter
<1>12. ASSUME DestroyGroup \/ UNCHANGED groupVars PROVE Sum' /\ Old'
  <2>1. count' = count /\ ticket' = ticket
    BY <1>12 DEF DestroyGroup, groupVars
  <2> QED
    BY <2>1, <1>2, <1>3, <1>12, QuietCounts, NotifyDueAfter
<1>13. Sum' /\ Old'
  <2> HIDE DEF Sum, Old
  <2> QED
    BY <1>1, <1>4, <1>5, <1>6, <1>7, <1>8, <1>9, <1>10, <1>11, <1>12 DEF GroupNext, GroupStep
<1> QED
  BY <1>13 DEF RoundsAreCounted

\* A waiter's step moves no other thread, and nothing of the condition variable.
LEMMA WaiterMoves ==
  ASSUME GroupKept, NEW t \in Waiters,
         \/ CallWait(t) \/ WaitEnds(t) \/ WaitBegins(t) \/ WaitGoesOn(t) \/ SleepInWait(t)
         \/ ReturnsSpuriously(t) \/ Acquire(t) \/ Leave(t)
  PROVE  /\ \A u \in Users \ {t} : pc'[u] = pc[u] /\ ticket'[u] = ticket[u]
         /\ \A u \in Adders : pc'[u] = pc[u]
         /\ count' = count
<1> USE DEF Goto
<1>0. /\ pc \in [Users -> GroupLabels] /\ t \in Users
      /\ ticket \in [Users -> [cv : CondVars, value : 0 .. WordSize - 1]]
      /\ \A u \in Adders : u \in Users /\ u # t
  BY AtWork DEF GroupKept, GroupTypeOK
<1>1. \A u \in Users \ {t} : pc'[u] = pc[u] /\ ticket'[u] = ticket[u]
  <2>1. CASE WaitBegins(t) \/ WaitGoesOn(t)
    BY <1>0, <2>1 DEF WaitBegins, WaitGoesOn, BeginWait
  <2>2. CASE CallWait(t) \/ WaitEnds(t) \/ SleepInWait(t) \/ ReturnsSpuriously(t) \/ Acquire(t) \/ Leave(t)
    BY <1>0, <2>2
    DEF CallWait, WaitEnds, SleepInWait, ReturnsSpuriously, FutexWait, Reload, SpuriousWake,
        Acquire, Leave
  <2> QED
    BY <2>1, <2>2
<1>2. count' = count
  BY DEF CallWait, WaitEnds, WaitBegins, WaitGoesOn, SleepInWait, ReturnsSpuriously, BeginWait,
         FutexWait, Reload, SpuriousWake, Acquire, Leave
<1> QED
  BY <1>0, <1>1, <1>2

\* A step of an adder that is not WakeWaiters moves no other thread.
LEMMA AdderMoves ==
  ASSUME GroupKept, NEW t \in Adders,
         \/ CallAdd(t) \/ CallDone(t) \/ CountDown(t) \/ NotifyAll(t) \/ ClearWaiters(t)
         \/ Unlock(t) \/ Acquire(t) \/ Leave(t) \/ \E n \in 1 .. MaxCount : Add(t, n)
  PROVE  /\ \A u \in Users \ {t} : pc'[u] = pc[u]
         /\ \A u \in Waiters : pc'[u] = pc[u]
         /\ ticket' = ticket
         /\ pc'[t] \in AdderLabels
         /\ pc'[t] = "wakeall" => NotifyAll(t)
<1> USE DEF Goto
<1>0. /\ pc \in [Users -> GroupLabels] /\ t \in Users
      /\ \A u \in Waiters : u \in Users /\ u # t
  BY AtWork DEF GroupKept, GroupTypeOK
<1>2. /\ \A u \in Users \ {t} : pc'[u] = pc[u]
      /\ ticket' = ticket
      /\ pc'[t] \in AdderLabels
      /\ pc'[t] = "wakeall" => NotifyAll(t)
  <2>1. CASE \/ CallAdd(t) \/ CallDone(t) \/ CountDown(t) \/ NotifyAll(t)
             \/ \E n \in 1 .. MaxCount : Add(t, n)
    BY <1>0, <2>1 DEF CallAdd, CallDone, CountDown, NotifyAll, Add, AdderLabels
  <2>2. CASE ClearWaiters(t) \/ Unlock(t) \/ Leave(t) \/ Acquire(t)
    <3>1. pc[t] \in AdderLabels
      BY DEF GroupKept, GroupPlaces
    <3> QED
      BY <3>1, <1>0, <2>2 DEF ClearWaiters, Unlock, Acquire, Leave, AdderLabels
  <2> QED
    BY <2>1, <2>2
<1> QED
  BY <1>0, <1>2

LEMMA WakeMoves ==
  ASSUME GroupKept, NEW t \in Adders, WakeWaiters(t)
  PROVE  /\ pc[t] = "wakeall" /\ pc'[t] = "clear"
         /\ \A u \in Adders \ {t} : pc'[u] = pc[u]
         /\ \A u \in Waiters : pc'[u] = IF pc[u] = "asleep" THEN "reload" ELSE pc[u]
         /\ UNCHANGED <<count, ticket, group, world>>
<1>1. /\ pc \in [Users -> GroupLabels] /\ t \in Users /\ t \notin Waiters
      /\ \A u \in Waiters : u \in Users
      /\ \A u \in Adders : u \in Users /\ pc[u] # "asleep"
      /\ \A u \in Users : ticket[u].cv = "wg"
  BY AtWork DEF GroupKept, GroupTypeOK, GroupPlaces, Sleeping
<1> QED
  BY <1>1 DEF WakeWaiters, WakeAll, Asleep

\* Who comes into the loop of Wait, and who leaves it.
LEMMA LoopChanges ==
  ASSUME GroupKept
  PROVE  /\ \A t \in Waiters :
              /\ CallWait(t) \/ WaitGoesOn(t) \/ SleepInWait(t) \/ ReturnsSpuriously(t)
                   => InLoop' = InLoop
              /\ WaitEnds(t) => InLoop' = InLoop \ {t}
              /\ WaitBegins(t) => InLoop' = InLoop \union {t} /\ t \notin InLoop
         /\ \A t \in Users : Acquire(t) \/ Leave(t) => InLoop' = InLoop
         /\ \A t \in Adders :
              /\ CallAdd(t) \/ CallDone(t) \/ CountDown(t) \/ NotifyAll(t) \/ WakeWaiters(t)
                   \/ ClearWaiters(t) \/ Unlock(t) => InLoop' = InLoop
              /\ \A n \in 1 .. MaxCount : Add(t, n) => InLoop' = InLoop
         /\ DestroyGroup \/ UNCHANGED groupVars => InLoop' = InLoop
<1>0. /\ pc \in [Users -> GroupLabels]
      /\ \A t \in Waiters : t \in Users
      /\ \A t \in Waiters : pc[t] \in WaiterLabels
  BY AtWork DEF GroupKept, GroupTypeOK, GroupPlaces
<1>1. ASSUME NEW t \in Waiters,
             CallWait(t) \/ WaitGoesOn(t) \/ SleepInWait(t) \/ ReturnsSpuriously(t)
               \/ Acquire(t) \/ Leave(t)
      PROVE  InLoop' = InLoop
  <2>1. \A u \in Waiters \ {t} : pc'[u] = pc[u]
    BY <1>0, <1>1, WaiterMoves
  <2>2. pc'[t] \in Sleeping <=> pc[t] \in Sleeping
    BY <1>0, <1>1
    DEF CallWait, WaitGoesOn, SleepInWait, ReturnsSpuriously, BeginWait, FutexWait, Reload,
        SpuriousWake, Acquire, Leave, Goto, Sleeping
  <2> QED
    BY <2>1, <2>2 DEF InLoop
<1>2. ASSUME NEW t \in Waiters, WaitEnds(t) PROVE InLoop' = InLoop \ {t}
  <2>1. \A u \in Waiters \ {t} : pc'[u] = pc[u]
    BY <1>0, <1>2, WaiterMoves
  <2>2. pc'[t] = "leave"
    BY <1>0, <1>2 DEF WaitEnds, Goto
  <2> QED
    BY <2>1, <2>2 DEF InLoop, Sleeping
<1>3. ASSUME NEW t \in Waiters, WaitBegins(t) PROVE InLoop' = InLoop \union {t} /\ t \notin InLoop
  <2>1. \A u \in Waiters \ {t} : pc'[u] = pc[u]
    BY <1>0, <1>3, WaiterMoves
  <2>2. pc[t] = "entered" /\ pc'[t] = "wait"
    BY <1>0, <1>3 DEF WaitBegins, BeginWait, Goto
  <2> QED
    BY <2>1, <2>2 DEF InLoop, Sleeping
<1>4. ASSUME NEW t \in Adders,
             \/ CallAdd(t) \/ CallDone(t) \/ CountDown(t) \/ NotifyAll(t) \/ ClearWaiters(t)
             \/ Unlock(t) \/ Acquire(t) \/ Leave(t) \/ \E n \in 1 .. MaxCount : Add(t, n)
      PROVE  InLoop' = InLoop
  <2>1. \A u \in Waiters : pc'[u] = pc[u]
    BY <1>4, AdderMoves
  <2> QED
    BY <2>1 DEF InLoop
<1>5. ASSUME NEW t \in Adders, WakeWaiters(t) PROVE InLoop' = InLoop
  BY <1>5, WakeMoves DEF InLoop, Sleeping
<1>6. ASSUME DestroyGroup \/ UNCHANGED groupVars PROVE InLoop' = InLoop
  BY <1>6 DEF DestroyGroup, groupVars, InLoop
<1>7. \A t \in Users : t \in Adders \/ t \in Waiters
  BY DEF Users
<1> QED
  BY <1>1, <1>2, <1>3, <1>4, <1>5, <1>6, <1>7

\* Who holds the mutex behind "notify", and when that starts and stops.
LEMMA NotifyingAfter ==
  ASSUME GroupKept
  PROVE  /\ \A t \in Waiters :
              CallWait(t) \/ WaitEnds(t) \/ WaitBegins(t) \/ WaitGoesOn(t) \/ SleepInWait(t)
                \/ ReturnsSpuriously(t) => Notifying' = Notifying
         /\ \A t \in Waiters : WaitEnds(t) \/ WaitBegins(t) => ~Notifying
         /\ \A t \in Users : Acquire(t) \/ Leave(t) => Notifying' = Notifying
         /\ \A t \in Adders :
              /\ CallAdd(t) \/ CallDone(t) \/ NotifyAll(t) \/ WakeWaiters(t) \/ Unlock(t)
                   => Notifying' = Notifying
              /\ \A n \in 1 .. MaxCount : Add(t, n) => ~Notifying /\ ~Notifying'
              /\ CountDown(t) => /\ ~Notifying
                                 /\ Notifying' => countWorkers = 1
                                 /\ countWorkers = 1 /\ registered # 0 => Notifying'
              /\ ClearWaiters(t) => Notifying /\ ~Notifying'
         /\ DestroyGroup \/ UNCHANGED groupVars => Notifying' = Notifying
<1> USE DEF Notifying
<1>0. /\ pc \in [Users -> GroupLabels]
      /\ \A t \in Adders : t \in Users /\ t \notin Waiters
      /\ \A t \in Waiters : t \in Users /\ t \notin Adders
      /\ \A t, u \in Users : pc[t] \in Critical /\ pc[u] \in Critical => t = u
  BY AtWork DEF GroupKept, GroupTypeOK, GroupPlaces
<1>1. ASSUME NEW t \in Waiters,
             CallWait(t) \/ WaitEnds(t) \/ WaitBegins(t) \/ WaitGoesOn(t) \/ SleepInWait(t)
               \/ ReturnsSpuriously(t) \/ Acquire(t) \/ Leave(t)
      PROVE  Notifying' = Notifying
  <2>1. \A u \in Adders : pc'[u] = pc[u]
    BY <1>1, WaiterMoves
  <2> QED
    BY <2>1
<1>2. ASSUME NEW t \in Waiters, WaitEnds(t) \/ WaitBegins(t) PROVE ~Notifying
  <2>1. pc[t] \in Critical
    BY <1>2 DEF WaitEnds, WaitBegins, BeginWait, Goto, Critical
  <2> QED
    BY <2>1, <1>0 DEF Critical
<1>3. ASSUME NEW t \in Adders,
             CallAdd(t) \/ CallDone(t) \/ NotifyAll(t) \/ Unlock(t) \/ Acquire(t) \/ Leave(t)
      PROVE  Notifying' = Notifying
  <2>1. \A u \in Adders \ {t} : pc'[u] = pc[u]
    BY <1>0, <1>3, AdderMoves
  <2>2. pc'[t] \in {"notify", "wakeall", "clear"} <=> pc[t] \in {"notify", "wakeall", "clear"}
    BY <1>0, <1>3 DEF CallAdd, CallDone, NotifyAll, Unlock, Acquire, Leave, Goto
  <2> QED
    BY <2>1, <2>2
<1>4. ASSUME NEW t \in Adders, WakeWaiters(t) PROVE Notifying' = Notifying
  BY <1>4, WakeMoves
<1>5. ASSUME NEW t \in Adders, NEW n \in 1 .. MaxCount, Add(t, n) PROVE ~Notifying /\ ~Notifying'
  BY <1>0, <1>5 DEF Add, Goto, Critical
<1>6. ASSUME NEW t \in Adders, CountDown(t)
      PROVE  /\ ~Notifying
             /\ Notifying' => countWorkers = 1
             /\ countWorkers = 1 /\ registered # 0 => Notifying'
  BY <1>0, <1>6 DEF CountDown, Goto, Critical
<1>7. ASSUME NEW t \in Adders, ClearWaiters(t) PROVE Notifying /\ ~Notifying'
  BY <1>0, <1>7 DEF ClearWaiters, Goto, Critical
<1>8. ASSUME DestroyGroup \/ UNCHANGED groupVars PROVE Notifying' = Notifying
  BY <1>8 DEF DestroyGroup, groupVars
<1>9. \A t \in Users : t \in Adders \/ t \in Waiters
  BY DEF Users
<1> QED
  BY <1>1, <1>2, <1>3, <1>4, <1>5, <1>6, <1>7, <1>8, <1>9

LEMMA RegisteredKept ==
  ASSUME GroupKept, [GroupNext]_groupVars
  PROVE  Released' /\ WaitersAreRegistered'
<1> USE DEF group, world
<1>0. /\ released \subseteq InLoop
      /\ countWorkers = 0 => InLoop \subseteq released
      /\ Notifying => countWorkers = 0
      /\ ~Notifying => registered = Cardinality(InLoop \ released)
      /\ countWorkers \in Nat /\ registered \in Nat
  BY DEF GroupKept, Released, WaitersAreRegistered, GroupTypeOK
<1>1. ASSUME InLoop' = InLoop, Notifying' = Notifying,
             UNCHANGED <<countWorkers, registered, released>>
      PROVE  Released' /\ WaitersAreRegistered'
  BY <1>0, <1>1 DEF Released, WaitersAreRegistered
<1>2. ASSUME NEW t \in Adders, CallAdd(t) \/ CallDone(t) \/ NotifyAll(t) \/ WakeWaiters(t) \/ Unlock(t)
      PROVE  Released' /\ WaitersAreRegistered'
  <2>1. InLoop' = InLoop /\ Notifying' = Notifying
    BY <1>2, LoopChanges, NotifyingAfter
  <2>2. UNCHANGED <<countWorkers, registered, released>>
    BY <1>2 DEF CallAdd, CallDone, NotifyAll, WakeWaiters, Unlock
  <2> QED
    BY <2>1, <2>2, <1>1
<1>3. ASSUME NEW t \in Adders, NEW n \in 1 .. MaxCount, Add(t, n)
      PROVE  Released' /\ WaitersAreRegistered'
  <2>1. InLoop' = InLoop /\ ~Notifying /\ ~Notifying'
    BY <1>3, LoopChanges, NotifyingAfter
  <2>2. countWorkers' = countWorkers + n /\ registered' = registered /\ released' = released
    BY <1>3 DEF Add
  <2>3. countWorkers' # 0
    BY <2>2, <1>0, GroupAssumption
  <2> QED
    BY <2>1, <2>2, <2>3, <1>0 DEF Released, WaitersAreRegistered
<1>4. ASSUME NEW t \in Adders, CountDown(t) PROVE Released' /\ WaitersAreRegistered'
  <2>1. /\ InLoop' = InLoop /\ ~Notifying
        /\ Notifying' => countWorkers = 1
        /\ countWorkers = 1 /\ registered # 0 => Notifying'
    BY <1>4, LoopChanges, NotifyingAfter
  <2>2. /\ countWorkers' = countWorkers - 1 /\ registered' = registered
        /\ released' = IF countWorkers = 1 THEN InLoop ELSE released
    BY <1>4 DEF CountDown
  <2>3. CASE countWorkers = 1
    <3>1. countWorkers' = 0 /\ released' = InLoop'
      BY <2>1, <2>2, <2>3
    <3>2. InLoop' \ released' = {} /\ Cardinality({}) = 0
      BY <3>1, FS_EmptySet
    <3>3. ~Notifying' => registered' = 0
      BY <2>1, <2>2, <2>3
    <3> QED
      BY <3>1, <3>2, <3>3 DEF Released, WaitersAreRegistered
  <2>4. CASE countWorkers # 1
    <3>1. countWorkers' # 0 /\ released' = released /\ ~Notifying'
      BY <2>1, <2>2, <2>4, <1>0
    <3> QED
      BY <3>1, <2>1, <2>2, <1>0 DEF Released, WaitersAreRegistered
  <2> QED
    BY <2>3, <2>4
<1>5. ASSUME NEW t \in Adders, ClearWaiters(t) PROVE Released' /\ WaitersAreRegistered'
  <2>1. InLoop' = InLoop /\ Notifying /\ ~Notifying'
    BY <1>5, LoopChanges, NotifyingAfter
  <2>2. countWorkers' = countWorkers /\ registered' = 0 /\ released' = released
    BY <1>5 DEF ClearWaiters
  <2>3. Cardinality(InLoop' \ released') = 0
    BY <2>1, <2>2, <1>0, UsersFinite
  <2> QED
    BY <2>1, <2>2, <2>3, <1>0 DEF Released, WaitersAreRegistered
<1>6. ASSUME NEW t \in Waiters, WaitEnds(t) PROVE Released' /\ WaitersAreRegistered'
  <2>1. InLoop' = InLoop \ {t} /\ ~Notifying /\ Notifying' = Notifying
    BY <1>6, LoopChanges, NotifyingAfter
  <2>2. /\ countWorkers = 0 /\ countWorkers' = countWorkers /\ registered' = registered
        /\ released' = released \ {t}
    BY <1>6 DEF WaitEnds
  <2>3. InLoop' \ released' = InLoop \ released
    BY <2>1, <2>2, <1>0
  <2> QED
    BY <2>1, <2>2, <2>3, <1>0 DEF Released, WaitersAreRegistered
<1>7. ASSUME NEW t \in Waiters, WaitBegins(t) PROVE Released' /\ WaitersAreRegistered'
  <2>1. InLoop' = InLoop \union {t} /\ t \notin InLoop /\ ~Notifying /\ Notifying' = Notifying
    BY <1>7, LoopChanges, NotifyingAfter
  <2>2. /\ countWorkers # 0 /\ countWorkers' = countWorkers /\ registered' = registered + 1
        /\ released' = released
    BY <1>7 DEF WaitBegins
  <2>3. InLoop' \ released' = (InLoop \ released) \union {t} /\ t \notin InLoop \ released
    BY <2>1, <2>2, <1>0
  <2>4. Cardinality(InLoop' \ released') = Cardinality(InLoop \ released) + 1
    BY <2>3, UsersFinite, FS_AddElement
  <2> QED
    BY <2>1, <2>2, <2>4, <1>0 DEF Released, WaitersAreRegistered
<1>8. ASSUME NEW t \in Waiters,
             CallWait(t) \/ WaitGoesOn(t) \/ SleepInWait(t) \/ ReturnsSpuriously(t)
      PROVE  Released' /\ WaitersAreRegistered'
  <2>1. InLoop' = InLoop /\ Notifying' = Notifying
    BY <1>8, LoopChanges, NotifyingAfter
  <2>2. UNCHANGED <<countWorkers, registered, released>>
    BY <1>8 DEF CallWait, WaitGoesOn, SleepInWait, ReturnsSpuriously
  <2> QED
    BY <2>1, <2>2, <1>1
<1>9. ASSUME NEW t \in Users, Acquire(t) \/ Leave(t) PROVE Released' /\ WaitersAreRegistered'
  BY <1>9, <1>1, LoopChanges, NotifyingAfter DEF Acquire, Leave
<1>10. ASSUME DestroyGroup \/ UNCHANGED groupVars PROVE Released' /\ WaitersAreRegistered'
  BY <1>10, <1>1, LoopChanges, NotifyingAfter DEF DestroyGroup, groupVars
<1> QED
  BY <1>2, <1>3, <1>4, <1>5, <1>6, <1>7, <1>8, <1>9, <1>10 DEF GroupNext, GroupStep

\* What a waiter that was released may still be doing.
WakesUp(t) ==
  /\ pc[t] \in {"wait", "asleep", "reload"} /\ Fresh(t) => NotifyDue
  /\ pc[t] = "asleep" => NotifyDue \/ \E u \in Adders : pc[u] = "wakeall"

LEMMA WakingKept ==
  ASSUME GroupKept, [GroupNext]_groupVars
  PROVE  ReleasedWake'
<1> USE DEF group, world
<1>0. /\ \A u \in released \ overtaken : WakesUp(u)
      /\ released \subseteq InLoop /\ InLoop \subseteq Waiters
      /\ \A u \in Waiters : u \in Users /\ u \notin Adders
      /\ \A u \in Adders : u \in Users
      /\ pc \in [Users -> GroupLabels]
      /\ \A t, u \in Users : pc[t] \in Critical /\ pc[u] \in Critical => t = u
      /\ ticket \in [Users -> [cv : CondVars, value : 0 .. WordSize - 1]]
      /\ \A u \in Users : ticket[u].cv = "wg"
  BY AtWork DEF GroupKept, ReleasedWake, Released, GroupTypeOK, GroupPlaces, InLoop, WakesUp
<1>s. SUFFICES ASSUME NEW x \in released' \ overtaken' PROVE WakesUp(x)'
  BY DEF ReleasedWake, WakesUp
<1>1. ASSUME x \in released \ overtaken, pc'[x] = pc[x], ticket'[x] = ticket[x], count' = count,
             NotifyDue' = NotifyDue, \A u \in Adders : pc[u] = "wakeall" => pc'[u] = "wakeall"
      PROVE  WakesUp(x)'
  BY <1>0, <1>1 DEF WakesUp, Fresh
<1>2. ASSUME NEW t \in Adders,
             CallAdd(t) \/ CallDone(t) \/ ClearWaiters(t) \/ Unlock(t) \/ Acquire(t) \/ Leave(t)
               \/ \E n \in 1 .. MaxCount : Add(t, n)
      PROVE  WakesUp(x)'
  <2>1. UNCHANGED <<count, released, overtaken>>
    BY <1>2 DEF CallAdd, CallDone, ClearWaiters, Unlock, Acquire, Leave, Add
  <2>2. pc'[x] = pc[x] /\ ticket' = ticket /\ NotifyDue' = NotifyDue
    BY <1>0, <1>2, <2>1, AdderMoves, NotifyDueAfter
  <2>3. \A u \in Adders : pc[u] = "wakeall" => pc'[u] = "wakeall"
    <3>1. pc[t] # "wakeall"
      BY <1>2 DEF CallAdd, CallDone, ClearWaiters, Unlock, Acquire, Leave, Add, Goto
    <3>2. \A u \in Users \ {t} : pc'[u] = pc[u]
      BY <1>2, AdderMoves
    <3> QED
      BY <3>1, <3>2, <1>0
  <2> QED
    BY <2>1, <2>2, <2>3, <1>1
<1>3. ASSUME NEW t \in Adders, CountDown(t) PROVE WakesUp(x)'
  <2>1. /\ NotifyDue = FALSE
        /\ NotifyDue' = (countWorkers = 1 /\ registered # 0)
    BY <1>3, NotifyDueAfter
  <2>2. /\ released' = IF countWorkers = 1 THEN InLoop ELSE released
        /\ UNCHANGED <<count, ticket, overtaken>>
        /\ pc[t] = "doing"
    BY <1>3 DEF CountDown, Goto
  <2>3. CASE NotifyDue'
    BY <2>3 DEF WakesUp
  <2>4. CASE ~NotifyDue'
    <3>1. countWorkers = 1 => InLoop \subseteq released
      <4>1. countWorkers = 1 => registered = 0
        BY <2>1, <2>4
      <4>2. ~Notifying /\ (~Notifying => registered = Cardinality(InLoop \ released))
        BY <1>3, NotifyingAfter DEF GroupKept, WaitersAreRegistered
      <4> QED
        BY <4>1, <4>2, UsersFinite
    <3>2. x \in released \ overtaken
      BY <3>1, <2>2
    <3>3. pc'[x] = pc[x] /\ NotifyDue' = NotifyDue
      <4>1. \A u \in Waiters : pc'[u] = pc[u]
        BY <1>3, AdderMoves
      <4>2. NotifyDue' = FALSE
        BY <2>1, <2>4
      <4> QED
        BY <4>1, <4>2, <2>1, <3>2, <1>0
    <3>4. \A u \in Adders : pc[u] # "wakeall"
      BY <2>2, <1>0 DEF Critical
    <3> QED
      BY <3>2, <3>3, <3>4, <2>2, <1>1
  <2> QED
    BY <2>3, <2>4
<1>4. ASSUME NEW t \in Adders, NotifyAll(t) PROVE WakesUp(x)'
  <2>1. /\ count'["wg"] = count["wg"] + 1 /\ count["wg"] \in Nat
        /\ x \in Users /\ ticket[x].value <= count["wg"]
        /\ ticket' = ticket /\ ticket[x].cv = "wg" /\ ticket[x].value \in Nat
    <3>1. released' = released /\ ticket' = ticket
          /\ count' = [count EXCEPT !["wg"] = (count["wg"] + 1) % WordSize]
      BY <1>4 DEF NotifyAll, Notify
    <3>2. x \in Users /\ ticket[x].cv = "wg" /\ ticket[x].value \in 0 .. WordSize - 1
      BY <3>1, <1>0
    <3>3. NotifyDue = TRUE
      BY <1>4, NotifyDueAfter
    <3>4. count'["wg"] = (count["wg"] + 1) % WordSize
      BY <3>1, GroupAssumption DEF GroupKept, GroupTypeOK
    <3>5. ticket[x].value <= count["wg"]
      BY <3>2 DEF GroupKept, RoundsAreCounted
    <3> QED
      BY <3>1, <3>2, <3>3, <3>4, <3>5, CountGrows
  <2>2. ~Fresh(x)'
    BY <2>1 DEF Fresh
  <2>3. pc'[t] = "wakeall"
    BY <1>0, <1>4 DEF NotifyAll, Goto
  <2> QED
    BY <2>2, <2>3 DEF WakesUp
<1>5. ASSUME NEW t \in Adders, WakeWaiters(t) PROVE WakesUp(x)'
  <2>1. x \in released \ overtaken /\ x \in Waiters /\ x \in Users
    BY <1>0, <1>5 DEF WakeWaiters
  <2>2. /\ pc'[x] = IF pc[x] = "asleep" THEN "reload" ELSE pc[x]
        /\ UNCHANGED <<count, ticket>>
    BY <1>5, <2>1, WakeMoves
  <2>3. NotifyDue' = NotifyDue
    BY <1>5, NotifyDueAfter
  <2> QED
    BY <2>1, <2>2, <2>3, <1>0 DEF WakesUp, Fresh
<1>6. ASSUME NEW t \in Waiters,
             \/ CallWait(t) \/ WaitEnds(t) \/ WaitBegins(t) \/ WaitGoesOn(t) \/ SleepInWait(t)
             \/ ReturnsSpuriously(t) \/ Acquire(t) \/ Leave(t)
      PROVE  WakesUp(x)'
  <2>1. /\ x \notin overtaken \/ x = t
        /\ x \in released
        /\ x \in Waiters /\ x \in Users /\ t \in Users
    BY <1>0, <1>6
    DEF CallWait, WaitEnds, WaitBegins, WaitGoesOn, SleepInWait, ReturnsSpuriously, Acquire, Leave
  <2>2. /\ \A u \in Users \ {t} : pc'[u] = pc[u] /\ ticket'[u] = ticket[u]
        /\ \A u \in Adders : pc'[u] = pc[u]
        /\ count' = count
    BY <1>6, WaiterMoves
  <2>3. NotifyDue' = NotifyDue
    BY <1>6, NotifyDueAfter, <2>1
  <2>4. CASE x # t
    BY <2>1, <2>2, <2>3, <2>4, <1>1
  <2>5. CASE x = t
    <3>1. CASE CallWait(t) \/ Acquire(t) \/ Leave(t)
      <4>1. pc'[t] \notin {"wait", "asleep", "reload"}
        BY <3>1, <2>1, <1>0 DEF CallWait, Acquire, Leave, Goto
      <4> QED
        BY <4>1, <2>5 DEF WakesUp
    <3>2. CASE WaitEnds(t)
      BY <3>2, <2>5 DEF WaitEnds
    <3>3. CASE WaitBegins(t)
      <4>1. t \notin released
        BY <3>3, LoopChanges, <1>0
      <4> QED
        BY <4>1, <2>1, <2>5
    <3>4. CASE WaitGoesOn(t)
      BY <3>4, <2>1, <2>5 DEF WaitGoesOn
    <3>5. CASE SleepInWait(t) \/ ReturnsSpuriously(t)
      <4>1. WakesUp(t) /\ ticket' = ticket
        BY <3>5, <2>5, <1>0
        DEF SleepInWait, ReturnsSpuriously, FutexWait, Reload, SpuriousWake
      <4>2. \/ pc'[t] \in {"wait", "asleep", "reload"} /\ pc[t] \in {"wait", "asleep", "reload"}
               /\ (pc'[t] = "asleep" => Fresh(t))
            \/ pc'[t] = "recheck"
        BY <3>5, <2>1, <1>0
        DEF SleepInWait, ReturnsSpuriously, FutexWait, Reload, SpuriousWake, Goto
      <4>3. Fresh(t)' = Fresh(t)
        BY <4>1, <2>2 DEF Fresh
      <4> QED
        BY <4>1, <4>2, <4>3, <2>3, <2>5 DEF WakesUp
    <3> QED
      BY <1>6, <3>1, <3>2, <3>3, <3>4, <3>5
  <2> QED
    BY <2>4, <2>5
<1>7. ASSUME DestroyGroup \/ UNCHANGED groupVars PROVE WakesUp(x)'
  BY <1>7, <1>1, NotifyDueAfter DEF DestroyGroup, groupVars
<1> QED
  BY <1>2, <1>3, <1>4, <1>5, <1>6, <1>7 DEF GroupNext, GroupStep, Users

LEMMA SettledKept ==
  ASSUME GroupKept, [GroupNext]_groupVars
  PROVE  Settled' /\ DestroyedIsUnused'
<1> USE DEF group, world
<1>0. /\ pc \in [Users -> GroupLabels] /\ countWorkers \in Nat /\ owed \in Nat
      /\ settled \subseteq Waiters
      /\ settled # {} => /\ countWorkers = 0
                         /\ \A u \in Adders : pc[u] \in {"out", "add", "adding", "leave"}
      /\ ~intact => owed = 0
      /\ ~intact => \A u \in Users : pc[u] \in {"out", "leave"}
      /\ \A u \in Adders : u \in Users /\ u \notin Waiters
      /\ \A u \in Waiters : u \in Users
      /\ countWorkers = 0 => owed = 0
      /\ \A t, u \in Users : pc[t] \in Critical /\ pc[u] \in Critical => t = u
  BY AtWork DEF GroupKept, GroupTypeOK, Settled, DestroyedIsUnused, GroupPlaces
<1>1. ASSUME NEW t \in Adders, CallAdd(t) PROVE Settled' /\ DestroyedIsUnused'
  <2>1. /\ intact /\ UNCHANGED <<countWorkers, owed, settled, intact>>
        /\ \A u \in Adders \ {t} : pc'[u] = pc[u]
        /\ pc'[t] = "add"
    BY <1>0, <1>1 DEF CallAdd, Goto
  <2> QED
    BY <1>0, <2>1 DEF Settled, DestroyedIsUnused
<1>2. ASSUME NEW t \in Adders, CallDone(t) PROVE Settled' /\ DestroyedIsUnused'
  <2>1. owed > 0 /\ settled' = settled /\ intact' = intact
    BY <1>2 DEF CallDone
  <2>2. intact /\ settled = {}
    BY <2>1, <1>0
  <2> QED
    BY <2>1, <2>2 DEF Settled, DestroyedIsUnused
<1>3. ASSUME NEW t \in Adders, NEW n \in 1 .. MaxCount, Add(t, n)
      PROVE  Settled' /\ DestroyedIsUnused'
  <2>1. settled' = {} /\ intact' = intact /\ pc[t] = "adding"
    BY <1>3 DEF Add, Goto
  <2>2. intact
    BY <2>1, <1>0
  <2> QED
    BY <2>1, <2>2 DEF Settled, DestroyedIsUnused
<1>4. ASSUME NEW t \in Adders,
             CountDown(t) \/ NotifyAll(t) \/ WakeWaiters(t) \/ ClearWaiters(t) \/ Unlock(t)
      PROVE  Settled' /\ DestroyedIsUnused'
  <2>1. /\ settled' = settled /\ intact' = intact
        /\ pc[t] \in {"doing", "notify", "wakeall", "clear", "unlock"}
    BY <1>4 DEF CountDown, NotifyAll, WakeWaiters, WakeAll, ClearWaiters, Unlock, Goto
  <2>2. intact /\ settled = {}
    BY <2>1, <1>0
  <2> QED
    BY <2>1, <2>2 DEF Settled, DestroyedIsUnused
<1>5. ASSUME NEW t \in Users, Acquire(t) \/ Leave(t) PROVE Settled' /\ DestroyedIsUnused'
  <2>1. /\ UNCHANGED <<countWorkers, owed, settled, intact>>
        /\ \A u \in Users \ {t} : pc'[u] = pc[u]
        /\ \/ pc[t] = "leave" /\ pc'[t] = "out"
           \/ pc[t] = "add" /\ pc'[t] = "adding"
           \/ pc[t] \in {"done", "entry", "recheck"}
    BY <1>0, <1>5 DEF Acquire, Leave, Goto
  <2>2. \A u \in Adders : pc[u] = "done" => countWorkers > 0
    BY AtWork
  <2>3. Settled'
    BY <1>0, <2>1, <2>2 DEF Settled
  <2>4. DestroyedIsUnused'
    BY <1>0, <2>1 DEF DestroyedIsUnused
  <2> QED
    BY <2>3, <2>4
<1>6. ASSUME NEW t \in Waiters, WaitEnds(t) PROVE Settled' /\ DestroyedIsUnused'
  <2>1. /\ pc[t] \in {"entered", "rechecking"}
        /\ countWorkers = 0 /\ UNCHANGED <<countWorkers, owed, intact>>
    BY <1>6 DEF WaitEnds, Goto
  <2>2. \A u \in Adders : pc'[u] = pc[u]
    BY <1>6, WaiterMoves
  <2>3. intact
    BY <2>1, <1>0
  <2>4. \A u \in Adders : pc[u] \in {"out", "add", "adding", "leave"}
    <3>1. \A u \in Adders : pc[u] \notin Critical /\ pc[u] \in AdderLabels
      BY <2>1, <1>0 DEF GroupKept, GroupPlaces, Critical
    <3>2. \A u \in Adders : pc[u] \notin {"done", "doing"}
      BY <2>1, AtWork
    <3> QED
      BY <3>1, <3>2 DEF Critical, AdderLabels
  <2> QED
    BY <2>1, <2>2, <2>3, <2>4 DEF Settled, DestroyedIsUnused
<1>7. ASSUME NEW t \in Waiters,
             CallWait(t) \/ WaitBegins(t) \/ WaitGoesOn(t) \/ SleepInWait(t) \/ ReturnsSpuriously(t)
      PROVE  Settled' /\ DestroyedIsUnused'
  <2>1. UNCHANGED <<countWorkers, owed, settled, intact>>
    BY <1>7 DEF CallWait, WaitBegins, WaitGoesOn, SleepInWait, ReturnsSpuriously
  <2>2. \A u \in Adders : pc'[u] = pc[u]
    BY <1>7, WaiterMoves
  <2>3. intact
    <3>1. intact \/ pc[t] \in {"entered", "rechecking", "wait", "reload", "asleep"}
      BY <1>7
      DEF CallWait, WaitBegins, WaitGoesOn, SleepInWait, ReturnsSpuriously, BeginWait, FutexWait,
          Reload, SpuriousWake, Goto
    <3> QED
      BY <3>1, <1>0
  <2> QED
    BY <1>0, <2>1, <2>2, <2>3 DEF Settled, DestroyedIsUnused
<1>8. CASE DestroyGroup
  <2>1. /\ settled # {} /\ owed = 0 /\ UNCHANGED <<countWorkers, owed, settled, pc>>
        /\ \A u \in Users : pc[u] \notin {"add", "adding", "entry", "entered"} \union Sleeping
    BY <1>8 DEF DestroyGroup
  <2>2. \A u \in Adders : pc[u] \in {"out", "leave"}
    BY <1>0, <2>1
  <2>3. \A u \in Waiters : pc[u] \in {"out", "leave"}
    BY <1>0, <2>1 DEF GroupKept, GroupPlaces, WaiterLabels
  <2> QED
    BY <1>0, <2>1, <2>2, <2>3 DEF Settled, DestroyedIsUnused, Users
<1>9. CASE UNCHANGED groupVars
  BY <1>0, <1>9 DEF groupVars, Settled, DestroyedIsUnused
<1> QED
  BY <1>1, <1>2, <1>3, <1>4, <1>5, <1>6, <1>7, <1>8, <1>9 DEF GroupNext, GroupStep

LEMMA GroupStarts == GroupInit => GroupKept
<1> SUFFICES ASSUME GroupInit PROVE GroupKept
  OBVIOUS
<1> USE DEF GroupInit
<1>1. GroupTypeOK
  <2>1. /\ 0 \in 0 .. WordSize - 1 /\ 0 \in 0 .. MaxAdds /\ 0 \in 0 .. MaxWaits
        /\ "wg" \in CondVars
    BY GroupAssumption, WordSizeAssumption
  <2> QED
    BY <2>1 DEF GroupTypeOK, GroupLabels
<1>2. GroupPlaces
  BY DEF GroupPlaces, AdderLabels, WaiterLabels, Critical, Users
<1>3. Arriving = {} /\ Reporting = {} /\ InLoop = {} /\ Cardinality({}) = 0
  BY FS_EmptySet DEF Arriving, Reporting, InLoop, Sleeping, Users
<1>4. ~NotifyDue /\ ~Notifying
  BY DEF NotifyDue, Notifying, Users
<1>5. WorkersAreOwed
  BY <1>3 DEF WorkersAreOwed
<1>6. RoundsAreCounted
  BY <1>3, <1>4, GroupAssumption DEF RoundsAreCounted
<1>7. Released /\ WaitersAreRegistered
  BY <1>3, <1>4 DEF Released, WaitersAreRegistered
<1>8. ReleasedWake /\ Settled /\ DestroyedIsUnused
  BY DEF ReleasedWake, Settled, DestroyedIsUnused
<1> QED
  BY <1>1, <1>2, <1>5, <1>6, <1>7, <1>8 DEF GroupKept

LEMMA GroupKeptAlways == GroupSpec => []GroupKept
<1>1. GroupKept /\ [GroupNext]_groupVars => GroupKept'
  BY GroupTyped, PlacesKept, OwedKept, RoundsKept, RegisteredKept, WakingKept, SettledKept
  DEF GroupKept
<1> QED
  BY <1>1, GroupStarts, PTL DEF GroupSpec

\* sync::WaitGroup, for any number of threads, calls and rounds (bounded by the
\* width of count_): the waiters registered are those to wake, with the count at
\* 0 only a waiter that was overtaken by an Add can be left asleep, and whoever
\* destroys the group after a Wait leaves no Done that would touch it.
THEOREM GroupInvHolds == GroupSpec => []GroupInv
<1>1. ASSUME GroupKept PROVE OnlyOvertakenSleep
  <2> SUFFICES ASSUME countWorkers = 0, NEW t \in Waiters, t \notin overtaken,
                      pc[t] = "asleep" \/ (pc[t] = "wait" /\ Fresh(t))
               PROVE  \E u \in Adders : pc[u] = "notify" \/ (pc[u] = "wakeall" /\ pc[t] = "asleep")
    BY DEF OnlyOvertakenSleep
  <2>1. t \in released \ overtaken
    BY <1>1 DEF GroupKept, Released, InLoop, Sleeping
  <2>2. WakesUp(t)
    BY <1>1, <2>1 DEF GroupKept, ReleasedWake, WakesUp
  <2> QED
    BY <2>2 DEF WakesUp, NotifyDue
<1>2. GroupKept => GroupInv
  BY <1>1 DEF GroupKept, GroupInv
<1> QED
  BY <1>2, GroupKeptAlways, PTL
------------------------------------------------------------------------------
\* Coroutine and Body.
\* c is off the CPU, at its own stack, where its next switch goes on.
AtOwnStack(c) ==
  /\ rsp[Task(c)] = c
  /\ frame[c].of = Task(c)
  /\ san[Task(c)].stack = c
  /\ ~frame[c].fresh => san[Task(c)].fake = c

\* Stack s has resumed run[s] and is where the loop's context was left.
AtResume(s) ==
  LET x == Loop(run[s])
  IN  /\ rsp[x] = s
      /\ frame[s] = Saved(x)
      /\ san[x].stack = s /\ san[x].fake = s /\ san[x].fiber = s
      /\ outer[s] = IF s \in Threads THEN None ELSE s

\* A fiber that is in the Run of a stack on the CPU has given up the CPU itself.
BehindSwitch ==
  \A s \in Active : run[s] # None =>
    /\ run[s] \notin Active /\ run[s] \notin Waiting
    /\ run[s] \notin complete => AtOwnStack(run[s])

\* The stacks that wait do so for the thread whose they are, or that resumed them.
StacksAreOwned ==
  \E owner \in [Stacks -> Threads \union {None}] :
    /\ \A t \in Threads : owner[t] = t /\ owner[cpu[t]] = t
    /\ \A s \in Waiting : owner[run[s]] = owner[s]

ContextsKept ==
  /\ CoroutineTypeOK
  /\ RunningIsHere
  /\ RunsAreNested
  /\ \A s \in Stacks : run[s] # None => run[s] \in alive
  /\ \A c \in ready : AtOwnStack(c)
  /\ \A s \in Waiting : AtResume(s)
  /\ \A s \in Active : frame[s] = Nothing
  /\ BehindSwitch
  /\ StacksAreOwned
  /\ \A c \in alive : san[Task(c)].fiber = c
  /\ \A x \in Contexts : san[x].exit_from = None
  /\ SanitizersFollow

LEMMA ContextNames ==
  /\ \A c \in Coroutines : Loop(c) \in Contexts /\ Task(c) \in Contexts
  /\ \A c, d \in Coroutines : /\ Loop(c) # Task(d)
                              /\ Loop(c) = Loop(d) => c = d
                              /\ Task(c) = Task(d) => c = d
  /\ \A x \in Contexts : \E c \in Coroutines : x = Loop(c) \/ x = Task(c)
  /\ None \notin Contexts
<1>1. \A x \in Contexts : \E c \in Coroutines : x = Loop(c) \/ x = Task(c)
  BY DEF Contexts, Loop, Task
<1>2. \A c, d \in Coroutines : /\ Loop(c) # Task(d)
                               /\ Loop(c) = Loop(d) => c = d
                               /\ Task(c) = Task(d) => c = d
  BY DEF Loop, Task
<1> QED
  BY <1>1, <1>2, CoroutineAssumption DEF Contexts, Loop, Task

SanitizerContext ==
  [stack : Rsp, fake : Rsp, from : Contexts \union {None}, fiber : Rsp,
   exit_from : Contexts \union {None}]

\* What a switch needs: the context it goes to is at a stack of its own.
CanSwitch(t, from, to) ==
  /\ CoroutineTypeOK
  /\ t \in Threads /\ from \in Contexts /\ to \in Contexts /\ from # to
  /\ rsp[to] \in Stacks
  /\ frame[rsp[to]].of = to
  /\ \A x \in Contexts : san[x].exit_from = None

\* The sanitizers' part of SwitchTo, seen at its end.
LEMMA SwitchEffect ==
  ASSUME NEW t, NEW from, NEW to, CanSwitch(t, from, to), SwitchTo(t, from, to)
  PROVE  /\ asan' = [asan EXCEPT ![t] =
              [stack |-> san[to].stack,
               fake |-> IF frame[rsp[to]].fresh THEN rsp[to] ELSE san[to].fake]]
         /\ tsan' = [tsan EXCEPT ![t] = san[to].fiber]
         /\ tsanFibers' = tsanFibers
         /\ san' \in [Contexts -> SanitizerContext]
         /\ san'[from] = [stack |-> asan[t].stack, fake |-> asan[t].fake, from |-> san[from].from,
                          fiber |-> tsan[t], exit_from |-> None]
         /\ san'[to] = [stack |-> san[to].stack, fake |-> san[to].fake, from |-> from,
                        fiber |-> san[to].fiber, exit_from |-> None]
         /\ \A y \in Contexts \ {from, to} : san'[y] = san[y]
<1>0. /\ san \in [Contexts -> SanitizerContext]
      /\ from \in Contexts /\ to \in Contexts /\ from # to /\ t \in Threads
      /\ \A x \in Contexts : san[x].exit_from = None
      /\ asan \in [Threads -> [stack : Rsp, fake : Rsp]]
      /\ Here(to) = to
  BY DEF CanSwitch, CoroutineTypeOK, SanitizerContext, Here, Found
<1>r. asan[t].stack \in Rsp /\ asan[t].fake \in Rsp /\ tsan[t] \in Rsp
  BY DEF CanSwitch, CoroutineTypeOK
<1>1. PICK x : x = TsanBeforeSwitch(AsanBeforeSwitch(san, t, from, to), t, from)
  OBVIOUS
<1>2. /\ DOMAIN x = Contexts
      /\ x[from] = [stack |-> san[from].stack, fake |-> asan[t].fake, from |-> san[from].from,
                    fiber |-> tsan[t], exit_from |-> None]
      /\ x[to] = [stack |-> san[to].stack, fake |-> san[to].fake, from |-> from,
                  fiber |-> san[to].fiber, exit_from |-> None]
      /\ \A y \in Contexts \ {from, to} : x[y] = san[y]
  BY <1>0, <1>1, ZenonT(30) DEF TsanBeforeSwitch, AsanBeforeSwitch, SanitizerContext
<1>t. x \in [Contexts -> SanitizerContext]
  <2>1. \A y \in Contexts : x[y] \in SanitizerContext
    BY <1>0, <1>2, <1>r DEF SanitizerContext
  <2>2. x = [y \in Contexts |-> x[y]]
    BY <1>0, <1>1 DEF TsanBeforeSwitch, AsanBeforeSwitch
  <2> QED
    BY <2>1, <2>2
<1>3. Arrive(x, t, to)
  BY <1>1 DEF SwitchTo
<1> HIDE DEF SanitizerContext
<1>4. asan' = [asan EXCEPT ![t] =
                [stack |-> san[to].stack,
                 fake |-> IF frame[rsp[to]].fresh THEN rsp[to] ELSE san[to].fake]]
  BY <1>0, <1>2, <1>3 DEF Arrive, AsanAfterStart, AsanAfterSwitch, Found
<1>5. tsan' = [tsan EXCEPT ![t] = san[to].fiber] /\ tsanFibers' = tsanFibers
  BY <1>0, <1>2, <1>3, ContextNames DEF Arrive, TsanAfter
<1>6. san' = [x EXCEPT ![from].stack = asan[t].stack, ![to].exit_from = None]
  <2>1. Here(to) = to /\ x[to].from = from
    BY <1>0, <1>2
  <2>2. san' = [x EXCEPT ![x[Here(to)].from].stack = asan[t].stack, ![Here(to)].exit_from = None]
    BY <1>3 DEF Arrive
  <2> QED
    BY <2>1, <2>2
<1>7. /\ san' \in [Contexts -> SanitizerContext]
      /\ san'[from] = [stack |-> asan[t].stack, fake |-> asan[t].fake, from |-> san[from].from,
                       fiber |-> tsan[t], exit_from |-> None]
      /\ san'[to] = [stack |-> san[to].stack, fake |-> san[to].fake, from |-> from,
                     fiber |-> san[to].fiber, exit_from |-> None]
      /\ \A y \in Contexts \ {from, to} : san'[y] = san[y]
  <2>1. /\ san' = [y \in Contexts |-> san'[y]]
    BY <1>2, <1>6
  <2>2. \A y \in Contexts : san'[y] \in SanitizerContext
    BY <1>0, <1>t, <1>r, <1>2, <1>6 DEF SanitizerContext
  <2>3. san' \in [Contexts -> SanitizerContext]
    BY <2>1, <2>2
  <2> QED
    BY <2>3, <1>0, <1>2, <1>6, SMTT(30)
<1> QED
  BY <1>4, <1>5, <1>7

LEMMA ExitEffect ==
  ASSUME NEW t, NEW from, NEW to, CanSwitch(t, from, to), ExitTo(t, from, to)
  PROVE  /\ asan' = [asan EXCEPT ![t] =
              [stack |-> san[to].stack,
               fake |-> IF frame[rsp[to]].fresh THEN rsp[to] ELSE san[to].fake]]
         /\ tsan' = [tsan EXCEPT ![t] = san[to].fiber]
         /\ tsanFibers' = tsanFibers \ {san[from].fiber}
         /\ san' \in [Contexts -> SanitizerContext]
         /\ san'[from] = [stack |-> asan[t].stack, fake |-> san[from].fake, from |-> san[from].from,
                          fiber |-> san[from].fiber, exit_from |-> None]
         /\ san'[to] = [stack |-> san[to].stack, fake |-> san[to].fake, from |-> from,
                        fiber |-> san[to].fiber, exit_from |-> None]
         /\ \A y \in Contexts \ {from, to} : san'[y] = san[y]
<1>0. /\ san \in [Contexts -> SanitizerContext]
      /\ from \in Contexts /\ to \in Contexts /\ from # to /\ t \in Threads
      /\ \A x \in Contexts : san[x].exit_from = None
      /\ asan \in [Threads -> [stack : Rsp, fake : Rsp]]
      /\ Here(to) = to
  BY DEF CanSwitch, CoroutineTypeOK, SanitizerContext, Here, Found
<1>r. asan[t].stack \in Rsp /\ asan[t].fake \in Rsp /\ tsan[t] \in Rsp
  BY DEF CanSwitch, CoroutineTypeOK
<1>1. PICK x : x = TsanBeforeExit(AsanBeforeExit(san, from, to), from, to)
  OBVIOUS
<1>2. /\ DOMAIN x = Contexts
      /\ x[from] = [stack |-> san[from].stack, fake |-> san[from].fake, from |-> san[from].from,
                    fiber |-> san[from].fiber, exit_from |-> None]
      /\ x[to] = [stack |-> san[to].stack, fake |-> san[to].fake, from |-> from,
                  fiber |-> san[to].fiber, exit_from |-> from]
      /\ \A y \in Contexts \ {from, to} : x[y] = san[y]
  BY <1>0, <1>1 DEF TsanBeforeExit, AsanBeforeExit, SanitizerContext
<1>t. x \in [Contexts -> SanitizerContext]
  <2>1. \A y \in Contexts : x[y] \in SanitizerContext
    BY <1>0, <1>2, <1>r DEF SanitizerContext
  <2>2. x = [y \in Contexts |-> x[y]]
    BY <1>0, <1>1 DEF TsanBeforeExit, AsanBeforeExit
  <2> QED
    BY <2>1, <2>2
<1>3. Arrive(x, t, to)
  BY <1>1 DEF ExitTo
<1>4. asan' = [asan EXCEPT ![t] =
                [stack |-> san[to].stack,
                 fake |-> IF frame[rsp[to]].fresh THEN rsp[to] ELSE san[to].fake]]
  BY <1>0, <1>2, <1>3 DEF Arrive, AsanAfterStart, AsanAfterSwitch, Found
<1>5. tsan' = [tsan EXCEPT ![t] = san[to].fiber]
  BY <1>0, <1>2, <1>3 DEF Arrive, TsanAfter
<1>6. tsanFibers' = tsanFibers \ {san[from].fiber}
  BY <1>0, <1>2, <1>3 DEF Arrive, TsanAfter
<1>7. san' = [x EXCEPT ![from].stack = asan[t].stack, ![to].exit_from = None]
  <2>1. Here(to) = to /\ x[to].from = from
    BY <1>0, <1>2
  <2>2. san' = [x EXCEPT ![x[Here(to)].from].stack = asan[t].stack, ![Here(to)].exit_from = None]
    BY <1>3 DEF Arrive
  <2> QED
    BY <2>1, <2>2
<1>8. /\ san' \in [Contexts -> SanitizerContext]
      /\ san'[from] = [stack |-> asan[t].stack, fake |-> san[from].fake, from |-> san[from].from,
                       fiber |-> san[from].fiber, exit_from |-> None]
      /\ san'[to] = [stack |-> san[to].stack, fake |-> san[to].fake, from |-> from,
                     fiber |-> san[to].fiber, exit_from |-> None]
      /\ \A y \in Contexts \ {from, to} : san'[y] = san[y]
  <2>1. /\ san' = [y \in Contexts |-> san'[y]]
    BY <1>2, <1>7
  <2>2. \A y \in Contexts : san'[y] \in SanitizerContext
    BY <1>0, <1>t, <1>r, <1>2, <1>7 DEF SanitizerContext
  <2>3. san' \in [Contexts -> SanitizerContext]
    BY <2>1, <2>2
  <2> QED
    BY <2>3, <1>0, <1>2, <1>7, SMTT(30)
<1> QED
  BY <1>4, <1>5, <1>6, <1>8

\* What is known of the stacks and fibers a thread's step speaks of.
LEMMA StacksKnown ==
  ASSUME ContextsKept
  PROVE  /\ \A t \in Threads : t \in Stacks /\ t \notin Coroutines /\ t # None /\ cpu[t] \in Stacks /\ cpu[t] \in Active
         /\ \A c \in Coroutines : c \in Stacks /\ c \notin Threads /\ c # None
         /\ alive \subseteq Coroutines /\ ready \subseteq alive /\ complete \subseteq alive
         /\ Active \subseteq Stacks /\ Waiting \subseteq Stacks
         /\ \A s \in Active : s \notin Waiting
         /\ \A s \in Stacks : s \notin Active /\ s \notin Waiting => run[s] = None
         /\ \A c \in ready : c \notin Active /\ c \notin Waiting /\ \A s \in Stacks : run[s] # c
         /\ \A s \in Stacks : run[s] # None => run[s] \in alive /\ run[s] \in Coroutines
         /\ \A s \in Waiting : run[s] # None
<1>1. /\ \A t \in Threads : t \in Stacks /\ t \notin Coroutines /\ t # None
      /\ \A c \in Coroutines : c \in Stacks /\ c \notin Threads /\ c # None
  BY CoroutineAssumption DEF Stacks
<1>2. /\ cpu \in [Threads -> Stacks]
      /\ complete \subseteq alive /\ ready \subseteq alive /\ alive \subseteq Coroutines
      /\ ready \intersect (Active \union Waiting \union {run[s] : s \in Stacks}) = {}
      /\ \A s \in Stacks : run[s] # None => run[s] \in alive
  BY DEF ContextsKept, CoroutineTypeOK, RunsAreNested
<1> QED
  BY <1>1, <1>2 DEF Active, Waiting

\* Resume moves t from its stack to the fiber's.
ResumesOn(t, c) ==
  /\ c \in ready /\ cpu[t] # c /\ run[cpu[t]] = None
  /\ cpu' = [cpu EXCEPT ![t] = c]
  /\ frame' = [frame EXCEPT ![cpu[t]] = Saved(Loop(c)), ![c] = Nothing]
  /\ rsp' = [rsp EXCEPT ![Loop(c)] = cpu[t]]
  /\ run' = [run EXCEPT ![cpu[t]] = c]
  /\ outer' = [outer EXCEPT ![cpu[t]] = running[t]]
  /\ running' = [running EXCEPT ![t] = c]
  /\ ready' = ready \ {c} /\ complete' = complete /\ alive' = alive
  /\ asan' = [asan EXCEPT ![t] = [stack |-> c, fake |-> c]]
  /\ tsan' = [tsan EXCEPT ![t] = c]
  /\ tsanFibers' = tsanFibers
  /\ san' \in [Contexts -> SanitizerContext]
  /\ san'[Loop(c)] = [stack |-> cpu[t], fake |-> cpu[t], from |-> san[Loop(c)].from,
                      fiber |-> cpu[t], exit_from |-> None]
  /\ san'[Task(c)] = [stack |-> c, fake |-> san[Task(c)].fake, from |-> Loop(c),
                      fiber |-> c, exit_from |-> None]
  /\ \A y \in Contexts \ {Loop(c), Task(c)} : san'[y] = san[y]

LEMMA ResumeEffect ==
  ASSUME ContextsKept, NEW t \in Threads, NEW c \in Coroutines, Resume(t, c)
  PROVE  ResumesOn(t, c)
<1>1. /\ c \in ready /\ run[cpu[t]] = None
      /\ SwitchTo(t, Loop(c), Task(c))
      /\ SwitchMachineContext(t, Loop(c), Task(c))
      /\ run' = [run EXCEPT ![cpu[t]] = c]
      /\ outer' = [outer EXCEPT ![cpu[t]] = running[t]]
      /\ running' = [running EXCEPT ![t] = c]
      /\ ready' = ready \ {c} /\ complete' = complete /\ alive' = alive
  BY DEF Resume, InProgram, SwitchTo
<1>2. cpu[t] # c /\ c \in alive
  BY <1>1, StacksKnown
<1>3. /\ AtOwnStack(c) /\ san[Task(c)].fiber = c /\ CoroutineTypeOK
      /\ \A x \in Contexts : san[x].exit_from = None
      /\ asan[t] = [stack |-> cpu[t], fake |-> cpu[t]] /\ tsan[t] = cpu[t]
  BY <1>1, <1>2 DEF ContextsKept, SanitizersFollow
<1>4. /\ Loop(c) \in Contexts /\ Task(c) \in Contexts /\ Loop(c) # Task(c)
      /\ rsp[Task(c)] = c /\ frame[c].of = Task(c) /\ san[Task(c)].stack = c
      /\ ~frame[c].fresh => san[Task(c)].fake = c
  BY <1>3, ContextNames DEF AtOwnStack
<1>5. CanSwitch(t, Loop(c), Task(c))
  BY <1>3, <1>4, StacksKnown DEF CanSwitch
<1>6. /\ asan' = [asan EXCEPT ![t] =
              [stack |-> san[Task(c)].stack,
               fake |-> IF frame[rsp[Task(c)]].fresh THEN rsp[Task(c)] ELSE san[Task(c)].fake]]
      /\ tsan' = [tsan EXCEPT ![t] = san[Task(c)].fiber]
      /\ tsanFibers' = tsanFibers
      /\ san' \in [Contexts -> SanitizerContext]
      /\ san'[Loop(c)] = [stack |-> asan[t].stack, fake |-> asan[t].fake, from |-> san[Loop(c)].from,
                          fiber |-> tsan[t], exit_from |-> None]
      /\ san'[Task(c)] = [stack |-> san[Task(c)].stack, fake |-> san[Task(c)].fake, from |-> Loop(c),
                          fiber |-> san[Task(c)].fiber, exit_from |-> None]
      /\ \A y \in Contexts \ {Loop(c), Task(c)} : san'[y] = san[y]
  BY <1>1, <1>5, SwitchEffect
<1>7. (IF frame[rsp[Task(c)]].fresh THEN rsp[Task(c)] ELSE san[Task(c)].fake) = c
  BY <1>4
<1>8. /\ rsp' = [rsp EXCEPT ![Loop(c)] = cpu[t]]
      /\ cpu' = [cpu EXCEPT ![t] = c]
      /\ frame' = [frame EXCEPT ![cpu[t]] = Saved(Loop(c)), ![c] = Nothing]
  BY <1>1, <1>4 DEF SwitchMachineContext
<1>9. asan[t].stack = cpu[t] /\ asan[t].fake = cpu[t]
  BY <1>3
<1>10. /\ asan' = [asan EXCEPT ![t] = [stack |-> c, fake |-> c]]
       /\ tsan' = [tsan EXCEPT ![t] = c]
       /\ tsanFibers' = tsanFibers
  BY <1>3, <1>4, <1>6, <1>7
<1>11. /\ san' \in [Contexts -> SanitizerContext]
       /\ san'[Loop(c)] = [stack |-> cpu[t], fake |-> cpu[t], from |-> san[Loop(c)].from,
                           fiber |-> cpu[t], exit_from |-> None]
       /\ san'[Task(c)] = [stack |-> c, fake |-> san[Task(c)].fake, from |-> Loop(c),
                           fiber |-> c, exit_from |-> None]
       /\ \A y \in Contexts \ {Loop(c), Task(c)} : san'[y] = san[y]
  BY <1>3, <1>4, <1>6, <1>9
<1> QED
  BY <1>1, <1>2, <1>8, <1>10, <1>11 DEF ResumesOn

LEMMA ResumeKeeps ==
  ASSUME ContextsKept, NEW t \in Threads, NEW c \in Coroutines, Resume(t, c)
  PROVE  ContextsKept'
<1>0. ResumesOn(t, c)
  BY ResumeEffect
<1>e. /\ c \in ready /\ cpu[t] # c /\ run[cpu[t]] = None
      /\ cpu' = [cpu EXCEPT ![t] = c]
      /\ frame' = [frame EXCEPT ![cpu[t]] = Saved(Loop(c)), ![c] = Nothing]
      /\ rsp' = [rsp EXCEPT ![Loop(c)] = cpu[t]]
      /\ run' = [run EXCEPT ![cpu[t]] = c]
      /\ outer' = [outer EXCEPT ![cpu[t]] = running[t]]
      /\ running' = [running EXCEPT ![t] = c]
      /\ ready' = ready \ {c} /\ complete' = complete /\ alive' = alive
  BY <1>0 DEF ResumesOn
<1>a. /\ asan' = [asan EXCEPT ![t] = [stack |-> c, fake |-> c]]
      /\ tsan' = [tsan EXCEPT ![t] = c]
      /\ tsanFibers' = tsanFibers
      /\ san' \in [Contexts -> SanitizerContext]
      /\ san'[Loop(c)] = [stack |-> cpu[t], fake |-> cpu[t], from |-> san[Loop(c)].from,
                          fiber |-> cpu[t], exit_from |-> None]
      /\ san'[Task(c)] = [stack |-> c, fake |-> san[Task(c)].fake, from |-> Loop(c),
                          fiber |-> c, exit_from |-> None]
      /\ \A y \in Contexts \ {Loop(c), Task(c)} : san'[y] = san[y]
  BY <1>0 DEF ResumesOn
<1>t. /\ cpu \in [Threads -> Stacks] /\ rsp \in [Contexts -> Rsp]
      /\ frame \in [Stacks -> [of : Contexts \union {None}, fresh : BOOLEAN]]
      /\ run \in [Stacks -> Coroutines \union {None}] /\ outer \in [Stacks -> Coroutines \union {None}]
      /\ running \in [Threads -> Coroutines \union {None}]
      /\ san \in [Contexts -> SanitizerContext]
      /\ asan \in [Threads -> [stack : Rsp, fake : Rsp]] /\ tsan \in [Threads -> Rsp]
  BY DEF ContextsKept, CoroutineTypeOK, SanitizerContext
<1>k. /\ c \in alive /\ c \in Stacks /\ cpu[t] \in Stacks /\ cpu[t] \in Active
      /\ c \notin Active /\ c \notin Waiting /\ cpu[t] \notin Waiting /\ run[c] = None
      /\ \A r \in Stacks : run[r] # c
      /\ Loop(c) \in Contexts /\ Task(c) \in Contexts
      /\ c # None /\ c \notin Threads
  BY <1>e, StacksKnown, ContextNames
<1>1. Active' = (Active \ {cpu[t]}) \union {c}
  BY <1>e, <1>t, <1>k DEF Active, ContextsKept, RunningIsHere
<1>2. Waiting' = Waiting \union {cpu[t]}
  BY <1>e, <1>t, <1>k, <1>1 DEF Waiting
<1>3. \A r \in Stacks \ {cpu[t]} : run'[r] = run[r] /\ outer'[r] = outer[r] /\ (r # c => frame'[r] = frame[r])
  BY <1>e, <1>t
<1>4. \A d \in Coroutines \ {c} : /\ rsp'[Loop(d)] = rsp[Loop(d)] /\ rsp'[Task(d)] = rsp[Task(d)]
                                  /\ san'[Loop(d)] = san[Loop(d)] /\ san'[Task(d)] = san[Task(d)]
  BY <1>e, <1>a, <1>t, ContextNames
<1>5. CoroutineTypeOK'
  <2>1. /\ cpu' \in [Threads -> Stacks] /\ rsp' \in [Contexts -> Rsp]
        /\ frame' \in [Stacks -> [of : Contexts \union {None}, fresh : BOOLEAN]]
    BY <1>e, <1>t, <1>k DEF Rsp, Saved, Nothing
  <2>2. /\ run' \in [Stacks -> Coroutines \union {None}] /\ outer' \in [Stacks -> Coroutines \union {None}]
        /\ running' \in [Threads -> Coroutines \union {None}]
    BY <1>e, <1>t
  <2>3. san' \in [Contexts -> SanitizerContext]
    BY <1>a
  <2>4. asan' \in [Threads -> [stack : Rsp, fake : Rsp]] /\ tsan' \in [Threads -> Rsp]
    BY <1>a, <1>t, <1>k DEF Rsp
  <2> QED
    BY <2>1, <2>2, <2>3, <2>4, <1>e DEF CoroutineTypeOK, ContextsKept, SanitizerContext
<1>6. RunningIsHere'
  <2>1. \A u \in Threads : cpu'[u] = (IF running'[u] = None THEN u ELSE running'[u])
    BY <1>e, <1>t, <1>k DEF ContextsKept, RunningIsHere
  <2>2. \A u, v \in Threads : u # v => cpu'[u] # cpu'[v]
    BY <1>e, <1>t, <1>k DEF ContextsKept, RunningIsHere, Active
  <2>3. (Active \union Waiting)' \subseteq Threads \union alive'
    BY <1>e, <1>k, <1>1, <1>2 DEF ContextsKept, RunningIsHere
  <2> QED
    BY <2>1, <2>2, <2>3 DEF RunningIsHere
<1>7. RunsAreNested'
  <2>1. \A r, s \in Stacks : r # s /\ run'[r] # None => run'[r] # run'[s]
    BY <1>e, <1>t, <1>k DEF ContextsKept, RunsAreNested
  <2>2. ready' \intersect (Active \union Waiting \union {run[s] : s \in Stacks})' = {}
    BY <1>e, <1>t, <1>k, <1>1, <1>2, StacksKnown
  <2>3. \A d \in alive' \ ready' : \E s \in Stacks : run'[s] = d
    <3> SUFFICES ASSUME NEW d \in alive' \ ready' PROVE \E s \in Stacks : run'[s] = d
      OBVIOUS
    <3>1. CASE d = c
      BY <3>1, <1>e, <1>t, <1>k
    <3>2. CASE d # c
      <4>1. PICK s \in Stacks : run[s] = d
        BY <3>2, <1>e DEF ContextsKept, RunsAreNested
      <4>2. s # cpu[t]
        BY <4>1, <1>e, StacksKnown
      <4> QED
        BY <4>1, <4>2, <1>3
    <3> QED
      BY <3>1, <3>2
  <2> QED
    BY <2>1, <2>2, <2>3 DEF RunsAreNested
<1>8. \A s \in Stacks : run'[s] # None => run'[s] \in alive'
  BY <1>e, <1>t, <1>k, StacksKnown
<1>9. \A d \in Coroutines : d # c /\ d # cpu[t] /\ AtOwnStack(d) => AtOwnStack(d)'
  BY <1>3, <1>4, StacksKnown DEF AtOwnStack
<1>10. \A d \in ready' : AtOwnStack(d)'
  <2>1. \A d \in ready' : d \in Coroutines /\ d # c /\ d # cpu[t] /\ AtOwnStack(d)
    BY <1>e, <1>k, StacksKnown DEF ContextsKept
  <2> QED
    BY <2>1, <1>9
<1>11. \A s \in Waiting' : AtResume(s)'
  <2> PICK r : r = cpu[t]
    OBVIOUS
  <2>1. AtResume(r)'
    <3>1. outer'[cpu[t]] = IF cpu[t] \in Threads THEN None ELSE cpu[t]
      BY <1>e, <1>t, <1>k, StacksKnown DEF ContextsKept, RunningIsHere
    <3>2. run'[cpu[t]] = c /\ frame'[cpu[t]] = Saved(Loop(c)) /\ rsp'[Loop(c)] = cpu[t]
      BY <1>e, <1>t, <1>k
    <3> QED
      BY <3>1, <3>2, <1>a DEF AtResume
  <2>2. ASSUME NEW s \in Waiting PROVE AtResume(s)'
    <3>1. s # cpu[t] /\ s # c /\ run[s] \in Coroutines \ {c} /\ s \in Stacks
      BY <1>k, StacksKnown
    <3>2. AtResume(s)
      BY DEF ContextsKept
    <3>3. /\ run'[s] = run[s] /\ outer'[s] = outer[s] /\ frame'[s] = frame[s]
          /\ rsp'[Loop(run[s])] = rsp[Loop(run[s])] /\ san'[Loop(run[s])] = san[Loop(run[s])]
      BY <3>1, <1>3, <1>4
    <3> QED
      BY <3>2, <3>3 DEF AtResume
  <2> QED
    BY <2>1, <2>2, <1>2
<1>12. \A s \in Active' : frame'[s] = Nothing
  <2>1. frame'[c] = Nothing
    BY <1>e, <1>t, <1>k
  <2>2. \A s \in Active \ {cpu[t]} : frame'[s] = Nothing
    BY <1>3, <1>k, StacksKnown DEF ContextsKept
  <2> QED
    BY <2>1, <2>2, <1>1
<1>13. BehindSwitch'
  <2> SUFFICES ASSUME NEW s \in Active', run'[s] # None
               PROVE  /\ run'[s] \notin Active' /\ run'[s] \notin Waiting'
                      /\ run'[s] \notin complete' => AtOwnStack(run[s])'
    BY DEF BehindSwitch
  <2>1. s # c /\ s \in Active \ {cpu[t]} /\ s \in Stacks
    BY <1>1, <1>3, <1>k, StacksKnown
  <2>2. run'[s] = run[s] /\ run[s] \in Coroutines /\ run[s] # c
    BY <2>1, <1>3, <1>k, StacksKnown
  <2>3. PICK d \in Coroutines : d = run[s]
    BY <2>2
  <2>4. d \notin Active /\ d \notin Waiting /\ (d \notin complete => AtOwnStack(d))
    BY <2>1, <2>2, <2>3 DEF ContextsKept, BehindSwitch
  <2>5. d # c /\ d # cpu[t]
    BY <2>2, <2>3, <2>4, <1>k
  <2>6. d \notin complete => AtOwnStack(d)'
    BY <2>4, <2>5, <1>9
  <2> QED
    BY <2>2, <2>3, <2>4, <2>5, <2>6, <1>1, <1>2, <1>e
<1>14. StacksAreOwned'
  <2>1. PICK owner \in [Stacks -> Threads \union {None}] :
          /\ \A u \in Threads : owner[u] = u /\ owner[cpu[u]] = u
          /\ \A s \in Waiting : owner[run[s]] = owner[s]
    BY DEF ContextsKept, StacksAreOwned
  <2>2. PICK next : next = [owner EXCEPT ![c] = t]
    OBVIOUS
  <2>3. next \in [Stacks -> Threads \union {None}] /\ next[c] = t /\ \A s \in Stacks \ {c} : next[s] = owner[s]
    BY <2>2, <1>k
  <2>4. \A u \in Threads : next[u] = u /\ next[cpu'[u]] = u
    BY <2>1, <2>3, <1>e, <1>t, <1>k, StacksKnown
  <2>5. next[run'[cpu[t]]] = next[cpu[t]]
    BY <2>1, <2>3, <1>e, <1>t, <1>k
  <2>6. \A s \in Waiting : next[run'[s]] = next[s]
    <3> SUFFICES ASSUME NEW s \in Waiting PROVE next[run'[s]] = next[s]
      OBVIOUS
    <3>1. s # c /\ s # cpu[t] /\ s \in Stacks /\ run[s] # c /\ run[s] \in Stacks
      BY <1>k, StacksKnown
    <3> QED
      BY <3>1, <2>1, <2>3, <1>3
  <2> QED
    BY <2>3, <2>4, <2>5, <2>6, <1>2 DEF StacksAreOwned
<1>15. \A d \in alive' : san'[Task(d)].fiber = d
  BY <1>a, <1>e, <1>4, StacksKnown DEF ContextsKept
<1>16. \A x \in Contexts : san'[x].exit_from = None
  BY <1>a DEF ContextsKept
<1>17. SanitizersFollow'
  BY <1>a, <1>e, <1>t DEF ContextsKept, SanitizersFollow
<1> QED
  BY <1>5, <1>6, <1>7, <1>8, <1>10, <1>11, <1>12, <1>13, <1>14, <1>15, <1>16, <1>17
  DEF ContextsKept

\* The stack that a running fiber was resumed from waits for its thread.
LEMMA ResumedFrom ==
  ASSUME ContextsKept, NEW t \in Threads, running[t] # None, InProgram(t)
  PROVE  \E c \in Coroutines, s \in Waiting :
           /\ running[t] = c /\ cpu[t] = c /\ c \in alive /\ c \notin ready /\ run[c] = None
           /\ run[s] = c /\ s # c /\ AtResume(s)
           /\ s \in Threads => s = t
<1>1. PICK c \in Coroutines : running[t] = c
  BY DEF ContextsKept, CoroutineTypeOK
<1>2. cpu[t] = c /\ run[c] = None /\ c \in Active
  BY <1>1, StacksKnown DEF ContextsKept, RunningIsHere, InProgram
<1>3. c \in alive /\ c \notin ready
  BY <1>2, StacksKnown DEF ContextsKept, RunningIsHere
<1>4. PICK s \in Stacks : run[s] = c
  BY <1>3 DEF ContextsKept, RunsAreNested
<1>5. s \in Waiting
  <2>1. s \notin Active
    BY <1>2, <1>4, StacksKnown DEF ContextsKept, BehindSwitch
  <2> QED
    BY <2>1, <1>4, StacksKnown
<1>6. s \in Threads => s = t
  BY <1>2, <1>4, <1>5 DEF ContextsKept, StacksAreOwned
<1> QED
  BY <1>1, <1>2, <1>3, <1>4, <1>5, <1>6, StacksKnown DEF ContextsKept

\* Suspend and the end of the routine move t from the fiber's stack to the one it
\* was resumed from.
GivesUp(t, c, s) ==
  /\ running[t] = c /\ cpu[t] = c /\ run[c] = None /\ c \in alive /\ c \notin ready
  /\ s \in Waiting /\ run[s] = c /\ s # c
  /\ cpu' = [cpu EXCEPT ![t] = s]
  /\ frame' = [frame EXCEPT ![c] = Saved(Task(c)), ![s] = Nothing]
  /\ rsp' = [rsp EXCEPT ![Task(c)] = c]
  /\ running' = [running EXCEPT ![t] = IF s = t THEN None ELSE s]
  /\ s \in Threads => s = t
  /\ run' = run /\ outer' = outer /\ ready' = ready /\ alive' = alive
  /\ complete \subseteq complete' /\ complete' \subseteq complete \union {c}
  /\ tsanFibers' = Threads \union (alive \ complete')
  /\ asan' = [asan EXCEPT ![t] = [stack |-> s, fake |-> s]]
  /\ tsan' = [tsan EXCEPT ![t] = s]
  /\ san' \in [Contexts -> SanitizerContext]
  /\ san'[Task(c)].stack = c /\ san'[Task(c)].fiber = c /\ san'[Task(c)].exit_from = None
  /\ c \notin complete' => san'[Task(c)].fake = c
  /\ san'[Loop(c)].exit_from = None
  /\ \A y \in Contexts \ {Loop(c), Task(c)} : san'[y] = san[y]

LEMMA GiveUpEffect ==
  ASSUME ContextsKept, NEW t \in Threads, Suspend(t) \/ Complete(t)
  PROVE  \E c \in Coroutines, s \in Stacks : GivesUp(t, c, s)
<1>1. running[t] # None /\ InProgram(t)
  BY DEF Suspend, Complete
<1>2. PICK c \in Coroutines, s \in Waiting :
           /\ running[t] = c /\ cpu[t] = c /\ c \in alive /\ c \notin ready /\ run[c] = None
           /\ run[s] = c /\ s # c /\ AtResume(s)
           /\ s \in Threads => s = t
  BY <1>1, ResumedFrom
<1>3. /\ Loop(c) \in Contexts /\ Task(c) \in Contexts /\ Loop(c) # Task(c)
      /\ s \in Stacks
      /\ rsp[Loop(c)] = s /\ frame[s] = Saved(Loop(c))
      /\ san[Loop(c)].stack = s /\ san[Loop(c)].fake = s /\ san[Loop(c)].fiber = s
      /\ outer[s] = IF s = t THEN None ELSE s
  BY <1>2, ContextNames, StacksKnown DEF AtResume
<1>4. /\ CoroutineTypeOK
      /\ \A x \in Contexts : san[x].exit_from = None
      /\ asan[t].stack = c /\ asan[t].fake = c /\ tsan[t] = c
      /\ san[Task(c)].fiber = c
      /\ tsanFibers = Threads \union (alive \ complete)
      /\ c \notin Threads
  <2>1. /\ asan[t] = [stack |-> cpu[t], fake |-> cpu[t]] /\ tsan[t] = cpu[t]
        /\ tsanFibers = Threads \union (alive \ complete)
    BY DEF ContextsKept, SanitizersFollow
  <2>2. CoroutineTypeOK /\ san[Task(c)].fiber = c /\ \A x \in Contexts : san[x].exit_from = None
    BY <1>2 DEF ContextsKept
  <2>3. asan[t].stack = c /\ asan[t].fake = c
    BY <2>1, <1>2
  <2> QED
    BY <2>1, <2>2, <2>3, <1>2, StacksKnown
<1>5. frame[s].of = Loop(c) /\ frame[s].fresh = FALSE
  BY <1>3 DEF Saved
<1>6. CanSwitch(t, Task(c), Loop(c))
  BY <1>3, <1>4, <1>5 DEF CanSwitch
<1>7. (IF frame[rsp[Loop(c)]].fresh THEN rsp[Loop(c)] ELSE san[Loop(c)].fake) = s
  BY <1>3, <1>5
<1>8. /\ SwitchMachineContext(t, Task(c), Loop(c))
      /\ run' = run /\ outer' = outer /\ ready' = ready /\ alive' = alive
      /\ SwitchReturns(t, cpu'[t])
  BY <1>2 DEF Suspend, Complete, SwitchTo, ExitTo
<1>9. /\ rsp' = [rsp EXCEPT ![Task(c)] = c]
      /\ cpu' = [cpu EXCEPT ![t] = s]
      /\ frame' = [frame EXCEPT ![c] = Saved(Task(c)), ![s] = Nothing]
  BY <1>2, <1>3, <1>8 DEF SwitchMachineContext
<1>10. running' = [running EXCEPT ![t] = IF s = t THEN None ELSE s]
  <2>1. cpu'[t] = s
    BY <1>9 DEF ContextsKept, CoroutineTypeOK
  <2> QED
    BY <2>1, <1>3, <1>8 DEF SwitchReturns
<1>11. CASE Suspend(t)
  <2>1. SwitchTo(t, Task(c), Loop(c)) /\ complete' = complete
    BY <1>2, <1>11 DEF Suspend
  <2>2. /\ asan' = [asan EXCEPT ![t] = [stack |-> s, fake |-> s]]
        /\ tsan' = [tsan EXCEPT ![t] = s]
        /\ tsanFibers' = tsanFibers
        /\ san' \in [Contexts -> SanitizerContext]
        /\ san'[Task(c)] = [stack |-> c, fake |-> c, from |-> san[Task(c)].from,
                            fiber |-> c, exit_from |-> None]
        /\ san'[Loop(c)] = [stack |-> s, fake |-> s, from |-> Task(c),
                            fiber |-> s, exit_from |-> None]
        /\ \A y \in Contexts \ {Task(c), Loop(c)} : san'[y] = san[y]
    BY <2>1, <1>3, <1>4, <1>6, <1>7, SwitchEffect
  <2>3. GivesUp(t, c, s)
    BY <2>1, <2>2, <1>2, <1>4, <1>8, <1>9, <1>10 DEF GivesUp
  <2> QED
    BY <2>3, <1>3
<1>12. CASE Complete(t)
  <2>1. ExitTo(t, Task(c), Loop(c)) /\ complete' = complete \union {c}
    BY <1>2, <1>12 DEF Complete
  <2>2. /\ asan' = [asan EXCEPT ![t] = [stack |-> s, fake |-> s]]
        /\ tsan' = [tsan EXCEPT ![t] = s]
        /\ tsanFibers' = tsanFibers \ {c}
        /\ san' \in [Contexts -> SanitizerContext]
        /\ san'[Task(c)] = [stack |-> c, fake |-> san[Task(c)].fake, from |-> san[Task(c)].from,
                            fiber |-> c, exit_from |-> None]
        /\ san'[Loop(c)] = [stack |-> s, fake |-> s, from |-> Task(c),
                            fiber |-> s, exit_from |-> None]
        /\ \A y \in Contexts \ {Task(c), Loop(c)} : san'[y] = san[y]
    BY <2>1, <1>3, <1>4, <1>6, <1>7, ExitEffect
  <2>3. tsanFibers' = Threads \union (alive \ complete')
    BY <2>1, <2>2, <1>4
  <2>4. GivesUp(t, c, s)
    BY <2>1, <2>2, <2>3, <1>2, <1>4, <1>8, <1>9, <1>10 DEF GivesUp
  <2> QED
    BY <2>4, <1>3
<1> QED
  BY <1>11, <1>12

LEMMA GiveUpKeeps ==
  ASSUME ContextsKept, NEW t \in Threads, NEW c \in Coroutines, NEW s \in Stacks, GivesUp(t, c, s)
  PROVE  ContextsKept'
<1>e. /\ running[t] = c /\ cpu[t] = c /\ run[c] = None /\ c \in alive /\ c \notin ready
      /\ s \in Waiting /\ run[s] = c /\ s # c
      /\ cpu' = [cpu EXCEPT ![t] = s]
      /\ frame' = [frame EXCEPT ![c] = Saved(Task(c)), ![s] = Nothing]
      /\ rsp' = [rsp EXCEPT ![Task(c)] = c]
      /\ running' = [running EXCEPT ![t] = IF s = t THEN None ELSE s]
      /\ s \in Threads => s = t
      /\ run' = run /\ outer' = outer /\ ready' = ready /\ alive' = alive
      /\ complete \subseteq complete' /\ complete' \subseteq complete \union {c}
  BY DEF GivesUp
<1>a. /\ tsanFibers' = Threads \union (alive \ complete')
      /\ asan' = [asan EXCEPT ![t] = [stack |-> s, fake |-> s]]
      /\ tsan' = [tsan EXCEPT ![t] = s]
      /\ san' \in [Contexts -> SanitizerContext]
      /\ san'[Task(c)].stack = c /\ san'[Task(c)].fiber = c /\ san'[Task(c)].exit_from = None
      /\ c \notin complete' => san'[Task(c)].fake = c
      /\ san'[Loop(c)].exit_from = None
      /\ \A y \in Contexts \ {Loop(c), Task(c)} : san'[y] = san[y]
  BY DEF GivesUp
<1>t. /\ cpu \in [Threads -> Stacks] /\ rsp \in [Contexts -> Rsp]
      /\ frame \in [Stacks -> [of : Contexts \union {None}, fresh : BOOLEAN]]
      /\ run \in [Stacks -> Coroutines \union {None}] /\ outer \in [Stacks -> Coroutines \union {None}]
      /\ running \in [Threads -> Coroutines \union {None}]
      /\ asan \in [Threads -> [stack : Rsp, fake : Rsp]] /\ tsan \in [Threads -> Rsp]
      /\ complete \subseteq alive /\ ready \subseteq alive /\ alive \subseteq Coroutines
  BY DEF ContextsKept, CoroutineTypeOK
<1>k. /\ c \in Stacks /\ c \in Active /\ c \notin Waiting /\ s \notin Active
      /\ Loop(c) \in Contexts /\ Task(c) \in Contexts
      /\ c # None /\ c \notin Threads /\ s # None
      /\ \A r \in Stacks \ {s} : run[r] # c
  <2>1. \A r \in Stacks \ {s} : run[r] # c
    BY <1>e, StacksKnown DEF ContextsKept, RunsAreNested
  <2>2. s # None /\ c # None
    BY StacksKnown DEF Stacks
  <2> QED
    BY <2>1, <2>2, <1>e, StacksKnown, ContextNames
<1>1. Active' = (Active \ {c}) \union {s}
  BY <1>e, <1>t, <1>k DEF Active, ContextsKept, RunningIsHere
<1>2. Waiting' = Waiting \ {s}
  BY <1>e, <1>t, <1>k, <1>1 DEF Waiting
<1>3. \A r \in Stacks \ {c, s} : frame'[r] = frame[r]
  BY <1>e, <1>t
<1>4. \A d \in Coroutines \ {c} : /\ rsp'[Loop(d)] = rsp[Loop(d)] /\ rsp'[Task(d)] = rsp[Task(d)]
                                  /\ san'[Loop(d)] = san[Loop(d)] /\ san'[Task(d)] = san[Task(d)]
  BY <1>e, <1>a, <1>t, ContextNames
<1>5. CoroutineTypeOK'
  <2>1. /\ cpu' \in [Threads -> Stacks] /\ rsp' \in [Contexts -> Rsp]
        /\ frame' \in [Stacks -> [of : Contexts \union {None}, fresh : BOOLEAN]]
    BY <1>e, <1>t, <1>k DEF Rsp, Saved, Nothing
  <2>2. running' \in [Threads -> Coroutines \union {None}]
    BY <1>e, <1>t DEF Stacks
  <2>3. asan' \in [Threads -> [stack : Rsp, fake : Rsp]] /\ tsan' \in [Threads -> Rsp]
    BY <1>a, <1>t, <1>k DEF Rsp
  <2>4. complete' \subseteq alive'
    BY <1>e, <1>t
  <2> QED
    BY <2>1, <2>2, <2>3, <2>4, <1>a, <1>e, <1>t DEF CoroutineTypeOK, SanitizerContext
<1>6. RunningIsHere'
  <2>1. \A u \in Threads : cpu'[u] = (IF running'[u] = None THEN u ELSE running'[u])
    BY <1>e, <1>t, <1>k DEF ContextsKept, RunningIsHere
  <2>2. \A u, v \in Threads : u # v => cpu'[u] # cpu'[v]
    BY <1>e, <1>t, <1>k DEF ContextsKept, RunningIsHere, Active
  <2>3. (Active \union Waiting)' \subseteq Threads \union alive'
    BY <1>e, <1>k, <1>1, <1>2 DEF ContextsKept, RunningIsHere
  <2> QED
    BY <2>1, <2>2, <2>3 DEF RunningIsHere
<1>7. RunsAreNested'
  <2>1. ready' \intersect (Active \union Waiting \union {run[r] : r \in Stacks})' = {}
    BY <1>e, <1>t, <1>k, <1>1, <1>2, StacksKnown
  <2> QED
    BY <2>1, <1>e DEF ContextsKept, RunsAreNested
<1>8. \A r \in Stacks : run'[r] # None => run'[r] \in alive'
  BY <1>e, StacksKnown
<1>9. \A d \in Coroutines : d # c /\ d # s /\ AtOwnStack(d) => AtOwnStack(d)'
  BY <1>3, <1>4, StacksKnown DEF AtOwnStack
<1>10. \A d \in ready' : AtOwnStack(d)'
  <2>1. \A d \in ready' : d \in Coroutines /\ d # c /\ d # s /\ AtOwnStack(d)
    BY <1>e, <1>k, StacksKnown DEF ContextsKept
  <2> QED
    BY <2>1, <1>9
<1>11. \A r \in Waiting' : AtResume(r)'
  <2> SUFFICES ASSUME NEW r \in Waiting' PROVE AtResume(r)'
    OBVIOUS
  <2>1. r # s /\ r # c /\ run[r] \in Coroutines \ {c} /\ r \in Stacks /\ r \in Waiting
    BY <1>2, <1>k, StacksKnown
  <2>2. AtResume(r)
    BY <2>1 DEF ContextsKept
  <2>3. /\ run'[r] = run[r] /\ outer'[r] = outer[r] /\ frame'[r] = frame[r]
        /\ rsp'[Loop(run[r])] = rsp[Loop(run[r])] /\ san'[Loop(run[r])] = san[Loop(run[r])]
    BY <2>1, <1>3, <1>4, <1>e
  <2> QED
    BY <2>2, <2>3 DEF AtResume
<1>12. \A r \in Active' : frame'[r] = Nothing
  <2>1. frame'[s] = Nothing
    BY <1>e, <1>t, <1>k
  <2>2. \A r \in Active \ {c} : frame'[r] = Nothing
    BY <1>3, <1>k, StacksKnown DEF ContextsKept
  <2> QED
    BY <2>1, <2>2, <1>1
<1>13. BehindSwitch'
  <2> SUFFICES ASSUME NEW r \in Active', run'[r] # None
               PROVE  /\ run'[r] \notin Active' /\ run'[r] \notin Waiting'
                      /\ run'[r] \notin complete' => AtOwnStack(run[r])'
    BY DEF BehindSwitch
  <2>1. r \in Stacks /\ run'[r] = run[r] /\ run[r] \in Coroutines
    BY <1>1, <1>e, StacksKnown
  <2>2. PICK d \in Coroutines : d = run[r]
    BY <2>1
  <2>3. CASE r = s
    <3>1. d = c /\ c \notin Active' /\ c \notin Waiting'
      BY <2>2, <2>3, <1>e, <1>k, <1>1, <1>2
    <3>2. c \notin complete' => AtOwnStack(c)'
      <4>1. rsp'[Task(c)] = c /\ frame'[c] = Saved(Task(c))
        BY <1>e, <1>t, <1>k
      <4> QED
        BY <4>1, <1>a DEF AtOwnStack, Saved
    <3> QED
      BY <3>1, <3>2, <2>1, <2>2
  <2>4. CASE r # s
    <3>1. r \in Active
      BY <2>4, <1>1
    <3>2. d \notin Active /\ d \notin Waiting /\ (d \notin complete => AtOwnStack(d))
      BY <3>1, <2>1, <2>2, StacksKnown DEF ContextsKept, BehindSwitch
    <3>3. d # c /\ d # s
      BY <3>2, <1>e, <1>k
    <3>4. d \notin complete' => AtOwnStack(d)'
      BY <3>2, <3>3, <1>9, <1>e
    <3> QED
      BY <3>2, <3>3, <3>4, <2>1, <2>2, <1>1, <1>2
  <2> QED
    BY <2>3, <2>4
<1>14. StacksAreOwned'
  <2>1. PICK owner \in [Stacks -> Threads \union {None}] :
          /\ \A u \in Threads : owner[u] = u /\ owner[cpu[u]] = u
          /\ \A r \in Waiting : owner[run[r]] = owner[r]
    BY DEF ContextsKept, StacksAreOwned
  <2>2. \A u \in Threads : owner[u] = u /\ owner[cpu'[u]] = u
    BY <2>1, <1>e, <1>t
  <2>3. \A r \in Waiting' : owner[run'[r]] = owner[r]
    BY <2>1, <1>2, <1>e
  <2> QED
    BY <2>1, <2>2, <2>3 DEF StacksAreOwned
<1>15. \A d \in alive' : san'[Task(d)].fiber = d
  BY <1>a, <1>e, <1>4, StacksKnown DEF ContextsKept
<1>16. \A x \in Contexts : san'[x].exit_from = None
  BY <1>a DEF ContextsKept
<1>17. SanitizersFollow'
  BY <1>a, <1>e, <1>t DEF ContextsKept, SanitizersFollow
<1> QED
  BY <1>5, <1>6, <1>7, <1>8, <1>10, <1>11, <1>12, <1>13, <1>14, <1>15, <1>16, <1>17
  DEF ContextsKept

\* A step that changes none of what the contexts are about.
LEMMA ContextsUntouched ==
  ASSUME ContextsKept, UNCHANGED <<machine, sanitizer, fiber>>
  PROVE  ContextsKept'
<1>1. UNCHANGED <<cpu, frame, rsp, run, outer, running, complete, alive, ready, san, asan, tsan,
                  tsanFibers>>
  BY DEF machine, sanitizer, fiber
<1>2. Active' = Active /\ Waiting' = Waiting
  BY <1>1 DEF Active, Waiting
<1>3. CoroutineTypeOK' /\ RunningIsHere' /\ RunsAreNested' /\ BehindSwitch' /\ SanitizersFollow'
  BY <1>1, <1>2
  DEF ContextsKept, CoroutineTypeOK, RunningIsHere, RunsAreNested, BehindSwitch, SanitizersFollow,
      AtOwnStack
<1>4. StacksAreOwned'
  BY <1>1, <1>2 DEF ContextsKept, StacksAreOwned
<1> QED
  BY <1>1, <1>2, <1>3, <1>4 DEF ContextsKept, AtOwnStack, AtResume

\* The fiber is given to whoever its awaiter leaves it with.
LEMMA AwaiterKeeps ==
  ASSUME ContextsKept, NEW t \in Threads, RunAwaiter(t)
  PROVE  ContextsKept'
<1> PICK s \in Stacks, c \in Coroutines : s = cpu[t] /\ c = run[s]
  BY StacksKnown DEF RunAwaiter
<1>e. /\ s = cpu[t] /\ c = run[s] /\ c \notin complete
      /\ ready' = ready \union {c}
      /\ run' = [run EXCEPT ![s] = None] /\ outer' = [outer EXCEPT ![s] = None]
      /\ UNCHANGED <<cpu, frame, rsp, running, complete, alive, san, asan, tsan, tsanFibers>>
  BY DEF RunAwaiter, IsCompleted, machine, sanitizer
<1>t. /\ run \in [Stacks -> Coroutines \union {None}] /\ outer \in [Stacks -> Coroutines \union {None}]
      /\ cpu \in [Threads -> Stacks] /\ ready \subseteq alive
  BY DEF ContextsKept, CoroutineTypeOK
<1>k. /\ s \in Active /\ s \notin Waiting /\ c \in alive /\ c # None
      /\ c \notin Active /\ c \notin Waiting /\ AtOwnStack(c)
      /\ \A r \in Stacks \ {s} : run[r] # c
  <2>1. s \in Active /\ s \notin Waiting /\ c \in alive /\ c # None
    BY <1>e, StacksKnown
  <2>2. c \notin Active /\ c \notin Waiting /\ AtOwnStack(c)
    BY <2>1, <1>e DEF ContextsKept, BehindSwitch
  <2>3. \A r \in Stacks \ {s} : run[r] # c
    BY <2>1, <1>e DEF ContextsKept, RunsAreNested
  <2> QED
    BY <2>1, <2>2, <2>3
<1>1. /\ run'[s] = None /\ \A r \in Stacks \ {s} : run'[r] = run[r] /\ outer'[r] = outer[r]
  BY <1>e, <1>t
<1>2. Active' = Active /\ Waiting' = Waiting
  BY <1>e, <1>k, <1>1 DEF Active, Waiting
<1>3. CoroutineTypeOK'
  BY <1>e, <1>t, <1>k DEF ContextsKept, CoroutineTypeOK
<1>4. RunningIsHere' /\ SanitizersFollow'
  BY <1>e, <1>2 DEF ContextsKept, RunningIsHere, SanitizersFollow
<1>5. RunsAreNested'
  <2>1. \A q, r \in Stacks : q # r /\ run'[q] # None => run'[q] # run'[r]
    BY <1>1 DEF ContextsKept, RunsAreNested
  <2>2. ready' \intersect (Active \union Waiting \union {run[r] : r \in Stacks})' = {}
    BY <1>e, <1>k, <1>1, <1>2, StacksKnown
  <2>3. \A d \in alive' \ ready' : \E r \in Stacks : run'[r] = d
    <3> SUFFICES ASSUME NEW d \in alive' \ ready' PROVE \E r \in Stacks : run'[r] = d
      OBVIOUS
    <3>1. PICK r \in Stacks : run[r] = d
      BY <1>e DEF ContextsKept, RunsAreNested
    <3> QED
      BY <3>1, <1>1, <1>e
  <2> QED
    BY <2>1, <2>2, <2>3 DEF RunsAreNested
<1>6. \A r \in Stacks : run'[r] # None => run'[r] \in alive'
  BY <1>e, <1>1, StacksKnown
<1>7. \A d \in Coroutines : AtOwnStack(d)' <=> AtOwnStack(d)
  BY <1>e DEF AtOwnStack
<1>8. \A d \in ready' : AtOwnStack(d)'
  BY <1>7, <1>e, <1>k, StacksKnown DEF ContextsKept
<1>9. \A r \in Waiting' : AtResume(r)'
  <2> SUFFICES ASSUME NEW r \in Waiting' PROVE AtResume(r)'
    OBVIOUS
  <2>1. r # s /\ r \in Stacks /\ AtResume(r)
    BY <1>2, <1>k, StacksKnown DEF ContextsKept
  <2> QED
    BY <2>1, <1>1, <1>e DEF AtResume
<1>10. BehindSwitch'
  <2> SUFFICES ASSUME NEW r \in Active', run'[r] # None
               PROVE  /\ run'[r] \notin Active' /\ run'[r] \notin Waiting'
                      /\ run'[r] \notin complete' => AtOwnStack(run[r])'
    BY DEF BehindSwitch
  <2>1. r \in Active /\ run'[r] = run[r] /\ run[r] \in Coroutines
    BY <1>1, <1>2, StacksKnown
  <2>2. PICK d \in Coroutines : d = run[r]
    BY <2>1
  <2>3. d \notin Active /\ d \notin Waiting /\ (d \notin complete => AtOwnStack(d))
    BY <2>1, <2>2, StacksKnown DEF ContextsKept, BehindSwitch
  <2> QED
    BY <2>1, <2>2, <2>3, <1>2, <1>7, <1>e
<1>11. StacksAreOwned'
  <2>1. PICK owner \in [Stacks -> Threads \union {None}] :
          /\ \A u \in Threads : owner[u] = u /\ owner[cpu[u]] = u
          /\ \A r \in Waiting : owner[run[r]] = owner[r]
    BY DEF ContextsKept, StacksAreOwned
  <2>2. \A r \in Waiting' : owner[run'[r]] = owner[r]
    BY <2>1, <1>1, <1>2, <1>k, StacksKnown
  <2> QED
    BY <2>1, <2>2, <1>e DEF StacksAreOwned
<1> QED
  BY <1>2, <1>3, <1>4, <1>5, <1>6, <1>8, <1>9, <1>10, <1>11, <1>e DEF ContextsKept

\* The memory of a fiber that is deleted holds nothing anybody comes back to.
LEMMA DeleteKeeps ==
  ASSUME ContextsKept, NEW t \in Threads, Delete(t)
  PROVE  ContextsKept'
<1> PICK s \in Stacks, c \in Coroutines : s = cpu[t] /\ c = run[s]
  BY StacksKnown DEF Delete, IsCompleted
<1>e. /\ s = cpu[t] /\ c = run[s] /\ c \in complete
      /\ alive' = alive \ {c} /\ frame' = [frame EXCEPT ![c] = Nothing]
      /\ complete' = complete \ {c}
      /\ run' = [run EXCEPT ![s] = None] /\ outer' = [outer EXCEPT ![s] = None]
      /\ rsp' = [rsp EXCEPT ![Loop(c)] = None, ![Task(c)] = None]
      /\ san' = [san EXCEPT ![Loop(c)] = Uninitialized, ![Task(c)] = Uninitialized]
      /\ UNCHANGED <<cpu, asan, tsan, tsanFibers, running, ready>>
  BY DEF Delete, IsCompleted, FreeStack
<1>t. /\ run \in [Stacks -> Coroutines \union {None}] /\ outer \in [Stacks -> Coroutines \union {None}]
      /\ cpu \in [Threads -> Stacks] /\ rsp \in [Contexts -> Rsp]
      /\ frame \in [Stacks -> [of : Contexts \union {None}, fresh : BOOLEAN]]
      /\ san \in [Contexts -> SanitizerContext]
      /\ complete \subseteq alive /\ ready \subseteq alive /\ alive \subseteq Coroutines
  BY DEF ContextsKept, CoroutineTypeOK, SanitizerContext
<1>u. Uninitialized \in SanitizerContext /\ Uninitialized.exit_from = None
  BY DEF Uninitialized, SanitizerContext, Rsp
<1>k. /\ s \in Active /\ s \notin Waiting /\ c \in alive /\ c # None /\ c \notin ready
      /\ c \notin Active /\ c \notin Waiting /\ c \in Stacks /\ c \notin Threads
      /\ \A r \in Stacks \ {s} : run[r] # c
      /\ Loop(c) \in Contexts /\ Task(c) \in Contexts
  <2>1. s \in Active /\ s \notin Waiting /\ c \in alive /\ c # None
    BY <1>e, StacksKnown
  <2>2. c \notin Active /\ c \notin Waiting
    BY <2>1, <1>e DEF ContextsKept, BehindSwitch
  <2>3. \A r \in Stacks \ {s} : run[r] # c
    BY <2>1, <1>e DEF ContextsKept, RunsAreNested
  <2> QED
    BY <2>1, <2>2, <2>3, <1>e, StacksKnown, ContextNames
<1>1. /\ run'[s] = None /\ \A r \in Stacks \ {s} : run'[r] = run[r] /\ outer'[r] = outer[r]
      /\ \A r \in Stacks \ {c} : frame'[r] = frame[r]
  BY <1>e, <1>t
<1>2. Active' = Active /\ Waiting' = Waiting
  BY <1>e, <1>k, <1>1 DEF Active, Waiting
<1>s. \A d \in Coroutines \ {c} : /\ rsp'[Loop(d)] = rsp[Loop(d)] /\ rsp'[Task(d)] = rsp[Task(d)]
                                  /\ san'[Loop(d)] = san[Loop(d)] /\ san'[Task(d)] = san[Task(d)]
  BY <1>e, <1>t, ContextNames
<1>f. san' \in [Contexts -> SanitizerContext]
  BY <1>e, <1>t, <1>u
<1>3. CoroutineTypeOK'
  <2>1. /\ frame' \in [Stacks -> [of : Contexts \union {None}, fresh : BOOLEAN]]
        /\ rsp' \in [Contexts -> Rsp]
        /\ run' \in [Stacks -> Coroutines \union {None}]
        /\ outer' \in [Stacks -> Coroutines \union {None}]
    BY <1>e, <1>t DEF Nothing, Rsp
  <2>2. complete' \subseteq alive' /\ ready' \subseteq alive' /\ alive' \subseteq Coroutines
    BY <1>e, <1>t, <1>k
  <2> QED
    BY <2>1, <2>2, <1>e, <1>f DEF ContextsKept, CoroutineTypeOK, SanitizerContext
<1>4. RunningIsHere'
  BY <1>e, <1>k, <1>2 DEF ContextsKept, RunningIsHere
<1>5. RunsAreNested'
  <2>1. \A q, r \in Stacks : q # r /\ run'[q] # None => run'[q] # run'[r]
    BY <1>1 DEF ContextsKept, RunsAreNested
  <2>2. ready' \intersect (Active \union Waiting \union {run[r] : r \in Stacks})' = {}
    <3>1. \A d \in ready : d \notin Active /\ d \notin Waiting /\ \A r \in Stacks : run[r] # d
      BY StacksKnown
    <3>2. \A d \in ready : d # None
      BY <1>t, StacksKnown
    <3> QED
      BY <3>1, <3>2, <1>e, <1>1, <1>2
  <2>3. \A d \in alive' \ ready' : \E r \in Stacks : run'[r] = d
    <3> SUFFICES ASSUME NEW d \in alive' \ ready' PROVE \E r \in Stacks : run'[r] = d
      OBVIOUS
    <3>1. PICK r \in Stacks : run[r] = d
      BY <1>e DEF ContextsKept, RunsAreNested
    <3> QED
      BY <3>1, <1>1, <1>e
  <2> QED
    BY <2>1, <2>2, <2>3 DEF RunsAreNested
<1>6. \A r \in Stacks : run'[r] # None => run'[r] \in alive'
  BY <1>e, <1>k, <1>1, StacksKnown
<1>7. \A d \in Coroutines \ {c} : AtOwnStack(d)' <=> AtOwnStack(d)
  BY <1>1, <1>s, StacksKnown DEF AtOwnStack
<1>8. \A d \in ready' : AtOwnStack(d)'
  BY <1>7, <1>e, <1>k, StacksKnown DEF ContextsKept
<1>9. \A r \in Waiting' : AtResume(r)'
  <2> SUFFICES ASSUME NEW r \in Waiting' PROVE AtResume(r)'
    OBVIOUS
  <2>1. r # s /\ r # c /\ r \in Stacks /\ AtResume(r) /\ run[r] \in Coroutines \ {c}
    BY <1>2, <1>k, StacksKnown DEF ContextsKept
  <2>2. /\ run'[r] = run[r] /\ outer'[r] = outer[r] /\ frame'[r] = frame[r]
        /\ rsp'[Loop(run[r])] = rsp[Loop(run[r])] /\ san'[Loop(run[r])] = san[Loop(run[r])]
    BY <2>1, <1>1, <1>s
  <2> QED
    BY <2>1, <2>2 DEF AtResume
<1>10. \A r \in Active' : frame'[r] = Nothing
  BY <1>1, <1>2, <1>k, StacksKnown DEF ContextsKept
<1>11. BehindSwitch'
  <2> SUFFICES ASSUME NEW r \in Active', run'[r] # None
               PROVE  /\ run'[r] \notin Active' /\ run'[r] \notin Waiting'
                      /\ run'[r] \notin complete' => AtOwnStack(run[r])'
    BY DEF BehindSwitch
  <2>1. r \in Active /\ run'[r] = run[r] /\ run[r] \in Coroutines \ {c}
    BY <1>1, <1>2, <1>k, StacksKnown
  <2>2. PICK d \in Coroutines \ {c} : d = run[r]
    BY <2>1
  <2>3. d \notin Active /\ d \notin Waiting /\ (d \notin complete => AtOwnStack(d))
    BY <2>1, <2>2, StacksKnown DEF ContextsKept, BehindSwitch
  <2> QED
    BY <2>1, <2>2, <2>3, <1>2, <1>7, <1>e
<1>12. StacksAreOwned'
  <2>1. PICK owner \in [Stacks -> Threads \union {None}] :
          /\ \A u \in Threads : owner[u] = u /\ owner[cpu[u]] = u
          /\ \A r \in Waiting : owner[run[r]] = owner[r]
    BY DEF ContextsKept, StacksAreOwned
  <2>2. \A r \in Waiting' : owner[run'[r]] = owner[r]
    BY <2>1, <1>1, <1>2, <1>k, StacksKnown
  <2> QED
    BY <2>1, <2>2, <1>e DEF StacksAreOwned
<1>13. \A d \in alive' : san'[Task(d)].fiber = d
  <2>1. \A d \in alive' : d \in Coroutines \ {c} /\ san[Task(d)].fiber = d
    BY <1>e, StacksKnown DEF ContextsKept
  <2> QED
    BY <2>1, <1>s
<1>14. \A x \in Contexts : san'[x].exit_from = None
  BY <1>e, <1>t, <1>u DEF ContextsKept
<1>15. SanitizersFollow'
  BY <1>e, <1>k DEF ContextsKept, SanitizersFollow
<1> QED
  BY <1>3, <1>4, <1>5, <1>6, <1>8, <1>9, <1>10, <1>11, <1>12, <1>13, <1>14, <1>15
  DEF ContextsKept

\* A new fiber is at the bottom of its stack, under the trampoline.
LEMMA GoKeeps ==
  ASSUME ContextsKept, NEW t \in Threads, NEW c \in Coroutines, Go(t, c)
  PROVE  ContextsKept'
<1>e. /\ c \notin alive /\ alive' = alive \union {c} /\ ready' = ready \union {c}
      /\ frame' = [frame EXCEPT ![c] = Trampoline(Task(c))] /\ rsp' = [rsp EXCEPT ![Task(c)] = c]
      /\ san' = TsanSetup(AsanSetup(san, c), c)
      /\ tsanFibers' = tsanFibers \union {c}
      /\ UNCHANGED <<cpu, run, outer, running, complete, asan, tsan>>
  BY DEF Go, AllocateBytes, Setup, SetupMachine, SetupMachineContext, SetupSanitizer
<1>t. /\ cpu \in [Threads -> Stacks] /\ rsp \in [Contexts -> Rsp]
      /\ frame \in [Stacks -> [of : Contexts \union {None}, fresh : BOOLEAN]]
      /\ san \in [Contexts -> SanitizerContext]
      /\ complete \subseteq alive /\ ready \subseteq alive /\ alive \subseteq Coroutines
  BY DEF ContextsKept, CoroutineTypeOK, SanitizerContext
<1>k. /\ c \notin Active /\ c \notin Waiting /\ c \in Stacks /\ c \notin Threads /\ c # None
      /\ \A r \in Stacks : run[r] # c
      /\ Loop(c) \in Contexts /\ Task(c) \in Contexts /\ Loop(c) # Task(c)
  <2>1. c \in Stacks /\ c \notin Threads /\ c # None
    BY StacksKnown
  <2>2. c \notin Active /\ c \notin Waiting
    BY <2>1, <1>e DEF ContextsKept, RunningIsHere
  <2>3. \A r \in Stacks : run[r] # c
    BY <1>e, <2>1, StacksKnown
  <2> QED
    BY <2>1, <2>2, <2>3, ContextNames
<1>a. /\ san' \in [Contexts -> SanitizerContext]
      /\ san'[Task(c)].stack = c /\ san'[Task(c)].fiber = c /\ san'[Task(c)].exit_from = None
      /\ \A y \in Contexts \ {Task(c)} : san'[y] = san[y]
  <2>1. san' = [san EXCEPT ![Task(c)].stack = c, ![Task(c)].fiber = c]
    BY <1>e, <1>t, <1>k DEF TsanSetup, AsanSetup, SanitizerContext
  <2>2. c \in Rsp
    BY <1>k DEF Rsp
  <2>3. san[Task(c)].exit_from = None
    BY <1>k DEF ContextsKept
  <2>4. /\ san' = [y \in Contexts |-> san'[y]]
        /\ san'[Task(c)] = [stack |-> c, fake |-> san[Task(c)].fake, from |-> san[Task(c)].from,
                            fiber |-> c, exit_from |-> None]
        /\ \A y \in Contexts \ {Task(c)} : san'[y] = san[y]
    BY <2>1, <2>3, <1>t, <1>k, ZenonT(30) DEF SanitizerContext
  <2>5. \A y \in Contexts : san'[y] \in SanitizerContext
    BY <2>2, <2>4, <1>t, <1>k DEF SanitizerContext
  <2>6. san' \in [Contexts -> SanitizerContext]
    BY <2>4, <2>5
  <2> QED
    BY <2>4, <2>6
<1>1. \A r \in Stacks \ {c} : frame'[r] = frame[r]
  BY <1>e, <1>t
<1>2. Active' = Active /\ Waiting' = Waiting
  BY <1>e DEF Active, Waiting
<1>s. \A d \in Coroutines \ {c} : /\ rsp'[Loop(d)] = rsp[Loop(d)] /\ rsp'[Task(d)] = rsp[Task(d)]
                                  /\ san'[Loop(d)] = san[Loop(d)] /\ san'[Task(d)] = san[Task(d)]
  BY <1>e, <1>a, <1>t, ContextNames
<1>3. CoroutineTypeOK'
  <2>1. /\ frame' \in [Stacks -> [of : Contexts \union {None}, fresh : BOOLEAN]]
        /\ rsp' \in [Contexts -> Rsp]
    BY <1>e, <1>t, <1>k DEF Trampoline, Rsp
  <2>2. complete' \subseteq alive' /\ ready' \subseteq alive' /\ alive' \subseteq Coroutines
    BY <1>e, <1>t
  <2> QED
    BY <2>1, <2>2, <1>e, <1>a DEF ContextsKept, CoroutineTypeOK, SanitizerContext
<1>4. RunningIsHere'
  BY <1>e, <1>2 DEF ContextsKept, RunningIsHere
<1>5. RunsAreNested'
  <2>1. ready' \intersect (Active \union Waiting \union {run[r] : r \in Stacks})' = {}
    BY <1>e, <1>k, <1>2, StacksKnown
  <2> QED
    BY <2>1, <1>e DEF ContextsKept, RunsAreNested
<1>6. \A r \in Stacks : run'[r] # None => run'[r] \in alive'
  BY <1>e, StacksKnown
<1>7. \A d \in Coroutines \ {c} : AtOwnStack(d)' <=> AtOwnStack(d)
  BY <1>1, <1>s, StacksKnown DEF AtOwnStack
<1>8. \A d \in ready' : AtOwnStack(d)'
  <2>1. AtOwnStack(c)'
    BY <1>e, <1>t, <1>k, <1>a DEF AtOwnStack, Trampoline
  <2>2. \A d \in ready : d \in Coroutines \ {c} /\ AtOwnStack(d)
    BY <1>e, StacksKnown DEF ContextsKept
  <2> QED
    BY <2>1, <2>2, <1>7, <1>e
<1>9. \A r \in Waiting' : AtResume(r)'
  <2> SUFFICES ASSUME NEW r \in Waiting' PROVE AtResume(r)'
    OBVIOUS
  <2>1. r # c /\ r \in Stacks /\ AtResume(r) /\ run[r] \in Coroutines \ {c}
    BY <1>2, <1>k, StacksKnown DEF ContextsKept
  <2>2. /\ run'[r] = run[r] /\ outer'[r] = outer[r] /\ frame'[r] = frame[r]
        /\ rsp'[Loop(run[r])] = rsp[Loop(run[r])] /\ san'[Loop(run[r])] = san[Loop(run[r])]
    BY <2>1, <1>1, <1>s, <1>e
  <2> QED
    BY <2>1, <2>2 DEF AtResume
<1>10. \A r \in Active' : frame'[r] = Nothing
  BY <1>1, <1>2, <1>k, StacksKnown DEF ContextsKept
<1>11. BehindSwitch'
  <2> SUFFICES ASSUME NEW r \in Active', run'[r] # None
               PROVE  /\ run'[r] \notin Active' /\ run'[r] \notin Waiting'
                      /\ run'[r] \notin complete' => AtOwnStack(run[r])'
    BY DEF BehindSwitch
  <2>1. r \in Active /\ run'[r] = run[r] /\ run[r] \in Coroutines \ {c}
    BY <1>2, <1>e, <1>k, StacksKnown
  <2>2. PICK d \in Coroutines \ {c} : d = run[r]
    BY <2>1
  <2>3. d \notin Active /\ d \notin Waiting /\ (d \notin complete => AtOwnStack(d))
    BY <2>1, <2>2, StacksKnown DEF ContextsKept, BehindSwitch
  <2> QED
    BY <2>1, <2>2, <2>3, <1>2, <1>7, <1>e
<1>12. StacksAreOwned'
  BY <1>2, <1>e DEF ContextsKept, StacksAreOwned
<1>13. \A d \in alive' : san'[Task(d)].fiber = d
  <2>1. \A d \in alive : d \in Coroutines \ {c} /\ san[Task(d)].fiber = d
    BY <1>e, StacksKnown DEF ContextsKept
  <2> QED
    BY <2>1, <1>a, <1>e, <1>s
<1>14. \A x \in Contexts : san'[x].exit_from = None
  BY <1>a DEF ContextsKept
<1>15. SanitizersFollow'
  BY <1>e, <1>t DEF ContextsKept, SanitizersFollow
<1> QED
  BY <1>3, <1>4, <1>5, <1>6, <1>8, <1>9, <1>10, <1>11, <1>12, <1>13, <1>14, <1>15
  DEF ContextsKept

LEMMA ContextsStart == CoroutineInit => ContextsKept
<1> SUFFICES ASSUME CoroutineInit PROVE ContextsKept
  OBVIOUS
<1> USE DEF CoroutineInit
<1>1. Active = Threads /\ Waiting = {}
  BY CoroutineAssumption DEF Active, Waiting, Stacks
<1>u. Uninitialized \in SanitizerContext /\ Uninitialized.exit_from = None
  BY DEF Uninitialized, SanitizerContext, Rsp
<1>2. CoroutineTypeOK
  BY <1>u DEF CoroutineTypeOK, Stacks, Rsp, Nothing, SanitizerContext
<1>3. RunningIsHere /\ RunsAreNested /\ SanitizersFollow
  BY <1>1 DEF RunningIsHere, RunsAreNested, SanitizersFollow
<1>4. BehindSwitch
  BY <1>1 DEF BehindSwitch, Stacks
<1>5. StacksAreOwned
  <2>1. PICK owner : owner = [s \in Stacks |-> IF s \in Threads THEN s ELSE None]
    OBVIOUS
  <2> QED
    BY <2>1, <1>1 DEF StacksAreOwned, Stacks
<1> QED
  BY <1>1, <1>2, <1>3, <1>4, <1>5, <1>u DEF ContextsKept, Stacks

LEMMA ContextsKeptAlways == CoroutineSpec => []ContextsKept
<1>1. ASSUME ContextsKept, [CoroutineNext]_coroutineVars PROVE ContextsKept'
  <2>1. ASSUME NEW t \in Threads, UseBodies(t) PROVE ContextsKept'
    BY <1>1, <2>1, ContextsUntouched DEF UseBodies
  <2>2. ASSUME UNCHANGED coroutineVars PROVE ContextsKept'
    BY <1>1, <2>2, ContextsUntouched DEF coroutineVars
  <2>3. ASSUME NEW t \in Threads, Suspend(t) \/ Complete(t) PROVE ContextsKept'
    BY <1>1, <2>3, GiveUpEffect, GiveUpKeeps
  <2> QED
    BY <1>1, <2>1, <2>2, <2>3, GoKeeps, ResumeKeeps, AwaiterKeeps, DeleteKeeps DEF CoroutineNext
<1> QED
  BY <1>1, ContextsStart, PTL DEF CoroutineSpec

\* The contexts of coroutines on any number of threads, resumed from each other's
\* stacks to any depth: a switch comes to the frame its context left, running_fiber
\* is the fiber whose stack the thread is on, and the sanitizers follow.
THEOREM ContextsHold == CoroutineSpec => []ContextsInv
<1>1. ContextsKept => ContextsInv
  <2> SUFFICES ASSUME ContextsKept PROVE FramesAreWhereTheyWereLeft
    BY DEF ContextsKept, ContextsInv
  <2>1. \A c \in ready : rsp[Task(c)] = c /\ frame[c].of = Task(c)
    BY DEF ContextsKept, AtOwnStack
  <2>2. \A s \in Waiting : rsp[Loop(run[s])] = s /\ frame[s] = Saved(Loop(run[s]))
    BY DEF ContextsKept, AtResume
  <2> QED
    BY <2>1, <2>2 DEF ContextsKept, FramesAreWhereTheyWereLeft
<1> QED
  BY <1>1, ContextsKeptAlways, PTL
----------------------------------------------------------------------------
IsBodies(b) ==
  b \in [at : [Places -> Function], objects : SUBSET (Callables \X (Places \union {"heap"}))]

\* Every callable has one owner, where the function object at q is not asked.
OneOwnerBut(b, q) ==
  /\ IsBodies(b)
  /\ b.objects = UNION {Retrieve(b, p) : p \in Places \ {q}}
  /\ \A p, r \in Places \ {q} : p # r => Retrieve(b, p) \intersect Retrieve(b, r) = {}
  /\ \A x, y \in b.objects : x[1] = y[1] => x = y

OneOwner(b) == IsBodies(b) /\ EachHasOneOwner(b)

\* The function objects of a and b are the same but for those at the places in S.
SameBut(a, b, S) == \A p \in Places \ S : a.at[p] = b.at[p]

LEMMA Retrieved ==
  ASSUME NEW b, IsBodies(b), NEW p \in Places
  PROVE  /\ b.at[p].cmd = "empty" => Retrieve(b, p) = {}
         /\ b.at[p].cmd = "inplace" => Retrieve(b, p) = {<<b.at[p].buffer, p>>}
         /\ b.at[p].cmd = "allocated" => Retrieve(b, p) = {<<b.at[p].buffer, "heap">>}
         /\ b.at[p].cmd \in {"empty", "inplace", "allocated"}
         /\ b.at[p].buffer \in Callables \union {NoCallable}
<1>1. b.at[p] \in Function
  BY DEF IsBodies
<1> QED
  BY <1>1 DEF Retrieve, InBuffer, InBox, Function

LEMMA EmptyOwnsNone ==
  ASSUME NEW b, OneOwner(b), NEW q \in Places, IsEmpty(b, q)
  PROVE  OneOwnerBut(b, q)
<1>1. Retrieve(b, q) = {}
  BY Retrieved DEF OneOwner, IsEmpty
<1> QED
  BY <1>1 DEF OneOwner, EachHasOneOwner, OneOwnerBut

LEMMA WeakDestroyed ==
  ASSUME NEW b, OneOwner(b), NEW q \in Places
  PROVE  /\ OneOwnerBut(WeakDestroy(b, q), q)
         /\ WeakDestroy(b, q).at = b.at
         /\ WeakDestroy(b, q).objects \subseteq b.objects
<1>1. PICK d : d = WeakDestroy(b, q)
  OBVIOUS
<1>2. d.at = b.at /\ d.objects = b.objects \ Retrieve(b, q) /\ IsBodies(d)
  BY <1>1 DEF WeakDestroy, OneOwner, IsBodies
<1>3. \A p \in Places : Retrieve(d, p) = Retrieve(b, p)
  BY <1>2 DEF Retrieve
<1>4. d.objects = UNION {Retrieve(d, p) : p \in Places \ {q}}
  BY <1>2, <1>3 DEF OneOwner, EachHasOneOwner
<1> QED
  BY <1>1, <1>2, <1>3, <1>4 DEF OneOwner, EachHasOneOwner, OneOwnerBut

\* The tables at q are emptied, and nothing else is changed.
LEMMA Emptied ==
  ASSUME NEW b, IsBodies(b), NEW q \in Places
  PROVE  /\ IsBodies(SetEmpty(b, q))
         /\ SetEmpty(b, q).at[q].cmd = "empty"
         /\ SameBut(SetEmpty(b, q), b, {q})
         /\ SetEmpty(b, q).objects = b.objects
<1>1. PICK d : d = SetEmpty(b, q)
  OBVIOUS
<1>2. b.at \in [Places -> Function] /\ b.at[q] \in Function
  BY DEF IsBodies
<1>3. d = [b EXCEPT !.at = [b.at EXCEPT ![q] = [b.at[q] EXCEPT !.cmd = "empty"]]]
  BY <1>1 DEF SetEmpty
<1>4. [b.at[q] EXCEPT !.cmd = "empty"] \in Function
  BY <1>2 DEF Function
<1>5. [b.at EXCEPT ![q] = [b.at[q] EXCEPT !.cmd = "empty"]] \in [Places -> Function]
  BY <1>2, <1>4
<1>6. IsBodies(d) /\ d.objects = b.objects
      /\ d.at = [b.at EXCEPT ![q] = [b.at[q] EXCEPT !.cmd = "empty"]]
  BY <1>3, <1>5 DEF IsBodies
<1>7. d.at[q].cmd = "empty" /\ \A p \in Places \ {q} : d.at[p] = b.at[p]
  BY <1>2, <1>6 DEF Function
<1> QED
  BY <1>1, <1>6, <1>7 DEF SameBut

\* What a construction of callable c at q, as the object x, makes of b.
BuiltAt(d, b, q, c, x) ==
  /\ IsBodies(d) /\ SameBut(d, b, {q}) /\ ~IsEmpty(d, q)
  /\ d.objects = b.objects \union {x} /\ Retrieve(d, q) = {x}
  /\ x = <<c, q>> \/ x = <<c, "heap">>

LEMMA Shaped ==
  ASSUME NEW b, IsBodies(b), NEW q \in Places, NEW c \in Callables, NEW d, d = Construct(b, q, c)
  PROVE  \E x \in Callables \X (Places \union {"heap"}) : BuiltAt(d, b, q, c, x)
<1>2. b.at \in [Places -> Function] /\ b.objects \subseteq Callables \X (Places \union {"heap"})
  BY DEF IsBodies
<1>3. ASSUME NEW cmd \in {"inplace", "allocated"}, NEW x \in Callables \X (Places \union {"heap"}),
             d = [at |-> [b.at EXCEPT ![q] = [cmd |-> cmd, buffer |-> c]],
                  objects |-> b.objects \union {x}],
             cmd = "inplace" => x = <<c, q>>,
             cmd = "allocated" => x = <<c, "heap">>
      PROVE  BuiltAt(d, b, q, c, x)
  <2>1. IsBodies(d) /\ d.objects = b.objects \union {x}
    BY <1>2, <1>3 DEF IsBodies, Function
  <2>2. d.at[q].cmd = cmd /\ d.at[q].buffer = c /\ \A p \in Places \ {q} : d.at[p] = b.at[p]
    BY <1>2, <1>3
  <2>3. /\ d.at[q].cmd = "inplace" => Retrieve(d, q) = {<<d.at[q].buffer, q>>}
        /\ d.at[q].cmd = "allocated" => Retrieve(d, q) = {<<d.at[q].buffer, "heap">>}
    BY <2>1, Retrieved
  <2>4. Retrieve(d, q) = {x}
    BY <2>2, <2>3, <1>3
  <2>5. SameBut(d, b, {q}) /\ ~IsEmpty(d, q)
    BY <2>2, <1>3 DEF SameBut, IsEmpty
  <2> QED
    BY <2>1, <2>4, <2>5, <1>3 DEF BuiltAt
<1>4. CASE FitsInBuffer(c, q)
  <2>1. d = [at |-> [b.at EXCEPT ![q] = [cmd |-> "inplace", buffer |-> c]],
             objects |-> b.objects \union {<<c, q>>}]
    BY <1>4 DEF Construct, InBuffer
  <2>2. <<c, q>> \in Callables \X (Places \union {"heap"})
    OBVIOUS
  <2> QED
    BY <2>1, <2>2, <1>3
<1>5. CASE ~FitsInBuffer(c, q)
  <2>1. d = [at |-> [b.at EXCEPT ![q] = [cmd |-> "allocated", buffer |-> c]],
             objects |-> b.objects \union {<<c, "heap">>}]
    BY <1>5 DEF Construct, InBox
  <2>2. <<c, "heap">> \in Callables \X (Places \union {"heap"})
    OBVIOUS
  <2> QED
    BY <2>1, <2>2, <1>3
<1> QED
  BY <1>4, <1>5

LEMMA Constructed ==
  ASSUME NEW b, NEW q \in Places, OneOwnerBut(b, q), NEW c \in Callables,
         \A x \in b.objects : x[1] # c
  PROVE  /\ OneOwner(Construct(b, q, c))
         /\ ~IsEmpty(Construct(b, q, c), q)
         /\ SameBut(Construct(b, q, c), b, {q})
<1>1. PICK d : d = Construct(b, q, c)
  OBVIOUS
<1>0. PICK x \in Callables \X (Places \union {"heap"}) : BuiltAt(d, b, q, c, x)
  BY <1>1, Shaped DEF OneOwnerBut
<1>2. /\ IsBodies(d) /\ SameBut(d, b, {q}) /\ ~IsEmpty(d, q)
      /\ d.objects = b.objects \union {x} /\ Retrieve(d, q) = {x}
      /\ x = <<c, q>> \/ x = <<c, "heap">>
  BY <1>0 DEF BuiltAt
<1>3. x[1] = c /\ x \notin b.objects
  BY <1>2
<1>4. \A p \in Places \ {q} : Retrieve(d, p) = Retrieve(b, p)
  BY <1>2 DEF Retrieve, SameBut
<1>5. d.objects = UNION {Retrieve(d, p) : p \in Places}
  BY <1>2, <1>4 DEF OneOwnerBut
<1>6. \A p, r \in Places : p # r => Retrieve(d, p) \intersect Retrieve(d, r) = {}
  BY <1>2, <1>3, <1>4 DEF OneOwnerBut
<1>7. \A y, z \in d.objects : y[1] = z[1] => y = z
  BY <1>2, <1>3 DEF OneOwnerBut
<1>8. d.at \in [Places -> Function]
  BY <1>2 DEF IsBodies
<1> QED
  BY <1>1, <1>2, <1>5, <1>6, <1>7, <1>8 DEF OneOwner, EachHasOneOwner

\* The callable of p is the callable of q now, and p is empty.
LEMMA Moved ==
  ASSUME NEW b, NEW p \in Places, NEW q \in Places, p # q, OneOwnerBut(b, q)
  PROVE  /\ OneOwner(Move(b, p, q))
         /\ IsEmpty(Move(b, p, q), p)
         /\ IsEmpty(Move(b, p, q), q) <=> IsEmpty(b, p)
         /\ SameBut(Move(b, p, q), b, {p, q})
<1>1. PICK d : d = Move(b, p, q)
  OBVIOUS
<1>2. /\ IsBodies(b)
      /\ \A x, y \in b.objects : x[1] = y[1] => x = y
      /\ Retrieve(b, p) \subseteq b.objects
      /\ b.objects \subseteq Callables \X (Places \union {"heap"})
      /\ b.at \in [Places -> Function]
      /\ "heap" \notin Places
  BY BodyAssumption DEF OneOwnerBut, IsBodies
<1>3. ASSUME IsBodies(d), d.at[p].cmd = "empty", SameBut(d, b, {p, q}),
             d.at[q].cmd = "empty" <=> b.at[p].cmd = "empty",
             d.objects = (b.objects \ Retrieve(b, p)) \union Retrieve(d, q),
             \A x \in Retrieve(d, q), y \in b.objects : y[1] = x[1] => y \in Retrieve(b, p)
      PROVE  /\ OneOwner(d) /\ IsEmpty(d, p) /\ (IsEmpty(d, q) <=> IsEmpty(b, p))
             /\ SameBut(d, b, {p, q})
  <2>1. \A x, y \in Retrieve(d, q) : x = y
    BY <1>3, Retrieved
  <2>2. Retrieve(d, p) = {}
    BY <1>3, Retrieved
  <2>3. \A r \in Places \ {p, q} : Retrieve(d, r) = Retrieve(b, r)
    BY <1>3 DEF Retrieve, SameBut
  <2>4. \A r \in Places \ {p, q} : Retrieve(b, r) \intersect Retrieve(b, p) = {}
                                   /\ Retrieve(b, r) \subseteq b.objects
    BY DEF OneOwnerBut
  <2>5. d.objects = UNION {Retrieve(d, r) : r \in Places}
    <3>1. b.objects \ Retrieve(b, p) = UNION {Retrieve(b, r) : r \in Places \ {p, q}}
      BY <2>4 DEF OneOwnerBut
    <3>2. UNION {Retrieve(b, r) : r \in Places \ {p, q}} = UNION {Retrieve(d, r) : r \in Places \ {p, q}}
      BY <2>3
    <3>3. UNION {Retrieve(d, r) : r \in Places}
            = (UNION {Retrieve(d, r) : r \in Places \ {p, q}}) \union Retrieve(d, q)
      BY <2>2
    <3> QED
      BY <3>1, <3>2, <3>3, <1>3
  <2>6. \A r, u \in Places : r # u => Retrieve(d, r) \intersect Retrieve(d, u) = {}
    <3>1. \A r \in Places \ {p, q} : Retrieve(d, r) \intersect Retrieve(d, q) = {}
      BY <1>3, <2>3, <2>4
    <3>2. \A r, u \in Places \ {p, q} : r # u => Retrieve(d, r) \intersect Retrieve(d, u) = {}
      BY <2>3 DEF OneOwnerBut
    <3> QED
      BY <3>1, <3>2, <2>2
  <2>7. \A x, y \in d.objects : x[1] = y[1] => x = y
    BY <2>1, <1>2, <1>3
  <2>8. d.at \in [Places -> Function]
    BY <1>3 DEF IsBodies
  <2> QED
    BY <2>5, <2>6, <2>7, <2>8, <1>3 DEF OneOwner, EachHasOneOwner, IsEmpty
<1>m. d = SetEmpty(MoveOut(b, p, q), p)
  BY <1>1 DEF Move
<1>4. CASE b.at[p].cmd = "empty"
  <2>1. MoveOut(b, p, q) = SetEmpty(b, q)
    BY <1>4 DEF MoveOut
  <2>2. PICK a : a = SetEmpty(b, q)
    OBVIOUS
  <2>3. /\ IsBodies(a) /\ a.at[q].cmd = "empty" /\ SameBut(a, b, {q}) /\ a.objects = b.objects
    BY <2>2, <1>2, Emptied
  <2>4. /\ IsBodies(d) /\ d.at[p].cmd = "empty" /\ SameBut(d, a, {p}) /\ d.objects = a.objects
    BY <2>1, <2>2, <2>3, <1>m, Emptied
  <2>5. d.at[q].cmd = "empty" /\ SameBut(d, b, {p, q})
    BY <2>3, <2>4 DEF SameBut
  <2>6. Retrieve(b, p) = {} /\ Retrieve(d, q) = {}
    BY <2>4, <2>5, <1>2, <1>4, Retrieved
  <2> QED
    BY <2>3, <2>4, <2>5, <2>6, <1>1, <1>3, <1>4
<1>5. CASE b.at[p].cmd = "inplace"
  <2>1. PICK c : c = b.at[p].buffer
    OBVIOUS
  <2>2a. Retrieve(b, p) = {<<c, p>>}
    BY <2>1, <1>2, <1>5, Retrieved
  <2>2b. <<c, p>> \in Callables \X (Places \union {"heap"})
    BY <2>2a, <1>2
  <2>2. Retrieve(b, p) = {<<c, p>>} /\ c \in Callables
    BY <2>2a, <2>2b
  <2>3. PICK a : a = Construct(b, q, c)
    OBVIOUS
  <2>0. PICK x \in Callables \X (Places \union {"heap"}) : BuiltAt(a, b, q, c, x)
    BY <2>2, <2>3, <1>2, Shaped
  <2>4. /\ IsBodies(a) /\ SameBut(a, b, {q}) /\ ~IsEmpty(a, q)
        /\ a.objects = b.objects \union {x} /\ Retrieve(a, q) = {x}
        /\ x = <<c, q>> \/ x = <<c, "heap">>
    BY <2>0 DEF BuiltAt
  <2>5. x # <<c, p>> /\ x[1] = c
    BY <2>4, <1>2
  <2>6. PICK e : e = WeakDestroy(a, p)
    OBVIOUS
  <2>7. MoveOut(b, p, q) = e
    BY <2>1, <2>3, <2>6, <1>5 DEF MoveOut
  <2>8. Retrieve(a, p) = {<<c, p>>}
    BY <2>2, <2>4 DEF SameBut, Retrieve
  <2>9. IsBodies(e) /\ e.at = a.at /\ e.objects = (b.objects \union {x}) \ {<<c, p>>}
    BY <2>4, <2>6, <2>8 DEF WeakDestroy, IsBodies
  <2>10. /\ IsBodies(d) /\ d.at[p].cmd = "empty" /\ SameBut(d, e, {p}) /\ d.objects = e.objects
    BY <2>7, <2>9, <1>m, Emptied
  <2>11. SameBut(d, b, {p, q}) /\ d.at[q] = a.at[q]
    BY <2>4, <2>9, <2>10 DEF SameBut
  <2>12. Retrieve(d, q) = {x} /\ d.at[q].cmd # "empty"
    BY <2>4, <2>11 DEF Retrieve, IsEmpty
  <2>13. d.objects = (b.objects \ Retrieve(b, p)) \union Retrieve(d, q)
    BY <2>2, <2>5, <2>9, <2>10, <2>12
  <2>14. \A y \in b.objects : y[1] = x[1] => y \in Retrieve(b, p)
    BY <2>2, <2>5, <1>2
  <2> QED
    BY <2>10, <2>11, <2>12, <2>13, <2>14, <1>1, <1>3, <1>5
<1>6. CASE b.at[p].cmd = "allocated"
  <2>1. PICK e : e = [b EXCEPT !.at[q] = b.at[p]]
    OBVIOUS
  <2>2. MoveOut(b, p, q) = e
    BY <2>1, <1>6 DEF MoveOut
  <2>3. IsBodies(e) /\ e.at = [b.at EXCEPT ![q] = b.at[p]] /\ e.objects = b.objects
    BY <2>1, <1>2 DEF IsBodies
  <2>4. /\ IsBodies(d) /\ d.at[p].cmd = "empty" /\ SameBut(d, e, {p}) /\ d.objects = e.objects
    BY <2>2, <2>3, <1>m, Emptied
  <2>5. SameBut(d, b, {p, q}) /\ d.at[q] = b.at[p]
    BY <2>3, <2>4, <1>2 DEF SameBut
  <2>6. PICK c : c = b.at[p].buffer
    OBVIOUS
  <2>7. Retrieve(b, p) = {<<c, "heap">>} /\ Retrieve(d, q) = {<<c, "heap">>}
    BY <2>4, <2>5, <2>6, <1>2, <1>6, Retrieved
  <2>8. d.objects = (b.objects \ Retrieve(b, p)) \union Retrieve(d, q)
    BY <2>3, <2>4, <2>7, <1>2
  <2>9. \A x \in Retrieve(d, q), y \in b.objects : y[1] = x[1] => y \in Retrieve(b, p)
    BY <2>7, <1>2
  <2> QED
    BY <2>4, <2>5, <2>8, <2>9, <1>1, <1>3, <1>6
<1> QED
  BY <1>2, <1>4, <1>5, <1>6, Retrieved

LEMMA Ended ==
  ASSUME NEW b, OneOwner(b), NEW p \in Places
  PROVE  /\ OneOwner(End(b, p))
         /\ End(b, p).at[p] = NoFunction
         /\ SameBut(End(b, p), b, {p})
<1>1. PICK a, d : a = WeakDestroy(b, p) /\ d = End(b, p)
  OBVIOUS
<1>2. OneOwnerBut(a, p) /\ a.at = b.at
  BY <1>1, WeakDestroyed
<1>3. d = [a EXCEPT !.at[p] = NoFunction]
  BY <1>1 DEF End
<1>4. /\ IsBodies(d) /\ d.at \in [Places -> Function] /\ d.objects = a.objects
      /\ d.at[p] = NoFunction /\ \A r \in Places \ {p} : d.at[r] = a.at[r]
  BY <1>2, <1>3 DEF OneOwnerBut, IsBodies, NoFunction, Function
<1>5. Retrieve(d, p) = {} /\ \A r \in Places \ {p} : Retrieve(d, r) = Retrieve(a, r)
  <2>1. d.at[p].cmd = "empty"
    BY <1>4 DEF NoFunction
  <2>2. Retrieve(d, p) = {}
    BY <2>1 DEF Retrieve
  <2>3. \A r \in Places \ {p} : Retrieve(d, r) = Retrieve(a, r)
    BY <1>4 DEF Retrieve
  <2> QED
    BY <2>2, <2>3
<1>6. OneOwner(d)
  BY <1>2, <1>4, <1>5 DEF OneOwner, EachHasOneOwner, OneOwnerBut
<1> QED
  BY <1>1, <1>2, <1>4, <1>6 DEF SameBut

LEMMA Destroyed ==
  ASSUME NEW b, OneOwner(b), NEW p \in Places
  PROVE  OneOwner(Destroy(b, p)) /\ SameBut(Destroy(b, p), b, {p})
<1>1. PICK a, d : a = WeakDestroy(b, p) /\ d = Destroy(b, p)
  OBVIOUS
<1>2. OneOwnerBut(a, p) /\ a.at = b.at
  BY <1>1, WeakDestroyed
<1>3. IsBodies(d) /\ d.at[p].cmd = "empty" /\ SameBut(d, a, {p}) /\ d.objects = a.objects
  BY <1>1, <1>2, Emptied DEF Destroy, OneOwnerBut
<1>4. Retrieve(d, p) = {} /\ \A r \in Places \ {p} : Retrieve(d, r) = Retrieve(a, r)
  BY <1>3, Retrieved DEF SameBut, Retrieve
<1>5. d.at \in [Places -> Function]
  BY <1>3 DEF IsBodies
<1>6. OneOwner(d)
  BY <1>2, <1>3, <1>4, <1>5 DEF OneOwner, EachHasOneOwner, OneOwnerBut
<1> QED
  BY <1>1, <1>2, <1>3, <1>6 DEF SameBut

LEMMA MoveAssigned ==
  ASSUME NEW b, OneOwner(b), NEW p \in Places, NEW q \in Places, p # q
  PROVE  /\ OneOwner(MoveAssign(b, p, q))
         /\ SameBut(MoveAssign(b, p, q), b, {p, q})
<1>1. PICK a, d : a = WeakDestroy(b, q) /\ d = Move(a, p, q)
  OBVIOUS
<1>2. OneOwnerBut(a, q) /\ a.at = b.at
  BY <1>1, WeakDestroyed
<1>3. OneOwner(d) /\ SameBut(d, a, {p, q})
  BY <1>1, <1>2, Moved
<1>4. MoveAssign(b, p, q) = d
  BY <1>1 DEF MoveAssign
<1> QED
  BY <1>2, <1>3, <1>4 DEF SameBut

LEMMA Assigned ==
  ASSUME NEW b, OneOwner(b), NEW p \in Places, NEW c \in Callables, \A x \in b.objects : x[1] # c
  PROVE  OneOwner(Assign(b, p, c)) /\ SameBut(Assign(b, p, c), b, {p})
<1>1. /\ OneOwnerBut(WeakDestroy(b, p), p) /\ WeakDestroy(b, p).at = b.at
      /\ \A x \in WeakDestroy(b, p).objects : x[1] # c
  BY WeakDestroyed
<1> QED
  BY <1>1, Constructed DEF Assign, SameBut

LEMMA Swapped ==
  ASSUME NEW b, OneOwner(b), NEW p \in Places, NEW q \in Places, NEW cache \in Places \ {p, q},
         b.at[cache] = NoFunction
  PROVE  /\ OneOwner(Swap(b, p, q, cache))
         /\ Swap(b, p, q, cache).at[cache] = NoFunction
         /\ SameBut(Swap(b, p, q, cache), b, {p, q, cache})
<1>1. CASE p = q
  BY <1>1 DEF Swap, SameBut
<1>2. CASE p # q
  <2>1. PICK b1, b2, b3 : /\ b1 = Move(b, q, cache) /\ b2 = MoveAssign(b1, p, q)
                          /\ b3 = MoveAssign(b2, cache, p)
    OBVIOUS
  <2>2. OneOwner(b1) /\ SameBut(b1, b, {q, cache})
    BY <2>1, EmptyOwnsNone, Moved DEF NoFunction, IsEmpty
  <2>3. OneOwner(b2) /\ SameBut(b2, b1, {p, q})
    BY <2>1, <2>2, <1>2, MoveAssigned
  <2>4. OneOwner(b3) /\ SameBut(b3, b2, {cache, p})
    BY <2>1, <2>3, MoveAssigned
  <2>5. Swap(b, p, q, cache) = End(b3, cache)
    BY <2>1, <1>2 DEF Swap
  <2> QED
    BY <2>2, <2>3, <2>4, <2>5, Ended DEF SameBut
<1> QED
  BY <1>1, <1>2

LEMMA HandedDown ==
  ASSUME NEW b, OneOwner(b),
         NEW from \in Places, NEW p \in Places, NEW q \in Places, NEW to \in Places,
         from # p, from # q, from # to, p # q, p # to, q # to,
         IsEmpty(b, p), IsEmpty(b, q), IsEmpty(b, to)
  PROVE  /\ OneOwner(HandDown(b, from, p, q, to))
         /\ \A r \in {from, p, q} : HandDown(b, from, p, q, to).at[r] = NoFunction
         /\ IsEmpty(HandDown(b, from, p, q, to), to) <=> IsEmpty(b, from)
         /\ SameBut(HandDown(b, from, p, q, to), b, {from, p, q, to})
<1>1. PICK b1, b2, b3, b4, b5 : /\ b1 = Move(b, from, p) /\ b2 = Move(b1, p, q)
                                /\ b3 = Move(b2, q, to) /\ b4 = End(b3, q) /\ b5 = End(b4, p)
  OBVIOUS
<1>2. /\ OneOwner(b1) /\ SameBut(b1, b, {from, p})
      /\ IsEmpty(b1, p) <=> IsEmpty(b, from)
  BY <1>1, EmptyOwnsNone, Moved
<1>3. /\ OneOwner(b2) /\ SameBut(b2, b1, {p, q})
      /\ IsEmpty(b2, q) <=> IsEmpty(b1, p)
  <2>1. IsEmpty(b1, q)
    BY <1>2 DEF SameBut, IsEmpty
  <2> QED
    BY <2>1, <1>1, <1>2, EmptyOwnsNone, Moved
<1>4. /\ OneOwner(b3) /\ SameBut(b3, b2, {q, to})
      /\ IsEmpty(b3, to) <=> IsEmpty(b2, q)
  <2>1. IsEmpty(b2, to)
    BY <1>2, <1>3 DEF SameBut, IsEmpty
  <2> QED
    BY <2>1, <1>1, <1>3, EmptyOwnsNone, Moved
<1>5. OneOwner(b4) /\ SameBut(b4, b3, {q}) /\ b4.at[q] = NoFunction
  BY <1>1, <1>4, Ended
<1>6. OneOwner(b5) /\ SameBut(b5, b4, {p}) /\ b5.at[p] = NoFunction
  BY <1>1, <1>5, Ended
<1>7. /\ OneOwner(End(b5, from)) /\ SameBut(End(b5, from), b5, {from})
      /\ End(b5, from).at[from] = NoFunction
  BY <1>6, Ended
<1>8. HandDown(b, from, p, q, to) = End(b5, from)
  BY <1>1 DEF HandDown
<1> QED
  BY <1>2, <1>3, <1>4, <1>5, <1>6, <1>7, <1>8 DEF SameBut, IsEmpty

BodiesKept == OneOwner(bodies) /\ BodiesInv

LEMMA PlacesApart ==
  /\ Locals \subseteq Places /\ Coroutines \subseteq Places /\ Variables \subseteq Places
  /\ Locals \intersect Coroutines = {} /\ Variables \intersect (Locals \union Coroutines) = {}
BY CoroutineAssumption DEF Variables

\* The body given to Go comes into the routine of the new fiber.
LEMMA RoutineGiven ==
  ASSUME BodiesKept, NEW c \in Coroutines \ alive, NEW V \in SUBSET Variables, NEW b,
         OneOwner(b), ~IsEmpty(b, "func"), SameBut(b, bodies, {"func"} \union V),
         alive' = alive \union {c},
         bodies' = HandDown(b, "func", "fiber_body", "coroutine_body", c)
  PROVE  BodiesKept'
<1>1. /\ "func" \in Places /\ "fiber_body" \in Places /\ "coroutine_body" \in Places /\ c \in Places
      /\ c # "func" /\ c # "fiber_body" /\ c # "coroutine_body"
      /\ c \notin V /\ "fiber_body" \notin V /\ "coroutine_body" \notin V
  BY PlacesApart DEF Locals
<1>2. IsEmpty(b, "fiber_body") /\ IsEmpty(b, "coroutine_body") /\ IsEmpty(b, c)
  <2>1. /\ IsEmpty(bodies, "fiber_body") /\ IsEmpty(bodies, "coroutine_body") /\ IsEmpty(bodies, c)
    BY DEF BodiesKept, BodiesInv, Locals, IsEmpty, NoFunction
  <2> QED
    BY <2>1, <1>1 DEF SameBut, IsEmpty
<1>3. /\ OneOwner(bodies')
      /\ \A r \in {"func", "fiber_body", "coroutine_body"} : bodies'.at[r] = NoFunction
      /\ ~IsEmpty(bodies', c)
      /\ SameBut(bodies', b, {"func", "fiber_body", "coroutine_body", c})
  BY <1>1, <1>2, HandedDown
<1>4. \A d \in Coroutines \ {c} : IsEmpty(bodies', d) <=> IsEmpty(bodies, d)
  BY <1>3, PlacesApart DEF SameBut, IsEmpty, Locals
<1>5. bodies'.at["cache"] = NoFunction
  <2>1. "cache" \in Places /\ "cache" \notin V /\ c # "cache"
    BY PlacesApart DEF Locals
  <2>2. bodies.at["cache"] = NoFunction
    BY DEF BodiesKept, BodiesInv, Locals
  <2> QED
    BY <2>1, <2>2, <1>3 DEF SameBut
<1>6. \A d \in Coroutines : d \in alive' <=> ~IsEmpty(bodies', d)
  BY <1>3, <1>4 DEF BodiesKept, BodiesInv
<1>7. \A p \in Locals : bodies'.at[p] = NoFunction
  BY <1>3, <1>5 DEF Locals
<1> QED
  BY <1>3, <1>6, <1>7 DEF BodiesKept, BodiesInv, OneOwner, EachHasOneOwner

LEMMA GoKeepsBodies ==
  ASSUME BodiesKept, NEW t \in Threads, NEW c \in Coroutines, Go(t, c)
  PROVE  BodiesKept'
<1>1. c \notin alive /\ alive' = alive \union {c}
  BY DEF Go, AllocateBytes
<1>2. "func" \in Places /\ "func" \notin Variables /\ OneOwner(bodies) /\ OneOwnerBut(bodies, "func")
  <2>1. "func" \in Places /\ "func" \notin Variables
    BY PlacesApart DEF Locals
  <2>2. IsEmpty(bodies, "func") /\ OneOwner(bodies)
    BY DEF BodiesKept, BodiesInv, Locals, IsEmpty, NoFunction
  <2> QED
    BY <2>1, <2>2, EmptyOwnsNone
<1>3. ASSUME NEW f \in Callables, \A object \in bodies.objects : object[1] # f,
             bodies' = HandDown(Construct(bodies, "func", f), "func", "fiber_body", "coroutine_body", c)
      PROVE  BodiesKept'
  <2>1. PICK b : b = Construct(bodies, "func", f)
    OBVIOUS
  <2>2. OneOwner(b) /\ ~IsEmpty(b, "func") /\ SameBut(b, bodies, {"func"})
    BY <2>1, <1>2, <1>3, Constructed
  <2>3. SameBut(b, bodies, {"func"} \union {})
    BY <2>2 DEF SameBut
  <2>4. bodies' = HandDown(b, "func", "fiber_body", "coroutine_body", c)
    BY <2>1, <1>3
  <2>5. {} \in SUBSET Variables
    OBVIOUS
  <2> QED
    BY <1>1, <2>2, <2>3, <2>4, <2>5, RoutineGiven
<1>4. ASSUME NEW v \in Variables, ~IsEmpty(bodies, v),
             bodies' = HandDown(Move(bodies, v, "func"), "func", "fiber_body", "coroutine_body", c)
      PROVE  BodiesKept'
  <2>1. PICK b : b = Move(bodies, v, "func")
    OBVIOUS
  <2>2. v \in Places /\ v # "func"
    BY <1>2, PlacesApart
  <2>3. OneOwner(b) /\ ~IsEmpty(b, "func") /\ SameBut(b, bodies, {v, "func"})
    BY <2>1, <2>2, <1>2, <1>4, Moved
  <2>4. SameBut(b, bodies, {"func"} \union {v})
    BY <2>3 DEF SameBut
  <2>5. bodies' = HandDown(b, "func", "fiber_body", "coroutine_body", c)
    BY <2>1, <1>4
  <2>6. {v} \in SUBSET Variables
    OBVIOUS
  <2> QED
    BY <1>1, <2>3, <2>4, <2>5, <2>6, RoutineGiven
<1> QED
  BY <1>3, <1>4 DEF Go

\* Nothing but the program's own Body objects has changed.
LEMMA VariablesChanged ==
  ASSUME BodiesKept, UNCHANGED alive, OneOwner(bodies'), NEW V \in SUBSET Variables,
         SameBut(bodies', bodies, V \union {"cache"}), bodies'.at["cache"] = NoFunction
  PROVE  BodiesKept'
<1>1. \A p \in (Coroutines \union Locals) \ {"cache"} : bodies'.at[p] = bodies.at[p]
  BY PlacesApart DEF SameBut
<1>2. "cache" \notin Coroutines
  BY PlacesApart DEF Locals
<1>3. \A c \in Coroutines : c \in alive' <=> ~IsEmpty(bodies', c)
  BY <1>1, <1>2 DEF BodiesKept, BodiesInv, IsEmpty
<1>4. \A p \in Locals : bodies'.at[p] = NoFunction
  BY <1>1 DEF BodiesKept, BodiesInv
<1> QED
  BY <1>3, <1>4 DEF BodiesKept, BodiesInv, OneOwner, EachHasOneOwner

LEMMA UseKeepsBodies ==
  ASSUME BodiesKept, NEW t \in Threads, UseBodies(t)
  PROVE  BodiesKept'
<1>1. OneOwner(bodies) /\ UNCHANGED alive /\ bodies.at["cache"] = NoFunction
      /\ "cache" \in Places /\ "cache" \notin Variables
  BY PlacesApart DEF BodiesKept, BodiesInv, Locals, UseBodies, fiber
<1>2. ASSUME NEW V \in SUBSET Variables, OneOwner(bodies'), SameBut(bodies', bodies, V)
      PROVE  BodiesKept'
  <2>1. bodies'.at["cache"] = NoFunction
    BY <1>1, <1>2 DEF SameBut
  <2>2. SameBut(bodies', bodies, V \union {"cache"})
    BY <1>2 DEF SameBut
  <2> QED
    BY <2>1, <2>2, <1>1, <1>2, VariablesChanged
<1>3. ASSUME NEW v \in Variables, NEW f \in Callables, \A object \in bodies.objects : object[1] # f,
             bodies' = Assign(bodies, v, f)
      PROVE  BodiesKept'
  <2>1. OneOwner(bodies') /\ SameBut(bodies', bodies, {v})
    BY <1>1, <1>3, PlacesApart, Assigned
  <2> QED
    BY <2>1, <1>2
<1>4. ASSUME NEW v \in Variables, bodies' = Destroy(bodies, v)
      PROVE  BodiesKept'
  <2>1. OneOwner(bodies') /\ SameBut(bodies', bodies, {v})
    BY <1>1, <1>4, PlacesApart, Destroyed
  <2> QED
    BY <2>1, <1>2
<1>5. ASSUME NEW v \in Variables, NEW w \in Variables, v # w, bodies' = MoveAssign(bodies, v, w)
      PROVE  BodiesKept'
  <2>1. OneOwner(bodies') /\ SameBut(bodies', bodies, {v, w})
    BY <1>1, <1>5, PlacesApart, MoveAssigned
  <2> QED
    BY <2>1, <1>2
<1>6. ASSUME NEW v \in Variables, NEW w \in Variables, bodies' = Swap(bodies, v, w, "cache")
      PROVE  BodiesKept'
  <2>1. v \in Places /\ w \in Places /\ "cache" \in Places \ {v, w}
    BY <1>1, PlacesApart
  <2>2. /\ OneOwner(bodies') /\ bodies'.at["cache"] = NoFunction
        /\ SameBut(bodies', bodies, {v, w, "cache"})
    BY <2>1, <1>1, <1>6, Swapped
  <2>3. SameBut(bodies', bodies, {v, w} \union {"cache"})
    BY <2>2 DEF SameBut
  <2>4. {v, w} \in SUBSET Variables
    OBVIOUS
  <2> QED
    BY <2>2, <2>3, <2>4, <1>1, VariablesChanged
<1> QED
  BY <1>3, <1>4, <1>5, <1>6 DEF UseBodies

LEMMA DeleteKeepsBodies ==
  ASSUME BodiesKept, CoroutineTypeOK, NEW t \in Threads, Delete(t)
  PROVE  BodiesKept'
<1>1. PICK c : c = run[cpu[t]]
  OBVIOUS
<1>2. c \in complete /\ alive' = alive \ {c} /\ bodies' = End(bodies, c)
  BY <1>1 DEF Delete, IsCompleted, FreeStack
<1>3. c \in Coroutines /\ c \in Places
  BY <1>2, PlacesApart DEF CoroutineTypeOK
<1>4. OneOwner(bodies') /\ bodies'.at[c] = NoFunction /\ SameBut(bodies', bodies, {c})
  BY <1>2, <1>3, Ended DEF BodiesKept
<1>5. \A d \in Coroutines : d \in alive' <=> ~IsEmpty(bodies', d)
  BY <1>2, <1>3, <1>4, PlacesApart DEF BodiesKept, BodiesInv, SameBut, IsEmpty, NoFunction
<1>6. \A p \in Locals : bodies'.at[p] = NoFunction
  BY <1>3, <1>4, PlacesApart DEF BodiesKept, BodiesInv, SameBut
<1> QED
  BY <1>4, <1>5, <1>6 DEF BodiesKept, BodiesInv, OneOwner, EachHasOneOwner

LEMMA BodiesStart == CoroutineInit => BodiesKept
<1> SUFFICES ASSUME CoroutineInit PROVE BodiesKept
  OBVIOUS
<1>1. /\ IsBodies(bodies) /\ bodies.objects = {} /\ bodies.at \in [Places -> Function]
      /\ \A p \in Places : bodies.at[p] = NoFunction
  BY DEF CoroutineInit, NoBodies, NoFunction, Function, IsBodies
<1>2. \A p \in Places : Retrieve(bodies, p) = {} /\ IsEmpty(bodies, p)
  BY <1>1 DEF Retrieve, IsEmpty, NoFunction
<1>3. EachHasOneOwner(bodies)
  BY <1>1, <1>2 DEF EachHasOneOwner
<1>4. \A c \in Coroutines : c \in alive <=> ~IsEmpty(bodies, c)
  BY <1>2, PlacesApart DEF CoroutineInit
<1>5. \A p \in Locals : bodies.at[p] = NoFunction
  BY <1>1, PlacesApart
<1> QED
  BY <1>1, <1>3, <1>4, <1>5 DEF BodiesKept, BodiesInv, OneOwner

\* Whatever a callable's size, and however it comes into a fiber: it is owned by
\* one function object at any time, moved and destroyed once, and the routine of a
\* coroutine lives exactly as long as its fiber.
THEOREM BodiesHold == CoroutineSpec => []BodiesInv
<1>1. ASSUME BodiesKept, ContextsKept, [CoroutineNext]_coroutineVars PROVE BodiesKept'
  <2>1. ASSUME UNCHANGED <<alive, bodies>> PROVE BodiesKept'
    BY <1>1, <2>1 DEF BodiesKept, BodiesInv
  <2>2. ASSUME NEW t \in Threads PROVE Suspend(t) \/ Complete(t) \/ RunAwaiter(t) => BodiesKept'
    BY <2>1 DEF Suspend, Complete, RunAwaiter
  <2>3. ASSUME NEW t \in Threads, NEW c \in Coroutines, Resume(t, c) PROVE BodiesKept'
    BY <2>1, <2>3 DEF Resume
  <2>4. UNCHANGED coroutineVars => BodiesKept'
    BY <2>1 DEF coroutineVars, fiber
  <2>5. ASSUME NEW t \in Threads, Delete(t) PROVE BodiesKept'
    BY <1>1, <2>5, DeleteKeepsBodies DEF ContextsKept
  <2> QED
    BY <1>1, <2>2, <2>3, <2>4, <2>5, GoKeepsBodies, UseKeepsBodies DEF CoroutineNext
<1>2. BodiesKept => BodiesInv
  BY DEF BodiesKept
<1> QED
  BY <1>1, <1>2, BodiesStart, ContextsKeptAlways, PTL DEF CoroutineSpec
===============================================================================
