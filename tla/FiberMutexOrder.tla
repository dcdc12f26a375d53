-------------------------- MODULE FiberMutexOrder --------------------------
(***************************************************************************)
(* The order in which fibers::Mutex serves its waiters: FiberMutex with an *)
(* observer that remembers who came when and who overtook whom.  The       *)
(* observer constrains nothing.  LockFreeQueue2 is a queue of two stacks:  *)
(* first in, first out as long as nobody pushes while Unlock turns         *)
(* second_ over, which is always so on one worker.                         *)
(***************************************************************************)
EXTENDS FiberMutex

VARIABLES later,    \* later[g]: the fibers in the queue that were pushed after g
          passed,   \* passed[g]: those that came after g, while g was in the
                    \* queue, and were served before it
          slipped   \* slipped[h]: those that Unlock had already turned over
                    \* into first_, in its loop, when h was pushed

history == <<later, passed, slipped>>

Waiting == Range(first) \union Range(second)

Came == Waiting' \ Waiting

Served == Waiting \ Waiting'

Draining == \E f \in Fibers : pc[f] = "drain"

OrderInit ==
  /\ Init
  /\ later = [g \in Fibers |-> {}]
  /\ passed = [g \in Fibers |-> {}] /\ slipped = [h \in Fibers |-> {}]

\* A fiber that stays in the queue sees who comes and who is served.
Observe ==
  LET staying == Waiting \intersect Waiting' IN
  /\ later' = [g \in Fibers |->
       IF g \in staying THEN (later[g] \ Served) \union Came ELSE {}]
  /\ passed' = [g \in Fibers |->
       IF g \in staying THEN passed[g] \union (Served \intersect later[g]) ELSE {}]
  /\ slipped' = [h \in Fibers |->
       IF h \in Came /\ Draining THEN Range(first)
       ELSE IF h \in staying THEN slipped[h] \ Served ELSE {}]

OrderNext == Next /\ Observe

OrderSpec == OrderInit /\ [][OrderNext]_<<vars, history>>

OrderFairSpec == OrderSpec /\ Fairness
-----------------------------------------------------------------------------
\* Fibers get the mutex in the order they were pushed (tests/unit.cpp, MutexWork,
\* counts on fibers taking turns), but for one that slips in while Unlock turns
\* second_ over: it overtakes those that have been turned over by then, no
\* others, and none of them twice.  On one worker nobody slips in.
OvertakenOnce ==
  [][\A h \in Served : \A g \in Waiting' :
       h \in later[g] => g \in slipped[h] /\ h \notin passed[g]]_<<vars, history>>
=============================================================================
