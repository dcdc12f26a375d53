------------------------------ MODULE TaskPool ------------------------------
(***************************************************************************)
(* What exe::sched::ThreadPool promises: a submitted task is run once, in  *)
(* the order of submission as far as starting goes, and once the pool has  *)
(* been stopped there is nothing left to run.                              *)
(***************************************************************************)
EXTENDS Sequences

CONSTANT Tasks

VARIABLES line,     \* submitted and not started, oldest first
          running,  \* started and not finished
          finished,
          stopped   \* Stop has closed the pool

vars == <<line, running, finished, stopped>>

Init == line = <<>> /\ running = {} /\ finished = {} /\ stopped = FALSE

Known == {line[i] : i \in DOMAIN line} \union running \union finished

Submit(k) ==
  /\ ~stopped /\ k \notin Known
  /\ line' = Append(line, k)
  /\ UNCHANGED <<running, finished, stopped>>

Start ==
  /\ line # <<>>
  /\ running' = running \union {Head(line)} /\ line' = Tail(line)
  /\ UNCHANGED <<finished, stopped>>

Finish(k) ==
  /\ k \in running
  /\ running' = running \ {k} /\ finished' = finished \union {k}
  /\ UNCHANGED <<line, stopped>>

Stop ==
  /\ ~stopped /\ line = <<>> /\ running = {}
  /\ stopped' = TRUE
  /\ UNCHANGED <<line, running, finished>>

Next == (\E k \in Tasks : Submit(k) \/ Finish(k)) \/ Start \/ Stop

Spec == Init /\ [][Next]_vars
=============================================================================
