---- MODULE MCThreadPool ----
(* ThreadPool on a few threads and tasks. *)
EXTENDS ThreadPool, TLC

\* The objects with a condition variable: queue_ and wg_.
MCCondVars == {"queue", "wg"}

====
