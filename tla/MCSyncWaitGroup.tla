---- MODULE MCSyncWaitGroup ----
(* SyncWaitGroup on a few threads and calls. *)
EXTENDS SyncWaitGroup

\* The one condition variable: cv_.
MCCondVars == {"wg"}
====
