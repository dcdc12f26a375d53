---- MODULE MCFiberMutex ----
(* FiberMutex, with the order of its waiters, on a few fibers and workers. *)
EXTENDS FiberMutexOrder

====
