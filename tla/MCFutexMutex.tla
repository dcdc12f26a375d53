---- MODULE MCFutexMutex ----
(* FutexMutex on a small set of threads. *)
EXTENDS FutexMutex, TLC

Symmetry == Permutations(Threads)
====
