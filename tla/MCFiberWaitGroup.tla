---- MODULE MCFiberWaitGroup ----
(* FiberWaitGroup on a few fibers and workers. *)
EXTENDS FiberWaitGroup, TLC

Symmetry == Permutations(Fibers) \union Permutations(Workers)
====
