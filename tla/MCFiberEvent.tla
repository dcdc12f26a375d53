---- MODULE MCFiberEvent ----
(* FiberEvent on a few fibers and workers. *)
EXTENDS FiberEvent, TLC

Symmetry == Permutations(Fibers) \union Permutations(Workers)
====
