---- MODULE MCFibers ----
(* Fibers on a few fibers and workers. *)
EXTENDS Fibers, TLC

MCAwaiters == {"yield", "primitive"}

Symmetry == Permutations(Fibers) \union Permutations(Workers)
====
