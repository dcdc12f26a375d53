---- MODULE MCStrand ----
(* Strand on a few fibers and workers. *)
EXTENDS Strand

Symmetry == Permutations(Fibers) \union Permutations(Workers)
====
