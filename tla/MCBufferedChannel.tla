---- MODULE MCBufferedChannel ----
(* BufferedChannel on a few fibers and workers. *)
EXTENDS BufferedChannel, TLC

Symmetry == Permutations(Fibers) \union Permutations(Workers)
====
